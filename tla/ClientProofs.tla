---------------------------- MODULE ClientProofs ----------------------------
(***************************************************************************)
(* Theorems about TernaClient, for any number of threads, any lifetimes,   *)
(* margin and timeout that MarginAssumption allows.                        *)
(***************************************************************************)
EXTENDS TernaClient, TLAPS

\* The refresh instant leaves a request the time to arrive, and what is under way
\* has not been under way longer than the timeout.
OnTime ==
  /\ token.refresh > now => token.until >= token.refresh + Timeout
  /\ \A t \in Threads : pc[t] \in {"asking", "sent"} =>
       since[t] <= now /\ now <= since[t] + Timeout
  /\ \A t \in Threads : pc[t] = "sent" => held[t].until > since[t] + Timeout

\* The asking thread holds the lock, and nobody replaced the token meanwhile.
LockHeld == \A t \in Threads : pc[t] = "asking" => lock = t /\ TokenDue

LEMMA TokenFields ==
  ASSUME TypeOK
  PROVE  /\ token.until \in Int /\ token.refresh \in Int
         /\ \A t \in Threads : held[t].until \in Int
<1>1. token \in Token /\ \A t \in Threads : held[t] \in Token
  BY DEF TypeOK
<1>. QED
  BY <1>1 DEF Token

\* A token that arrives leaves its first request, and every later one that is sent
\* before its refresh instant, enough time.
LEMMA GrantTimes ==
  ASSUME TypeOK, NEW s \in Int, now <= s + Timeout, NEW issued \in s..now, NEW ttl \in Lifetimes
  PROVE  /\ Grant(issued, ttl) \in Token
         /\ Grant(issued, ttl).until >= Grant(issued, ttl).refresh + Timeout
         /\ Grant(issued, ttl).until > now + Timeout
<1>1. now \in Int /\ Timeout \in Int /\ Margin \in Int /\ ttl \in Int /\ issued \in Int
  BY TimesAssumption DEF TypeOK
<1>2. /\ Grant(issued, ttl).until = issued + ttl
      /\ Grant(issued, ttl).refresh = now + ttl - Margin
  BY DEF Grant
<1>3. 2 * Timeout <= Margin /\ 2 * Timeout < ttl /\ now - Timeout <= issued
  BY <1>1, MarginAssumption
<1>4. Grant(issued, ttl) \in Token
  BY <1>1 DEF Grant, Token
<1>. QED
  BY <1>1, <1>2, <1>3, <1>4

THEOREM ClientTyped == Spec => []TypeOK
<1> USE TimesAssumption, RetriesAssumption
<1>1. Init => TypeOK
  BY DEF Init, TypeOK, Token, NoToken
<1>2. TypeOK /\ [Next]_vars => TypeOK'
  <2> SUFFICES ASSUME TypeOK, [Next]_vars PROVE TypeOK'
    OBVIOUS
  <2>0. NoToken \in Token
    BY DEF NoToken, Token
  <2>1. CASE Tick
    BY <2>1 DEF Tick, TypeOK
  <2>2. ASSUME NEW t \in Threads, Get(t) PROVE TypeOK'
    BY <2>2 DEF Get, TypeOK
  <2>3. ASSUME NEW t \in Threads, AskForToken(t) PROVE TypeOK'
    BY <2>3 DEF AskForToken, TypeOK
  <2>4. ASSUME NEW t \in Threads, UseToken(t) PROVE TypeOK'
    BY <2>4 DEF UseToken, Send, TypeOK
  <2>5. ASSUME NEW t \in Threads, TokenArrives(t) PROVE TypeOK'
    <3>1. PICK ttl \in Lifetimes, issued \in since[t]..now :
            token' = Grant(issued, ttl) /\ Send(t, Grant(issued, ttl))
      BY <2>5 DEF TokenArrives
    <3>2. Grant(issued, ttl) \in Token
      BY <3>1 DEF Grant, Token, TypeOK
    <3>. QED
      BY <2>5, <3>1, <3>2 DEF TokenArrives, Send, TypeOK
  <2>6. ASSUME NEW t \in Threads, Retry(t), lock' \in Threads \cup {Nobody} PROVE TypeOK'
    BY <2>0, <2>6 DEF Retry, LastAttempt, Finish, TypeOK
  <2>7. ASSUME NEW t \in Threads, NEW how \in {"done", "failed"}, Finish(t, how),
               lock' \in Threads \cup {Nobody}
        PROVE  TypeOK'
    BY <2>0, <2>7 DEF Finish, TypeOK
  <2>8. ASSUME NEW t \in Threads, TokenFails(t) \/ Answered(t) \/ GetFails(t) PROVE TypeOK'
    <3>1. lock' \in Threads \cup {Nobody}
      BY <2>8 DEF TokenFails, Answered, GetFails, TypeOK
    <3>. QED
      BY <2>6, <2>7, <2>8, <3>1 DEF TokenFails, Answered, GetFails
  <2>9. ASSUME NEW t \in Threads, Return(t) PROVE TypeOK'
    BY <2>9 DEF Return, TypeOK
  <2>10. CASE UNCHANGED vars
    BY <2>10 DEF vars, TypeOK
  <2>. QED
    BY <2>1, <2>2, <2>3, <2>4, <2>5, <2>8, <2>9, <2>10 DEF Next, Proceed
<1>. QED
  BY <1>1, <1>2, PTL DEF Spec

\* No request reaches the portal with an expired token.
THEOREM TokensOutliveRequests == Spec => []TokenOutlivesRequest
<1> USE TimesAssumption
<1>1. Init => OnTime
  BY DEF Init, OnTime, NoToken
<1>2. TypeOK /\ TypeOK' /\ OnTime /\ [Next]_vars => OnTime'
  <2> SUFFICES ASSUME TypeOK, TypeOK', OnTime, [Next]_vars PROVE OnTime'
    OBVIOUS
  <2>1. CASE Tick
    BY <2>1, TokenFields DEF Tick, OnTime, TypeOK
  <2>2. ASSUME NEW t \in Threads, UNCHANGED <<now, token>>,
               pc'[t] \notin {"asking", "sent"},
               \A u \in Threads \ {t} :
                 pc'[u] = pc[u] /\ since'[u] = since[u] /\ held'[u] = held[u]
        PROVE  OnTime'
    BY <2>2 DEF OnTime
  <2>3. ASSUME NEW t \in Threads, Get(t) \/ Return(t) PROVE OnTime'
    BY <2>2, <2>3 DEF Get, Return, TypeOK
  <2>4. ASSUME NEW t \in Threads, AskForToken(t) PROVE OnTime'
    BY <2>4 DEF AskForToken, OnTime, TypeOK
  <2>5. ASSUME NEW t \in Threads, NEW tok \in Token, Send(t, tok),
               tok.until > now + Timeout,
               token'.refresh > now => token'.until >= token'.refresh + Timeout
        PROVE  OnTime'
    <3>1. pc'[t] = "sent" /\ since'[t] = now /\ held'[t] = tok /\ now' = now
      BY <2>5 DEF Send, TypeOK
    <3>2. \A u \in Threads \ {t} :
            pc'[u] = pc[u] /\ since'[u] = since[u] /\ held'[u] = held[u]
      BY <2>5 DEF Send, TypeOK
    <3>3. now \in Nat /\ Timeout \in Nat
      BY DEF TypeOK
    <3>. QED
      BY <2>5, <3>1, <3>2, <3>3 DEF OnTime
  <2>6. ASSUME NEW t \in Threads, UseToken(t) PROVE OnTime'
    <3>1. token.until > now + Timeout /\ token' = token /\ Send(t, token) /\ token \in Token
      BY <2>6, TokenFields DEF UseToken, TokenDue, OnTime, TypeOK
    <3>. QED
      BY <2>5, <3>1 DEF OnTime
  <2>7. ASSUME NEW t \in Threads, TokenArrives(t) PROVE OnTime'
    <3>1. PICK ttl \in Lifetimes, issued \in since[t]..now :
            token' = Grant(issued, ttl) /\ Send(t, Grant(issued, ttl))
      BY <2>7 DEF TokenArrives
    <3>2. since[t] \in Int /\ now <= since[t] + Timeout
      BY <2>7 DEF TokenArrives, OnTime, TypeOK
    <3>3. /\ Grant(issued, ttl) \in Token
          /\ Grant(issued, ttl).until >= Grant(issued, ttl).refresh + Timeout
          /\ Grant(issued, ttl).until > now + Timeout
      BY <3>1, <3>2, GrantTimes
    <3>. QED
      BY <2>5, <3>1, <3>3
  <2>8. ASSUME NEW t \in Threads, TokenFails(t) \/ Answered(t) \/ GetFails(t) PROVE OnTime'
    <3>1. Retry(t) \/ Finish(t, "done") \/ Finish(t, "failed")
      BY <2>8 DEF TokenFails, Answered, GetFails
    <3>. QED
      BY <2>2, <3>1 DEF Retry, Finish, TypeOK
  <2>9. CASE UNCHANGED vars
    BY <2>9 DEF vars, OnTime
  <2>. QED
    BY <2>1, <2>3, <2>4, <2>6, <2>7, <2>8, <2>9 DEF Next, Proceed
<1>3. TypeOK /\ OnTime => TokenOutlivesRequest
  BY TokenFields DEF OnTime, TokenOutlivesRequest, TypeOK
<1>. QED
  BY <1>1, <1>2, <1>3, ClientTyped, PTL DEF Spec

\* Threads never ask for two tokens at once, nor for one that is not due.
THEOREM RefreshesAreSingle == Spec => []OneRefreshAtATime
<1>1. Init => LockHeld
  BY DEF Init, LockHeld
<1>2. TypeOK /\ LockHeld /\ [Next]_vars => LockHeld'
  <2> SUFFICES ASSUME TypeOK, LockHeld, [Next]_vars PROVE LockHeld'
    OBVIOUS
  <2>1. CASE Tick
    BY <2>1, TokenFields DEF Tick, LockHeld, TokenDue, TypeOK
  <2>2. ASSUME NEW t \in Threads, pc'[t] # "asking", UNCHANGED <<now, token>>,
               lock' = lock \/ lock = t,
               \A u \in Threads \ {t} : pc'[u] = pc[u]
        PROVE  LockHeld'
    BY <2>2 DEF LockHeld, TokenDue
  <2>3. ASSUME NEW t \in Threads, Get(t) \/ Return(t) \/ UseToken(t) PROVE LockHeld'
    BY <2>2, <2>3 DEF Get, Return, UseToken, Send, TypeOK
  <2>4. ASSUME NEW t \in Threads, AskForToken(t) PROVE LockHeld'
    BY <2>4, NobodyAssumption DEF AskForToken, LockHeld, TokenDue, TypeOK
  <2>5. ASSUME NEW t \in Threads, TokenArrives(t) PROVE LockHeld'
    <3>1. \A u \in Threads \ {t} : pc[u] # "asking"
      BY <2>5 DEF TokenArrives, LockHeld
    <3>2. \A u \in Threads : pc'[u] # "asking"
      BY <2>5, <3>1 DEF TokenArrives, Send, TypeOK
    <3>. QED
      BY <3>2 DEF LockHeld
  <2>6. ASSUME NEW t \in Threads, TokenFails(t) \/ Answered(t) \/ GetFails(t) PROVE LockHeld'
    <3>1. lock' = lock \/ lock = t
      BY <2>6 DEF TokenFails, Answered, GetFails, LockHeld
    <3>2. Retry(t) \/ Finish(t, "done") \/ Finish(t, "failed")
      BY <2>6 DEF TokenFails, Answered, GetFails
    <3>. QED
      BY <2>2, <3>1, <3>2 DEF Retry, Finish, TypeOK
  <2>7. CASE UNCHANGED vars
    BY <2>7 DEF vars, LockHeld, TokenDue
  <2>. QED
    BY <2>1, <2>3, <2>4, <2>5, <2>6, <2>7 DEF Next, Proceed
<1>3. LockHeld => OneRefreshAtATime
  BY DEF LockHeld, OneRefreshAtATime
<1>. QED
  BY <1>1, <1>2, <1>3, ClientTyped, PTL DEF Spec

=============================================================================
