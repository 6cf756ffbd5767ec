---------------------------- MODULE TernaClient ----------------------------
(***************************************************************************)
(* Requests to the Terna portal (sfe/ingest/terna_client.py): threads that *)
(* share a TernaClient send GETs with a bearer token that TernaAuth caches *)
(* under a lock, and try again on the failures that _is_retryable names.   *)
(*                                                                         *)
(* Time passes in ticks.  A token is known by two instants: the portal     *)
(* accepts it before `until`, the client reuses it before `refresh`, its   *)
(* own idea of the expiry less the refresh margin (expires_at).            *)
(***************************************************************************)
EXTENDS Integers, FiniteSets

CONSTANTS
  Threads,     \* threads that share the client
  Lifetimes,   \* expires_in of the tokens the portal grants
  Margin,      \* token_refresh_margin_s
  Timeout,     \* longest way of a token to the client, or of a request to the portal
  MaxRetries,  \* max_retries: attempts made for one request
  MaxTime,     \* bound: the clock stops there
  MaxCalls     \* bound: requests that are started

ASSUME RetriesAssumption == MaxRetries \in Nat \ {0} /\ MaxCalls \in Nat
ASSUME TimesAssumption ==
  Margin \in Nat /\ Timeout \in Nat \ {0} /\ MaxTime \in Nat /\ Lifetimes \subseteq Nat

\* The configured margin, 60 s, covers the timeout of 30 s both ways, and a token
\* lives longer than that.
ASSUME MarginAssumption ==
  2 * Timeout <= Margin /\ \A ttl \in Lifetimes : 2 * Timeout < ttl

VARIABLES
  now,      \* the clock
  token,    \* TernaAuth._token, or NoToken
  lock,     \* the thread that holds TernaAuth._lock, or Nobody
  pc,       \* pc[t]: where thread t is in _get_raw
  attempt,  \* attempt[t]: the attempt it makes
  since,    \* since[t]: when it sent what it waits for
  held,     \* held[t]: the token its request carries, or NoToken
  calls     \* requests started so far

vars == <<now, token, lock, pc, attempt, since, held, calls>>

Token == [until : Int, refresh : Int]
NoToken == [until |-> 0, refresh |-> 0]
Nobody == "nobody"
ASSUME NobodyAssumption == Nobody \notin Threads

Init ==
  /\ now = 0
  /\ token = NoToken
  /\ lock = Nobody
  /\ pc = [t \in Threads |-> "idle"]
  /\ attempt = [t \in Threads |-> 1]
  /\ since = [t \in Threads |-> 0]
  /\ held = [t \in Threads |-> NoToken]
  /\ calls = 0

\* An attempt waits for an answer no longer than its timeout.
Tick ==
  /\ now < MaxTime
  /\ \A t \in Threads : pc[t] \in {"asking", "sent"} => now < since[t] + Timeout
  /\ now' = now + 1
  /\ UNCHANGED <<token, lock, pc, attempt, since, held, calls>>

---------------------------------------------------------------------------
(* bearer *)

\* The token is missing or has reached its expires_at.
TokenDue == now >= token.refresh

\* A new request.
Get(t) ==
  /\ pc[t] = "idle"
  /\ calls < MaxCalls
  /\ calls' = calls + 1
  /\ pc' = [pc EXCEPT ![t] = "bearer"]
  /\ attempt' = [attempt EXCEPT ![t] = 1]
  /\ UNCHANGED <<now, token, lock, since, held>>

\* Faulty variant of AskForToken: the lock is not waited for.
AskForTokenUnlocked(t) ==
  /\ pc[t] = "bearer"
  /\ TokenDue
  /\ lock' = t
  /\ pc' = [pc EXCEPT ![t] = "asking"]
  /\ since' = [since EXCEPT ![t] = now]
  /\ UNCHANGED <<now, token, attempt, held, calls>>

\* Under the lock, the token turns out to be due: the portal is asked for another.
AskForToken(t) ==
  /\ pc[t] = "bearer"
  /\ lock = Nobody
  /\ TokenDue
  /\ lock' = t
  /\ pc' = [pc EXCEPT ![t] = "asking"]
  /\ since' = [since EXCEPT ![t] = now]
  /\ UNCHANGED <<now, token, attempt, held, calls>>

\* The GET goes out with the token.
Send(t, tok) ==
  /\ held' = [held EXCEPT ![t] = tok]
  /\ pc' = [pc EXCEPT ![t] = "sent"]
  /\ since' = [since EXCEPT ![t] = now]
  /\ UNCHANGED <<now, attempt, calls>>

\* Under the lock, the token turns out to be good.
UseToken(t) ==
  /\ pc[t] = "bearer"
  /\ lock = Nobody
  /\ ~TokenDue
  /\ Send(t, token)
  /\ UNCHANGED <<token, lock>>

\* Faulty variant of Grant: the refresh margin is forgotten.
GrantWithoutMargin(issued, ttl) == [until |-> issued + ttl, refresh |-> now + ttl]

\* The portal counts the lifetime from the grant, the client from its arrival.
Grant(issued, ttl) == [until |-> issued + ttl, refresh |-> now + ttl - Margin]

\* The new token arrives; it is stored and used, and the lock given back.
TokenArrives(t) ==
  /\ pc[t] = "asking"
  /\ \E ttl \in Lifetimes, issued \in since[t]..now :
       /\ token' = Grant(issued, ttl)
       /\ Send(t, Grant(issued, ttl))
  /\ lock' = Nobody

---------------------------------------------------------------------------
(* The answer, and what tenacity makes of it *)

Finish(t, how) ==
  /\ pc' = [pc EXCEPT ![t] = how]
  /\ held' = [held EXCEPT ![t] = NoToken]
  /\ UNCHANGED <<now, token, attempt, since, calls>>

\* stop_after_attempt(max_retries)
LastAttempt(t) == attempt[t] >= MaxRetries

\* Faulty variant of Retry: no attempt is the last.
RetryForever(t) ==
  /\ pc' = [pc EXCEPT ![t] = "bearer"]
  /\ held' = [held EXCEPT ![t] = NoToken]
  /\ UNCHANGED <<now, token, attempt, since, calls>>

\* A transport error, a timeout or a retryable status: after a pause, whose length
\* is left open, the next attempt, unless this was the last one.
Retry(t) ==
  IF LastAttempt(t)
  THEN Finish(t, "failed")
  ELSE /\ pc' = [pc EXCEPT ![t] = "bearer"]
       /\ attempt' = [attempt EXCEPT ![t] = @ + 1]
       /\ held' = [held EXCEPT ![t] = NoToken]
       /\ UNCHANGED <<now, token, since, calls>>

\* The token request fails inside the lock, in a way that is worth a retry or not.
TokenFails(t) ==
  /\ pc[t] = "asking"
  /\ lock' = Nobody
  /\ Retry(t) \/ Finish(t, "failed")

\* The GET is answered.
Answered(t) ==
  /\ pc[t] = "sent"
  /\ Finish(t, "done")
  /\ UNCHANGED lock

\* The GET fails; the statuses that are not retryable (400, 401, 404) end it at once.
GetFails(t) ==
  /\ pc[t] = "sent"
  /\ Retry(t) \/ Finish(t, "failed")
  /\ UNCHANGED lock

\* _get_raw returns or raises to its caller.
Return(t) ==
  /\ pc[t] \in {"done", "failed"}
  /\ pc' = [pc EXCEPT ![t] = "idle"]
  /\ UNCHANGED <<now, token, lock, attempt, since, held, calls>>

Proceed(t) ==
  \/ AskForToken(t) \/ UseToken(t) \/ TokenArrives(t) \/ TokenFails(t)
  \/ Answered(t) \/ GetFails(t) \/ Return(t)

Next == Tick \/ \E t \in Threads : Get(t) \/ Proceed(t)

Spec == Init /\ [][Next]_vars

\* Threads that can run do run, and a request is answered or times out.
FairSpec == Spec /\ \A t \in Threads : WF_vars(Proceed(t))

---------------------------------------------------------------------------
(* Properties *)

TypeOK ==
  /\ now \in 0..MaxTime
  /\ token \in Token
  /\ lock \in Threads \cup {Nobody}
  /\ pc \in [Threads -> {"idle", "bearer", "asking", "sent", "done", "failed"}]
  /\ attempt \in [Threads -> 1..MaxRetries]
  /\ since \in [Threads -> 0..MaxTime]
  /\ held \in [Threads -> Token]
  /\ calls \in 0..MaxCalls

\* A request never reaches the portal with a token that has expired on the way,
\* which would be a 401 that nothing retries (terna_client.py:38-43, 71-75, 82-85).
TokenOutlivesRequest == \A t \in Threads : pc[t] = "sent" => now < held[t].until

\* Threads do not stampede for tokens (terna_client.py:82-85): one at a time asks,
\* and while it asks no other thread has put a good token in place.
OneRefreshAtATime ==
  /\ \A t, u \in Threads : pc[t] = "asking" /\ pc[u] = "asking" => t = u
  /\ (\E t \in Threads : pc[t] = "asking") => TokenDue

\* Every request comes back, answered or failed: the retries are bounded and the
\* lock is given back when the token request raises (terna_client.py:82-85, 123-143).
EveryRequestEnds == \A t \in Threads : pc[t] # "idle" ~> pc[t] = "idle"

=============================================================================
