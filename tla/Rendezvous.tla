----------------------------- MODULE Rendezvous -----------------------------
(***************************************************************************)
(* What synchronous IPC promises its clients, without queues, schedulers   *)
(* or task tables.  A call waits until a receiver accepts it; an accepted  *)
(* call holds the endpoint's only reply slot until the server that         *)
(* accepted it replies, or one of the two dies.                            *)
(***************************************************************************)
EXTENDS Integers

CONSTANTS Task, Endpoint, Nobody

VARIABLES
  waiting,   \* waiting[e]: callers whose call on e nobody has accepted yet
  served,    \* served[e]: the caller whose call on e was accepted, or Nobody
  by         \* by[e]: the server that accepted it, or Nobody

callVars == <<waiting, served, by>>

InCall(t) == \E e \in Endpoint : t \in waiting[e] \/ t = served[e]

Init ==
  /\ waiting = [e \in Endpoint |-> {}]
  /\ served = [e \in Endpoint |-> Nobody]
  /\ by = [e \in Endpoint |-> Nobody]

Submit(t, e) ==
  /\ ~InCall(t)
  /\ waiting' = [waiting EXCEPT ![e] = @ \cup {t}]
  /\ UNCHANGED <<served, by>>

\* A free reply slot takes a call that waits, or one that comes in just now
\* while nobody else waits.
Accept(t, s, e) ==
  /\ t # s
  /\ served[e] = Nobody /\ by[e] = Nobody
  /\ t \in waiting[e] \/ (~InCall(t) /\ waiting[e] = {})
  /\ waiting' = [waiting EXCEPT ![e] = @ \ {t}]
  /\ served' = [served EXCEPT ![e] = t]
  /\ by' = [by EXCEPT ![e] = s]

\* Only the server that accepted the call ends it, and it must not itself be
\* parked in a call.
Answer(s, e) ==
  /\ by[e] = s /\ ~InCall(s)
  /\ served' = [served EXCEPT ![e] = Nobody]
  /\ by' = [by EXCEPT ![e] = Nobody]
  /\ UNCHANGED waiting

\* The end of a task withdraws its own call and releases every caller it owes
\* a reply, all at once.
Die(t) ==
  /\ waiting' = [e \in Endpoint |-> waiting[e] \ {t}]
  /\ served' = [e \in Endpoint |-> IF t \in {served[e], by[e]} THEN Nobody ELSE served[e]]
  /\ by' = [e \in Endpoint |-> IF t \in {served[e], by[e]} THEN Nobody ELSE by[e]]

Next ==
  \/ \E t \in Task, e \in Endpoint : Submit(t, e) \/ Answer(t, e)
  \/ \E t, s \in Task, e \in Endpoint : Accept(t, s, e)
  \/ \E t \in Task : Die(t)

Spec == Init /\ [][Next]_callVars
=============================================================================
