----------------------------- MODULE SportService ---------------------------
(***************************************************************************)
(* What the clients of the sport service are promised, with none of the    *)
(* callbacks, the sleep and the stub by which SdkEventBridge keeps it: the *)
(* requests are served one at a time, in the order they came, and each has *)
(* its effect on the robot once, before its client hears of it.            *)
(***************************************************************************)
EXTENDS Naturals, Sequences

CONSTANTS
  Requests,
  Effective,   \* those that have an effect on the robot
  Nobody       \* stands for no request

VARIABLES
  pending,     \* the requests not yet begun
  serving,     \* the request being served
  acted,       \* how often each request has acted on the robot
  answered     \* the requests whose clients have an answer

promiseVars == <<pending, serving, acted, answered>>

PromiseInit ==
  /\ pending = <<>> /\ serving = Nobody
  /\ acted = [r \in Requests |-> 0] /\ answered = {}

Arrive ==
  /\ \E r \in Requests : pending' = Append(pending, r)
  /\ UNCHANGED <<serving, acted, answered>>

\* A service that stops forgets who waits.
Forget == pending' = <<>> /\ UNCHANGED <<serving, acted, answered>>

\* The first to wait is the next, and what was served is not served again.
Begin ==
  /\ serving = Nobody /\ pending # <<>>
  /\ serving' = Head(pending) /\ pending' = Tail(pending)
  /\ acted[serving'] = 0 /\ serving' \notin answered
  /\ UNCHANGED <<acted, answered>>

Act ==
  /\ serving \in Effective /\ acted[serving] = 0
  /\ acted' = [acted EXCEPT ![serving] = 1]
  /\ UNCHANGED <<pending, serving, answered>>

Served ==
  serving # Nobody /\ acted[serving] = IF serving \in Effective THEN 1 ELSE 0

Answer ==
  /\ Served /\ serving \notin answered
  /\ answered' = answered \cup {serving}
  /\ UNCHANGED <<pending, serving, acted>>

\* A request may end without an answer, never without its effect.
Finish == Served /\ serving' = Nobody /\ UNCHANGED <<pending, acted, answered>>

PromiseNext == Arrive \/ Forget \/ Begin \/ Act \/ Answer \/ Finish

PromiseSpec == PromiseInit /\ [][PromiseNext]_promiseVars

=============================================================================
