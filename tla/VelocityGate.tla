----------------------------- MODULE VelocityGate ---------------------------
(***************************************************************************)
(* What a robot listening to /cmd_vel_origin is promised, with none of the *)
(* bookkeeping by which CmdVelPublisher keeps the promise: a gate that is  *)
(* locked or open, a speed cap, and the velocity it lets out.              *)
(***************************************************************************)
EXTENDS Integers

VARIABLES
  locked,    \* is the gate closed?
  cap,       \* the greatest linear speed it lets out
  out        \* the velocity it lets out

gateVars == <<locked, cap, out>>

Velocity == [lin : Nat, yaw : Int]
Still    == [lin |-> 0, yaw |-> 0]

GateInit == locked = TRUE /\ cap \in Nat /\ out = Still

\* Closing the gate halts the robot in the same step; a reset also sets the cap.
Close == locked' = TRUE /\ cap' \in Nat /\ out' = Still

\* Opening it moves nothing by itself.
Open == locked' = FALSE /\ UNCHANGED <<cap, out>>

\* Only an open gate can be driven, and never faster than the cap.
Drive ==
  /\ ~locked
  /\ out' \in Velocity
  /\ out'.lin <= cap
  /\ UNCHANGED <<locked, cap>>

Halt == out' = Still /\ UNCHANGED <<locked, cap>>

\* A new cap slows the robot down to it and never speeds it up.
Recap ==
  /\ cap' \in Nat
  /\ out' \in Velocity
  /\ out'.lin <= cap' /\ out'.lin <= out.lin
  /\ out'.yaw = out.yaw
  /\ UNCHANGED locked

GateNext == Close \/ Open \/ Drive \/ Halt \/ Recap

GateSpec == GateInit /\ [][GateNext]_gateVars

=============================================================================
