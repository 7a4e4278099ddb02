---------------------------- MODULE MCParameters ----------------------------
(* A small instance of Parameters for TLC.                                 *)
EXTENDS Parameters

\* One number of every size.
MCNumbers == Doubles \ {"zero"}
\* A mode and the empty name, which is refused.
MCNames   == {"", "normal"}

=============================================================================
