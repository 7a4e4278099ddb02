--------------------------- MODULE MCProgramLife ----------------------------
(* ProgramLife for TLC; the program has no parameters.                     *)
EXTENDS ProgramLife

=============================================================================
