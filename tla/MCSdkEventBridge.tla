-------------------------- MODULE MCSdkEventBridge --------------------------
(* A small instance of SdkEventBridge for TLC.                             *)
EXTENDS SdkEventBridge

\* A posture request and a MOVE, and between, before or after them one of any
\* API: another posture, a sport API of either dialect, an internal one.
MCRequests ==
  {[id |-> 1, api |-> "STANDUP"], [id |-> 2, api |-> "MOVE"]}
    \cup {[id |-> 3, api |-> a] : a \in ApiIds}

=============================================================================
