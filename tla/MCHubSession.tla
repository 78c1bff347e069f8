----------------------------- MODULE MCHubSession -----------------------------
(***************************************************************************)
(* Model values and bounds for checking HubSession with TLC.               *)
(***************************************************************************)
EXTENDS HubSession, TLC

CONSTANTS ping, test

None == {}
Ping == {ping}
Test == {test}
One  == {1}
Two  == {2}
=============================================================================
