------------------------------ MODULE MCTracker ------------------------------
(* Policies of the instance: a command for node 1 in two copies, and a placed beacon. *)
EXTENDS Tracker

Command == [key |-> 1, earliest |-> 0, priority |-> 1, copies |-> 2,
            by |-> {"loop", "timer"}]
Beacon == [key |-> NoKey, earliest |-> 2, priority |-> 2, copies |-> 1,
           by |-> {"loop"}]

MCPolicies == {Command, Beacon}
=============================================================================
