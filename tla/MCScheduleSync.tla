--------------------------- MODULE MCScheduleSync ---------------------------
(* ScheduleSync with the compiled schedule of a node seeded to auto mode.  *)
EXTENDS ScheduleSync

SeedSchedule == [auto |-> TRUE, table |-> "t1"]
=============================================================================
