----------------------------- MODULE MCWakePlan -----------------------------
(* WakePlan.tla with a week of two days. *)
EXTENDS WakePlan

Slot(m, d) == [minute |-> m, days |-> d, enabled |-> TRUE]
Token(m, d, a) == [time |-> m, days |-> d, action |-> a]

MCSeedTables == {<<Slot(2, {0}), Slot(5, {0, 1})>>}
MCTexts == {<<Token(4, {1}, "close")>>, <<Token(4, {1}, "open"), Token(1, {}, "open")>>}
MCDaySets == {{1}}
=============================================================================
