--------------------------------- MODULE Week ---------------------------------
(***************************************************************************)
(* The weekly scheduler the hub and the nodes share (Scheduler.cpp), and   *)
(* the text form of a schedule (ScheduleText.h).                           *)
(*                                                                         *)
(* Instants are integers, UTC.  A table is a sequence of slots             *)
(* [minute, days, enabled]: a slot fires at its local minute on its        *)
(* weekdays.  What it then does to the blind decides nothing here and is   *)
(* left out, except that a text may name an action that does not exist.    *)
(***************************************************************************)
EXTENDS Integers, Sequences, FiniteSets, FiniteSetsExt, SequencesExt

CONSTANTS
  DayLen, Weekdays,  \* instants in a day, days in a week
  Tz,                \* timezone_offset
  SearchDays,        \* kSearchDays
  MaxEntries         \* kMaxEntries

ASSUME WeekAssumption ==
  /\ DayLen \in Nat \ {0} /\ Weekdays \in Nat \ {0} /\ Tz \in 0..(DayLen - 1)
  /\ SearchDays \in Nat /\ MaxEntries \in Nat

AllDays == 0..(Weekdays - 1)
LocalMinute(t) == (t + Tz) % DayLen
LocalMidnight(t) == t - LocalMinute(t)
Weekday(t) == ((t + Tz) \div DayLen) % Weekdays
Valid(e) == e.enabled /\ e.days # {} /\ e.minute < DayLen

-----------------------------------------------------------------------------
(* Occurrences, as [at, which]; none is [at |-> 0, which |-> 0]. *)

None == [at |-> 0, which |-> 0]
FiresOn(table, midnight) ==
  {[at |-> midnight + table[i].minute, which |-> i] :
     i \in {j \in DOMAIN table : Valid(table[j]) /\ Weekday(midnight) \in table[j].days}}

\* Mutant of NextOccurrence: an entry whose time today has passed is taken for today's.
NextOccurrenceToday(table, now) ==
  LET day == FiresOn(table, LocalMidnight(now))
      tie == {f \in day : \A g \in day : f.at <= g.at}
  IN IF day = {} THEN None ELSE CHOOSE f \in tie : \A g \in tie : f.which <= g.which

\* Day by day, strictly after now: the first of a tie is kept.
NextOccurrence(table, now) ==
  LET after(day) == {f \in FiresOn(table, LocalMidnight(now) + day * DayLen) : f.at > now}
      days == {d \in 0..(SearchDays - 1) : after(d) # {}}
      best == after(Min(days))
      tie == {f \in best : \A g \in best : f.at <= g.at}
  IN IF days = {} THEN None ELSE CHOOSE f \in tie : \A g \in tie : f.which <= g.which

\* Day by day over (from, to]: the last of a tie is kept.
LastMissed(table, from, to) ==
  LET first == LocalMidnight(from)
      fires == UNION {FiresOn(table, first + d * DayLen) : d \in 0..((to - first) \div DayLen + 1)}
      missed == {f \in fires : from < f.at /\ f.at <= to}
      tie == {f \in missed : \A g \in missed : f.at >= g.at}
  IN IF to <= from \/ missed = {} THEN None ELSE CHOOSE f \in tie : \A g \in tie : f.which >= g.which

-----------------------------------------------------------------------------
(* The text: a sequence of [time, days, action] tokens.  Nothing of a text with a token that *)
(* does not parse, or of one with too many entries, is applied.                            *)

Actions == {"open", "close", "stop", "position"}
GoodToken(k) == k.time < DayLen /\ k.days # {} /\ k.action \in Actions

Parse(text) ==
  IF Len(text) <= MaxEntries /\ \A i \in DOMAIN text : GoodToken(text[i])
  THEN [ok |-> TRUE, entries |-> [i \in DOMAIN text |->
          [minute |-> text[i].time, days |-> text[i].days, enabled |-> TRUE]]]
  ELSE [ok |-> FALSE, entries |-> <<>>]
=============================================================================
