-------------------------- MODULE ScheduleSyncProofs --------------------------
(***************************************************************************)
(* TLAPS proofs about ScheduleSync, for every set of tables, seed, ladder, *)
(* record of ids and number of edits, faults and uplinks.  The hub and the *)
(* node run the same schedule when the hub says so, because whatever tells *)
(* the hub that the node is current was sent after everything older had    *)
(* left the air, and an id on the air names one push.                      *)
(*                                                                         *)
(* And about what a schedule is for (modules Week and WakePlan), for every *)
(* table, length of a day, zone and span of time: the searches of a week   *)
(* are exact, and the hub's belief of the node's sleep is true.            *)
(***************************************************************************)
EXTENDS ScheduleSync, WakePlan, FiniteSetTheorems, WellFoundedInduction, TLAPS

-----------------------------------------------------------------------------
(* The operators *)

\* There is an id that neither the record nor an ack under way uses.
LEMMA FreshId ==
  ASSUME TypeOK
  PROVE  /\ IdsOut \subseteq Nat
         /\ \E n \in 1 .. Cardinality(IdsOut) + 1 : n \notin IdsOut
  <1> DEFINE recorded == {acks[i][1] : i \in DOMAIN acks}
             answering == {j \in DOMAIN up : up[j].kind = "ack"}
             answered == {up[i].id : i \in answering}
             room == 1 .. Cardinality(IdsOut) + 1
  <1>1. /\ DOMAIN acks = 1 .. Len(acks) /\ Len(acks) \in Nat
        /\ DOMAIN up = 1 .. Len(up) /\ Len(up) \in Nat
    BY DEF TypeOK
  <1>2. IsFiniteSet(recorded)
    <2>1. IsFiniteSet(DOMAIN acks)
      BY <1>1, FS_Interval
    <2>2. [i \in DOMAIN acks |-> acks[i][1]] \in Surjection(DOMAIN acks, recorded)
      BY DEF Surjection
    <2> QED
      BY <2>1, <2>2, FS_Surjection
  <1>3. IsFiniteSet(answered)
    <2>1. IsFiniteSet(answering)
      <3>1. IsFiniteSet(DOMAIN up)
        BY <1>1, FS_Interval
      <3> QED
        BY <3>1, FS_Subset
    <2>2. [i \in answering |-> up[i].id] \in Surjection(answering, answered)
      BY DEF Surjection
    <2> QED
      BY <2>1, <2>2, FS_Surjection
  <1>4. IdsOut = recorded \cup answered
    BY DEF IdsOut
  <1>5. IsFiniteSet(IdsOut) /\ Cardinality(IdsOut) \in Nat
    BY <1>2, <1>3, <1>4, FS_Union, FS_CardinalityType
  <1>6. IsFiniteSet(room) /\ Cardinality(room) = Cardinality(IdsOut) + 1
    BY <1>5, FS_Interval
  <1>7. ~(room \subseteq IdsOut)
    BY <1>5, <1>6, FS_Subset
  <1>8. recorded \subseteq Nat
    BY DEF TypeOK
  <1>9. answered \subseteq Nat
    BY DEF TypeOK, Uplinks
  <1> QED
    BY <1>4, <1>7, <1>8, <1>9

\* A record holds the new push and nothing that it did not hold before.
LEMMA RecordHolds ==
  ASSUME TypeOK, NEW id \in Nat, NEW v \in Schedules
  PROVE  /\ Record(id, v) \in Seq(Nat \X Schedules) /\ Len(Record(id, v)) <= AckCap
         /\ \A i \in DOMAIN Record(id, v) :
              \/ Record(id, v)[i] = <<id, v>>
              \/ \E j \in DOMAIN acks : Record(id, v)[i] = acks[j]
  <1> DEFINE kept == IF Len(acks) = AckCap THEN Tail(acks) ELSE acks
  <1>1. /\ acks \in Seq(Nat \X Schedules) /\ Len(acks) \in Nat /\ Len(acks) <= AckCap
        /\ AckCap \in Nat \ {0}
    BY LadderAssumption DEF TypeOK
  <1>2. /\ kept \in Seq(Nat \X Schedules) /\ Len(kept) \in Nat /\ Len(kept) < AckCap
        /\ \A i \in 1 .. Len(kept) : \E j \in 1 .. Len(acks) : kept[i] = acks[j]
    <2>1. CASE Len(acks) = AckCap
      <3>1. acks # <<>>
        BY <1>1, <2>1
      <3>2. /\ Tail(acks) \in Seq(Nat \X Schedules) /\ Len(Tail(acks)) = Len(acks) - 1
            /\ \A i \in 1 .. Len(acks) - 1 : Tail(acks)[i] = acks[i + 1]
        BY <1>1, <3>1
      <3> QED
        BY <1>1, <2>1, <3>2
    <2>2. CASE Len(acks) # AckCap
      BY <1>1, <2>2
    <2> QED
      BY <2>1, <2>2
  <1> HIDE DEF kept
  <1>3. <<id, v>> \in Nat \X Schedules
    OBVIOUS
  <1>4. /\ Append(kept, <<id, v>>) \in Seq(Nat \X Schedules)
        /\ Len(Append(kept, <<id, v>>)) = Len(kept) + 1
        /\ \A i \in 1 .. Len(kept) : Append(kept, <<id, v>>)[i] = kept[i]
        /\ Append(kept, <<id, v>>)[Len(kept) + 1] = <<id, v>>
    BY <1>2, <1>3
  <1>5. Record(id, v) = Append(kept, <<id, v>>)
    BY DEF Record, kept
  <1> HIDE DEF Record
  <1>6. ASSUME NEW i \in 1 .. Len(kept) + 1
        PROVE  Record(id, v)[i] = <<id, v>> \/ \E j \in 1 .. Len(acks) : Record(id, v)[i] = acks[j]
    <2>1. CASE i = Len(kept) + 1
      BY <1>4, <1>5, <2>1
    <2>2. CASE i # Len(kept) + 1
      <3>1. i \in 1 .. Len(kept)
        BY <1>2, <2>2
      <3> QED
        BY <1>2, <1>4, <1>5, <3>1
    <2> QED
      BY <2>1, <2>2
  <1>7. DOMAIN Record(id, v) = 1 .. Len(kept) + 1 /\ DOMAIN acks = 1 .. Len(acks)
    BY <1>1, <1>4, <1>5
  <1>8. Len(kept) + 1 <= AckCap
    BY <1>1, <1>2
  <1> QED
    BY <1>4, <1>5, <1>6, <1>7, <1>8

\* An attempt goes out under an id that names it alone.
LEMMA AttemptMade ==
  ASSUME TypeOK, Attempt
  PROVE  \E id \in Nat :
           /\ id \notin IdsOut /\ down' = <<id, config>> /\ awaiting' = TRUE
           /\ acks' \in Seq(Nat \X Schedules) /\ Len(acks') <= AckCap
           /\ \A i \in DOMAIN acks' :
                acks'[i] = <<id, config>> \/ \E j \in DOMAIN acks : acks'[i] = acks[j]
  <1> DEFINE room == 1 .. Cardinality(IdsOut) + 1
             id == CHOOSE n \in room : n \notin IdsOut
  <1>1. id \in room /\ id \notin IdsOut
    BY FreshId
  <1>2. id \in Nat
    BY <1>1
  <1>3. down' = <<id, config>> /\ acks' = Record(id, config) /\ awaiting' = TRUE
    BY DEF Attempt
  <1> HIDE DEF id
  <1>4. config \in Schedules
    BY DEF TypeOK
  <1> QED
    BY <1>1, <1>2, <1>3, <1>4, RecordHolds

-----------------------------------------------------------------------------
(* Types *)

LEMMA SchedulesType ==
  /\ \A s \in Schedules, t \in Tables : [s EXCEPT !.table = t] \in Schedules
  /\ \A s \in Schedules, b \in BOOLEAN : [s EXCEPT !.auto = b] \in Schedules
  /\ \A s \in Versions : s.auto \in BOOLEAN
  /\ Schedules \subseteq Versions /\ NoSchedule \in Versions
  /\ Seed \in Schedules /\ NoSchedule \notin Schedules
  <1>1. ASSUME NEW s \in Schedules, NEW t \in Tables PROVE [s EXCEPT !.table = t] \in Schedules
    BY DEF Schedules
  <1>2. ASSUME NEW s \in Schedules, NEW b \in BOOLEAN PROVE [s EXCEPT !.auto = b] \in Schedules
    BY DEF Schedules
  <1>3. ASSUME NEW s \in Versions PROVE s.auto \in BOOLEAN
    <2>1. CASE s \in Schedules
      BY <2>1 DEF Schedules
    <2>2. CASE s = NoSchedule
      <3>1. s.auto = FALSE
        BY <2>2 DEF NoSchedule
      <3> QED
        BY <3>1, Zenon
    <2> QED
      BY <2>1, <2>2 DEF Versions
  <1> QED
    BY <1>1, <1>2, <1>3, SeedAssumption DEF Versions

LEMMA TypeInit == Init => TypeOK
  <1> SUFFICES ASSUME Init PROVE TypeOK
    OBVIOUS
  <1> USE DEF Init
  <1>1. Seed \in Schedules /\ NoSchedule \in Versions /\ Seed.auto \in BOOLEAN
    BY SchedulesType
  <1>2. used \in [edits : 0 .. MaxEdits, faults : 0 .. MaxFaults]
    BY BoundsAssumption
  <1>3. tries \in 0 .. (MaxRetries + 1) /\ Len(acks) <= AckCap /\ Len(up) <= MaxUp
    BY LadderAssumption, BoundsAssumption
  <1>4. acks \in Seq(Nat \X Schedules) /\ modes \in Seq(BOOLEAN) /\ up \in Seq(Uplinks)
    OBVIOUS
  <1> QED
    BY <1>1, <1>2, <1>3, <1>4 DEF TypeOK

\* What is spent of the bounds stays a record of two counts.
LEMMA SpentType ==
  ASSUME TypeOK, NEW e \in {0, 1}, NEW f \in {0, 1}, Spend(e, f)
  PROVE  /\ used' \in [edits : 0 .. MaxEdits, faults : 0 .. MaxFaults]
         /\ e = 1 => used'.edits # used.edits
  <1>1. /\ used \in [edits : 0 .. MaxEdits, faults : 0 .. MaxFaults]
        /\ MaxEdits \in Nat /\ MaxFaults \in Nat
    BY BoundsAssumption DEF TypeOK
  <1>2. used.edits \in Nat /\ used.faults \in Nat
    BY <1>1
  <1>3. used'.edits = used.edits + e /\ used'.faults = used.faults + f
    BY DEF Spend
  <1>4. used'.edits \in 0 .. MaxEdits /\ used'.faults \in 0 .. MaxFaults
    BY <1>1, <1>2, <1>3 DEF Spend
  <1>5. used' = [edits |-> used'.edits, faults |-> used'.faults]
    BY <1>3 DEF Spend
  <1> QED
    BY <1>2, <1>3, <1>4, <1>5

LEMMA EditType ==
  ASSUME TypeOK, NEW taken \in BOOLEAN, EditedAnd(taken) \/ Edited
  PROVE  used' \in [edits : 0 .. MaxEdits, faults : 0 .. MaxFaults] /\ used'.edits # used.edits
  <1>1. CASE EditedAnd(taken) /\ taken
    BY <1>1, SpentType DEF EditedAnd
  <1>2. CASE EditedAnd(taken) /\ ~taken
    BY <1>2, SpentType DEF EditedAnd
  <1>3. CASE Edited
    BY <1>3, SpentType DEF Edited
  <1> QED
    BY <1>1, <1>2, <1>3

LEMMA FaultType ==
  ASSUME TypeOK, Fault
  PROVE  used' \in [edits : 0 .. MaxEdits, faults : 0 .. MaxFaults]
  BY SpentType DEF Fault

\* An edit makes a schedule of what there was.
LEMMA ChangeType ==
  ASSUME TypeOK, NEW c \in Schedules, NEW taken \in BOOLEAN, Change(c, taken)
  PROVE  /\ config' \in Schedules /\ staged' \in Versions /\ flash' \in Versions
         /\ unsaved' \in BOOLEAN /\ crossed' \in BOOLEAN
  <1>1. config' \in Schedules /\ staged' \in Versions /\ flash' \in Versions
    BY SchedulesType DEF TypeOK, Change, Save
  <1>2. unsaved' \in BOOLEAN
    BY Zenon DEF Change
  <1>3. crossed' \in BOOLEAN
    <2>1. crossed \in BOOLEAN
      BY DEF TypeOK
    <2>2. crossed' = (crossed \/ (Returned(c) /\ Elsewhere(c)))
      BY DEF Change
    <2> QED
      BY <2>1, <2>2, Zenon
  <1> QED
    BY <1>1, <1>2, <1>3

LEMMA NodeTurnsType ==
  ASSUME TypeOK, NEW b \in BOOLEAN, NodeTurns(b)
  PROVE  nodeAuto' \in BOOLEAN /\ wanted' \in {"none", "auto", "interactive"}
  BY DEF TypeOK, NodeTurns

LEMMA QueueType ==
  ASSUME NEW S, NEW q \in Seq(S)
  PROVE  /\ \A x \in S : Append(q, x) \in Seq(S) /\ Len(Append(q, x)) = Len(q) + 1
         /\ q # <<>> => /\ Head(q) \in S /\ Head(q) = q[1] /\ 1 \in DOMAIN q
                        /\ Tail(q) \in Seq(S) /\ Len(Tail(q)) = Len(q) - 1
                        /\ \A i \in DOMAIN Tail(q) : i + 1 \in DOMAIN q /\ Tail(q)[i] = q[i + 1]
  OBVIOUS

LEMMA NothingType ==
  /\ <<>> \in Seq(Nat \X Schedules) /\ <<>> \in Seq(BOOLEAN) /\ <<>> \in Seq(Uplinks)
  /\ Len(<<>>) = 0
  OBVIOUS

LEMMA ModesType ==
  ASSUME TypeOK
  PROVE  /\ \A on \in BOOLEAN : Append(modes, on) \in Seq(BOOLEAN)
         /\ modes # <<>> => Head(modes) \in BOOLEAN /\ Tail(modes) \in Seq(BOOLEAN)
  <1>1. modes \in Seq(BOOLEAN)
    BY DEF TypeOK
  <1> QED
    BY <1>1, QueueType, Zenon

LEMMA AttemptType ==
  ASSUME TypeOK, Attempt
  PROVE  /\ awaiting' = TRUE /\ acks' \in Seq(Nat \X Schedules) /\ Len(acks') <= AckCap
         /\ down' \in Nat \X Schedules
  <1>1. config \in Schedules
    BY DEF TypeOK
  <1>2. PICK id \in Nat : /\ down' = <<id, config>> /\ awaiting' = TRUE
                         /\ acks' \in Seq(Nat \X Schedules) /\ Len(acks') <= AckCap
    BY AttemptMade
  <1> QED
    BY <1>1, <1>2

LEMMA TypeStep == TypeOK /\ [Next]_vars => TypeOK'
  <1> SUFFICES ASSUME TypeOK, [Next]_vars PROVE TypeOK'
    OBVIOUS
  <1> USE DEF slot, hub, blind, history
  <1>0. /\ MaxUp \in Nat /\ MaxRetries \in Nat /\ AckCap \in Nat
        /\ Len(up) \in Nat /\ DOMAIN up = 1 .. Len(up)
    BY BoundsAssumption, LadderAssumption DEF TypeOK
  <1>00. config \in Schedules
    BY DEF TypeOK
  <1>1. CASE EditTable
    <2>1. PICK t \in Tables, taken \in BOOLEAN : EditedAnd(taken) /\ Change([config EXCEPT !.table = t], taken)
      BY <1>1 DEF EditTable
    <2>2. /\ config' \in Schedules /\ staged' \in Versions /\ flash' \in Versions
          /\ unsaved' \in BOOLEAN /\ crossed' \in BOOLEAN
      BY <1>00, <2>1, ChangeType, SchedulesType
    <2>3. used' \in [edits : 0 .. MaxEdits, faults : 0 .. MaxFaults]
      BY <2>1, EditType
    <2> QED
      BY <1>1, <2>2, <2>3 DEF EditTable, TypeOK
  <1>2. ASSUME NEW on \in BOOLEAN, FlipSwitch(on) PROVE TypeOK'
    <2>0. switch' \in BOOLEAN /\ wanted' \in {"none", "auto", "interactive"}
      BY <1>2 DEF FlipSwitch, Mode
    <2>1. CASE config.auto = on
      <3>1. Edited /\ UNCHANGED <<config, staged, flash, unsaved, crossed, modes>>
        BY <1>2, <2>1 DEF FlipSwitch, SetAutoMode
      <3>2. used' \in [edits : 0 .. MaxEdits, faults : 0 .. MaxFaults]
        BY <3>1, EditType
      <3> QED
        BY <1>2, <2>0, <3>1, <3>2 DEF FlipSwitch, TypeOK
    <2>2. CASE config.auto # on
      <3>1. /\ \E taken \in BOOLEAN : EditedAnd(taken) /\ Change([config EXCEPT !.auto = on], taken)
            /\ \E awake \in BOOLEAN : modes' = IF live /\ awake THEN Append(modes, on) ELSE modes
        BY <1>2, <2>2 DEF FlipSwitch, SetAutoMode
      <3>2. PICK taken \in BOOLEAN : EditedAnd(taken) /\ Change([config EXCEPT !.auto = on], taken)
        BY <3>1
      <3>3. /\ config' \in Schedules /\ staged' \in Versions /\ flash' \in Versions
            /\ unsaved' \in BOOLEAN /\ crossed' \in BOOLEAN
        BY <1>00, <1>2, <3>2, ChangeType, SchedulesType
      <3>4. used' \in [edits : 0 .. MaxEdits, faults : 0 .. MaxFaults]
        BY <3>2, EditType
      <3>5. modes' \in Seq(BOOLEAN)
        <4>1. PICK awake \in BOOLEAN : modes' = IF live /\ awake THEN Append(modes, on) ELSE modes
          BY <3>1, Zenon
        <4>2. modes \in Seq(BOOLEAN) /\ Append(modes, on) \in Seq(BOOLEAN)
          BY <1>2, ModesType, Zenon DEF TypeOK
        <4> QED
          BY <4>1, <4>2, Zenon
      <3> QED
        BY <1>2, <2>0, <3>3, <3>4, <3>5 DEF FlipSwitch, TypeOK
    <2> QED
      BY <2>1, <2>2
  <1>3. ASSUME NEW blob \in Versions, Boots(blob) PROVE TypeOK'
    <2>1. config' \in Schedules /\ config'.auto \in BOOLEAN
      BY <1>3, SchedulesType DEF Boots, Versions
    <2>2. used' \in [edits : 0 .. MaxEdits, faults : 0 .. MaxFaults]
      BY <1>3, FaultType DEF Boots
    <2>3. /\ switch' \in BOOLEAN /\ live' \in BOOLEAN /\ timer' \in BOOLEAN /\ awaiting' \in BOOLEAN
          /\ unsaved' \in BOOLEAN /\ crossed' \in BOOLEAN
      BY <1>3, <2>1, Zenon DEF Boots
    <2>4. /\ acks' = <<>> /\ modes' = <<>> /\ down' = <<>> /\ up' = <<>>
          /\ tries' = 0 /\ known' = NoSchedule /\ staged' = blob /\ flash' = blob
          /\ UNCHANGED <<blind, wanted>>
      BY <1>3 DEF Boots
    <2>5. /\ acks' \in Seq(Nat \X Schedules) /\ Len(acks') <= AckCap
          /\ modes' \in Seq(BOOLEAN) /\ up' \in Seq(Uplinks) /\ Len(up') <= MaxUp
      BY <1>0, <2>4, NothingType
    <2> QED
      BY <1>0, <1>3, <2>1, <2>2, <2>3, <2>4, <2>5, SchedulesType DEF TypeOK
  <1>30. CASE HubRestart \/ HubCrash
    <2>1. staged \in Versions /\ flash \in Versions
      BY DEF TypeOK
    <2> QED
      BY <1>3, <1>30, <2>1 DEF HubRestart, HubCrash
  <1>31. CASE Flush
    BY <1>31 DEF Flush, TypeOK
  <1>4. CASE Login
    <2>1. /\ acks' \in Seq(Nat \X Schedules) /\ Len(acks') <= AckCap
          /\ up' \in Seq(Uplinks) /\ Len(up') <= MaxUp
      BY <1>0, <1>4, NothingType DEF Login
    <2> QED
      BY <1>4, <2>1, FaultType DEF Login, TypeOK
  <1>5. CASE ConfirmSession
    BY <1>5 DEF ConfirmSession, Pending, TypeOK
  <1>6. CASE PushTimer
    <2>1. CASE live
      <3>1. Attempt /\ tries' = 0
        BY <1>6, <2>1 DEF PushTimer, TypeOK
      <3>2. /\ awaiting' = TRUE /\ acks' \in Seq(Nat \X Schedules) /\ Len(acks') <= AckCap
            /\ down' \in Nat \X Schedules
        BY <3>1, AttemptType
      <3>3. tries' \in 0 .. (MaxRetries + 1)
        BY <1>0, <3>1
      <3> QED
        BY <1>6, <3>2, <3>3 DEF PushTimer, TypeOK
    <2>2. CASE ~live
      BY <1>6, <2>2 DEF PushTimer, TypeOK
    <2> QED
      BY <2>1, <2>2
  <1>7. CASE Resend
    <2>0. Attempt
      BY <1>7 DEF Resend
    <2>1. /\ awaiting' = TRUE /\ acks' \in Seq(Nat \X Schedules) /\ Len(acks') <= AckCap
          /\ down' \in Nat \X Schedules
      BY <2>0, AttemptType
    <2> QED
      BY <1>0, <1>7, <2>1 DEF Resend, TypeOK
  <1>8. CASE GiveUp
    <2>1. tries' \in 0 .. (MaxRetries + 1)
      BY <1>0, <1>8 DEF GiveUp
    <2> QED
      BY <1>8, <2>1 DEF GiveUp, TypeOK
  <1>9. CASE HearUplink
    <2>1. /\ up' \in Seq(Uplinks) /\ Len(up') <= MaxUp /\ Head(up) \in Uplinks
      BY <1>0, <1>9, QueueType DEF HearUplink, TypeOK
    <2>2. CASE Head(up).kind = "ack"
      <3>1. HearAck(Head(up).id) /\ UNCHANGED <<timer, switch>>
        BY <1>9, <2>2 DEF HearUplink, TypeOK
      <3>2. Carried(Head(up).id) \subseteq Schedules
        BY DEF Carried, TypeOK
      <3>3. known' \in Versions /\ awaiting' \in BOOLEAN /\ tries' \in 0 .. (MaxRetries + 1)
            /\ acks' \in Seq(Nat \X Schedules) /\ Len(acks') <= AckCap
        <4>1. known' \in Versions
          BY <3>1, <3>2, SchedulesType DEF HearAck, TypeOK
        <4>2. \/ UNCHANGED <<awaiting, tries, acks>>
              \/ awaiting' = FALSE /\ tries' = 0 /\ acks' = <<>>
          BY <3>1, Zenon DEF HearAck
        <4>3. CASE UNCHANGED <<awaiting, tries, acks>>
          BY <4>1, <4>3 DEF TypeOK
        <4>4. CASE awaiting' = FALSE /\ tries' = 0 /\ acks' = <<>>
          <5>1. acks' \in Seq(Nat \X Schedules)
            BY <4>4, NothingType, Zenon
          <5>2. awaiting' \in BOOLEAN
            BY <4>4, Zenon
          <5>3. Len(acks') <= AckCap
            BY <1>0, <4>4, NothingType
          <5>4. tries' \in 0 .. (MaxRetries + 1)
            BY <1>0, <4>4
          <5> QED
            BY <4>1, <5>1, <5>2, <5>3, <5>4
        <4> QED
          BY <3>1, <4>2, <4>3, <4>4
      <3> QED
        BY <1>9, <2>1, <3>1, <3>3 DEF HearUplink, TypeOK
    <2>3. CASE Head(up).kind # "ack"
      <3>1. HearBeacon(Head(up)) /\ UNCHANGED slot
        BY <1>9, <2>3 DEF HearUplink, TypeOK
      <3>2. Head(up).version \in Versions /\ Head(up).auto \in BOOLEAN
        BY <2>1, <2>3 DEF Uplinks, TypeOK
      <3>3. known' \in Versions /\ switch' \in BOOLEAN /\ timer' \in BOOLEAN
        BY <3>1, <3>2 DEF HearBeacon, SwitchAfter, TypeOK
      <3>4. crossed' \in BOOLEAN
        <4>1. crossed' = (crossed /\ (down # <<>> \/ Tail(up) # <<>>)) /\ crossed \in BOOLEAN
          BY <1>9, <2>3 DEF HearUplink, TypeOK
        <4> QED
          BY <4>1, Zenon
      <3> QED
        BY <1>9, <2>1, <3>1, <3>3, <3>4 DEF HearUplink, TypeOK
    <2> QED
      BY <2>2, <2>3
  <1>10. CASE LoseUplink
    <2>1. up' \in Seq(Uplinks) /\ Len(up') <= MaxUp
      BY <1>0, <1>10, QueueType DEF LoseUplink, TypeOK
    <2> QED
      BY <1>10, <2>1, FaultType DEF LoseUplink, TypeOK
  <1>11. CASE LosePush
    BY <1>11, FaultType DEF LosePush, TypeOK
  <1>12. CASE LoseMode
    BY <1>12, FaultType DEF LoseMode, TypeOK
  <1>13. CASE TakePush
    <2>1. down \in Nat \X Schedules /\ down[2].auto \in BOOLEAN /\ down[2] \in Versions
      BY <1>13, SchedulesType DEF TakePush, TypeOK
    <2>2. Ack(down[1]) \in Uplinks
      BY <2>1 DEF Ack, Uplinks, TypeOK
    <2>3. up' \in Seq(Uplinks) /\ Len(up') <= MaxUp
      BY <1>0, <1>13, <2>2, QueueType DEF TakePush, TypeOK
    <2>4. nodeAuto' \in BOOLEAN /\ wanted' \in {"none", "auto", "interactive"}
      BY <1>13, <2>1, NodeTurnsType DEF TakePush
    <2> QED
      BY <1>13, <2>1, <2>3, <2>4 DEF TakePush, TypeOK
  <1>14. CASE TakeMode
    <2>1. Head(modes) \in BOOLEAN /\ modes' \in Seq(BOOLEAN)
      <3>1. modes # <<>> /\ modes' = Tail(modes)
        BY <1>14, Zenon DEF TakeMode
      <3>2. Head(modes) \in BOOLEAN /\ Tail(modes) \in Seq(BOOLEAN)
        BY <3>1, ModesType, Zenon
      <3> QED
        BY <3>1, <3>2, Zenon
    <2>2. nodeAuto' \in BOOLEAN /\ wanted' \in {"none", "auto", "interactive"}
      BY <1>14, <2>1, NodeTurnsType DEF TakeMode
    <2> QED
      BY <1>14, <2>1, <2>2 DEF TakeMode, TypeOK
  <1>15. CASE Beacon
    <2>1. [kind |-> "beacon", version |-> node, auto |-> nodeAuto] \in Uplinks
      BY DEF Uplinks, TypeOK
    <2>2. up' \in Seq(Uplinks) /\ Len(up') <= MaxUp
      BY <1>0, <1>15, <2>1, QueueType DEF Beacon, TypeOK
    <2> QED
      BY <1>15, <2>2 DEF Beacon, TypeOK
  <1>16. CASE Button
    BY <1>16, EditType DEF Button, TypeOK
  <1>17. CASE OverrideEnds
    <2>1. nodeAuto' \in BOOLEAN /\ wanted' \in {"none", "auto", "interactive"}
      BY <1>17, NodeTurnsType DEF OverrideEnds
    <2> QED
      BY <1>17, <2>1 DEF OverrideEnds, TypeOK
  <1>18. CASE NodeReset
    BY <1>18, FaultType, SchedulesType DEF NodeReset, TypeOK
  <1>19. CASE UNCHANGED vars
    BY <1>19 DEF vars, TypeOK
  <1> QED
    BY <1>1, <1>2, <1>30, <1>31, <1>4, <1>5, <1>6, <1>7, <1>8, <1>9, <1>10, <1>11, <1>12, <1>13,
       <1>14, <1>15, <1>16, <1>17, <1>18, <1>19 DEF Next

\* The types hold in every state.
THEOREM TypeCorrect == Spec => []TypeOK
  BY TypeInit, TypeStep, PTL DEF Spec

-----------------------------------------------------------------------------
(* The invariant: what is kept when less of it is left *)

\* What an id on record stands for.
LEMMA CarriedIs ==
  \A id, v : v \in Carried(id) <=> \E i \in DOMAIN acks : acks[i][1] = id /\ acks[i][2] = v
  BY DEF Carried

LEMMA ScheduleInit == Init => ScheduleInv
  <1> SUFFICES ASSUME Init PROVE ScheduleInv
    OBVIOUS
  <1>1. TypeOK /\ Seed \in Schedules /\ NoSchedule \notin Schedules
    BY TypeInit, SchedulesType
  <1>2. DOMAIN up = {} /\ DOMAIN acks = {}
    BY DEF Init
  <1>3. BlobsKept
    BY DEF Init, BlobsKept
  <1>4. LastIsTrue
    BY DEF Init, LastIsTrue
  <1>5. KnowledgeKept
    BY <1>1, <1>2 DEF Init, KnowledgeKept
  <1> QED
    BY <1>1, <1>3, <1>4, <1>5 DEF ScheduleInv

\* A step that edits nothing and sends nothing: the record, the air and what the
\* node runs only lose, and the hub learns at most what an uplink tells it.
LEMMA Quieter ==
  ASSUME ScheduleInv, UNCHANGED <<config, crossed>>,
         node' \in {node, NoSchedule}, down' \in {down, <<>>}, acks' \in {acks, <<>>},
         known' \in {known, NoSchedule} \/ \E i \in DOMAIN up : known' \in Told(up[i]),
         \A i \in DOMAIN up' : \E j \in DOMAIN up : up'[i] = up[j]
  PROVE  KnowledgeKept'
  <1> USE DEF NothingOlderComes, NodeCurrent
  <1>1. TypeOK /\ KnowledgeKept /\ NoSchedule \notin Schedules /\ config \in Schedules
    BY SchedulesType DEF ScheduleInv, TypeOK
  <1>2. \A i \in DOMAIN acks' : i \in DOMAIN acks /\ acks'[i] = acks[i]
    OBVIOUS
  <1>3. \A id, v : v \in Carried(id)' => v \in Carried(id)
    BY <1>2 DEF Carried
  <1>4. down' # <<>> => Carried(down[1])' \subseteq {down'[2]} /\ down' = down
    BY <1>1, <1>3 DEF KnowledgeKept
  <1>5. ASSUME ~crossed PROVE known' = config => NodeCurrent'
    <2>1. CASE known' = known
      BY <1>1, <1>5, <2>1 DEF KnowledgeKept
    <2>2. CASE known' = NoSchedule
      BY <1>1, <2>2
    <2>3. CASE \E i \in DOMAIN up : known' \in Told(up[i])
      BY <1>1, <1>5, <2>3 DEF KnowledgeKept
    <2> QED
      BY <2>1, <2>2, <2>3
  <1>6. ASSUME ~crossed PROVE node' = config => NothingOlderComes'
    BY <1>1, <1>6 DEF KnowledgeKept
  <1>7. ASSUME ~crossed, NEW i \in DOMAIN up', config \in Told(up[i])' PROVE NodeCurrent'
    <2>1. PICK j \in DOMAIN up : up'[i] = up[j]
      OBVIOUS
    <2>2. config \in Told(up[j])
      <3>1. CASE up[j].kind = "beacon"
        BY <1>7, <2>1, <3>1 DEF Told
      <3>2. CASE up[j].kind # "beacon"
        <4>1. PICK n \in DOMAIN acks' : acks'[n][1] = up'[i].id /\ acks'[n][2] = config
          BY <1>7, <2>1, <3>2 DEF Told, Carried
        <4> QED
          BY <1>2, <2>1, <3>2, <4>1, CarriedIs DEF Told
      <3> QED
        BY <3>1, <3>2
    <2> QED
      BY <1>1, <1>7, <2>2 DEF KnowledgeKept
  <1> QED
    BY <1>4, <1>5, <1>6, <1>7 DEF KnowledgeKept

\* A step after which nothing is on its way and the hub knows no more than the node is.
LEMMA Silence ==
  ASSUME down' = <<>>, up' = <<>>, known' = NoSchedule \/ node' \in {known', NoSchedule},
         config' \in Schedules
  PROVE  KnowledgeKept'
  <1>1. DOMAIN up' = {} /\ NoSchedule \notin Schedules
    BY SchedulesType
  <1> QED
    BY <1>1 DEF KnowledgeKept, NothingOlderComes, NodeCurrent

-----------------------------------------------------------------------------
(* The invariant: the steps that say something new *)

\* An attempt: no uplink under way answers to its id.
LEMMA AttemptKeeps ==
  ASSUME ScheduleInv, Attempt, UNCHANGED <<config, known, node, up, crossed>>
  PROVE  KnowledgeKept'
  <1> USE DEF NothingOlderComes, NodeCurrent
  <1>1. TypeOK /\ KnowledgeKept /\ config \in Schedules
    BY DEF ScheduleInv, TypeOK
  <1>2. PICK id \in Nat :
          /\ id \notin IdsOut /\ down' = <<id, config>>
          /\ \A i \in DOMAIN acks' :
               acks'[i] = <<id, config>> \/ \E j \in DOMAIN acks : acks'[i] = acks[j]
    BY <1>1, AttemptMade
  <1>3. /\ \A i \in DOMAIN acks : acks[i][1] # id
        /\ \A i \in DOMAIN up : up[i].kind = "ack" => up[i].id # id
    BY <1>2 DEF IdsOut
  <1>4. \A i \in DOMAIN up : up[i].kind \in {"ack", "beacon"}
    BY <1>1 DEF TypeOK, Uplinks
  <1>5. down' # <<>> => Carried(down[1])' \subseteq {down'[2]}
    <2>1. ASSUME NEW i \in DOMAIN acks', acks'[i][1] = id PROVE acks'[i][2] = config
      BY <1>2, <1>3, <2>1
    <2> QED
      BY <1>2, <2>1 DEF Carried
  <1>6. ASSUME NEW i \in DOMAIN up, config' \in Told(up[i])' PROVE config \in Told(up[i])
    <2>1. CASE up[i].kind = "beacon"
      BY <1>6, <2>1 DEF Told
    <2>2. CASE up[i].kind # "beacon"
      <3>1. PICK n \in DOMAIN acks' : acks'[n][1] = up[i].id /\ acks'[n][2] = config
        BY <1>6, <2>2 DEF Told, Carried
      <3>2. up[i].id # id
        BY <1>3, <1>4, <2>2
      <3>3. PICK j \in DOMAIN acks : acks'[n] = acks[j]
        BY <1>2, <3>1, <3>2
      <3> QED
        BY <2>2, <3>1, <3>3, CarriedIs DEF Told
    <2> QED
      BY <2>1, <2>2
  <1>7. NothingOlderComes' /\ (NodeCurrent => NodeCurrent')
    BY <1>2
  <1> QED
    BY <1>1, <1>5, <1>6, <1>7 DEF KnowledgeKept

\* An edit to a schedule the node has not had, or that no other one can overtake.
LEMMA ChangeKeeps ==
  ASSUME ScheduleInv, NEW c \in Schedules, NEW taken \in BOOLEAN, Change(c, taken),
         UNCHANGED <<known, node, acks, down, up>>
  PROVE  KnowledgeKept'
  <1> USE DEF NothingOlderComes, NodeCurrent
  <1>1. KnowledgeKept
    BY DEF ScheduleInv
  <1>2. config' = c /\ crossed' = (crossed \/ (Returned(c) /\ Elsewhere(c)))
    BY DEF Change
  <1>3. down' # <<>> => Carried(down[1])' \subseteq {down'[2]}
    BY <1>1 DEF KnowledgeKept, Carried
  <1>4. ASSUME NEW i \in DOMAIN up, config' \in Told(up[i])' PROVE c \in Told(up[i])
    BY <1>2, <1>4 DEF Told, Carried
  <1>5. ASSUME ~crossed', Returned(c) PROVE NodeCurrent'
    BY <1>2, <1>5 DEF Elsewhere
  <1>6. ASSUME ~crossed'
        PROVE  /\ known' = config' => NodeCurrent'
               /\ node' = config' => NothingOlderComes'
               /\ \A i \in DOMAIN up' : config' \in Told(up[i])' => NodeCurrent'
    <2>1. known' = config' \/ node' = config' => Returned(c)
      BY <1>2 DEF Returned
    <2>2. ASSUME NEW i \in DOMAIN up', config' \in Told(up[i])' PROVE Returned(c)
      BY <1>4, <2>2 DEF Returned
    <2> QED
      BY <1>5, <1>6, <2>1, <2>2
  <1> QED
    BY <1>3, <1>6 DEF KnowledgeKept

\* The node takes a push: it runs what was on the air, and answers to its id.
LEMMA TakePushKeeps ==
  ASSUME ScheduleInv, TakePush
  PROVE  LastIsTrue' /\ KnowledgeKept'
  <1> USE DEF NothingOlderComes, NodeCurrent
  <1>1. TypeOK /\ KnowledgeKept
    BY DEF ScheduleInv
  <1>2. /\ down # <<>> /\ node' = down[2] /\ down' = <<>> /\ up' = Append(up, Ack(down[1]))
        /\ UNCHANGED <<config, known, acks, crossed>>
    BY DEF TakePush, hub, slot
  <1>3. /\ up \in Seq(Uplinks) /\ Ack(down[1]) \in Uplinks
    BY <1>1, <1>2 DEF TypeOK, Ack, Uplinks
  <1>4. ASSUME NEW i \in DOMAIN up'
        PROVE  (i \in DOMAIN up /\ up'[i] = up[i]) \/ up'[i] = Ack(down[1])
    BY <1>2, <1>3
  <1>5. Ack(down[1]).kind = "ack" /\ Ack(down[1]).id = down[1]
    BY DEF Ack
  <1>6. LastIsTrue'
    <2>1. up'[Len(up')] = Ack(down[1])
      BY <1>2, <1>3
    <2> QED
      BY <1>5, <2>1 DEF LastIsTrue
  <1>7. ASSUME ~crossed, NEW i \in DOMAIN up', config' \in Told(up[i])' PROVE NodeCurrent'
    <2>1. CASE i \in DOMAIN up /\ up'[i] = up[i]
      <3>1. config \in Told(up[i])
        BY <1>2, <1>7, <2>1 DEF Told, Carried
      <3> QED
        BY <1>1, <1>2, <1>7, <2>1, <3>1 DEF KnowledgeKept
    <2>2. CASE up'[i] = Ack(down[1])
      <3>1. config \in Carried(down[1])
        BY <1>2, <1>5, <1>7, <2>2 DEF Told, Carried
      <3> QED
        BY <1>1, <1>2, <3>1 DEF KnowledgeKept
    <2> QED
      BY <1>4, <2>1, <2>2
  <1>8. KnowledgeKept'
    BY <1>1, <1>2, <1>7 DEF KnowledgeKept
  <1> QED
    BY <1>6, <1>8

\* The node says what it runs.
LEMMA BeaconKeeps ==
  ASSUME ScheduleInv, Beacon
  PROVE  LastIsTrue' /\ KnowledgeKept'
  <1> USE DEF NothingOlderComes, NodeCurrent
  <1> DEFINE said == [kind |-> "beacon", version |-> node, auto |-> nodeAuto]
  <1>1. TypeOK /\ KnowledgeKept
    BY DEF ScheduleInv
  <1>2. up' = Append(up, said) /\ UNCHANGED <<config, known, acks, node, down, crossed>>
    BY DEF Beacon, hub, slot, blind, history
  <1>3. up \in Seq(Uplinks) /\ said \in Uplinks
    BY <1>1 DEF TypeOK, Uplinks
  <1>4. ASSUME NEW i \in DOMAIN up'
        PROVE  (i \in DOMAIN up /\ up'[i] = up[i]) \/ up'[i] = said
    BY <1>2, <1>3
  <1>5. said.kind = "beacon" /\ said.version = node
    OBVIOUS
  <1> HIDE DEF said
  <1>6. LastIsTrue'
    <2>1. up'[Len(up')] = said
      BY <1>2, <1>3
    <2> QED
      BY <1>2, <1>5, <2>1 DEF LastIsTrue
  <1>7. ASSUME ~crossed, NEW i \in DOMAIN up', config' \in Told(up[i])' PROVE NodeCurrent'
    <2>1. CASE i \in DOMAIN up /\ up'[i] = up[i]
      <3>1. config \in Told(up[i])
        BY <1>2, <1>7, <2>1 DEF Told, Carried
      <3> QED
        BY <1>1, <1>2, <1>7, <2>1, <3>1 DEF KnowledgeKept
    <2>2. CASE up'[i] = said
      <3>1. config = node
        BY <1>2, <1>5, <1>7, <2>2 DEF Told
      <3> QED
        BY <1>1, <1>2, <1>7, <3>1 DEF KnowledgeKept
    <2> QED
      BY <1>4, <2>1, <2>2
  <1>8. Carried(down[1])' = Carried(down[1])
    BY <1>2 DEF Carried
  <1>9. KnowledgeKept'
    BY <1>1, <1>2, <1>7, <1>8 DEF KnowledgeKept
  <1> QED
    BY <1>6, <1>9

\* An uplink is heard: what it tells is what the hub knows.  A beacon that nothing
\* follows says how the node is, and nothing can overtake it any more.
LEMMA HeardKeeps ==
  ASSUME ScheduleInv, HearUplink
  PROVE  LastIsTrue' /\ KnowledgeKept'
  <1>1. TypeOK /\ LastIsTrue /\ up \in Seq(Uplinks) /\ config \in Schedules
    BY DEF ScheduleInv, TypeOK
  <1>2. up # <<>> /\ up' = Tail(up) /\ UNCHANGED <<config, node, down>>
    BY DEF HearUplink, blind
  <1>3. /\ 1 \in DOMAIN up /\ Head(up) = up[1]
        /\ \A i \in DOMAIN Tail(up) : i + 1 \in DOMAIN up /\ Tail(up)[i] = up[i + 1]
    BY <1>1, <1>2, QueueType
  <1>4. \A i \in DOMAIN up' : \E j \in DOMAIN up : up'[i] = up[j]
    BY <1>2, <1>3
  <1>5. LastIsTrue'
    <2>1. Tail(up) # <<>> => Tail(up)[Len(Tail(up))] = up[Len(up)]
      BY <1>1, <1>2
    <2> QED
      BY <1>1, <1>2, <2>1 DEF LastIsTrue
  <1>6. CASE Head(up).kind = "ack"
    <2>1. HearAck(Head(up).id) /\ UNCHANGED crossed
      BY <1>6 DEF HearUplink
    <2>2. known' = known \/ known' \in Told(up[1])
      BY <1>3, <1>6, <2>1 DEF HearAck, Told
    <2>3. acks' \in {acks, <<>>}
      BY <2>1 DEF HearAck, slot
    <2> QED
      BY <1>2, <1>3, <1>4, <1>5, <2>1, <2>2, <2>3, Quieter
  <1>7. CASE Head(up).kind # "ack"
    <2>1. /\ HearBeacon(Head(up)) /\ UNCHANGED acks
          /\ crossed' = (crossed /\ (down # <<>> \/ Tail(up) # <<>>))
      BY <1>7 DEF HearUplink, slot
    <2>2. Head(up).kind = "beacon"
      BY <1>1, <1>3, <1>7 DEF Uplinks
    <2>3. known' \in Told(up[1])
      BY <1>3, <2>1, <2>2 DEF HearBeacon, Told
    <2>4. CASE crossed' = crossed
      BY <1>2, <1>3, <1>4, <1>5, <2>1, <2>3, <2>4, Quieter
    <2>5. CASE crossed' # crossed
      <3>1. down = <<>> /\ Tail(up) = <<>>
        <4>1. crossed \in BOOLEAN
          BY <1>1 DEF TypeOK
        <4> QED
          BY <2>1, <2>5, <4>1, Zenon
      <3>2. Len(up) = 1
        <4>1. Len(Tail(up)) = Len(up) - 1 /\ Len(up) \in Nat
          BY <1>1, <1>2, QueueType
        <4>2. Len(Tail(up)) = 0
          BY <3>1, NothingType, Zenon
        <4> QED
          BY <4>1, <4>2
      <3>3. node' \in {known', NoSchedule}
        BY <1>1, <1>2, <1>3, <2>1, <2>2, <3>2 DEF LastIsTrue, HearBeacon
      <3> QED
        BY <1>1, <1>2, <1>5, <3>1, <3>3, Silence
    <2> QED
      BY <2>4, <2>5
  <1> QED
    BY <1>6, <1>7

-----------------------------------------------------------------------------
(* Every step *)

\* What a step may do to the schedule: an edit, or the boot of a hub that has not kept it.
IntentStep ==
  config' # config => \/ used'.edits # used.edits
                      \/ HubRestart /\ unsaved
                      \/ HubCrash /\ (unsaved \/ staged # flash)

\* An edit is in hand unless it was not taken; a boot restores what is stored.
LEMMA BlobsStep ==
  ASSUME TypeOK, BlobsKept, [Next]_vars
  PROVE  BlobsKept' /\ IntentStep
  <1> USE DEF BlobsKept, IntentStep, hub, slot, blind, history
  <1>1. config \in Schedules /\ NoSchedule \notin Schedules
    BY SchedulesType DEF TypeOK
  <1>2. ASSUME NEW c \in Schedules, NEW taken \in BOOLEAN, EditedAnd(taken), Change(c, taken)
        PROVE  BlobsKept' /\ IntentStep
    <2>1. BlobsKept'
      BY <1>1, <1>2 DEF Change, Save
    <2>2. used'.edits # used.edits
      BY <1>2, EditType
    <2> QED
      BY <2>1, <2>2
  <1>3. CASE EditTable
    <2>1. PICK t \in Tables, taken \in BOOLEAN : EditedAnd(taken) /\ Change([config EXCEPT !.table = t], taken)
      BY <1>3 DEF EditTable
    <2> QED
      BY <1>1, <1>2, <2>1, SchedulesType
  <1>4. ASSUME NEW on \in BOOLEAN, FlipSwitch(on) PROVE BlobsKept' /\ IntentStep
    <2>1. CASE config.auto = on
      BY <1>4, <2>1 DEF FlipSwitch, SetAutoMode
    <2>2. CASE config.auto # on
      <3>1. PICK taken \in BOOLEAN : EditedAnd(taken) /\ Change([config EXCEPT !.auto = on], taken)
        BY <1>4, <2>2 DEF FlipSwitch, SetAutoMode
      <3> QED
        BY <1>1, <1>2, <1>4, <3>1, SchedulesType
    <2> QED
      BY <2>1, <2>2
  <1>5. CASE HubRestart \/ HubCrash
    BY <1>5 DEF HubRestart, HubCrash, Boots
  <1>6. CASE Flush \/ Login \/ ConfirmSession \/ PushTimer \/ Resend \/ GiveUp \/ HearUplink
             \/ UNCHANGED vars
    BY <1>6 DEF Flush, Login, ConfirmSession, PushTimer, Resend, GiveUp, HearUplink, vars
  <1>7. CASE LoseUplink \/ LosePush \/ LoseMode \/ TakePush \/ TakeMode \/ Beacon \/ Button
             \/ OverrideEnds \/ NodeReset
    BY <1>7 DEF LoseUplink, LosePush, LoseMode, TakePush, TakeMode, Beacon, Button, OverrideEnds, NodeReset
  <1> QED
    BY <1>3, <1>4, <1>5, <1>6, <1>7 DEF Next

LEMMA ScheduleStep == ScheduleInv /\ [Next]_vars => ScheduleInv'
  <1> SUFFICES ASSUME ScheduleInv, [Next]_vars PROVE ScheduleInv'
    OBVIOUS
  <1> DEFINE Kept == LastIsTrue' /\ KnowledgeKept'
  <1> USE DEF hub, slot, blind, history
  <1>1. TypeOK /\ BlobsKept /\ LastIsTrue /\ config \in Schedules /\ up \in Seq(Uplinks)
    BY DEF ScheduleInv, TypeOK
  <1>2. TypeOK' /\ BlobsKept'
    BY <1>1, TypeStep, BlobsStep
  <1> SUFFICES Kept
    BY <1>2 DEF ScheduleInv
  <1>3. up # <<>> => /\ 1 \in DOMAIN up /\ Head(up) = up[1]
                     /\ \A i \in DOMAIN Tail(up) : i + 1 \in DOMAIN up /\ Tail(up)[i] = up[i + 1]
                     /\ Tail(up) # <<>> => Tail(up)[Len(Tail(up))] = up[Len(up)]
    BY <1>1, QueueType
  \* nothing that the invariant speaks of changes, or some of it is lost
  <1>4. ASSUME UNCHANGED <<config, crossed>>,
               node' \in {node, NoSchedule}, down' \in {down, <<>>}, acks' \in {acks, <<>>},
               known' \in {known, NoSchedule}, up' \in {up, <<>>} \/ (up # <<>> /\ up' = Tail(up))
        PROVE  Kept
    <2>1. \A i \in DOMAIN up' : \E j \in DOMAIN up : up'[i] = up[j]
      BY <1>3, <1>4
    <2>2. LastIsTrue'
      BY <1>1, <1>3, <1>4 DEF LastIsTrue
    <2> QED
      BY <1>4, <2>1, <2>2, Quieter
  <1>5. ASSUME NEW c \in Schedules, NEW taken \in BOOLEAN, Change(c, taken),
               UNCHANGED <<known, node, acks, down, up>>
        PROVE  Kept
    <2>1. LastIsTrue'
      BY <1>1, <1>5 DEF LastIsTrue
    <2> QED
      BY <1>5, <2>1, ChangeKeeps
  <1>6. CASE EditTable
    <2>1. PICK t \in Tables, taken \in BOOLEAN : Change([config EXCEPT !.table = t], taken)
      BY <1>6 DEF EditTable
    <2>2. [config EXCEPT !.table = t] \in Schedules
      BY <1>1, SchedulesType
    <2> QED
      BY <1>5, <1>6, <2>1, <2>2 DEF EditTable
  <1>7. ASSUME NEW on \in BOOLEAN, FlipSwitch(on) PROVE Kept
    <2>1. CASE config.auto = on
      BY <1>4, <1>7, <2>1 DEF FlipSwitch, SetAutoMode
    <2>2. CASE config.auto # on
      <3>1. PICK taken \in BOOLEAN : Change([config EXCEPT !.auto = on], taken)
        BY <1>7, <2>2 DEF FlipSwitch, SetAutoMode
      <3>2. [config EXCEPT !.auto = on] \in Schedules
        BY <1>1, <1>7, SchedulesType
      <3>3. UNCHANGED <<known, node, acks, down, up>>
        BY <1>7 DEF FlipSwitch
      <3> QED
        BY <1>5, <3>1, <3>2, <3>3
    <2> QED
      BY <2>1, <2>2
  <1>8. CASE HubRestart \/ HubCrash
    <2>1. /\ down' = <<>> /\ up' = <<>> /\ known' = NoSchedule
      BY <1>8 DEF HubRestart, HubCrash, Boots
    <2>2. config' \in Schedules
      BY <1>2 DEF TypeOK
    <2>3. LastIsTrue'
      BY <2>1 DEF LastIsTrue
    <2> QED
      BY <2>1, <2>2, <2>3, Silence
  <1>9. CASE Login
    BY <1>4, <1>9 DEF Login
  <1>10. CASE \/ Flush \/ ConfirmSession \/ GiveUp \/ LoseMode \/ TakeMode \/ Button \/ OverrideEnds
              \/ UNCHANGED vars
    BY <1>4, <1>10 DEF Flush, ConfirmSession, GiveUp, LoseMode, TakeMode, Button, OverrideEnds, vars,
                      NodeTurns
  <1>11. ASSUME Attempt, UNCHANGED <<config, known, node, up, crossed>> PROVE Kept
    <2>1. LastIsTrue'
      BY <1>1, <1>11 DEF LastIsTrue
    <2> QED
      BY <1>11, <2>1, AttemptKeeps
  <1>12. CASE PushTimer
    <2>1. CASE live
      BY <1>11, <1>12, <2>1 DEF PushTimer
    <2>2. CASE ~live
      BY <1>4, <1>12, <2>2 DEF PushTimer
    <2> QED
      BY <2>1, <2>2
  <1>13. CASE Resend
    BY <1>11, <1>13 DEF Resend
  <1>14. CASE HearUplink
    BY <1>14, HeardKeeps
  <1>15. CASE LoseUplink \/ LosePush
    BY <1>4, <1>15 DEF LoseUplink, LosePush
  <1>16. CASE TakePush
    BY <1>16, TakePushKeeps
  <1>17. CASE Beacon
    BY <1>17, BeaconKeeps
  <1>18. CASE NodeReset
    BY <1>4, <1>18 DEF NodeReset
  <1> QED
    BY <1>6, <1>7, <1>8, <1>9, <1>10, <1>12, <1>13, <1>14, <1>15, <1>16, <1>17, <1>18 DEF Next

-----------------------------------------------------------------------------
(* The theorems *)

\* The inductive invariant: what ESPHome has in hand, what each id and each uplink
\* tells, and what can still reach the node.
THEOREM ScheduleInvHolds == Spec => []ScheduleInv
  BY ScheduleInit, ScheduleStep, PTL DEF Spec

\* schedule_pending: when the hub shows that nothing is pending, the node runs the
\* hub's schedule or has just lost its own, whatever was lost, answered late, reset
\* or restarted, and however the schedule was edited: only after an edit that goes
\* back across a push which is still unanswered may it be wrong, and then until the
\* next beacon that nothing follows.
THEOREM PendingIsTrueHolds == Spec => []PendingIsTrue
  <1>1. ScheduleInv => PendingIsTrue
    BY DEF ScheduleInv, KnowledgeKept, NodeCurrent, PendingIsTrue, Pending
  <1> QED
    BY <1>1, ScheduleInvHolds, PTL

\* save_schedule_ and restore_schedule_: what the user entered is given up only by an
\* edit, by a restart when the blob was not taken in hand, and by a crash before the
\* interval has written it.
THEOREM IntentIsKeptHolds == Spec => IntentIsKept
  <1>1. ScheduleInv /\ [Next]_vars => [IntentStep]_vars
    BY BlobsStep DEF ScheduleInv
  <1>2. [][IntentStep]_vars => IntentIsKept
    BY PTL DEF IntentStep, IntentIsKept
  <1> QED
    BY <1>1, <1>2, ScheduleInvHolds, PTL DEF Spec

-----------------------------------------------------------------------------
(* Days and weeks (Week) *)

LEMMA Least ==
  ASSUME NEW S, S \subseteq Nat, S # {}
  PROVE  \E m \in S : \A k \in S : m <= k
  <1> DEFINE R == OpToRel(<, Nat)
  <1>1. IsWellFoundedOn(R, Nat)
    BY NatLessThanWellFounded
  <1>2. \A x, y \in Nat : y < x => <<y, x>> \in R
    BY DEF OpToRel
  <1> HIDE DEF R
  <1>3. PICK m \in S : \A y \in S : ~(<<y, m>> \in R)
    BY <1>1, WFMin
  <1>4. \A k \in S : ~(k < m)
    BY <1>2, <1>3
  <1> QED
    BY <1>4

\* Integers bounded below have a least, integers bounded above a greatest.
LEMMA LeastInt ==
  ASSUME NEW S, S \subseteq Int, S # {}, NEW low \in Int, \A x \in S : low <= x
  PROVE  \E m \in S : \A k \in S : m <= k
  <1> DEFINE T == {x - low : x \in S}
  <1>1. T \subseteq Nat /\ T # {}
    <2>1. \A x \in S : x - low \in Nat
      OBVIOUS
    <2>2. PICK x \in S : TRUE
      OBVIOUS
    <2>3. x - low \in T
      BY <2>2
    <2> QED
      BY <2>1, <2>3
  <1>2. PICK m \in T : \A k \in T : m <= k
    BY <1>1, Least
  <1>3. PICK x \in S : m = x - low
    BY <1>2
  <1>4. ASSUME NEW y \in S PROVE x <= y
    <2>1. m <= y - low
      BY <1>2
    <2> QED
      BY <1>3, <2>1
  <1> QED
    BY <1>4

LEMMA GreatestInt ==
  ASSUME NEW S, S \subseteq Int, S # {}, NEW high \in Int, \A x \in S : x <= high
  PROVE  \E m \in S : \A k \in S : m >= k
  <1> DEFINE T == {high - x : x \in S}
  <1>1. T \subseteq Nat /\ T # {}
    <2>1. \A x \in S : high - x \in Nat
      OBVIOUS
    <2>2. PICK x \in S : TRUE
      OBVIOUS
    <2>3. high - x \in T
      BY <2>2
    <2> QED
      BY <2>1, <2>3
  <1>2. PICK m \in T : \A k \in T : m <= k
    BY <1>1, Least
  <1>3. PICK x \in S : m = high - x
    BY <1>2
  <1>4. ASSUME NEW y \in S PROVE x >= y
    <2>1. m <= high - y
      BY <1>2
    <2> QED
      BY <1>3, <2>1
  <1> QED
    BY <1>4

LEMMA MinIs ==
  ASSUME NEW S, S \subseteq Int, NEW m \in S, \A k \in S : m <= k
  PROVE  Min(S) = m
  <1> DEFINE x == Min(S)
  <1>1. x \in S /\ \A k \in S : x <= k
    BY DEF Min
  <1> HIDE DEF x
  <1>2. x <= m /\ m <= x /\ x \in Int /\ m \in Int
    BY <1>1
  <1>3. x = m
    BY <1>2
  <1> QED
    BY <1>3 DEF x

LEMMA MaxIs ==
  ASSUME NEW S, S \subseteq Int, NEW m \in S, \A k \in S : m >= k
  PROVE  Max(S) = m
  <1> DEFINE x == Max(S)
  <1>1. x \in S /\ \A k \in S : x >= k
    BY DEF Max
  <1> HIDE DEF x
  <1>2. x >= m /\ m >= x /\ x \in Int /\ m \in Int
    BY <1>1
  <1>3. x = m
    BY <1>2
  <1> QED
    BY <1>3 DEF x

LEMMA MultiplesGrow ==
  ASSUME NEW a \in Int, NEW b \in Int, a <= b, NEW p \in Nat
  PROVE  a * p \in Int /\ b * p \in Int /\ a * p <= b * p
  <1>1. (b - a) * p \in Nat
    OBVIOUS
  <1>2. b * p = a * p + (b - a) * p /\ a * p \in Int /\ b * p \in Int
    OBVIOUS
  <1> QED
    BY <1>1, <1>2

\* An integer has one quotient and one remainder.
LEMMA DivisionIsUnique ==
  ASSUME NEW n \in Nat \ {0}, NEW a \in Int, NEW b \in Int, NEW r \in 0 .. n - 1, NEW q \in 0 .. n - 1,
         a * n + r = b * n + q
  PROVE  a = b /\ r = q
  <1>1. a * n \in Int /\ b * n \in Int
    OBVIOUS
  <1>2. ~(a < b)
    <2> SUFFICES ASSUME a < b PROVE FALSE
      OBVIOUS
    <2>1. (a + 1) * n <= b * n
      BY MultiplesGrow
    <2>2. (a + 1) * n = a * n + n
      OBVIOUS
    <2> QED
      BY <1>1, <2>1, <2>2
  <1>3. ~(b < a)
    <2> SUFFICES ASSUME b < a PROVE FALSE
      OBVIOUS
    <2>1. (b + 1) * n <= a * n
      BY MultiplesGrow
    <2>2. (b + 1) * n = b * n + n
      OBVIOUS
    <2> QED
      BY <1>1, <2>1, <2>2
  <1> QED
    BY <1>1, <1>2, <1>3

LEMMA DivisionIs ==
  ASSUME NEW n \in Nat \ {0}, NEW a \in Int
  PROVE  a \div n \in Int /\ a % n \in 0 .. n - 1 /\ a = (a \div n) * n + (a % n)
  OBVIOUS

LEMMA QuotientIs ==
  ASSUME NEW n \in Nat \ {0}, NEW a \in Int, NEW r \in 0 .. n - 1
  PROVE  (a * n + r) \div n = a /\ (a * n + r) % n = r
  <1> DEFINE x == a * n + r
  <1>1. x \in Int
    OBVIOUS
  <1>2. x \div n \in Int /\ x % n \in 0 .. n - 1 /\ x = (x \div n) * n + (x % n)
    BY <1>1, DivisionIs
  <1>3. a * n + r = (x \div n) * n + (x % n)
    BY <1>2
  <1> HIDE DEF x
  <1>4. a = x \div n /\ r = x % n
    BY <1>2, <1>3, DivisionIsUnique
  <1> QED
    BY <1>4 DEF x

\* The local day of an instant, and the instant a local day begins.
DayOf(t) == (t + Tz) \div DayLen
Midnight(k) == k * DayLen - Tz

LEMMA DayIs ==
  ASSUME NEW t \in Int
  PROVE  /\ DayOf(t) \in Int /\ Midnight(DayOf(t)) \in Int /\ LocalMinute(t) \in 0 .. DayLen - 1
         /\ t = Midnight(DayOf(t)) + LocalMinute(t)
         /\ LocalMidnight(t) = Midnight(DayOf(t))
         /\ Weekday(t) = DayOf(t) % Weekdays
  <1>1. DayLen \in Nat \ {0} /\ Tz \in Int
    BY WeekAssumption
  <1>2. DayOf(t) \in Int /\ LocalMinute(t) \in 0 .. DayLen - 1
        /\ t + Tz = DayOf(t) * DayLen + LocalMinute(t)
    <2> DEFINE x == t + Tz
    <2>1. x \in Int
      BY <1>1
    <2> HIDE DEF x
    <2>2. x \div DayLen \in Int /\ x % DayLen \in 0 .. DayLen - 1 /\ x = (x \div DayLen) * DayLen + (x % DayLen)
      BY <1>1, <2>1, DivisionIs
    <2>3. DayOf(t) = x \div DayLen /\ LocalMinute(t) = x % DayLen
      BY DEF DayOf, LocalMinute, x
    <2>4. x = t + Tz
      BY DEF x
    <2> QED
      BY Zenon, <2>2, <2>3, <2>4
  <1>3. DayOf(t) * DayLen \in Int
    BY <1>1, <1>2
  <1>4. Midnight(DayOf(t)) = DayOf(t) * DayLen - Tz
    BY DEF Midnight
  <1>5. Weekday(t) = DayOf(t) % Weekdays /\ LocalMidnight(t) = t - LocalMinute(t)
    BY DEF Weekday, LocalMidnight, DayOf
  <1> QED
    BY <1>1, <1>2, <1>3, <1>4, <1>5

LEMMA InstantIs ==
  ASSUME NEW k \in Int, NEW r \in 0 .. DayLen - 1
  PROVE  /\ Midnight(k) \in Int
         /\ DayOf(Midnight(k) + r) = k /\ LocalMinute(Midnight(k) + r) = r
  <1>1. DayLen \in Nat \ {0} /\ Tz \in Int
    BY WeekAssumption
  <1>2. k * DayLen \in Int
    BY <1>1
  <1>3. Midnight(k) + r + Tz = k * DayLen + r /\ Midnight(k) \in Int
    BY <1>1, <1>2 DEF Midnight
  <1> QED
    BY <1>1, <1>3, QuotientIs DEF DayOf, LocalMinute

\* Later instants are of no earlier days.
LEMMA DaysGrow ==
  ASSUME NEW t \in Int, NEW u \in Int, t <= u
  PROVE  DayOf(t) <= DayOf(u)
  <1>1. DayLen \in Nat \ {0} /\ Tz \in Int
    BY WeekAssumption
  <1> DEFINE a == DayOf(t)
             b == DayOf(u)
  <1>2. /\ a \in Int /\ b \in Int /\ LocalMinute(t) \in 0 .. DayLen - 1 /\ LocalMinute(u) \in 0 .. DayLen - 1
        /\ t = a * DayLen - Tz + LocalMinute(t) /\ u = b * DayLen - Tz + LocalMinute(u)
    BY DayIs DEF Midnight
  <1> HIDE DEF a, b
  <1> SUFFICES ASSUME b < a PROVE FALSE
    BY <1>2 DEF a, b
  <1>3. (b + 1) * DayLen <= a * DayLen /\ (b + 1) * DayLen = b * DayLen + DayLen
        /\ a * DayLen \in Int /\ b * DayLen \in Int
    <2>1. b + 1 <= a
      BY <1>2
    <2> QED
      BY <1>1, <1>2, <2>1, MultiplesGrow
  <1> QED
    BY <1>1, <1>2, <1>3

\* A whole number of days later the time of day is the same.
LEMMA DaysLater ==
  ASSUME NEW t \in Int, NEW c \in Int
  PROVE  DayOf(t + c * DayLen) = DayOf(t) + c /\ LocalMinute(t + c * DayLen) = LocalMinute(t)
  <1>1. DayLen \in Nat \ {0} /\ Tz \in Int
    BY WeekAssumption
  <1> DEFINE k == DayOf(t)
             r == LocalMinute(t)
  <1>2. k \in Int /\ r \in 0 .. DayLen - 1 /\ t = k * DayLen - Tz + r
    BY DayIs DEF Midnight
  <1> HIDE DEF k, r
  <1>3. (k + c) * DayLen = k * DayLen + c * DayLen /\ k * DayLen \in Int /\ c * DayLen \in Int
    BY <1>1, <1>2
  <1>4. t + c * DayLen = Midnight(k + c) + r
    BY <1>1, <1>2, <1>3 DEF Midnight
  <1>5. k + c \in Int
    BY <1>2
  <1>6. DayOf(t + c * DayLen) = k + c /\ LocalMinute(t + c * DayLen) = r
    BY <1>2, <1>4, <1>5, InstantIs
  <1> QED
    BY <1>6 DEF k, r

\* Instants of one week and the next fall on the same weekdays.
LEMMA WeekLater ==
  ASSUME NEW t \in Int, NEW c \in Int
  PROVE  /\ LocalMinute(t + c * (Weekdays * DayLen)) = LocalMinute(t)
         /\ Weekday(t + c * (Weekdays * DayLen)) = Weekday(t)
  <1>1. DayLen \in Nat \ {0} /\ Weekdays \in Nat \ {0}
    BY WeekAssumption
  <1> DEFINE u == t + c * (Weekdays * DayLen)
             k == DayOf(t)
             q == k \div Weekdays
             r == k % Weekdays
  <1>2. k \in Int
    BY DayIs
  <1> HIDE DEF k
  <1>3. q \in Int /\ r \in 0 .. Weekdays - 1 /\ k = q * Weekdays + r
    BY <1>1, <1>2, DivisionIs
  <1> HIDE DEF q, r
  <1>4. c * Weekdays \in Int /\ q * Weekdays \in Int /\ c * (Weekdays * DayLen) = (c * Weekdays) * DayLen
    BY <1>1, <1>3
  <1>5. DayOf(u) = k + c * Weekdays /\ LocalMinute(u) = LocalMinute(t) /\ u \in Int
    <2>1. u = t + (c * Weekdays) * DayLen
      BY <1>4
    <2>2. (c * Weekdays) * DayLen \in Int
      BY <1>1, <1>4
    <2> QED
      BY <1>4, <2>1, <2>2, DaysLater DEF k
  <1>6. (q + c) * Weekdays = q * Weekdays + c * Weekdays /\ q + c \in Int
    BY <1>1, <1>3
  <1>7. k + c * Weekdays = (q + c) * Weekdays + r
    BY <1>3, <1>4, <1>6
  <1>8. ((q + c) * Weekdays + r) % Weekdays = r
    BY <1>1, <1>3, <1>6, QuotientIs
  <1> HIDE DEF u
  <1>9. Weekday(u) = r
    BY <1>5, <1>7, <1>8, DayIs
  <1>10. Weekday(t) = r
    BY DayIs DEF k, r
  <1> QED
    BY <1>5, <1>9, <1>10 DEF u

-----------------------------------------------------------------------------
(* What the searches find (Week) *)

\* The slots that fire at an instant.
FiresAt(tab, t) ==
  {i \in DOMAIN tab : Valid(tab[i]) /\ tab[i].minute = LocalMinute(t) /\ Weekday(t) \in tab[i].days}

LEMMA FiresOnAre ==
  ASSUME NEW tab \in Seq(Entries), NEW k \in Int, NEW f \in FiresOn(tab, Midnight(k))
  PROVE  /\ f.at \in Int /\ DayOf(f.at) = k /\ f.which \in FiresAt(tab, f.at)
         /\ f = [at |-> f.at, which |-> f.which]
  <1>1. DayLen \in Nat \ {0}
    BY WeekAssumption
  <1>2. PICK i \in DOMAIN tab : /\ f = [at |-> Midnight(k) + tab[i].minute, which |-> i]
                               /\ Valid(tab[i]) /\ Weekday(Midnight(k)) \in tab[i].days
    BY DEF FiresOn
  <1> DEFINE r == tab[i].minute
  <1>3. r \in 0 .. DayLen - 1
    <2>1. tab[i] \in Entries
      OBVIOUS
    <2>2. r \in Nat /\ r < DayLen
      BY <1>2, <2>1 DEF Entries, Valid
    <2> QED
      BY <1>1, <2>2
  <1> HIDE DEF r
  <1>4. Midnight(k) \in Int /\ DayOf(Midnight(k) + r) = k /\ LocalMinute(Midnight(k) + r) = r
    BY <1>3, InstantIs
  <1>5. Midnight(k) + r \in Int
    BY <1>3, <1>4
  <1>6. Weekday(Midnight(k) + r) = Weekday(Midnight(k))
    <2>1. 0 \in 0 .. DayLen - 1 /\ Midnight(k) + 0 = Midnight(k)
      BY <1>1, <1>4
    <2>2. DayOf(Midnight(k)) = k
      BY <2>1, InstantIs
    <2> QED
      BY <1>4, <1>5, <2>2, DayIs
  <1>7. f = [at |-> Midnight(k) + r, which |-> i]
    BY <1>2 DEF r
  <1>8. f.at = Midnight(k) + r /\ f.which = i
    BY <1>7
  <1>9. i \in FiresAt(tab, f.at)
    BY <1>2, <1>4, <1>6, <1>8 DEF FiresAt, r
  <1> QED
    BY <1>4, <1>5, <1>7, <1>8, <1>9

LEMMA FiresOnHas ==
  ASSUME NEW tab \in Seq(Entries), NEW t \in Int, NEW i \in FiresAt(tab, t)
  PROVE  [at |-> t, which |-> i] \in FiresOn(tab, Midnight(DayOf(t)))
  <1>1. DayLen \in Nat \ {0}
    BY WeekAssumption
  <1> DEFINE m == Midnight(DayOf(t))
  <1>2. i \in DOMAIN tab /\ Valid(tab[i]) /\ tab[i].minute = LocalMinute(t) /\ Weekday(t) \in tab[i].days
    BY DEF FiresAt
  <1>3. t = m + LocalMinute(t) /\ m \in Int /\ DayOf(t) \in Int
    BY DayIs
  <1>4. Weekday(t) = Weekday(m)
    <2>1. 0 \in 0 .. DayLen - 1 /\ m + 0 = m
      BY <1>1, <1>3
    <2>2. DayOf(m) = DayOf(t)
      BY <1>3, <2>1, InstantIs
    <2> QED
      BY <1>3, <2>2, DayIs
  <1>5. [at |-> t, which |-> i] = [at |-> m + tab[i].minute, which |-> i]
    BY <1>2, <1>3
  <1> HIDE DEF m
  <1> QED
    BY <1>2, <1>4, <1>5 DEF FiresOn, m

\* The day the search is at is the day so many days on.
LEMMA DayAhead ==
  ASSUME NEW t \in Int, NEW d \in Int
  PROVE  LocalMidnight(t) + d * DayLen = Midnight(DayOf(t) + d)
  <1>1. DayLen \in Nat \ {0} /\ Tz \in Int
    BY WeekAssumption
  <1>2. DayOf(t) \in Int /\ LocalMidnight(t) = DayOf(t) * DayLen - Tz
    BY DayIs DEF Midnight
  <1> DEFINE k == DayOf(t)
  <1> HIDE DEF k
  <1>3. (k + d) * DayLen = k * DayLen + d * DayLen /\ k * DayLen \in Int /\ d * DayLen \in Int
    BY <1>1, <1>2 DEF k
  <1> QED
    BY <1>1, <1>2, <1>3 DEF Midnight, k

\* The first of the instants a set of occurrences has, and of those the first slot.
LEMMA EarliestIs ==
  ASSUME NEW S, S # {}, NEW low \in Int,
         \A f \in S : f.at \in Int /\ low <= f.at /\ f.which \in Nat
  PROVE  LET tie == {f \in S : \A g \in S : f.at <= g.at}
         IN  \E f \in tie : \A g \in tie : f.which <= g.which
  <1> DEFINE tie == {f \in S : \A g \in S : f.at <= g.at}
             instants == {f.at : f \in S}
             order == {f.which : f \in tie}
  <1>1. instants \subseteq Int /\ instants # {} /\ \A x \in instants : low <= x
    OBVIOUS
  <1>2. PICK x \in instants : \A y \in instants : x <= y
    <2> HIDE DEF instants
    <2> QED
      BY <1>1, LeastInt
  <1>3. PICK f \in S : f.at = x
    BY <1>2
  <1>4. f \in tie
    BY <1>2, <1>3
  <1>5. order \subseteq Nat /\ order # {}
    BY <1>4
  <1>6. PICK w \in order : \A v \in order : w <= v
    <2> HIDE DEF order
    <2> QED
      BY <1>5, Least
  <1>7. PICK g \in tie : g.which = w
    BY <1>6
  <1>8. \A e \in tie : g.which <= e.which
    BY <1>6, <1>7
  <1> HIDE DEF tie
  <1>9. \E e \in tie : \A h \in tie : e.which <= h.which
    BY <1>7, <1>8
  <1> QED
    BY <1>9 DEF tie

\* next_occurrence: the first firing after now within the days searched, and of its slots the
\* first; none if there is no such firing.
LEMMA NextIs ==
  ASSUME NEW tab \in Seq(Entries), NEW n \in Int
  PROVE  LET o == NextOccurrence(tab, n)
             within(t) == DayOf(t) - DayOf(n) \in 0 .. SearchDays - 1
         IN  \/ /\ o = None
                /\ \A t \in Int : t > n /\ within(t) => FiresAt(tab, t) = {}
             \/ /\ o.at \in Int /\ o.at > n /\ within(o.at) /\ o.which \in FiresAt(tab, o.at)
                /\ \A i \in FiresAt(tab, o.at) : o.which <= i
                /\ \A t \in Int : n < t /\ t < o.at => FiresAt(tab, t) = {}
  <1> DEFINE after(day) == {f \in FiresOn(tab, LocalMidnight(n) + day * DayLen) : f.at > n}
             days == {d \in 0 .. SearchDays - 1 : after(d) # {}}
             o == NextOccurrence(tab, n)
             within(t) == DayOf(t) - DayOf(n) \in 0 .. SearchDays - 1
  <1>1. SearchDays \in Nat /\ DayOf(n) \in Int
    BY WeekAssumption, DayIs
  <1>2. \A d \in Int : after(d) = {f \in FiresOn(tab, Midnight(DayOf(n) + d)) : f.at > n}
    BY DayAhead
  <1>3. ASSUME NEW d \in Int, NEW f \in after(d)
        PROVE  /\ f.at \in Int /\ f.at > n /\ DayOf(f.at) = DayOf(n) + d
               /\ f.which \in FiresAt(tab, f.at) /\ f.which \in Nat
    <2>1. DayOf(n) + d \in Int /\ f \in FiresOn(tab, Midnight(DayOf(n) + d)) /\ f.at > n
      BY <1>1, <1>2
    <2>2. f.at \in Int /\ DayOf(f.at) = DayOf(n) + d /\ f.which \in FiresAt(tab, f.at)
      BY <2>1, FiresOnAre
    <2>3. f.which \in Nat
      <3>1. f.which \in DOMAIN tab
        BY <2>2 DEF FiresAt
      <3> QED
        BY <3>1
    <2> QED
      BY <2>1, <2>2, <2>3
  <1>4. ASSUME NEW t \in Int, t > n, within(t), NEW i \in FiresAt(tab, t)
        PROVE  DayOf(t) - DayOf(n) \in days /\ [at |-> t, which |-> i] \in after(DayOf(t) - DayOf(n))
    <2> DEFINE d == DayOf(t) - DayOf(n)
    <2>1. d \in 0 .. SearchDays - 1 /\ DayOf(t) \in Int
      BY <1>4, DayIs
    <2>2. DayOf(n) + d = DayOf(t) /\ d \in Int
      BY <1>1, <2>1
    <2>3. [at |-> t, which |-> i] \in FiresOn(tab, Midnight(DayOf(t)))
      BY FiresOnHas
    <2> HIDE DEF d
    <2>4. [at |-> t, which |-> i] \in after(d)
      BY <1>2, <1>4, <2>2, <2>3
    <2> HIDE DEF after
    <2>5. d \in days
      BY <2>1, <2>4
    <2> QED
      BY <2>4, <2>5 DEF d
  <1>5. CASE days = {}
    <2>1. o = None
      BY <1>5 DEF NextOccurrence
    <2> HIDE DEF days, after
    <2>2. \A t \in Int : t > n /\ within(t) => FiresAt(tab, t) = {}
      BY <1>4, <1>5
    <2> QED
      BY <2>1, <2>2
  <1>6. CASE days # {}
    <2> DEFINE first == Min(days)
               best == after(first)
               tie == {f \in best : \A g \in best : f.at <= g.at}
    <2>1. first \in days /\ \A d \in days : first <= d
      <3>1. days \subseteq Nat /\ days \subseteq Int
        OBVIOUS
      <3> HIDE DEF days
      <3>2. PICK m \in days : \A d \in days : m <= d
        BY <1>6, <3>1, Least
      <3>3. Min(days) = m
        BY <3>1, <3>2, MinIs
      <3> QED
        BY <3>2, <3>3
    <2>2. first \in 0 .. SearchDays - 1 /\ first \in Int /\ best # {}
      BY <1>1, <2>1
    <2>3. o = CHOOSE f \in tie : \A g \in tie : f.which <= g.which
      BY <1>6 DEF NextOccurrence
    <2> HIDE DEF days, first, o
    <2>4. \A f \in best : f.at \in Int /\ n <= f.at /\ f.which \in Nat
      BY <1>3, <2>2
    <2>5. \E f \in tie : \A g \in tie : f.which <= g.which
      <3> HIDE DEF best
      <3> QED
        BY <2>2, <2>4, EarliestIs
    <2>6. o \in tie /\ \A g \in tie : o.which <= g.which
      <3> HIDE DEF tie
      <3> QED
        BY <2>3, <2>5
    <2>7. o \in best /\ \A g \in best : o.at <= g.at
      BY <2>6
    <2>8. o.at \in Int /\ o.at > n /\ DayOf(o.at) = DayOf(n) + first /\ o.which \in FiresAt(tab, o.at)
      BY <1>3, <2>2, <2>7
    <2>9. within(o.at)
      BY <1>1, <2>2, <2>8
    <2>10. ASSUME NEW i \in FiresAt(tab, o.at) PROVE o.which <= i
      <3> DEFINE g == [at |-> o.at, which |-> i]
      <3>1. DayOf(o.at) - DayOf(n) = first
        BY <1>1, <2>2, <2>8
      <3>2. g \in best
        BY <1>4, <2>8, <2>9, <3>1
      <3>3. g.at = o.at /\ g.which = i
        OBVIOUS
      <3> HIDE DEF g, best
      <3>4. g \in tie
        BY <2>7, <3>2, <3>3
      <3> QED
        BY <2>6, <3>3, <3>4
    <2>11. ASSUME NEW t \in Int, n < t, t < o.at PROVE FiresAt(tab, t) = {}
      <3> SUFFICES ASSUME NEW i \in FiresAt(tab, t) PROVE FALSE
        OBVIOUS
      <3>1. DayOf(n) <= DayOf(t) /\ DayOf(t) \in Int
        <4>1. n <= t
          BY <2>11
        <4> QED
          BY <4>1, DaysGrow, DayIs
      <3>2. DayOf(t) <= DayOf(o.at)
        <4>1. t <= o.at /\ o.at \in Int
          BY <2>8, <2>11
        <4> QED
          BY <4>1, DaysGrow
      <3> DEFINE d == DayOf(t) - DayOf(n)
      <3>3. d \in 0 .. SearchDays - 1 /\ d <= first
        BY <1>1, <2>2, <2>8, <3>1, <3>2
      <3>4. d \in days /\ [at |-> t, which |-> i] \in after(d)
        BY <1>4, <2>11, <3>3
      <3> HIDE DEF d
      <3>5. d = first
        BY <2>1, <2>2, <3>3, <3>4
      <3> DEFINE g == [at |-> t, which |-> i]
      <3>6. g \in best /\ g.at = t
        BY <3>4, <3>5
      <3> HIDE DEF g, best
      <3> QED
        BY <2>7, <2>8, <2>11, <3>6
    <2>12. o = NextOccurrence(tab, n)
      BY DEF o
    <2> HIDE DEF tie, best, after
    <2> QED
      BY <2>8, <2>9, <2>10, <2>11, <2>12
  <1> QED
    BY <1>5, <1>6

\* The last of the instants a set of occurrences has, and of those the last slot.
LEMMA LatestIs ==
  ASSUME NEW S, S # {}, NEW high \in Int, NEW most \in Int,
         \A f \in S : f.at \in Int /\ f.at <= high /\ f.which \in Int /\ f.which <= most
  PROVE  LET tie == {f \in S : \A g \in S : f.at >= g.at}
         IN  \E f \in tie : \A g \in tie : f.which >= g.which
  <1> DEFINE tie == {f \in S : \A g \in S : f.at >= g.at}
             instants == {f.at : f \in S}
             order == {f.which : f \in tie}
  <1>1. instants \subseteq Int /\ instants # {} /\ \A x \in instants : x <= high
    OBVIOUS
  <1>2. PICK x \in instants : \A y \in instants : x >= y
    <2> HIDE DEF instants
    <2> QED
      BY <1>1, GreatestInt
  <1>3. PICK f \in S : f.at = x
    BY <1>2
  <1>4. f \in tie
    BY <1>2, <1>3
  <1>5. order \subseteq Int /\ order # {} /\ \A x1 \in order : x1 <= most
    BY <1>4
  <1>6. PICK w \in order : \A v \in order : w >= v
    <2> HIDE DEF order
    <2> QED
      BY <1>5, GreatestInt
  <1>7. PICK g \in tie : g.which = w
    BY <1>6
  <1>8. \A e \in tie : g.which >= e.which
    BY <1>6, <1>7
  <1> HIDE DEF tie
  <1>9. \E e \in tie : \A h \in tie : e.which >= h.which
    BY <1>7, <1>8
  <1> QED
    BY <1>9 DEF tie

\* The last day the search for missed slots looks at is the day it ends on, or a later one.
LEMMA DaysBetween ==
  ASSUME NEW from \in Int, NEW to \in Int
  PROVE  (to - LocalMidnight(from)) \div DayLen = DayOf(to) - DayOf(from)
  <1>1. DayLen \in Nat \ {0} /\ Tz \in Int
    BY WeekAssumption
  <1> DEFINE k == DayOf(from)
             l == DayOf(to)
             r == LocalMinute(to)
  <1>2. k \in Int /\ l \in Int /\ r \in 0 .. DayLen - 1
    BY DayIs
  <1>3. LocalMidnight(from) = k * DayLen - Tz /\ to = l * DayLen - Tz + r
    BY DayIs DEF Midnight
  <1> HIDE DEF k, l, r
  <1>4. (l - k) * DayLen = l * DayLen - k * DayLen /\ k * DayLen \in Int /\ l * DayLen \in Int /\ l - k \in Int
    BY <1>1, <1>2
  <1>5. to - LocalMidnight(from) = (l - k) * DayLen + r
    BY <1>1, <1>2, <1>3, <1>4
  <1>6. ((l - k) * DayLen + r) \div DayLen = l - k
    BY <1>1, <1>2, <1>4, QuotientIs
  <1> QED
    BY <1>5, <1>6 DEF k, l

\* last_missed: the last firing in (from, to], and of its slots the last; none if there is none.
LEMMA LastIs ==
  ASSUME NEW tab \in Seq(Entries), NEW from \in Int, NEW to \in Int
  PROVE  LET o == LastMissed(tab, from, to)
         IN  \/ /\ o = None
                /\ \A t \in Int : from < t /\ t <= to => FiresAt(tab, t) = {}
             \/ /\ o.at \in Int /\ from < o.at /\ o.at <= to /\ o.which \in FiresAt(tab, o.at)
                /\ \A i \in FiresAt(tab, o.at) : o.which >= i
                /\ \A t \in Int : o.at < t /\ t <= to => FiresAt(tab, t) = {}
  <1> DEFINE first == LocalMidnight(from)
             span == 0 .. ((to - first) \div DayLen + 1)
             fires == UNION {FiresOn(tab, first + d * DayLen) : d \in span}
             missed == {f \in fires : from < f.at /\ f.at <= to}
             o == LastMissed(tab, from, to)
  <1>1. DayOf(from) \in Int /\ DayOf(to) \in Int
    BY DayIs
  <1>2. span = 0 .. (DayOf(to) - DayOf(from) + 1)
    BY DaysBetween
  <1> HIDE DEF span
  <1>3. ASSUME NEW f \in missed
        PROVE  /\ f.at \in Int /\ from < f.at /\ f.at <= to
               /\ f.which \in FiresAt(tab, f.at) /\ f.which \in Int /\ f.which <= Len(tab)
    <2>1. PICK d \in span : f \in FiresOn(tab, first + d * DayLen)
      OBVIOUS
    <2>2. d \in Int /\ DayOf(from) + d \in Int
      BY <1>1, <1>2, <2>1
    <2>3. f \in FiresOn(tab, Midnight(DayOf(from) + d))
      BY <2>1, <2>2, DayAhead
    <2>4. f.at \in Int /\ f.which \in FiresAt(tab, f.at)
      BY <2>2, <2>3, FiresOnAre
    <2>5. f.which \in DOMAIN tab
      BY <2>4 DEF FiresAt
    <2> QED
      BY <2>4, <2>5
  <1>4. ASSUME NEW t \in Int, from < t, t <= to, NEW i \in FiresAt(tab, t)
        PROVE  [at |-> t, which |-> i] \in missed
    <2> DEFINE d == DayOf(t) - DayOf(from)
               f == [at |-> t, which |-> i]
    <2>1. DayOf(t) \in Int /\ DayOf(from) <= DayOf(t) /\ DayOf(t) <= DayOf(to)
      <3>1. from <= t
        BY <1>4
      <3> QED
        BY <1>4, <3>1, DayIs, DaysGrow
    <2>2. d \in span /\ d \in Int /\ DayOf(from) + d = DayOf(t)
      BY <1>1, <1>2, <2>1
    <2>3. f \in FiresOn(tab, Midnight(DayOf(t)))
      BY FiresOnHas
    <2> HIDE DEF d, f
    <2>4. f \in FiresOn(tab, first + d * DayLen)
      BY <2>2, <2>3, DayAhead
    <2>5. f \in fires
      BY <2>2, <2>4
    <2>6. f.at = t
      BY DEF f
    <2> QED
      BY <1>4, <2>5, <2>6 DEF f
  <1>5. CASE to <= from \/ missed = {}
    <2>1. o = None
      BY <1>5 DEF LastMissed, span
    <2>2. ASSUME NEW t \in Int, from < t, t <= to PROVE FiresAt(tab, t) = {}
      <3>1. missed = {}
        BY <1>5, <2>2
      <3> HIDE DEF missed
      <3> QED
        BY <1>4, <2>2, <3>1
    <2> QED
      BY <2>1, <2>2
  <1>6. CASE ~(to <= from \/ missed = {})
    <2> DEFINE tie == {f \in missed : \A g \in missed : f.at >= g.at}
    <2>1. o = CHOOSE f \in tie : \A g \in tie : f.which >= g.which
      BY <1>6 DEF LastMissed, span
    <2> HIDE DEF o
    <2>2. \E f \in tie : \A g \in tie : f.which >= g.which
      <3>1. missed # {} /\ Len(tab) \in Int
        BY <1>6
      <3>2. \A f \in missed : f.at \in Int /\ f.at <= to /\ f.which \in Int /\ f.which <= Len(tab)
        BY <1>3
      <3> HIDE DEF missed
      <3> QED
        BY <3>1, <3>2, LatestIs
    <2>3. o \in tie /\ \A g \in tie : o.which >= g.which
      <3> HIDE DEF tie
      <3> QED
        BY <2>1, <2>2
    <2>4. o \in missed /\ \A g \in missed : o.at >= g.at
      BY <2>3
    <2>5. o.at \in Int /\ from < o.at /\ o.at <= to /\ o.which \in FiresAt(tab, o.at)
      BY <1>3, <2>4
    <2>6. ASSUME NEW i \in FiresAt(tab, o.at) PROVE o.which >= i
      <3> DEFINE g == [at |-> o.at, which |-> i]
      <3>1. g \in missed
        BY <1>4, <2>5
      <3>2. g.at = o.at /\ g.which = i
        OBVIOUS
      <3> HIDE DEF g, missed
      <3>3. g \in tie
        BY <2>4, <3>1, <3>2
      <3> QED
        BY <2>3, <3>2, <3>3
    <2>7. ASSUME NEW t \in Int, o.at < t, t <= to PROVE FiresAt(tab, t) = {}
      <3> SUFFICES ASSUME NEW i \in FiresAt(tab, t) PROVE FALSE
        OBVIOUS
      <3> DEFINE g == [at |-> t, which |-> i]
      <3>1. from < t
        BY <2>5, <2>7
      <3>2. g \in missed /\ g.at = t
        BY <1>4, <2>7, <3>1
      <3> HIDE DEF g, missed
      <3> QED
        BY <2>4, <2>5, <2>7, <3>2
    <2>8. o = LastMissed(tab, from, to)
      BY DEF o
    <2> HIDE DEF tie, missed
    <2> QED
      BY <2>5, <2>6, <2>7, <2>8
  <1> QED
    BY <1>5, <1>6

LEMMA SameNextWeek ==
  ASSUME NEW tab, NEW t \in Int, NEW c \in Int
  PROVE  FiresAt(tab, t + c * (Weekdays * DayLen)) = FiresAt(tab, t)
  BY WeekLater DEF FiresAt

LEMMA WeekIs == Weekdays * DayLen \in Nat \ {0}
  <1>1. Weekdays \in Nat \ {0} /\ DayLen \in Nat \ {0}
    BY WeekAssumption
  <1>2. 1 * DayLen <= Weekdays * DayLen /\ Weekdays * DayLen \in Int
    BY <1>1, MultiplesGrow
  <1> QED
    BY <1>1, <1>2

\* When more days than a week are searched, next_occurrence finds the first firing there is, and
\* it is at most a week ahead.
LEMMA FirstIs ==
  ASSUME SearchDays > Weekdays, NEW tab \in Seq(Entries), NEW n \in Int
  PROVE  LET o == NextOccurrence(tab, n)
         IN  \/ /\ o = None
                /\ \A t \in Int : t > n => FiresAt(tab, t) = {}
             \/ /\ o.at \in Int /\ o.at > n /\ o.at <= n + Weekdays * DayLen /\ o.which \in FiresAt(tab, o.at)
                /\ \A i \in FiresAt(tab, o.at) : o.which <= i
                /\ \A t \in Int : n < t /\ t < o.at => FiresAt(tab, t) = {}
  <1> DEFINE o == NextOccurrence(tab, n)
             within(t) == DayOf(t) - DayOf(n) \in 0 .. SearchDays - 1
             week == Weekdays * DayLen
  <1>1. week \in Nat \ {0} /\ Weekdays \in Nat /\ SearchDays \in Nat /\ DayOf(n) \in Int
    BY WeekIs, WeekAssumption, DayIs
  <1>2. \/ o = None /\ \A t \in Int : t > n /\ within(t) => FiresAt(tab, t) = {}
        \/ /\ o.at \in Int /\ o.at > n /\ within(o.at) /\ o.which \in FiresAt(tab, o.at)
           /\ \A i \in FiresAt(tab, o.at) : o.which <= i
           /\ \A t \in Int : n < t /\ t < o.at => FiresAt(tab, t) = {}
    BY NextIs
  <1>3. \A t \in Int, c \in Int : FiresAt(tab, t + c * week) = FiresAt(tab, t)
    BY SameNextWeek
  <1>4. DayOf(n + week) = DayOf(n) + Weekdays
    BY <1>1, DaysLater
  <1> HIDE DEF week, o
  <1>5. CASE o = None /\ \A t \in Int : t > n /\ within(t) => FiresAt(tab, t) = {}
    <2>1. ASSUME NEW t \in Int, t > n PROVE FiresAt(tab, t) = {}
      <3> DEFINE x == t - n - 1
                 q == x \div week
                 r == x % week
                 u == n + 1 + r
      <3>1. x \in Int
        OBVIOUS
      <3>2. q \in Int /\ r \in 0 .. week - 1 /\ x = q * week + r
        <4> HIDE DEF x
        <4> QED
          BY <1>1, <3>1, DivisionIs
      <3>3. q * week \in Int /\ (-q) * week = -(q * week) /\ -q \in Int
        <4> HIDE DEF q
        <4> QED
          BY <1>1, <3>2
      <3>4. t = q * week + r + n + 1
        <4> HIDE DEF q, r
        <4> QED
          BY <3>2, <3>3
      <3> HIDE DEF q, r, x
      <3>5. u = t + (-q) * week /\ u \in Int /\ n < u /\ n <= u /\ u <= n + week /\ n + week \in Int
        BY <1>1, <3>2, <3>3, <3>4
      <3> HIDE DEF u
      <3>6. FiresAt(tab, u) = FiresAt(tab, t)
        BY <1>3, <3>3, <3>5
      <3>7. DayOf(n) <= DayOf(u) /\ DayOf(u) <= DayOf(n) + Weekdays /\ DayOf(u) \in Int
        BY <1>4, <3>5, DaysGrow, DayIs
      <3>8. within(u)
        BY <1>1, <3>7
      <3> QED
        BY <1>5, <3>5, <3>6, <3>8
    <2> HIDE DEF within
    <2> QED
      BY <1>5, <2>1 DEF o
  <1>6. CASE /\ o.at \in Int /\ o.at > n /\ within(o.at) /\ o.which \in FiresAt(tab, o.at)
             /\ \A i \in FiresAt(tab, o.at) : o.which <= i
             /\ \A t \in Int : n < t /\ t < o.at => FiresAt(tab, t) = {}
    <2>1. o.at <= n + week
      <3> SUFFICES ASSUME o.at > n + week PROVE FALSE
        BY <1>1, <1>6
      <3> DEFINE u == o.at + (-1) * week
      <3>1. u \in Int /\ n < u /\ u < o.at
        BY <1>1, <1>6
      <3>2. FiresAt(tab, u) = FiresAt(tab, o.at)
        BY <1>3, <1>6
      <3> HIDE DEF u
      <3> QED
        BY <1>6, <3>1, <3>2
    <2> HIDE DEF within
    <2> QED
      BY <1>6, <2>1 DEF o, week
  <1> QED
    BY <1>2, <1>5, <1>6

LEMMA SearchesFind ==
  ASSUME SearchDays > Weekdays, table \in Seq(Entries), now \in Nat, sleeper.down \in Nat, lastHeard \in Nat
  PROVE  ScheduleSearchIsExact
  <1> DEFINE fires(t, i) == Valid(table[i]) /\ table[i].minute = LocalMinute(t) /\ Weekday(t) \in table[i].days
             at(t) == {i \in DOMAIN table : fires(t, i)}
             ahead == {t \in (now + 1) .. (now + Weekdays * DayLen) : at(t) # {}}
             past(from) == {t \in (from + 1) .. now : at(t) # {}}
             is(o, times, t, i) == IF times = {} THEN o = None ELSE o.at = t /\ o.which = i
  <1>1. \A t : at(t) = FiresAt(table, t) /\ FiresAt(table, t) \subseteq Int
    BY DEF FiresAt
  <1>2. Weekdays * DayLen \in Nat
    BY WeekIs
  <1> HIDE DEF at
  <1>3. is(NextOccurrence(table, now), ahead, Min(ahead), Min(at(Min(ahead))))
    <2> DEFINE o == NextOccurrence(table, now)
    <2>1. \/ o = None /\ \A t \in Int : t > now => FiresAt(table, t) = {}
          \/ /\ o.at \in Int /\ o.at > now /\ o.at <= now + Weekdays * DayLen /\ o.which \in FiresAt(table, o.at)
             /\ \A i \in FiresAt(table, o.at) : o.which <= i
             /\ \A t \in Int : now < t /\ t < o.at => FiresAt(table, t) = {}
      BY FirstIs
    <2> HIDE DEF o
    <2>2. CASE o = None /\ \A t \in Int : t > now => FiresAt(table, t) = {}
      <3>1. ahead = {}
        BY <1>1, <1>2, <2>2
      <3> QED
        BY <2>2, <3>1 DEF o
    <2>3. CASE /\ o.at \in Int /\ o.at > now /\ o.at <= now + Weekdays * DayLen /\ o.which \in FiresAt(table, o.at)
               /\ \A i \in FiresAt(table, o.at) : o.which <= i
               /\ \A t \in Int : now < t /\ t < o.at => FiresAt(table, t) = {}
      <3>1. o.at \in ahead /\ ahead \subseteq Int
        BY <1>1, <1>2, <2>3
      <3>2. \A t \in ahead : o.at <= t
        BY <1>1, <1>2, <2>3
      <3> HIDE DEF ahead
      <3>3. Min(ahead) = o.at
        BY <3>1, <3>2, MinIs
      <3>4. Min(at(o.at)) = o.which
        BY <1>1, <2>3, MinIs
      <3>5. ahead # {}
        BY <3>1
      <3> QED
        BY <3>3, <3>4, <3>5 DEF o
    <2> QED
      BY <2>1, <2>2, <2>3
  <1>4. ASSUME NEW from \in {sleeper.down, lastHeard}
        PROVE  is(LastMissed(table, from, now), past(from), Max(past(from)), Max(at(Max(past(from)))))
    <2> DEFINE o == LastMissed(table, from, now)
               times == past(from)
    <2>1. from \in Int /\ now \in Int
      OBVIOUS
    <2>2. \/ o = None /\ \A t \in Int : from < t /\ t <= now => FiresAt(table, t) = {}
          \/ /\ o.at \in Int /\ from < o.at /\ o.at <= now /\ o.which \in FiresAt(table, o.at)
             /\ \A i \in FiresAt(table, o.at) : o.which >= i
             /\ \A t \in Int : o.at < t /\ t <= now => FiresAt(table, t) = {}
      BY <2>1, LastIs
    <2> HIDE DEF o
    <2>3. CASE o = None /\ \A t \in Int : from < t /\ t <= now => FiresAt(table, t) = {}
      <3>1. times = {}
        BY <1>1, <2>1, <2>3
      <3> QED
        BY <2>3, <3>1 DEF o
    <2>4. CASE /\ o.at \in Int /\ from < o.at /\ o.at <= now /\ o.which \in FiresAt(table, o.at)
               /\ \A i \in FiresAt(table, o.at) : o.which >= i
               /\ \A t \in Int : o.at < t /\ t <= now => FiresAt(table, t) = {}
      <3>1. o.at \in times /\ times \subseteq Int
        BY <1>1, <2>1, <2>4
      <3>2. \A t \in times : o.at >= t
        BY <1>1, <2>1, <2>4
      <3> HIDE DEF times
      <3>3. Max(times) = o.at
        BY <3>1, <3>2, MaxIs
      <3>4. Max(at(o.at)) = o.which
        BY <1>1, <2>4, MaxIs
      <3>5. times # {}
        BY <3>1
      <3>6. is(o, times, Max(times), Max(at(Max(times))))
        BY <3>3, <3>4, <3>5
      <3> QED
        BY <3>6 DEF o, times
    <2> QED
      BY <2>2, <2>3, <2>4
  <1> QED
    BY <1>3, <1>4 DEF ScheduleSearchIsExact, at

-----------------------------------------------------------------------------
(* The wake plans of the hub and of the node (WakePlan) *)

Beliefs ==
  [now : Nat, clock : BOOLEAN, table : Seq(Entries), auto : BOOLEAN, sleep : Nat,
   heard : Nat, beacon : Nat, mode : BOOLEAN, unconf : BOOLEAN]
Sleepers == [awake : BOOLEAN, auto : BOOLEAN, table : Seq(Entries), until : Nat, down : Nat, wake : Nat]

LEMMA LeastOfThree ==
  ASSUME NEW a \in Int, NEW b \in Int, NEW c \in Int, NEW S, S \subseteq {a, b, c}, S # {}
  PROVE  Min(S) \in S /\ \A k \in S : Min(S) <= k
  <1>1. PICK low \in {a, b, c} : low <= a /\ low <= b /\ low <= c
    <2>1. CASE a <= b /\ a <= c
      BY <2>1
    <2>2. CASE b <= a /\ b <= c
      BY <2>2
    <2>3. CASE c <= a /\ c <= b
      BY <2>3
    <2> QED
      BY <2>1, <2>2, <2>3
  <1>2. S \subseteq Int /\ low \in Int /\ \A k \in S : low <= k
    BY <1>1
  <1>3. PICK m \in S : \A k \in S : m <= k
    BY <1>2, LeastInt
  <1>4. Min(S) = m
    BY <1>2, <1>3, MinIs
  <1> QED
    BY <1>3, <1>4

LEMMA GreaterOfTwo ==
  ASSUME NEW a \in Int, NEW b \in Int
  PROVE  Max({a, b}) \in {a, b} /\ Max({a, b}) >= a /\ Max({a, b}) >= b
  <1>1. CASE a >= b
    <2>1. Max({a, b}) = a
      BY <1>1, MaxIs
    <2> QED
      BY <1>1, <2>1
  <1>2. CASE b >= a
    <2>1. Max({a, b}) = b
      BY <1>2, MaxIs
    <2> QED
      BY <1>2, <2>1
  <1> QED
    BY <1>1, <1>2

LEMMA NextAt ==
  ASSUME NEW tab \in Seq(Entries), NEW n \in Nat
  PROVE  NextOccurrence(tab, n).at \in Nat /\ (NextOccurrence(tab, n).at # 0 => NextOccurrence(tab, n).at > n)
  <1> DEFINE o == NextOccurrence(tab, n)
  <1>1. o = None \/ (o.at \in Int /\ o.at > n)
    BY NextIs
  <1> HIDE DEF o
  <1>2. o.at \in Nat /\ (o.at # 0 => o.at > n)
    BY <1>1 DEF None
  <1> QED
    BY <1>2 DEF o

\* When a node that goes down wakes: after that, at the latest for its check-in, and if it has
\* a slot ahead in time for it.
LEMMA NodeWakeIs ==
  ASSUME NEW slept \in Nat, NEW isAuto \in BOOLEAN, NEW tab \in Seq(Entries)
  PROVE  LET w == NodeWake(slept, isAuto, tab)
             next == NextOccurrence(tab, slept).at
         IN  /\ w \in Nat /\ w > slept
             /\ ~isAuto => w = slept + SleepFor
             /\ isAuto /\ CheckIn # 0 => w <= slept + CheckIn
             /\ isAuto /\ next # 0 => w <= slept + 1 \/ w <= next - Lead
  <1> DEFINE w == NodeWake(slept, isAuto, tab)
             next == NextOccurrence(tab, slept).at
             wakes == (IF next # 0 THEN {next - Lead} ELSE {}) \union (IF CheckIn # 0 THEN {slept + CheckIn} ELSE {})
             all == {MaxNow + 1} \union wakes
  <1>1. SleepFor \in Nat \ {0} /\ CheckIn \in Nat /\ Lead \in Nat /\ MaxNow \in Nat
    BY PlanAssumption
  <1>2. next \in Nat
    BY NextAt
  <1>3. w = IF ~isAuto THEN slept + SleepFor ELSE Max({slept + 1, Min(all)})
    BY DEF NodeWake, Wakes
  <1>4. next # 0 => next - Lead \in all
    OBVIOUS
  <1>5. CheckIn # 0 => slept + CheckIn \in all
    OBVIOUS
  <1> HIDE DEF next, w
  <1>6. all \subseteq {MaxNow + 1, next - Lead, slept + CheckIn} /\ all # {}
    OBVIOUS
  <1> HIDE DEF all
  <1>7. MaxNow + 1 \in Int /\ next - Lead \in Int /\ slept + CheckIn \in Int
    BY <1>1, <1>2
  <1>8. Min(all) \in all /\ \A k \in all : Min(all) <= k
    BY <1>6, <1>7, LeastOfThree
  <1> DEFINE m == Min(all)
  <1>9. m \in Int
    BY <1>6, <1>7, <1>8
  <1>10. (next # 0 => m <= next - Lead) /\ (CheckIn # 0 => m <= slept + CheckIn)
    BY <1>4, <1>5, <1>8
  <1> HIDE DEF m
  <1>11. CASE ~isAuto
    <2>1. w = slept + SleepFor
      BY <1>3, <1>11
    <2> QED
      BY <1>1, <1>11, <2>1 DEF w, next
  <1>12. CASE isAuto
    <2> DEFINE n == slept + 1
    <2>1. w = Max({n, m}) /\ n \in Int
      BY <1>3, <1>12 DEF m
    <2> HIDE DEF n
    <2>2. w \in {n, m} /\ w >= n /\ w >= m
      BY <1>9, <2>1, GreaterOfTwo
    <2> USE DEF n
    <2>3. w \in Nat /\ w > slept
      BY <1>9, <2>2
    <2>4. CheckIn # 0 => w <= slept + CheckIn
      BY <1>1, <1>10, <2>2
    <2>5. next # 0 => w <= slept + 1 \/ w <= next - Lead
      BY <1>9, <1>10, <2>2
    <2> QED
      BY <1>12, <2>3, <2>4, <2>5 DEF w, next
  <1> QED
    BY <1>11, <1>12

\* When the hub takes an interactive node to be asleep.
LEMMA AsleepIs ==
  ASSUME NEW b \in Beliefs
  PROVE  /\ SleepState(b) = "Asleep"
              <=> (~b.auto /\ ~b.unconf /\ b.heard < b.sleep /\ b.clock /\ b.now + Margin < b.sleep + SleepFor)
         /\ SleepState(b) = "Asleep" => UntilAwake(b) = b.sleep + SleepFor - b.now
  <1>1. /\ SleepFor \in Nat \ {0} /\ Margin \in Nat
        /\ b.now \in Nat /\ b.heard \in Nat /\ b.sleep \in Nat
    BY PlanAssumption DEF Beliefs
  <1>2. CASE ~b.auto /\ ~b.unconf /\ b.heard < b.sleep
    <2>1. ~HeardLately(b)
      BY <1>1, <1>2 DEF HeardLately
    <2>2. NextWake(b) = IF b.clock THEN b.sleep + SleepFor ELSE 0
      BY <1>1, <1>2 DEF NextWake
    <2> DEFINE u == UntilAwake(b)
    <2>3. u = IF b.clock /\ b.now < b.sleep + SleepFor THEN b.sleep + SleepFor - b.now ELSE 0
      BY <1>1, <2>1, <2>2 DEF UntilAwake, IsNodeAwake
    <2>4. SleepState(b) = IF u <= Margin THEN "Awake" ELSE "Asleep"
      BY <1>1, <1>2 DEF SleepState
    <2> HIDE DEF u
    <2>5. CASE b.clock /\ b.now < b.sleep + SleepFor
      BY <1>1, <1>2, <2>3, <2>4, <2>5 DEF u
    <2>6. CASE ~(b.clock /\ b.now < b.sleep + SleepFor)
      <3>1. u = 0
        BY <2>3, <2>6
      <3>2. SleepState(b) = "Awake"
        BY <1>1, <2>4, <3>1
      <3>3. ~(b.clock /\ b.now + Margin < b.sleep + SleepFor)
        BY <1>1, <2>6
      <3> QED
        BY <3>2, <3>3
    <2> QED
      BY <2>5, <2>6
  <1>3. CASE ~(~b.auto /\ ~b.unconf /\ b.heard < b.sleep)
    <2>1. SleepState(b) # "Asleep"
      BY <1>1, <1>3 DEF SleepState
    <2> QED
      BY <1>3, <2>1
  <1> QED
    BY <1>2, <1>3

\* What a refresh leaves on the screen.
LEMMA RefreshIs ==
  ASSUME NEW b \in Beliefs, RefreshStatus(b)
  PROVE  /\ shown' \in BOOLEAN /\ refreshAt' \in Int
         /\ shown' => /\ b.clock /\ ~b.unconf /\ b.heard < b.sleep
                      /\ refreshAt' = b.sleep + SleepFor - Margin + 1 /\ refreshAt' > 0
  <1>1. SleepFor \in Nat \ {0} /\ Margin \in Nat /\ b.now \in Nat /\ b.sleep \in Nat
    BY PlanAssumption DEF Beliefs
  <1>2. CASE SleepState(b) = "Asleep"
    <2>1. ~b.unconf /\ b.heard < b.sleep /\ b.clock /\ b.now + Margin < b.sleep + SleepFor
      BY <1>2, AsleepIs
    <2>2. UntilAwake(b) = b.sleep + SleepFor - b.now
      BY <1>2, AsleepIs
    <2>3. shown' = TRUE
      BY <1>2 DEF RefreshStatus
    <2>4. refreshAt' = b.now + (UntilAwake(b) - Margin) + 1
      BY <1>2 DEF RefreshStatus
    <2>5. refreshAt' = b.sleep + SleepFor - Margin + 1 /\ refreshAt' > 0 /\ refreshAt' \in Int
      BY <1>1, <2>1, <2>2, <2>4
    <2> QED
      BY <2>1, <2>3, <2>5
  <1>3. CASE SleepState(b) # "Asleep"
    <2>1. shown' = FALSE /\ refreshAt' = 0
      BY <1>3 DEF RefreshStatus
    <2>2. refreshAt' \in Int
      BY <2>1
    <2> QED
      BY Zenon, <2>1, <2>2
  <1> QED
    BY <1>2, <1>3

\* What a handler that notes a belief keeps.
BeliefTyped ==
  /\ lastSleep \in Nat /\ lastHeard \in Nat /\ lastBeacon \in Nat /\ nodeMode \in BOOLEAN /\ unconfirmed \in BOOLEAN
  /\ shown \in BOOLEAN /\ refreshAt \in Int
SleeperTyped == sleeper \in Sleepers /\ seen \in BOOLEAN /\ heard \in [ever : BOOLEAN, boot : BOOLEAN]
TableTyped == table \in Seq(Entries) /\ Len(table) <= MaxEntries /\ auto \in BOOLEAN
CountsTyped == changes \in 0 .. MaxChanges /\ mishaps \in 0 .. MaxMishaps /\ boots \in 0 .. MaxBoots
ClockTyped == now \in Nat \ {0} /\ clock \in BOOLEAN /\ netAt \in Nat

LEMMA PlanTypeIs ==
  /\ PlanTypeOK <=> ClockTyped /\ TableTyped /\ BeliefTyped /\ SleeperTyped /\ CountsTyped
  /\ PlanTypeOK' <=> ClockTyped' /\ TableTyped' /\ BeliefTyped' /\ SleeperTyped' /\ CountsTyped'
  BY DEF PlanTypeOK, ClockTyped, TableTyped, BeliefTyped, SleeperTyped, Sleepers, CountsTyped

LEMMA BeliefIs == PlanTypeOK => Belief \in Beliefs
  BY DEF PlanTypeOK, Belief, Beliefs

LEMMA NoteIs ==
  ASSUME NEW b \in Beliefs, NoteNodeHeard(b), b.clock = clock'
  PROVE  BeliefTyped' /\ ShownInv'
  <1>1. lastSleep' = b.sleep /\ lastHeard' = b.heard /\ lastBeacon' = b.beacon /\ nodeMode' = b.mode /\ unconfirmed' = b.unconf
    BY DEF NoteNodeHeard, NoteBelief
  <1>2. /\ shown' \in BOOLEAN /\ refreshAt' \in Int
        /\ shown' => /\ b.clock /\ ~b.unconf /\ b.heard < b.sleep
                     /\ refreshAt' = b.sleep + SleepFor - Margin + 1 /\ refreshAt' > 0
    BY RefreshIs DEF NoteNodeHeard
  <1>3. BeliefTyped'
    <2>1. b.sleep \in Nat /\ b.heard \in Nat /\ b.beacon \in Nat /\ b.mode \in BOOLEAN /\ b.unconf \in BOOLEAN
      BY DEF Beliefs
    <2> QED
      BY Zenon, <1>1, <1>2, <2>1 DEF BeliefTyped
  <1>4. ShownInv'
    BY Zenon, <1>1, <1>2 DEF ShownInv
  <1> QED
    BY <1>3, <1>4

\* An uplink heard now.
LEMMA HeardNowIs ==
  ASSUME PlanTypeOK
  PROVE  /\ HeardNow \in Beliefs
         /\ HeardNow.clock = clock /\ HeardNow.sleep = lastSleep /\ HeardNow.beacon = lastBeacon
         /\ HeardNow.mode = nodeMode /\ HeardNow.heard = (IF clock THEN now ELSE lastHeard) /\ HeardNow.unconf = FALSE
  <1>1. lastHeard \in Nat /\ now \in Nat /\ Belief \in Beliefs
    BY BeliefIs DEF PlanTypeOK
  <1>2. (IF clock THEN now ELSE lastHeard) \in Nat
    BY <1>1
  <1>3. HeardNow \in Beliefs
    BY <1>1, <1>2 DEF HeardNow, Belief, Beliefs
  <1> QED
    BY <1>3 DEF HeardNow, Belief

LEMMA HeardUplinkIs ==
  ASSUME PlanTypeOK, HeardUplink, clock' = clock
  PROVE  /\ BeliefTyped' /\ ShownInv' /\ heard' = [ever |-> TRUE, boot |-> clock]
         /\ heard' \in [ever : BOOLEAN, boot : BOOLEAN]
         /\ lastSleep' = lastSleep /\ lastBeacon' = lastBeacon /\ nodeMode' = nodeMode
         /\ lastHeard' = IF clock THEN now ELSE lastHeard
  <1>1. BeliefTyped' /\ ShownInv'
    BY HeardNowIs, NoteIs DEF HeardUplink
  <1>2. heard' = [ever |-> TRUE, boot |-> clock]
    BY DEF HeardUplink
  <1>3. heard' \in [ever : BOOLEAN, boot : BOOLEAN]
    BY <1>2 DEF PlanTypeOK
  <1>4. /\ lastSleep' = lastSleep /\ lastBeacon' = lastBeacon /\ nodeMode' = nodeMode
        /\ lastHeard' = IF clock THEN now ELSE lastHeard
    BY HeardNowIs DEF HeardUplink, NoteNodeHeard, NoteBelief
  <1> QED
    BY <1>1, <1>2, <1>3, <1>4

\* A beacon heard now, of a node in that mode.
LEMMA BeaconNoteIs ==
  ASSUME PlanTypeOK, NEW mode \in BOOLEAN, clock' = clock,
         NoteNodeHeard([HeardNow EXCEPT !.beacon = IF clock THEN now ELSE lastBeacon, !.mode = mode])
  PROVE  /\ BeliefTyped' /\ ShownInv'
         /\ lastSleep' = lastSleep /\ nodeMode' = mode
         /\ lastBeacon' = IF clock THEN now ELSE lastBeacon
         /\ lastHeard' = IF clock THEN now ELSE lastHeard
  <1> DEFINE at == IF clock THEN now ELSE lastBeacon
             b == [HeardNow EXCEPT !.beacon = at, !.mode = mode]
  <1>1. at \in Nat
    BY DEF PlanTypeOK
  <1> HIDE DEF at
  <1>2. b \in Beliefs /\ b.clock = clock' /\ b.sleep = lastSleep /\ b.beacon = at /\ b.mode = mode
        /\ b.heard = HeardNow.heard
    BY <1>1, HeardNowIs DEF Beliefs
  <1>3. NoteNodeHeard(b)
    BY DEF at
  <1> HIDE DEF b
  <1>4. BeliefTyped' /\ ShownInv'
    BY <1>2, <1>3, NoteIs
  <1>5. lastSleep' = lastSleep /\ nodeMode' = mode /\ lastBeacon' = at /\ lastHeard' = HeardNow.heard
    BY <1>2, <1>3 DEF NoteNodeHeard, NoteBelief
  <1> QED
    BY <1>4, <1>5, HeardNowIs DEF at

\* A beacon of a node in state n, heard or lost.
LEMMA BeaconsIs ==
  ASSUME PlanTypeOK, ShownInv, NEW n \in Sleepers, Beacons(n)
  PROVE  /\ now' = now /\ clock' = clock
         /\ PlanTypeOK' /\ ShownInv'
         /\ sleeper'.awake = n.awake /\ sleeper'.auto = n.auto /\ sleeper'.table = n.table
         /\ sleeper'.until = now + Stay /\ sleeper'.down = n.down
         /\ lastSleep' = lastSleep
         /\ \/ /\ heard'.boot = clock /\ seen' = clock /\ nodeMode' = n.auto
               /\ lastBeacon' = IF clock THEN now ELSE lastBeacon
               /\ lastHeard' = IF clock THEN now ELSE lastHeard
            \/ heard'.boot = FALSE /\ seen' = FALSE /\ lastHeard' = lastHeard
  <1> DEFINE note == NoteNodeHeard([HeardNow EXCEPT !.beacon = IF clock THEN now ELSE lastBeacon, !.mode = n.auto])
  <1>1. /\ sleeper' = [n EXCEPT !.until = now + Stay, !.wake = 0]
        /\ now' = now /\ clock' = clock /\ table' = table /\ auto' = auto /\ netAt' = netAt
        /\ changes' = changes /\ boots' = boots
    BY DEF Beacons
  <1>2. \/ note /\ heard' = [ever |-> TRUE, boot |-> clock] /\ seen' = clock /\ mishaps' = mishaps
        \/ /\ mishaps < MaxMishaps /\ mishaps' = mishaps + 1
           /\ heard' = [ever |-> FALSE, boot |-> FALSE] /\ seen' = FALSE
           /\ UNCHANGED <<belief, shown, refreshAt>>
    BY DEF Beacons
  <1> HIDE DEF note
  <1>3. /\ sleeper' \in Sleepers
        /\ sleeper'.awake = n.awake /\ sleeper'.auto = n.auto /\ sleeper'.table = n.table
        /\ sleeper'.until = now + Stay /\ sleeper'.down = n.down
    <2>1. now + Stay \in Nat
      BY PlanAssumption DEF PlanTypeOK
    <2> QED
      BY <1>1, <2>1 DEF Sleepers
  <1>4. ClockTyped /\ TableTyped /\ BeliefTyped /\ SleeperTyped /\ CountsTyped
    BY PlanTypeIs
  <1>5. ClockTyped' /\ TableTyped'
    BY <1>1, <1>4 DEF ClockTyped, TableTyped
  <1>6. CASE note /\ heard' = [ever |-> TRUE, boot |-> clock] /\ seen' = clock /\ mishaps' = mishaps
    <2>1. n.auto \in BOOLEAN
      BY DEF Sleepers
    <2>2. /\ BeliefTyped' /\ ShownInv'
          /\ lastSleep' = lastSleep /\ nodeMode' = n.auto
          /\ lastBeacon' = IF clock THEN now ELSE lastBeacon
          /\ lastHeard' = IF clock THEN now ELSE lastHeard
      BY <1>1, <1>6, <2>1, BeaconNoteIs DEF note
    <2>3. CountsTyped'
      BY <1>1, <1>4, <1>6 DEF CountsTyped
    <2>4. SleeperTyped'
      BY <1>3, <1>4, <1>6 DEF SleeperTyped, ClockTyped
    <2>5. PlanTypeOK'
      BY <1>5, <2>2, <2>3, <2>4, PlanTypeIs
    <2>6. heard'.boot = clock
      BY <1>6
    <2> QED
      BY Zenon, <1>1, <1>3, <1>6, <2>2, <2>5, <2>6
  <1>7. CASE /\ mishaps < MaxMishaps /\ mishaps' = mishaps + 1
             /\ heard' = [ever |-> FALSE, boot |-> FALSE] /\ seen' = FALSE
             /\ UNCHANGED <<belief, shown, refreshAt>>
    <2>1. BeliefTyped' /\ ShownInv' /\ lastSleep' = lastSleep /\ lastHeard' = lastHeard
      BY <1>1, <1>4, <1>7 DEF BeliefTyped, ShownInv, belief
    <2>2. CountsTyped'
      BY <1>1, <1>4, <1>7, PlanAssumption DEF CountsTyped
    <2>3. SleeperTyped' /\ heard'.boot = FALSE
      BY <1>3, <1>7 DEF SleeperTyped
    <2>4. PlanTypeOK'
      BY <1>5, <2>1, <2>2, <2>3, PlanTypeIs
    <2> QED
      BY Zenon, <1>1, <1>3, <1>7, <2>1, <2>3, <2>4
  <1> QED
    BY <1>2, <1>6, <1>7

LEMMA SleeperIs ==
  ASSUME NEW awake \in BOOLEAN, NEW isAuto \in BOOLEAN, NEW tab \in Seq(Entries),
         NEW until \in Nat, NEW slept \in Nat, NEW wake \in Nat
  PROVE  [awake |-> awake, auto |-> isAuto, table |-> tab, until |-> until, down |-> slept, wake |-> wake] \in Sleepers
  BY DEF Sleepers

\* The node goes down now.
LEMMA GoesDownIs ==
  ASSUME PlanTypeOK, sleeper' = GoesDown
  PROVE  /\ sleeper' \in Sleepers
         /\ sleeper'.awake = FALSE /\ sleeper'.auto = sleeper.auto /\ sleeper'.table = sleeper.table /\ sleeper'.down = now
         /\ sleeper'.wake = NodeWake(now, sleeper.auto, sleeper.table)
  <1> DEFINE w == NodeWake(now, sleeper.auto, sleeper.table)
  <1>1. now \in Nat /\ sleeper \in Sleepers
    BY PlanTypeIs DEF ClockTyped, SleeperTyped
  <1>2. w \in Nat
    <2>1. sleeper.auto \in BOOLEAN /\ sleeper.table \in Seq(Entries)
      BY <1>1 DEF Sleepers
    <2> QED
      BY <1>1, <2>1, NodeWakeIs
  <1>3. sleeper' = [sleeper EXCEPT !.awake = FALSE, !.until = 0, !.down = now, !.wake = w]
    BY DEF GoesDown
  <1> HIDE DEF w
  <1>4. sleeper' \in Sleepers
    <2>1. sleeper' = [awake |-> FALSE, auto |-> sleeper.auto, table |-> sleeper.table, until |-> 0, down |-> now, wake |-> w]
      BY <1>1, <1>3 DEF Sleepers
    <2>2. sleeper.auto \in BOOLEAN /\ sleeper.table \in Seq(Entries) /\ 0 \in Nat /\ FALSE \in BOOLEAN
      BY <1>1 DEF Sleepers
    <2> DEFINE isAuto == sleeper.auto
               tab == sleeper.table
    <2>3. sleeper' = [awake |-> FALSE, auto |-> isAuto, table |-> tab, until |-> 0, down |-> now, wake |-> w]
      BY <2>1
    <2>4. isAuto \in BOOLEAN /\ tab \in Seq(Entries) /\ now \in Nat
      BY <1>1, <2>2
    <2> HIDE DEF isAuto, tab
    <2>5. [awake |-> FALSE, auto |-> isAuto, table |-> tab, until |-> 0, down |-> now, wake |-> w] \in Sleepers
      BY <1>2, <2>2, <2>4, SleeperIs
    <2> QED
      BY <2>3, <2>5
  <1>5. /\ sleeper'.awake = FALSE /\ sleeper'.auto = sleeper.auto /\ sleeper'.table = sleeper.table
        /\ sleeper'.down = now /\ sleeper'.wake = w
    BY <1>1, <1>3 DEF Sleepers
  <1> QED
    BY <1>4, <1>5 DEF w

\* The ack of a sleep stamps it one second past the uplink that carried it.
LEMMA SleepNoteIs ==
  ASSUME PlanTypeOK, clock' = clock, NoteNodeHeard([HeardNow EXCEPT !.sleep = SleepStamp(HeardNow)])
  PROVE  /\ BeliefTyped' /\ ShownInv'
         /\ lastSleep' = IF clock THEN now + 1 ELSE lastSleep
         /\ lastHeard' = IF clock THEN now ELSE lastHeard
         /\ lastBeacon' = lastBeacon /\ nodeMode' = nodeMode
  <1> DEFINE at == SleepStamp(HeardNow)
             b == [HeardNow EXCEPT !.sleep = at]
  <1>1. now \in Nat /\ lastSleep \in Nat
    BY DEF PlanTypeOK
  <1>2. at = IF clock THEN now + 1 ELSE lastSleep
    <2>1. CASE clock
      <3>1. at = Max({now, now + 1})
        BY <2>1, HeardNowIs DEF SleepStamp
      <3> DEFINE m == now + 1
      <3>2. m \in Int /\ m > now
        BY <1>1
      <3> HIDE DEF m, at
      <3>3. Max({now, m}) \in {now, m} /\ Max({now, m}) >= m
        BY <1>1, <3>2, GreaterOfTwo
      <3>4. Max({now, m}) = m
        BY <1>1, <3>2, <3>3
      <3> QED
        BY <2>1, <3>1, <3>4 DEF m
    <2>2. CASE ~clock
      BY <2>2, HeardNowIs DEF SleepStamp
    <2> QED
      BY <2>1, <2>2
  <1>3. at \in Nat
    BY <1>1, <1>2
  <1>4. NoteNodeHeard(b)
    OBVIOUS
  <1> HIDE DEF at
  <1>5. b \in Beliefs /\ b.clock = clock' /\ b.sleep = at /\ b.beacon = lastBeacon /\ b.mode = nodeMode
        /\ b.heard = HeardNow.heard
    BY <1>3, HeardNowIs DEF Beliefs
  <1> HIDE DEF b
  <1>6. BeliefTyped' /\ ShownInv'
    BY <1>4, <1>5, NoteIs
  <1>7. lastSleep' = at /\ nodeMode' = nodeMode /\ lastBeacon' = lastBeacon /\ lastHeard' = HeardNow.heard
    BY <1>4, <1>5 DEF NoteNodeHeard, NoteBelief
  <1> QED
    BY <1>2, <1>6, <1>7, HeardNowIs

LEMMA UnconfirmedNoteIs ==
  ASSUME PlanTypeOK, clock' = clock, NoteNodeHeard([Belief EXCEPT !.unconf = TRUE])
  PROVE  /\ BeliefTyped' /\ ShownInv'
         /\ lastSleep' = lastSleep /\ lastHeard' = lastHeard /\ lastBeacon' = lastBeacon /\ nodeMode' = nodeMode
  <1> DEFINE b == [Belief EXCEPT !.unconf = TRUE]
  <1>1. b \in Beliefs /\ b.clock = clock' /\ b.sleep = lastSleep /\ b.beacon = lastBeacon /\ b.mode = nodeMode
        /\ b.heard = lastHeard
    BY BeliefIs DEF Beliefs, Belief
  <1>2. NoteNodeHeard(b)
    OBVIOUS
  <1> HIDE DEF b
  <1>3. BeliefTyped' /\ ShownInv'
    BY <1>1, <1>2, NoteIs
  <1>4. lastSleep' = lastSleep /\ nodeMode' = nodeMode /\ lastBeacon' = lastBeacon /\ lastHeard' = lastHeard
    BY <1>1, <1>2 DEF NoteNodeHeard, NoteBelief
  <1> QED
    BY <1>3, <1>4

\* A slot written leaves a table of slots.
LEMMA SlotIsSet ==
  ASSUME TableTyped, NEW i \in 1 .. MaxEntries, NEW entry \in Entries, SetSlot(i, entry)
  PROVE  table' \in Seq(Entries) /\ Len(table') <= MaxEntries
  <1> DEFINE m == Max({i, Len(table)})
  <1>1. table \in Seq(Entries) /\ Len(table) \in Nat /\ Len(table) <= MaxEntries /\ i \in Int /\ MaxEntries \in Nat
    BY WeekAssumption DEF TableTyped
  <1>2. m \in {i, Len(table)}
    <2> DEFINE l == Len(table)
    <2>1. l \in Int
      BY <1>1
    <2> HIDE DEF l
    <2>2. Max({i, l}) \in {i, l}
      BY <1>1, <2>1, GreaterOfTwo
    <2> QED
      BY <2>2 DEF l
  <1>3. m \in Nat /\ m <= MaxEntries
    BY <1>1, <1>2
  <1>4. Blank \in Entries
    BY DEF Blank, Entries
  <1>5. ASSUME NEW j \in Nat \ {0} PROVE EntryOf(j) \in Entries
    <2>1. CASE j <= Len(table)
      BY <1>1, <2>1 DEF EntryOf
    <2>2. CASE ~(j <= Len(table))
      BY <1>4, <2>2 DEF EntryOf
    <2> QED
      BY <2>1, <2>2
  <1>6. table' = [j \in 1 .. m |-> IF j = i THEN entry ELSE EntryOf(j)]
    BY DEF SetSlot
  <1> HIDE DEF m
  <1>7. \A j \in 1 .. m : (IF j = i THEN entry ELSE EntryOf(j)) \in Entries
    BY <1>3, <1>5
  <1>8. table' \in [1 .. m -> Entries]
    BY <1>6, <1>7
  <1> QED
    BY <1>3, <1>8

LEMMA SlotEntryIs ==
  ASSUME TableTyped, NEW i \in 1 .. MaxEntries
  PROVE  EntryOf(i) \in Entries
  <1>1. Blank \in Entries
    BY DEF Blank, Entries
  <1>2. CASE i <= Len(table)
    BY <1>2 DEF EntryOf, TableTyped
  <1>3. CASE ~(i <= Len(table))
    BY <1>1, <1>3 DEF EntryOf
  <1> QED
    BY <1>2, <1>3

LEMMA EditsAreTyped ==
  ASSUME TableTyped,
         \/ \E i \in 1 .. MaxEntries : ScheduleSlotTime(i) \/ ScheduleSlotSelect(i) \/ ScheduleEnableSwitch(i)
         \/ SwitchAutoMode
         \/ ScheduleText
  PROVE  TableTyped' /\ Edit
  <1>1. table \in Seq(Entries) /\ Len(table) <= MaxEntries /\ auto \in BOOLEAN
    BY DEF TableTyped
  <1>2. ASSUME NEW i \in 1 .. MaxEntries, NEW entry \in Entries, SetSlot(i, entry)
        PROVE  TableTyped' /\ Edit
    <2>1. Edit /\ auto' = auto
      BY <1>2 DEF SetSlot
    <2>2. table' \in Seq(Entries) /\ Len(table') <= MaxEntries
      BY <1>2, SlotIsSet
    <2> QED
      BY <1>1, <2>1, <2>2 DEF TableTyped
  <1>3. CASE \E i \in 1 .. MaxEntries : ScheduleSlotTime(i) \/ ScheduleSlotSelect(i) \/ ScheduleEnableSwitch(i)
    <2>1. PICK i \in 1 .. MaxEntries : ScheduleSlotTime(i) \/ ScheduleSlotSelect(i) \/ ScheduleEnableSwitch(i)
      BY <1>3
    <2>2. EntryOf(i) \in Entries
      BY SlotEntryIs
    <2>3. CASE ScheduleSlotTime(i)
      <3>1. PICK m \in Minutes : SetSlot(i, [EntryOf(i) EXCEPT !.minute = m])
        BY <2>3 DEF ScheduleSlotTime
      <3>2. m \in Nat
        BY TablesAssumption
      <3>3. [EntryOf(i) EXCEPT !.minute = m] \in Entries
        BY <2>2, <3>2 DEF Entries
      <3> QED
        BY <1>2, <3>1, <3>3
    <2>4. CASE ScheduleSlotSelect(i)
      <3>1. PICK d \in DaySets : SetSlot(i, [EntryOf(i) EXCEPT !.days = d])
        BY <2>4 DEF ScheduleSlotSelect
      <3>2. d \in SUBSET AllDays
        BY TablesAssumption
      <3>3. [EntryOf(i) EXCEPT !.days = d] \in Entries
        BY <2>2, <3>2 DEF Entries
      <3> QED
        BY <1>2, <3>1, <3>3
    <2>5. CASE ScheduleEnableSwitch(i)
      <3>1. PICK on \in BOOLEAN : SetSlot(i, [EntryOf(i) EXCEPT !.enabled = on])
        BY <2>5 DEF ScheduleEnableSwitch
      <3>2. [EntryOf(i) EXCEPT !.enabled = on] \in Entries
        BY <2>2 DEF Entries
      <3> QED
        BY <1>2, <3>1, <3>2
    <2> QED
      BY <2>1, <2>3, <2>4, <2>5
  <1>4. CASE SwitchAutoMode
    BY <1>1, <1>4 DEF SwitchAutoMode, TableTyped
  <1>5. CASE ScheduleText
    <2>1. PICK text \in Texts : SetScheduleText(text)
      BY <1>5 DEF ScheduleText
    <2>2. Edit /\ auto' = auto
      BY <1>5 DEF ScheduleText
    <2>3. text \in Seq(Tokens)
      BY TablesAssumption
    <2>4. Len(text) <= MaxEntries
      BY <2>1 DEF SetScheduleText, Parse
    <2>5. table' = [i \in DOMAIN text |-> [minute |-> text[i].time, days |-> text[i].days, enabled |-> TRUE]]
      BY <2>1 DEF SetScheduleText, Parse
    <2>6. \A i \in DOMAIN text : [minute |-> text[i].time, days |-> text[i].days, enabled |-> TRUE] \in Entries
      <3>1. \A i \in DOMAIN text : text[i] \in Tokens
        BY <2>3
      <3> QED
        BY <3>1 DEF Tokens, Entries
    <2>7. DOMAIN text = 1 .. Len(text) /\ Len(text) \in Nat
      BY <2>3
    <2>8. table' \in [1 .. Len(text) -> Entries]
      BY <2>5, <2>6, <2>7
    <2>9. table' \in Seq(Entries) /\ Len(table') <= MaxEntries
      BY <2>4, <2>7, <2>8
    <2> QED
      BY <1>1, <2>2, <2>9 DEF TableTyped
  <1> QED
    BY <1>3, <1>4, <1>5

LEMMA PlanTypeStep ==
  ASSUME PlanTypeOK, ShownInv, [PlanNext]_wakeVars
  PROVE  PlanTypeOK' /\ ShownInv'
  <1>1. ClockTyped /\ TableTyped /\ BeliefTyped /\ SleeperTyped /\ CountsTyped
    BY PlanTypeIs
  <1>2. MaxChanges \in Nat /\ MaxMishaps \in Nat /\ MaxBoots \in Nat /\ Net \in Nat /\ Stay \in Nat
    BY PlanAssumption
  <1>3. sleeper \in Sleepers /\ now \in Nat /\ now + Stay \in Nat
    BY <1>1, <1>2 DEF SleeperTyped, ClockTyped
  <1>4. CASE WakesUp
    <2>1. [sleeper EXCEPT !.awake = TRUE] \in Sleepers
      BY <1>3 DEF Sleepers
    <2> QED
      BY <1>4, <2>1, BeaconsIs DEF WakesUp
  <1>5. CASE Resets
    <2>1. sleeper' \in Sleepers /\ sleeper.auto \in BOOLEAN
      <3>1. sleeper' = [sleeper EXCEPT !.awake = TRUE, !.until = now + Stay, !.wake = 0]
        BY <1>5 DEF Resets
      <3> QED
        BY <1>3, <3>1 DEF Sleepers
    <2>2. BeliefTyped' /\ ShownInv'
      BY <1>5, <2>1, BeaconNoteIs DEF Resets
    <2>3. SleeperTyped'
      BY <1>1, <1>5, <2>1 DEF Resets, SleeperTyped, ClockTyped
    <2>4. CountsTyped'
      BY <1>1, <1>2, <1>5 DEF Resets, CountsTyped
    <2>5. ClockTyped' /\ TableTyped'
      BY <1>1, <1>5 DEF Resets, ClockTyped, TableTyped
    <2> QED
      BY <2>2, <2>3, <2>4, <2>5, PlanTypeIs
  <1>6. ASSUME HeardUplink, UNCHANGED <<now, clock, table, auto, netAt, seen, counts>>, sleeper' \in Sleepers
        PROVE  PlanTypeOK' /\ ShownInv'
    <2>1. BeliefTyped' /\ ShownInv' /\ heard' \in [ever : BOOLEAN, boot : BOOLEAN]
      BY <1>6, HeardUplinkIs
    <2>2. SleeperTyped'
      BY <1>1, <1>6, <2>1 DEF SleeperTyped
    <2>3. CountsTyped' /\ ClockTyped' /\ TableTyped'
      BY <1>1, <1>6 DEF CountsTyped, ClockTyped, TableTyped, counts
    <2> QED
      BY <2>1, <2>2, <2>3, PlanTypeIs
  <1>7. CASE Uplink
    BY <1>3, <1>6, <1>7 DEF Uplink
  <1>8. CASE Adopts
    <2> DEFINE n == [sleeper EXCEPT !.table = table, !.auto = auto]
    <2>1. n \in Sleepers
      BY <1>1, <1>3 DEF Sleepers, TableTyped
    <2>2. CASE n.auto # sleeper.auto
      <3>1. Beacons(n)
        BY <1>8, <2>2 DEF Adopts
      <3> QED
        BY <2>1, <3>1, BeaconsIs
    <2>3. CASE ~(n.auto # sleeper.auto)
      <3>1. sleeper' = n /\ HeardUplink /\ UNCHANGED <<now, clock, table, auto, netAt, seen, counts>>
        BY <1>8, <2>3 DEF Adopts
      <3> QED
        BY <1>6, <2>1, <3>1
    <2> QED
      BY <2>2, <2>3
  <1>9. CASE GoesToSleep
    <2>1. sleeper' \in Sleepers
      BY <1>9, GoesDownIs DEF GoesToSleep
    <2>2. SleeperTyped'
      BY <1>1, <1>9, <2>1 DEF GoesToSleep, SleeperTyped
    <2>3. BeliefTyped' /\ CountsTyped' /\ ClockTyped' /\ TableTyped'
      BY <1>1, <1>9 DEF GoesToSleep, BeliefTyped, CountsTyped, ClockTyped, TableTyped, counts, belief, screen
    <2>4. ShownInv'
      BY <1>9 DEF GoesToSleep, ShownInv, belief, screen
    <2> QED
      BY <2>2, <2>3, <2>4, PlanTypeIs
  <1>10. CASE SleepAcknowledged
    <2>1. sleeper' \in Sleepers
      BY <1>10, GoesDownIs DEF SleepAcknowledged
    <2>2. SleeperTyped'
      BY <1>1, <1>10, <2>1 DEF SleepAcknowledged, SleeperTyped
    <2>3. CountsTyped' /\ ClockTyped' /\ TableTyped'
      BY <1>1, <1>10 DEF SleepAcknowledged, CountsTyped, ClockTyped, TableTyped, counts
    <2>4. BeliefTyped' /\ ShownInv'
      BY <1>10, SleepNoteIs DEF SleepAcknowledged
    <2> QED
      BY <2>2, <2>3, <2>4, PlanTypeIs
  <1>11. CASE SleepUnconfirmed
    <2>1. sleeper' \in Sleepers
      <3>1. sleeper' = sleeper \/ sleeper' = GoesDown
        BY <1>11 DEF SleepUnconfirmed
      <3> QED
        BY <1>3, <3>1, GoesDownIs
    <2>2. SleeperTyped'
      BY <1>1, <1>11, <2>1 DEF SleepUnconfirmed, SleeperTyped
    <2>3. CountsTyped' /\ ClockTyped' /\ TableTyped'
      BY <1>1, <1>2, <1>11 DEF SleepUnconfirmed, CountsTyped, ClockTyped, TableTyped
    <2>4. BeliefTyped' /\ ShownInv'
      BY <1>11, UnconfirmedNoteIs DEF SleepUnconfirmed
    <2> QED
      BY <2>2, <2>3, <2>4, PlanTypeIs
  <1>12. CASE StatusTimeout \/ StatusNet
    <2>1. RefreshStatus(Belief) /\ UNCHANGED <<now, clock, table, auto, belief, sleeper, seen, heard, counts>>
      BY <1>12 DEF StatusTimeout, StatusNet
    <2>2. /\ shown' \in BOOLEAN /\ refreshAt' \in Int
          /\ shown' => /\ Belief.clock /\ ~Belief.unconf /\ Belief.heard < Belief.sleep
                       /\ refreshAt' = Belief.sleep + SleepFor - Margin + 1 /\ refreshAt' > 0
      BY <2>1, BeliefIs, RefreshIs
    <2>3. Belief.clock = clock' /\ Belief.unconf = unconfirmed' /\ Belief.heard = lastHeard' /\ Belief.sleep = lastSleep'
      BY <2>1 DEF Belief, belief
    <2>4. ShownInv'
      BY Zenon, <2>2, <2>3 DEF ShownInv
    <2>5. BeliefTyped'
      BY <1>1, <2>1, <2>2 DEF BeliefTyped, belief
    <2>6. netAt' \in Nat
      <3>1. netAt' = netAt \/ netAt' = now + Net
        BY <1>12 DEF StatusTimeout, StatusNet
      <3> QED
        BY <1>1, <1>2, <1>3, <3>1 DEF ClockTyped
    <2>7. SleeperTyped' /\ CountsTyped' /\ ClockTyped' /\ TableTyped'
      BY <1>1, <2>1, <2>6 DEF SleeperTyped, CountsTyped, ClockTyped, TableTyped, counts
    <2> QED
      BY <2>4, <2>5, <2>7, PlanTypeIs
  <1>13. CASE \/ \E i \in 1 .. MaxEntries : ScheduleSlotTime(i) \/ ScheduleSlotSelect(i) \/ ScheduleEnableSwitch(i)
              \/ SwitchAutoMode
              \/ ScheduleText
    <2>1. TableTyped' /\ Edit
      BY <1>1, <1>13, EditsAreTyped
    <2>2. changes < MaxChanges /\ changes' = changes + 1
          /\ UNCHANGED <<now, clock, belief, screen, sleeper, seen, heard, mishaps, boots>>
      BY <2>1 DEF Edit
    <2>3. BeliefTyped' /\ ClockTyped' /\ SleeperTyped' /\ ShownInv'
      BY <1>1, <2>2 DEF BeliefTyped, ClockTyped, SleeperTyped, ShownInv, belief, screen
    <2>4. CountsTyped'
      BY <1>1, <1>2, <2>2 DEF CountsTyped
    <2> QED
      BY <2>1, <2>3, <2>4, PlanTypeIs
  <1>14. CASE HubReboots
    <2>1. SleeperTyped'
      BY <1>1, <1>14 DEF HubReboots, SleeperTyped
    <2>2. CountsTyped' /\ TableTyped'
      BY <1>1, <1>2, <1>14 DEF HubReboots, CountsTyped, TableTyped
    <2>3. ClockTyped'
      <3>1. now' \in Nat \ {0} /\ netAt' \in Nat
        BY <1>1, <1>2, <1>14 DEF HubReboots, ClockTyped
      <3>2. clock' = FALSE
        BY <1>14 DEF HubReboots
      <3> QED
        BY Zenon, <3>1, <3>2 DEF ClockTyped
    <2>4. BeliefTyped'
      <3>1. lastSleep' \in Nat /\ lastHeard' \in Nat /\ lastBeacon' \in Nat /\ refreshAt' \in Int
        BY <1>1, <1>14 DEF HubReboots, BeliefTyped
      <3>2. nodeMode' = FALSE /\ unconfirmed' = FALSE /\ shown' = FALSE
        BY <1>14 DEF HubReboots
      <3> QED
        BY Zenon, <3>1, <3>2 DEF BeliefTyped
    <2>5. ShownInv'
      BY <1>14 DEF HubReboots, ShownInv
    <2> QED
      BY <2>1, <2>2, <2>3, <2>4, <2>5, PlanTypeIs
  <1>15. CASE ClockIsSet
    <2>1. SleeperTyped' /\ CountsTyped' /\ TableTyped' /\ ClockTyped' /\ BeliefTyped'
      BY <1>1, <1>15 DEF ClockIsSet, SleeperTyped, CountsTyped, TableTyped, ClockTyped, BeliefTyped, belief, screen, counts
    <2>2. ShownInv'
      BY <1>15 DEF ClockIsSet, ShownInv, belief, screen
    <2> QED
      BY <2>1, <2>2, PlanTypeIs
  <1>16. CASE Tick
    <2>1. SleeperTyped' /\ CountsTyped' /\ TableTyped' /\ ClockTyped' /\ BeliefTyped'
      BY <1>1, <1>16 DEF Tick, SleeperTyped, CountsTyped, TableTyped, ClockTyped, BeliefTyped, belief, screen, counts
    <2>2. ShownInv'
      BY <1>16 DEF Tick, ShownInv, belief, screen
    <2> QED
      BY <2>1, <2>2, PlanTypeIs
  <1>17. CASE UNCHANGED wakeVars
    <2>1. SleeperTyped' /\ CountsTyped' /\ TableTyped' /\ ClockTyped' /\ BeliefTyped'
      BY <1>1, <1>17 DEF wakeVars, SleeperTyped, CountsTyped, TableTyped, ClockTyped, BeliefTyped, belief, screen, counts
    <2>2. ShownInv'
      BY <1>17 DEF wakeVars, ShownInv, belief, screen
    <2> QED
      BY <2>1, <2>2, PlanTypeIs
  <1> QED
    BY <1>4, <1>5, <1>7, <1>8, <1>9, <1>10, <1>11, <1>12, <1>13, <1>14, <1>15, <1>16, <1>17 DEF PlanNext

LEMMA PlanTypeFirst == PlanInit => PlanTypeOK /\ ShownInv
  <1> SUFFICES ASSUME PlanInit PROVE PlanTypeOK /\ ShownInv
    OBVIOUS
  <1>1. /\ MaxChanges \in Nat /\ MaxMishaps \in Nat /\ MaxBoots \in Nat /\ Net \in Nat /\ Stay \in Nat
    BY PlanAssumption
  <1>2. table \in Seq(Entries) /\ Len(table) <= MaxEntries /\ auto \in BOOLEAN
    BY TablesAssumption DEF PlanInit
  <1>3. TableTyped
    BY <1>2 DEF TableTyped
  <1>4. ClockTyped
    BY <1>1 DEF PlanInit, ClockTyped
  <1>5. BeliefTyped /\ ShownInv
    <2>1. lastSleep \in Nat /\ lastHeard \in Nat /\ lastBeacon \in Nat /\ refreshAt \in Int
      BY DEF PlanInit
    <2>2. nodeMode = FALSE /\ unconfirmed = FALSE /\ shown = FALSE
      BY DEF PlanInit
    <2> QED
      BY Zenon, <2>1, <2>2 DEF BeliefTyped, ShownInv
  <1>6. CountsTyped
    BY <1>1 DEF PlanInit, CountsTyped
  <1>7. SleeperTyped
    <2>1. sleeper = [awake |-> TRUE, auto |-> auto, table |-> table, until |-> 1 + Stay, down |-> 0, wake |-> 0]
      BY DEF PlanInit
    <2>2. TRUE \in BOOLEAN /\ 1 + Stay \in Nat /\ 0 \in Nat
      BY <1>1
    <2>3. sleeper \in Sleepers
      BY <1>2, <2>1, <2>2, SleeperIs
    <2>4. seen \in BOOLEAN /\ heard \in [ever : BOOLEAN, boot : BOOLEAN]
      BY DEF PlanInit
    <2> QED
      BY <2>3, <2>4 DEF SleeperTyped
  <1> QED
    BY <1>3, <1>4, <1>5, <1>6, <1>7, PlanTypeIs

\* Every variable keeps its type, whatever the tables, the zone and the bounds.
THEOREM PlanTypeCorrect == PlanSpec => []PlanTypeOK
  <1>1. PlanTypeOK /\ ShownInv /\ [PlanNext]_wakeVars => PlanTypeOK' /\ ShownInv'
    BY PlanTypeStep
  <1> QED
    BY <1>1, PlanTypeFirst, PTL DEF PlanSpec

\* What a shown sleep and its timeout say together.
LEMMA SensorIsOnTime ==
  ASSUME PlanTypeOK, ShownInv
  PROVE  SensorEndsOnTime
  <1> SUFFICES ASSUME shown, ~RefreshDue, ~auto
               PROVE  SleepState([Belief EXCEPT !.now = now - 1]) = "Asleep"
    BY DEF SensorEndsOnTime
  <1> DEFINE b == [Belief EXCEPT !.now = now - 1]
  <1>1. now \in Nat \ {0} /\ lastSleep \in Nat /\ SleepFor \in Nat /\ Margin \in Nat
    BY PlanAssumption DEF PlanTypeOK
  <1>2. now - 1 \in Nat
    BY <1>1
  <1>3. b \in Beliefs
    BY <1>2, BeliefIs DEF Beliefs
  <1>4. b.now = now - 1 /\ b.clock = clock /\ b.auto = auto /\ b.unconf = unconfirmed /\ b.heard = lastHeard /\ b.sleep = lastSleep
    BY DEF Belief
  <1>5. clock /\ ~unconfirmed /\ lastHeard < lastSleep
        /\ refreshAt = lastSleep + SleepFor - Margin + 1 /\ refreshAt > 0
    BY DEF ShownInv
  <1>6. now < refreshAt
    BY <1>1, <1>5 DEF RefreshDue
  <1>7. now - 1 + Margin < lastSleep + SleepFor
    BY <1>1, <1>5, <1>6
  <1> HIDE DEF b
  <1>8. SleepState(b) = "Asleep"
    BY <1>3, <1>4, <1>5, <1>7, AsleepIs
  <1> QED
    BY <1>8 DEF b

\* The sensor goes off on time: a sleep it shows has, by the model, ended at most a second ago.
THEOREM SensorEndsOnTimeHolds == PlanSpec => []SensorEndsOnTime
  <1>1. PlanTypeOK /\ ShownInv /\ [PlanNext]_wakeVars => PlanTypeOK' /\ ShownInv'
    BY PlanTypeStep
  <1>2. PlanTypeOK /\ ShownInv => SensorEndsOnTime
    BY SensorIsOnTime
  <1> QED
    BY <1>1, <1>2, PlanTypeFirst, PTL DEF PlanSpec

\* next_occurrence finds the first firing ahead and last_missed the last one behind, for every
\* zone, week and table, as long as more days than a week are searched (Scheduler.h searches 8).
THEOREM ScheduleSearchIsExactHolds ==
  ASSUME SearchDays > Weekdays
  PROVE  PlanSpec => []ScheduleSearchIsExact
  <1>1. PlanTypeOK /\ ShownInv /\ [PlanNext]_wakeVars => PlanTypeOK' /\ ShownInv'
    BY PlanTypeStep
  <1>2. PlanTypeOK => ScheduleSearchIsExact
    <2> SUFFICES ASSUME PlanTypeOK PROVE ScheduleSearchIsExact
      OBVIOUS
    <2>1. table \in Seq(Entries) /\ now \in Nat /\ lastHeard \in Nat /\ sleeper.down \in Nat
      BY DEF PlanTypeOK
    <2> QED
      BY <2>1, SearchesFind
  <1> QED
    BY <1>1, <1>2, PlanTypeFirst, PTL DEF PlanSpec

\* A beacon that comes after the sleep: of a node that woke, was reset or changes its mode.
LEMMA BeaconStep ==
  ASSUME PlanTypeOK, now' = now, clock' = clock, lastSleep' = lastSleep, lastHeard <= now,
         sleeper'.awake, sleeper'.until = now + Stay, sleeper'.down \in Nat, sleeper'.down < now,
         lastSleep < now, lastSleep <= sleeper'.down + 1,
         \/ /\ heard'.boot = clock /\ seen' = clock /\ nodeMode' = sleeper'.auto
            /\ lastBeacon' = IF clock THEN now ELSE lastBeacon
            /\ lastHeard' = IF clock THEN now ELSE lastHeard
         \/ heard'.boot = FALSE /\ seen' = FALSE /\ lastHeard' = lastHeard
  PROVE  NapInv' /\ HeardInv' /\ SeenInv'
  <1>1. /\ now \in Nat \ {0} /\ Stay \in Nat /\ ClassA \in Nat /\ ClassA <= Stay /\ clock \in BOOLEAN
        /\ lastSleep \in Nat /\ lastHeard \in Nat /\ lastBeacon \in Nat
    BY PlanAssumption, StayAssumption DEF PlanTypeOK
  <1>2. NapInv'
    <2>1. lastHeard' <= now'
      BY <1>1
    <2> QED
      BY <1>1, <2>1 DEF NapInv
  <1>3. CASE clock /\ heard'.boot = clock /\ seen' = clock /\ nodeMode' = sleeper'.auto /\ lastBeacon' = now /\ lastHeard' = now
    <2>1. HeardInv'
      BY <1>1, <1>3 DEF HeardInv
    <2>2. SeenInv'
      BY <1>1, <1>3 DEF SeenInv
    <2> QED
      BY <1>2, <2>1, <2>2
  <1>4. CASE ~heard'.boot /\ ~seen'
    BY <1>2, <1>4 DEF HeardInv, SeenInv
  <1> QED
    BY <1>1, <1>3, <1>4

\* An uplink of a node that may speak changes only when it was heard.
LEMMA UplinkStep ==
  ASSUME PlanTypeOK, NapInv, HeardInv, SeenInv, Speaks, now' = now, clock' = clock,
         lastSleep' = lastSleep, lastBeacon' = lastBeacon, nodeMode' = nodeMode,
         lastHeard' = (IF clock THEN now ELSE lastHeard), heard'.boot = clock, seen' = seen,
         sleeper'.awake = sleeper.awake, sleeper'.auto = sleeper.auto, sleeper'.until = sleeper.until,
         sleeper'.down = sleeper.down
  PROVE  NapInv' /\ HeardInv' /\ SeenInv'
  <1>1. /\ now \in Nat \ {0} /\ Stay \in Nat /\ ClassA \in Nat /\ clock \in BOOLEAN
        /\ lastSleep \in Nat /\ lastHeard \in Nat /\ lastBeacon \in Nat /\ sleeper.down \in Nat /\ sleeper.until \in Nat
    BY PlanAssumption DEF PlanTypeOK
  <1>2. sleeper.awake /\ (sleeper.auto => now + ClassA <= sleeper.until)
    BY DEF Speaks
  <1>3. /\ lastSleep <= sleeper.down + 1 /\ sleeper.down <= now /\ lastHeard <= now
        /\ lastSleep < now /\ sleeper.down < now /\ (sleeper.auto => now <= sleeper.until)
    BY <1>2 DEF NapInv
  <1>4. NapInv'
    <2>1. lastHeard' <= now'
      BY <1>1, <1>3
    <2> QED
      BY <1>1, <1>2, <1>3, <2>1 DEF NapInv
  <1>5. HeardInv'
    <2>1. heard'.boot => clock' /\ lastHeard' >= lastSleep'
      BY <1>1, <1>3
    <2> QED
      BY <2>1 DEF HeardInv
  <1>6. SeenInv'
    <2> SUFFICES ASSUME seen PROVE SeenInv'
      BY DEF SeenInv
    <2>1. /\ clock /\ lastBeacon # 0 /\ nodeMode = sleeper.auto
          /\ lastSleep < lastBeacon /\ sleeper.until = lastBeacon + Stay
      BY <1>2 DEF SeenInv
    <2>2. lastHeard' = now
      BY <2>1
    <2> QED
      BY <1>1, <1>2, <2>1, <2>2 DEF SeenInv
  <1> QED
    BY <1>4, <1>5, <1>6

\* The node goes down: by itself, on a sleep acknowledged, or on one whose ack was lost.
LEMMA DownStep ==
  ASSUME SleepFor > 1, PlanTypeOK, NapInv, HeardInv, SeenInv, sleeper.awake, sleeper' = GoesDown,
         now' = now, clock' = clock, seen' = seen, heard' = heard,
         lastBeacon' = lastBeacon, nodeMode' = nodeMode, lastHeard' \in {now, lastHeard},
         sleeper.auto => now >= sleeper.until /\ lastHeard' = lastHeard,
         \/ lastSleep' = lastSleep
         \/ ~sleeper.auto /\ clock /\ lastSleep' = now + 1
  PROVE  NapInv' /\ HeardInv' /\ SeenInv'
  <1>1. /\ now \in Nat \ {0} /\ Stay \in Nat /\ ClassA \in Nat /\ SleepFor \in Nat
        /\ lastSleep \in Nat /\ lastHeard \in Nat /\ lastBeacon \in Nat /\ sleeper.down \in Nat /\ sleeper.until \in Nat
        /\ sleeper.auto \in BOOLEAN /\ sleeper.table \in Seq(Entries)
    BY PlanAssumption DEF PlanTypeOK
  <1>2. /\ sleeper'.awake = FALSE /\ sleeper'.auto = sleeper.auto /\ sleeper'.table = sleeper.table /\ sleeper'.down = now
        /\ sleeper'.wake = NodeWake(now, sleeper.auto, sleeper.table)
    BY GoesDownIs
  <1> DEFINE w == NodeWake(now, sleeper.auto, sleeper.table)
  <1>3. w \in Nat /\ w > now /\ (~sleeper.auto => w = now + SleepFor)
    BY <1>1, NodeWakeIs
  <1>4. sleeper'.wake = w /\ w = NodeWake(sleeper'.down, sleeper'.auto, sleeper'.table)
    BY <1>2
  <1> HIDE DEF w
  <1>5. lastSleep < now /\ lastHeard <= now /\ (sleeper.auto => now <= sleeper.until)
    BY DEF NapInv
  <1>6. lastSleep' <= now + 1 /\ lastSleep' < w
    BY <1>1, <1>3, <1>5
  <1>7. NapInv'
    <2>1. lastHeard' <= now
      BY <1>1, <1>5
    <2> QED
      BY <1>1, <1>2, <1>3, <1>4, <1>6, <2>1 DEF NapInv
  <1>8. HeardInv'
    BY <1>2 DEF HeardInv
  <1>9. SeenInv'
    <2> SUFFICES ASSUME seen PROVE SeenInv'
      BY DEF SeenInv
    <2>1. /\ clock /\ lastBeacon # 0 /\ nodeMode = sleeper.auto
          /\ lastSleep < lastBeacon /\ sleeper.until = lastBeacon + Stay
          /\ sleeper.auto => lastHeard + ClassA <= sleeper.until
      BY DEF SeenInv
    <2>2. CASE sleeper.auto
      BY <1>1, <1>2, <1>5, <2>1, <2>2 DEF SeenInv
    <2>3. CASE ~sleeper.auto
      <3>1. lastSleep' < lastBeacon' \/ sleeper'.down <= lastSleep'
        BY <1>1, <1>2, <2>1
      <3> QED
        BY <1>2, <2>1, <2>3, <3>1 DEF SeenInv
    <2> QED
      BY <2>2, <2>3
  <1> QED
    BY <1>7, <1>8, <1>9

LEMMA NodeAsBefore ==
  ASSUME NapInv, HeardInv, SeenInv,
         UNCHANGED <<now, clock, lastSleep, lastHeard, lastBeacon, nodeMode, sleeper, seen, heard>>
  PROVE  NapInv' /\ HeardInv' /\ SeenInv'
  BY DEF NapInv, HeardInv, SeenInv

LEMMA NodeStep ==
  ASSUME SleepFor > 1, PlanTypeOK, ShownInv, NapInv, HeardInv, SeenInv, [PlanNext]_wakeVars
  PROVE  NapInv' /\ HeardInv' /\ SeenInv'
  <1>1. /\ now \in Nat \ {0} /\ Stay \in Nat /\ clock \in BOOLEAN /\ sleeper \in Sleepers
        /\ lastSleep \in Nat /\ lastHeard \in Nat /\ lastBeacon \in Nat
        /\ sleeper.down \in Nat /\ sleeper.wake \in Nat /\ sleeper.until \in Nat
        /\ heard \in [ever : BOOLEAN, boot : BOOLEAN]
    BY PlanAssumption DEF PlanTypeOK, Sleepers
  <1>2. /\ lastSleep <= sleeper.down + 1 /\ sleeper.down <= now /\ lastHeard <= now
        /\ sleeper.awake => lastSleep < now /\ sleeper.down < now /\ (sleeper.auto => now <= sleeper.until)
        /\ ~sleeper.awake => lastSleep < sleeper.wake /\ now <= sleeper.wake
    BY DEF NapInv
  <1>3. ~sleeper.awake => sleeper.down < sleeper.wake
    <2> SUFFICES ASSUME ~sleeper.awake PROVE sleeper.down < sleeper.wake
      OBVIOUS
    <2>1. sleeper.auto \in BOOLEAN /\ sleeper.table \in Seq(Entries)
      BY <1>1 DEF Sleepers
    <2>2. NodeWake(sleeper.down, sleeper.auto, sleeper.table) > sleeper.down
      BY <1>1, <2>1, NodeWakeIs
    <2>3. sleeper.wake = NodeWake(sleeper.down, sleeper.auto, sleeper.table)
      BY DEF NapInv
    <2> QED
      BY <1>1, <2>2, <2>3
  <1>4. ASSUME NEW n \in Sleepers, Beacons(n), n.awake, n.down = sleeper.down, sleeper.down < now, lastSleep < now
        PROVE  NapInv' /\ HeardInv' /\ SeenInv'
    <2>1. /\ now' = now /\ clock' = clock
          /\ sleeper'.awake = n.awake /\ sleeper'.auto = n.auto
          /\ sleeper'.until = now + Stay /\ sleeper'.down = n.down
          /\ lastSleep' = lastSleep
          /\ \/ /\ heard'.boot = clock /\ seen' = clock /\ nodeMode' = n.auto
                /\ lastBeacon' = IF clock THEN now ELSE lastBeacon
                /\ lastHeard' = IF clock THEN now ELSE lastHeard
             \/ heard'.boot = FALSE /\ seen' = FALSE /\ lastHeard' = lastHeard
      BY <1>4, BeaconsIs
    <2> QED
      BY <1>1, <1>2, <1>4, <2>1, BeaconStep
  <1>5. CASE WakesUp
    <2> DEFINE n == [sleeper EXCEPT !.awake = TRUE]
    <2>1. ~sleeper.awake /\ now >= sleeper.wake /\ Beacons(n)
      BY <1>5 DEF WakesUp
    <2>2. n \in Sleepers /\ n.awake /\ n.down = sleeper.down
      BY <1>1 DEF Sleepers
    <2>3. sleeper.down < now /\ lastSleep < now
      BY <1>1, <1>2, <1>3, <2>1
    <2> HIDE DEF n
    <2> QED
      BY <1>4, <2>1, <2>2, <2>3
  <1>6. CASE Resets
    <2>1. /\ now > sleeper.down + 1 /\ now' = now /\ clock' = clock
          /\ sleeper' = [sleeper EXCEPT !.awake = TRUE, !.until = now + Stay, !.wake = 0]
          /\ heard' = [ever |-> TRUE, boot |-> clock] /\ seen' = clock
      BY <1>6 DEF Resets
    <2>2. sleeper'.awake /\ sleeper'.until = now + Stay /\ sleeper'.down = sleeper.down /\ sleeper'.auto = sleeper.auto
      BY <1>1, <2>1 DEF Sleepers
    <2>3. sleeper.auto \in BOOLEAN
      BY <1>1 DEF Sleepers
    <2>4. /\ lastSleep' = lastSleep /\ nodeMode' = sleeper.auto
          /\ lastBeacon' = IF clock THEN now ELSE lastBeacon
          /\ lastHeard' = IF clock THEN now ELSE lastHeard
      BY <1>6, <2>1, <2>3, BeaconNoteIs DEF Resets
    <2>5. heard'.boot = clock
      BY <2>1
    <2>6. sleeper.down < now /\ lastSleep < now
      BY <1>1, <1>2, <2>1
    <2> QED
      BY <1>1, <1>2, <2>1, <2>2, <2>4, <2>5, <2>6, BeaconStep
  <1>7. CASE Uplink
    <2>1. Speaks /\ HeardUplink /\ now' = now /\ clock' = clock /\ sleeper' = sleeper /\ seen' = seen
      BY <1>7 DEF Uplink
    <2>2. /\ heard' = [ever |-> TRUE, boot |-> clock]
          /\ lastSleep' = lastSleep /\ lastBeacon' = lastBeacon /\ nodeMode' = nodeMode
          /\ lastHeard' = IF clock THEN now ELSE lastHeard
      BY <2>1, HeardUplinkIs
    <2>3. heard'.boot = clock
      BY <2>2
    <2> QED
      BY <2>1, <2>2, <2>3, UplinkStep
  <1>8. CASE Adopts
    <2> DEFINE n == [sleeper EXCEPT !.table = table, !.auto = auto]
    <2>1. Speaks /\ sleeper.awake
      BY <1>8 DEF Adopts, Speaks
    <2>2. /\ n \in Sleepers /\ n.awake = sleeper.awake /\ n.down = sleeper.down /\ n.until = sleeper.until
      BY <1>1 DEF Sleepers, PlanTypeOK
    <2>3. CASE n.auto # sleeper.auto
      <3>1. Beacons(n)
        BY <1>8, <2>3 DEF Adopts
      <3> HIDE DEF n
      <3> QED
        BY <1>2, <1>4, <2>1, <2>2, <3>1
    <2>4. CASE n.auto = sleeper.auto
      <3>1. sleeper' = n /\ HeardUplink /\ now' = now /\ clock' = clock /\ seen' = seen
        BY <1>8, <2>4 DEF Adopts
      <3>2. /\ heard' = [ever |-> TRUE, boot |-> clock]
            /\ lastSleep' = lastSleep /\ lastBeacon' = lastBeacon /\ nodeMode' = nodeMode
            /\ lastHeard' = IF clock THEN now ELSE lastHeard
        BY <3>1, HeardUplinkIs
      <3>3. heard'.boot = clock
        BY <3>2
      <3> HIDE DEF n
      <3> QED
        BY <2>1, <2>2, <2>4, <3>1, <3>2, <3>3, UplinkStep
    <2> QED
      BY <2>3, <2>4
  <1>9. CASE GoesToSleep
    <2>1. /\ sleeper.awake /\ sleeper.auto /\ now >= sleeper.until /\ sleeper' = GoesDown
          /\ UNCHANGED <<now, clock, belief, seen, heard>>
      BY <1>9 DEF GoesToSleep
    <2> QED
      BY <2>1, DownStep DEF belief
  <1>10. CASE SleepAcknowledged
    <2>1. /\ sleeper.awake /\ ~sleeper.auto /\ sleeper' = GoesDown
          /\ now' = now /\ clock' = clock /\ seen' = seen /\ heard' = heard
          /\ NoteNodeHeard([HeardNow EXCEPT !.sleep = SleepStamp(HeardNow)])
      BY <1>10 DEF SleepAcknowledged
    <2>2. /\ lastSleep' = IF clock THEN now + 1 ELSE lastSleep
          /\ lastHeard' = IF clock THEN now ELSE lastHeard
          /\ lastBeacon' = lastBeacon /\ nodeMode' = nodeMode
      BY <2>1, SleepNoteIs
    <2>3. lastHeard' \in {now, lastHeard}
      BY <2>2
    <2>4. lastSleep' = lastSleep \/ (clock /\ lastSleep' = now + 1)
      BY <2>2
    <2> QED
      BY <2>1, <2>2, <2>3, <2>4, DownStep
  <1>11. CASE SleepUnconfirmed
    <2>1. /\ now' = now /\ clock' = clock /\ seen' = seen /\ heard' = heard
          /\ NoteNodeHeard([Belief EXCEPT !.unconf = TRUE])
      BY <1>11 DEF SleepUnconfirmed
    <2>2. sleeper' = sleeper \/ (sleeper.awake /\ ~sleeper.auto /\ sleeper' = GoesDown)
      BY <1>11 DEF SleepUnconfirmed
    <2>3. lastSleep' = lastSleep /\ lastHeard' = lastHeard /\ lastBeacon' = lastBeacon /\ nodeMode' = nodeMode
      BY <2>1, UnconfirmedNoteIs
    <2>4. CASE sleeper' = sleeper
      BY <2>1, <2>3, <2>4, NodeAsBefore
    <2>5. CASE sleeper.awake /\ ~sleeper.auto /\ sleeper' = GoesDown
      BY <2>1, <2>3, <2>5, DownStep
    <2> QED
      BY <2>2, <2>4, <2>5
  <1>12. CASE StatusTimeout \/ StatusNet
    <2>1. UNCHANGED <<now, clock, belief, sleeper, seen, heard>>
      BY <1>12 DEF StatusTimeout, StatusNet
    <2> QED
      BY <2>1, NodeAsBefore DEF belief
  <1>13. CASE \/ \E i \in 1 .. MaxEntries : ScheduleSlotTime(i) \/ ScheduleSlotSelect(i) \/ ScheduleEnableSwitch(i)
              \/ SwitchAutoMode
              \/ ScheduleText
    <2>1. Edit
      BY <1>13, EditsAreTyped, PlanTypeIs
    <2>2. UNCHANGED <<now, clock, belief, sleeper, seen, heard>>
      BY <2>1 DEF Edit
    <2> QED
      BY <2>2, NodeAsBefore DEF belief
  <1>14. CASE HubReboots
    <2>1. /\ UNCHANGED <<now, lastSleep, sleeper>> /\ lastHeard' = 0 /\ seen' = FALSE
          /\ heard' = [heard EXCEPT !.boot = FALSE]
      BY <1>14 DEF HubReboots
    <2>2. ~heard'.boot
      BY <1>1, <2>1
    <2>3. NapInv'
      BY <1>1, <2>1 DEF NapInv
    <2>4. HeardInv' /\ SeenInv'
      BY <2>1, <2>2 DEF HeardInv, SeenInv
    <2> QED
      BY <2>3, <2>4
  <1>15. CASE ClockIsSet
    <2>1. ~clock /\ UNCHANGED <<now, belief, sleeper, seen, heard>>
      BY <1>15 DEF ClockIsSet
    <2>2. ~heard.boot /\ ~seen
      BY <2>1 DEF HeardInv, SeenInv
    <2>3. HeardInv' /\ SeenInv'
      BY <2>1, <2>2 DEF HeardInv, SeenInv
    <2>4. NapInv'
      BY <2>1 DEF NapInv, belief
    <2> QED
      BY <2>3, <2>4
  <1>16. CASE Tick
    <2>1. /\ IF sleeper.awake THEN sleeper.auto => now < sleeper.until ELSE now < sleeper.wake
          /\ now' = now + 1 /\ UNCHANGED <<clock, belief, sleeper, seen, heard>>
      BY <1>16 DEF Tick
    <2>2. NapInv'
      BY <1>1, <2>1 DEF NapInv, belief
    <2>3. HeardInv' /\ SeenInv'
      BY <2>1 DEF HeardInv, SeenInv, belief
    <2> QED
      BY <2>2, <2>3
  <1>17. CASE UNCHANGED wakeVars
    BY <1>17, NodeAsBefore DEF wakeVars, belief
  <1> QED
    BY <1>5, <1>6, <1>7, <1>8, <1>9, <1>10, <1>11, <1>12, <1>13, <1>14, <1>15, <1>16, <1>17 DEF PlanNext

LEMMA NodeFirst == PlanInit => NapInv /\ HeardInv /\ SeenInv
  <1> SUFFICES ASSUME PlanInit PROVE NapInv /\ HeardInv /\ SeenInv
    OBVIOUS
  <1>1. /\ now = 1 /\ lastSleep = 0 /\ lastHeard = 0 /\ ~seen /\ ~heard.boot
        /\ sleeper.awake /\ sleeper.down = 0 /\ sleeper.until = 1 + Stay
    BY DEF PlanInit
  <1>2. Stay \in Nat
    BY PlanAssumption
  <1>3. NapInv
    BY <1>1, <1>2 DEF NapInv
  <1> QED
    BY <1>1, <1>3 DEF HeardInv, SeenInv

\* With nothing switched off the hub looks at the table as it is.
LEMMA StoredIs ==
  ASSUME NEW tab \in Seq(Entries), \A i \in DOMAIN tab : tab[i].enabled
  PROVE  Stored(tab) = tab
  <1>1. tab = [i \in DOMAIN tab |-> tab[i]]
    OBVIOUS
  <1>2. ASSUME NEW i \in DOMAIN tab PROVE [tab[i] EXCEPT !.enabled = TRUE] = tab[i]
    <2> DEFINE e == tab[i]
    <2>1. e \in Entries
      OBVIOUS
    <2>2. e.enabled = TRUE
      <3>1. e.enabled /\ e.enabled \in BOOLEAN
        BY <2>1 DEF Entries
      <3> HIDE DEF e
      <3> QED
        BY Zenon, <3>1
    <2> HIDE DEF e
    <2>3. [e EXCEPT !.enabled = TRUE] = e
      <3>1. e = [minute |-> e.minute, days |-> e.days, enabled |-> e.enabled]
        BY <2>1 DEF Entries
      <3>2. e = [minute |-> e.minute, days |-> e.days, enabled |-> TRUE]
        BY <2>2, <3>1
      <3> QED
        BY <3>2
    <2> QED
      BY <2>3 DEF e
  <1> QED
    BY <1>1, <1>2 DEF Stored

\* The wake the hub predicts of an automatic node: before the next slot, or at the check-in.
LEMMA NextWakeIs ==
  ASSUME NEW b \in Beliefs, b.auto, b.clock, b.sleep = 0, b.beacon # 0, \A i \in DOMAIN b.table : b.table[i].enabled
  PROVE  LET w == NextWake(b)
             next == NextOccurrence(b.table, b.now).at
             event == IF next > Lead THEN next - Lead ELSE b.now
         IN  /\ \/ w = 0
                \/ next # 0 /\ w = event
                \/ CheckIn # 0 /\ w = b.beacon + CheckIn
             /\ CheckIn # 0 /\ b.now # 0 => w # 0
  <1> DEFINE w == NextWake(b)
             next == NextOccurrence(b.table, b.now).at
             event == IF next > Lead THEN next - Lead ELSE b.now
             wakes == Wakes(next, event, b.beacon)
  <1>1. b.now \in Nat /\ b.beacon \in Nat /\ b.table \in Seq(Entries) /\ CheckIn \in Nat /\ Lead \in Nat
    BY PlanAssumption DEF Beliefs
  <1>2. Stored(b.table) = b.table
    BY <1>1, StoredIs
  <1>3. w = IF wakes = {} THEN 0 ELSE Min(wakes)
    BY <1>2 DEF NextWake
  <1>4. next \in Nat
    BY <1>1, NextAt
  <1> HIDE DEF w, next
  <1>5. event \in Int /\ b.beacon + CheckIn \in Int /\ (b.now # 0 => event # 0) /\ b.beacon + CheckIn # 0
    BY <1>1, <1>4
  <1> DEFINE c == b.beacon + CheckIn
  <1>6. c \in Int /\ c # 0
    BY <1>5
  <1> HIDE DEF event, c
  <1>7. wakes \subseteq {event, c, c}
    BY DEF Wakes, c
  <1>8. CASE wakes = {}
    <2>1. w = 0 /\ CheckIn = 0
      BY <1>3, <1>8 DEF Wakes
    <2> QED
      BY <2>1 DEF w, next, event
  <1>9. CASE wakes # {}
    <2> HIDE DEF wakes
    <2>1. w \in wakes
      <3>1. Min(wakes) \in wakes
        BY <1>5, <1>6, <1>7, <1>9, LeastOfThree
      <3> QED
        BY <1>3, <1>9, <3>1
    <2>2. (next # 0 /\ w = event) \/ (CheckIn # 0 /\ w = c)
      BY <2>1 DEF wakes, c, Wakes
    <2>3. b.now # 0 => w # 0
      BY <1>5, <1>6, <2>2
    <2> QED
      BY <2>2, <2>3 DEF w, next, event, c
  <1> QED
    BY <1>8, <1>9

LEMMA HeardIsTrue ==
  ASSUME PlanTypeOK, HeardInv
  PROVE  HeardIsNotAsleep
  <1> SUFFICES ASSUME sleeper.awake, heard.boot, SleepState(Belief) = "Asleep" PROVE FALSE
    BY DEF HeardIsNotAsleep
  <1>1. lastHeard \in Nat /\ lastSleep \in Nat /\ lastHeard >= lastSleep
    BY DEF PlanTypeOK, HeardInv
  <1>2. Belief.heard < Belief.sleep
    BY BeliefIs, AsleepIs
  <1>3. lastHeard < lastSleep
    BY <1>2 DEF Belief
  <1> QED
    BY <1>1, <1>3

\* What is known of a state in which the hub and the node agree and the last beacon was heard.
LEMMA AgreedIs ==
  ASSUME PlanTypeOK, SeenInv, Agreed, seen
  PROVE  /\ Belief \in Beliefs /\ Belief.now = now /\ Belief.clock /\ Belief.table = sleeper.table
         /\ Belief.auto = sleeper.auto /\ auto = sleeper.auto /\ Belief.sleep = lastSleep /\ Belief.heard = lastHeard
         /\ Belief.beacon = lastBeacon /\ Belief.mode = sleeper.auto /\ lastBeacon # 0
         /\ auto => lastSleep = 0 /\ \A i \in DOMAIN Belief.table : Belief.table[i].enabled
  BY BeliefIs DEF Belief, Agreed, SeenInv

LEMMA OverdueStep ==
  ASSUME PlanTypeOK, NapInv, SeenInv
  PROVE  OverdueIsTrue
  <1> SUFFICES ASSUME BeaconOverdue(Belief), Agreed, seen PROVE FALSE
    BY DEF OverdueIsTrue
  <1> DEFINE b == Belief
             w == NextWake(b)
             nodeWake == NodeWake(sleeper.down, sleeper.auto, sleeper.table)
  <1>1. /\ now \in Nat \ {0} /\ Stay \in Nat /\ Grace \in Nat /\ Stay < Grace /\ Lead \in Nat /\ Lead <= Grace
        /\ CheckIn \in Nat /\ SleepFor \in Nat
        /\ lastSleep \in Nat /\ lastBeacon \in Nat /\ sleeper.down \in Nat /\ sleeper.wake \in Nat /\ sleeper.until \in Nat
        /\ sleeper.auto \in BOOLEAN /\ sleeper.table \in Seq(Entries)
    BY PlanAssumption, StayAssumption DEF PlanTypeOK
  <1>2. /\ b \in Beliefs /\ b.now = now /\ b.clock /\ b.table = sleeper.table
        /\ b.auto = sleeper.auto /\ auto = sleeper.auto /\ b.sleep = lastSleep /\ b.beacon = lastBeacon /\ lastBeacon # 0
        /\ auto => lastSleep = 0 /\ \A i \in DOMAIN b.table : b.table[i].enabled
    BY AgreedIs
  <1>3. w # 0 /\ ~(~b.auto /\ b.beacon > b.sleep) /\ b.now >= w + Grace
    BY DEF BeaconOverdue
  <1>4. ~sleeper.awake => now <= sleeper.wake /\ sleeper.wake = nodeWake
    BY DEF NapInv
  <1>5. /\ nodeWake \in Nat
        /\ ~sleeper.auto => nodeWake = sleeper.down + SleepFor
        /\ sleeper.auto /\ CheckIn # 0 => nodeWake <= sleeper.down + CheckIn
    BY <1>1, NodeWakeIs
  <1> HIDE DEF nodeWake
  <1>6. CASE ~sleeper.auto
    <2>1. w = lastSleep + SleepFor /\ lastBeacon <= lastSleep
      <3>1. lastBeacon <= lastSleep /\ lastSleep # 0
        BY <1>1, <1>2, <1>3, <1>6
      <3>2. w = lastSleep + SleepFor
        BY <1>2, <1>6, <3>1 DEF NextWake
      <3> QED
        BY <3>1, <3>2
    <2>2. ~sleeper.awake /\ sleeper.down <= lastSleep
      BY <1>1, <1>6, <2>1 DEF SeenInv
    <2> HIDE DEF w, b
    <2> QED
      BY <1>1, <1>2, <1>3, <1>4, <1>5, <1>6, <2>1, <2>2
  <1>7. CASE sleeper.auto
    <2> DEFINE next == NextOccurrence(b.table, b.now).at
               event == IF next > Lead THEN next - Lead ELSE b.now
    <2>1. \/ next # 0 /\ w = event
          \/ CheckIn # 0 /\ w = lastBeacon + CheckIn
      BY <1>2, <1>3, <1>7, NextWakeIs
    <2>2. next \in Nat /\ (next # 0 => next > now)
      BY <1>1, <1>2, NextAt
    <2> HIDE DEF w, next, b
    <2>3. CASE next # 0 /\ w = event
      BY <1>1, <1>2, <1>3, <2>2, <2>3
    <2>4. CASE CheckIn # 0 /\ w = lastBeacon + CheckIn
      <3>1. now >= lastBeacon + CheckIn + Grace
        BY <1>1, <1>2, <1>3, <2>4
      <3>2. CASE sleeper.awake
        <4>1. now <= sleeper.until
          BY <1>7, <3>2 DEF NapInv
        <4>2. sleeper.until = lastBeacon + Stay
          BY <3>2 DEF SeenInv
        <4> QED
          BY <1>1, <3>1, <4>1, <4>2
      <3>3. CASE ~sleeper.awake
        <4>1. sleeper.down <= lastBeacon + Stay
          BY <1>7, <3>3 DEF SeenInv
        <4>2. now <= sleeper.down + CheckIn
          BY <1>1, <1>4, <1>5, <1>7, <2>4, <3>3
        <4> QED
          BY <1>1, <3>1, <4>1, <4>2
      <3> QED
        BY <3>2, <3>3
    <2> QED
      BY <2>1, <2>3, <2>4
  <1> QED
    BY <1>6, <1>7

LEMMA LeftAloneStep ==
  ASSUME SearchDays > Weekdays, CheckIn # 0, Stay # 0, PlanTypeOK, NapInv, SeenInv
  PROVE  AutoNodeIsLeftAlone
  <1> SUFFICES ASSUME auto, Agreed, seen, ~sleeper.awake, IsNodeAwake(Belief) PROVE sleeper.wake - now <= Stay
    BY DEF AutoNodeIsLeftAlone
  <1> DEFINE b == Belief
             w == NextWake(b)
             tab == sleeper.table
             next == NextOccurrence(tab, now).at
             first == NextOccurrence(tab, sleeper.down).at
  <1>1. /\ now \in Nat \ {0} /\ Stay \in Nat \ {0} /\ Lead \in Nat /\ CheckIn \in Nat /\ ClassA \in Nat
        /\ lastHeard \in Nat /\ lastBeacon \in Nat /\ sleeper.down \in Nat /\ sleeper.wake \in Nat
        /\ sleeper.auto \in BOOLEAN /\ tab \in Seq(Entries)
    BY PlanAssumption DEF PlanTypeOK
  <1>2. /\ b \in Beliefs /\ b.now = now /\ b.clock /\ b.table = tab /\ b.heard = lastHeard
        /\ b.auto = sleeper.auto /\ sleeper.auto /\ b.sleep = 0 /\ b.beacon = lastBeacon /\ b.mode = sleeper.auto
        /\ lastBeacon # 0 /\ \A i \in DOMAIN b.table : b.table[i].enabled
    BY AgreedIs
  <1>3. /\ sleeper.down <= now /\ sleeper.wake = NodeWake(sleeper.down, sleeper.auto, tab)
    BY DEF NapInv
  <1>4. sleeper.down <= lastBeacon + Stay /\ lastHeard + ClassA <= sleeper.down
    BY <1>2 DEF SeenInv
  <1>5. /\ sleeper.wake <= sleeper.down + CheckIn
        /\ first # 0 => sleeper.wake <= sleeper.down + 1 \/ sleeper.wake <= first - Lead
    <2> DEFINE nodeWake == NodeWake(sleeper.down, sleeper.auto, tab)
    <2>1. /\ sleeper.auto /\ CheckIn # 0 => nodeWake <= sleeper.down + CheckIn
          /\ sleeper.auto /\ first # 0 => nodeWake <= sleeper.down + 1 \/ nodeWake <= first - Lead
      BY <1>1, NodeWakeIs
    <2>2. sleeper.wake = nodeWake
      BY <1>3
    <2> HIDE DEF nodeWake, first, tab, b
    <2> QED
      BY <1>2, <2>1, <2>2
  <1>6. ~HeardLately(b)
    <2> HIDE DEF b
    <2>1. ~(now < lastHeard + ClassA)
      BY <1>1, <1>3, <1>4
    <2> QED
      BY <1>2, <2>1 DEF HeardLately
  <1>7. \/ next # 0 /\ w = IF next > Lead THEN next - Lead ELSE now
        \/ w = lastBeacon + CheckIn
    <2>1. b.now # 0
      BY <1>1, <1>2
    <2> DEFINE n == NextOccurrence(b.table, b.now).at
               event == IF n > Lead THEN n - Lead ELSE b.now
    <2>2. \/ n # 0 /\ w = event
          \/ w = b.beacon + CheckIn
      BY <1>2, <2>1, NextWakeIs
    <2>3. n = next
      BY <1>2
    <2> HIDE DEF w, n, next, b
    <2> QED
      BY <1>2, <2>2, <2>3
  <1>8. w # 0
    <2>1. b.now # 0
      BY <1>1, <1>2
    <2> QED
      BY <1>2, <2>1, NextWakeIs
  <1>9. now >= w
    BY <1>2, <1>6, <1>8 DEF IsNodeAwake
  <1>10. next # 0 => first # 0 /\ first <= next
    <2> SUFFICES ASSUME next # 0 PROVE first # 0 /\ first <= next
      OBVIOUS
    <2> DEFINE o == NextOccurrence(tab, now)
               p == NextOccurrence(tab, sleeper.down)
    <2>1. o = None \/ (o.at \in Int /\ o.at > now /\ o.which \in FiresAt(tab, o.at))
      BY <1>1, FirstIs
    <2>2. \/ p = None /\ \A t \in Int : t > sleeper.down => FiresAt(tab, t) = {}
          \/ p.at \in Int /\ p.at > sleeper.down /\ \A t \in Int : sleeper.down < t /\ t < p.at => FiresAt(tab, t) = {}
      BY <1>1, FirstIs
    <2>3. next = o.at /\ first = p.at
      OBVIOUS
    <2> HIDE DEF o, p, next, first
    <2>4. next \in Int /\ next > now /\ FiresAt(tab, next) # {}
      BY <2>1, <2>3 DEF None
    <2>5. next > sleeper.down
      BY <1>1, <1>3, <2>4
    <2>6. p # None /\ p.at \in Int /\ p.at > sleeper.down /\ ~(next > sleeper.down /\ next < p.at)
      <3>1. CASE p = None /\ \A t \in Int : t > sleeper.down => FiresAt(tab, t) = {}
        BY <2>4, <2>5, <3>1
      <3>2. CASE p.at \in Int /\ p.at > sleeper.down /\ \A t \in Int : sleeper.down < t /\ t < p.at => FiresAt(tab, t) = {}
        <4>1. p # None
          BY <1>1, <3>2 DEF None
        <4> QED
          BY <2>4, <3>2, <4>1
      <3> QED
        BY <2>2, <3>1, <3>2
    <2> QED
      BY <1>1, <2>3, <2>4, <2>5, <2>6
  <1>11. next \in Nat /\ first \in Nat
    BY <1>1, NextAt
  <1> HIDE DEF w, next, first, tab, b
  <1>12. CASE next # 0 /\ w = IF next > Lead THEN next - Lead ELSE now
    <2>1. first - Lead <= now
      <3>1. next - Lead <= now
        BY <1>1, <1>9, <1>11, <1>12
      <3> QED
        BY <1>1, <1>10, <1>11, <1>12, <3>1
    <2>2. sleeper.wake <= sleeper.down + 1 \/ sleeper.wake <= first - Lead
      BY <1>5, <1>10, <1>12
    <2> QED
      BY <1>1, <1>3, <1>11, <2>1, <2>2
  <1>13. CASE w = lastBeacon + CheckIn
    BY <1>1, <1>4, <1>5, <1>9, <1>13
  <1> QED
    BY <1>7, <1>12, <1>13

\* A node heard since it woke is never taken to be asleep, and one whose last beacon was heard is
\* never overdue, for every configuration in which a commanded sleep lasts more than a second.
THEOREM HeardAndSeenAreTrue ==
  ASSUME SleepFor > 1
  PROVE  PlanSpec => [](HeardIsNotAsleep /\ OverdueIsTrue)
  <1> DEFINE Inv == PlanTypeOK /\ ShownInv /\ NapInv /\ HeardInv /\ SeenInv
  <1>1. PlanInit => Inv
    BY PlanTypeFirst, NodeFirst
  <1>2. Inv /\ [PlanNext]_wakeVars => Inv'
    BY PlanTypeStep, NodeStep
  <1>3. Inv => HeardIsNotAsleep /\ OverdueIsTrue
    BY HeardIsTrue, OverdueStep
  <1> QED
    BY <1>1, <1>2, <1>3, PTL DEF PlanSpec

\* What the hub believes of the node's sleep is true of the node.  Times are whole seconds: a
\* commanded sleep lasts more than one (86400 by default), an automatic node is awake for at least
\* one after its beacon, and a check-in is configured (21600 by default; a node with neither
\* check-in nor slot never wakes, and the hub cannot tell).  The search covers a week and the
\* rest of today (8 days in the code).
THEOREM BeliefIsTrueHolds ==
  ASSUME SleepFor > 1, CheckIn # 0, Stay # 0, SearchDays > Weekdays
  PROVE  PlanSpec => []BeliefIsTrue
  <1> DEFINE Inv == PlanTypeOK /\ ShownInv /\ NapInv /\ HeardInv /\ SeenInv
  <1>1. PlanInit => Inv
    BY PlanTypeFirst, NodeFirst
  <1>2. Inv /\ [PlanNext]_wakeVars => Inv'
    BY PlanTypeStep, NodeStep
  <1>3. Inv => BeliefIsTrue
    BY HeardIsTrue, OverdueStep, LeftAloneStep DEF BeliefIsTrue
  <1> QED
    BY <1>1, <1>2, <1>3, PTL DEF PlanSpec
=============================================================================
