------------------------------- MODULE WakePlan -------------------------------
(***************************************************************************)
(* When a node can hear the hub, and when the hub believes it can.         *)
(*                                                                         *)
(* An interactive node sleeps SleepFor when it is told to; an automatic    *)
(* node sleeps by itself and wakes for its schedule or its check-in.  The  *)
(* hub predicts the wake from what it acknowledged, heard and stored       *)
(* (next_wake_epoch_), ignores commands to a node it believes asleep,      *)
(* shows that belief, and calls a node overdue when a predicted check-in   *)
(* passed without a beacon.                                                *)
(*                                                                         *)
(* The node is external: it beacons when it wakes and when its mode        *)
(* changes, and learns table and mode while it is awake.  It has no timed  *)
(* grid, so in automatic mode it hears the hub only right after an uplink. *)
(*                                                                         *)
(* Init, Next and the like are named after the plan: the theorems of this  *)
(* module are in one module with those of ScheduleSync.                    *)
(***************************************************************************)
EXTENDS Week

CONSTANTS
  SleepFor, CheckIn, Lead,   \* sleep_duration_, checkin_interval_ (0: none), beacon_lead_
  Interactive, ClassA,       \* interactive_timeout_, kClassAAwakeS
  Margin, Grace, Net,        \* marginMs, kBeaconOverdueGraceS, the "sleep_status_net" interval
  Stay,                      \* how long an automatic node stays awake after its beacon
  SeedTables, Texts, Minutes, DaySets,  \* the tables seeded and the edits explored
  MaxChanges, MaxMishaps, MaxBoots, MaxNow  \* bounds: edits, lost beacons and node resets, hub reboots, time

Entries == [minute : Nat, days : SUBSET AllDays, enabled : BOOLEAN]
Tokens == [time : Nat, days : SUBSET AllDays, action : STRING]

ASSUME PlanAssumption ==
  /\ SleepFor \in Nat \ {0} /\ CheckIn \in Nat /\ Lead \in Nat /\ Interactive \in Nat
  /\ ClassA \in Nat /\ Margin \in Nat /\ Grace \in Nat /\ Net \in Nat \ {0} /\ Stay \in Nat
  /\ MaxChanges \in Nat /\ MaxMishaps \in Nat /\ MaxBoots \in Nat /\ MaxNow \in Nat
ASSUME TablesAssumption ==
  /\ Minutes \subseteq Nat /\ \A d \in DaySets : d \in SUBSET AllDays
  /\ \A text \in Texts : text \in Seq(Tokens)
  /\ \A tab \in SeedTables : tab \in Seq(Entries) /\ Len(tab) <= MaxEntries
\* An automatic node is awake for less than the grace; its class A window lies inside it.
ASSUME StayAssumption == Stay < Grace /\ ClassA <= Stay /\ Lead <= Grace

VARIABLES
  now,
  clock,       \* the hub's clock is valid
  table, auto, \* sched_entries_, auto_mode_
  lastSleep, lastHeard, lastBeacon,  \* last_sleep_epoch_, last_heard_epoch_, last_beacon_epoch_
  nodeMode,    \* node_mode_, as the node reported it
  unconfirmed, \* sleep_unconfirmed
  shown,       \* sleep_pub_asleep_
  refreshAt,   \* the "sleep_status" timeout (0: none)
  netAt,       \* the next "sleep_status_net"
  sleeper,     \* awake, auto, table, until (it stays awake, if automatic), down, wake
  seen,        \* the node's last beacon was heard, by this boot of the hub
  heard,       \* the node was heard since it last woke: ever, or by this boot with a valid clock
  changes, mishaps, boots

belief == <<lastSleep, lastHeard, lastBeacon, nodeMode, unconfirmed>>
screen == <<shown, refreshAt, netAt>>
counts == <<changes, mishaps, boots>>
wakeVars == <<now, clock, table, auto, belief, screen, sleeper, seen, heard, counts>>

-----------------------------------------------------------------------------
(* What the hub believes.  The operators read the variables of the state they are given *)
(* as a record, since handlers change them before they look.                            *)

Belief == [now |-> now, clock |-> clock, table |-> table, auto |-> auto, sleep |-> lastSleep,
           heard |-> lastHeard, beacon |-> lastBeacon, mode |-> nodeMode, unconf |-> unconfirmed]

\* When a node may wake, of the next slot (0: none) and the instant its check-in is counted from.
Wakes(next, event, ref) ==
  (IF next # 0 THEN {event} ELSE {}) \union (IF CheckIn # 0 THEN {ref + CheckIn} ELSE {})

\* Every slot stored counts, the switched-off ones too.
Stored(tab) == [i \in DOMAIN tab |-> [tab[i] EXCEPT !.enabled = TRUE]]

\* Mutant of NextWake: the next slot is looked for from the last beacon on.
NextWakeFromBeacon(b) ==
  LET ref == IF b.sleep # 0 THEN b.sleep ELSE b.beacon
      next == NextOccurrence(b.table, ref).at
      wakes == (IF next # 0 THEN {next - Lead} ELSE {}) \union {ref + CheckIn}
  IN IF ref = 0 \/ ~b.clock THEN 0
     ELSE IF ~b.auto THEN ref + SleepFor
     ELSE Min(wakes)

\* 0: the hub cannot tell.
NextWake(b) ==
  LET ref == IF b.sleep # 0 THEN b.sleep ELSE b.beacon
      next == NextOccurrence(Stored(b.table), b.now).at
      wakes == Wakes(next, IF next > Lead THEN next - Lead ELSE b.now, ref)
  IN IF ref = 0 \/ ~b.clock THEN 0
     ELSE IF ~b.auto THEN ref + SleepFor
     ELSE IF wakes = {} THEN 0 ELSE Min(wakes)

\* Hearing the node beats the model, for as long as it listens after an uplink.
HeardLately(b) ==
  b.clock /\ b.heard # 0 /\ b.heard >= b.sleep
    /\ b.now < b.heard + (IF b.mode THEN ClassA ELSE Interactive)
IsNodeAwake(b) == HeardLately(b) \/ NextWake(b) = 0 \/ b.now >= NextWake(b)
UntilAwake(b) == IF IsNodeAwake(b) THEN 0 ELSE NextWake(b) - b.now

SleepState(b) ==
  IF b.auto THEN "Auto"
  ELSE IF b.unconf THEN "Unconfirmed"
  ELSE IF b.heard >= b.sleep \/ UntilAwake(b) <= Margin THEN "Awake"
  ELSE "Asleep"

\* Mutant of BeaconOverdue: the missed instant is compared with the wake still to come.
OverdueAtOnce(b) == NextWake(b) # 0 /\ b.now >= NextWake(b) /\ b.beacon < NextWake(b)

BeaconOverdue(b) ==
  /\ NextWake(b) # 0
  /\ ~(~b.auto /\ b.beacon > b.sleep)
  /\ b.now >= NextWake(b) + Grace
  /\ b.beacon < NextWake(b)

\* Mutant of RefreshStatus: the timeout ends at the wake and forgets the margin.
RefreshLate(b) ==
  LET asleep == SleepState(b) = "Asleep"
  IN /\ shown' = asleep
     /\ refreshAt' = IF asleep THEN b.now + UntilAwake(b) + 1 ELSE 0

\* Publishes on change and sets the timeout that ends "asleep" on time.
RefreshStatus(b) ==
  LET asleep == SleepState(b) = "Asleep"
  IN /\ shown' = asleep
     /\ refreshAt' = IF asleep THEN b.now + (UntilAwake(b) - Margin) + 1 ELSE 0

\* Mutant of HeardNow: only the failed sleep is forgotten, the instant is not noted.
HeardUnstamped == [Belief EXCEPT !.unconf = FALSE]

\* Any uplink.  The clock stamps only while it is valid.
HeardNow == [Belief EXCEPT !.unconf = FALSE, !.heard = IF clock THEN now ELSE lastHeard]
NoteBelief(b) ==
  /\ lastSleep' = b.sleep /\ lastHeard' = b.heard /\ lastBeacon' = b.beacon
  /\ nodeMode' = b.mode /\ unconfirmed' = b.unconf
NoteNodeHeard(b) == NoteBelief(b) /\ RefreshStatus(b)

-----------------------------------------------------------------------------
(* The node. *)

NodeWake(down, isAuto, tab) ==
  LET next == NextOccurrence(tab, down).at
  IN IF ~isAuto THEN down + SleepFor
     ELSE Max({down + 1, Min({MaxNow + 1} \union Wakes(next, next - Lead, down))})

GoesDown == [sleeper EXCEPT !.awake = FALSE, !.until = 0, !.down = now,
                            !.wake = NodeWake(now, sleeper.auto, sleeper.table)]

\* An uplink other than a beacon, heard.
HeardUplink ==
  /\ NoteNodeHeard(HeardNow)
  /\ heard' = [ever |-> TRUE, boot |-> clock]

\* The node, in state n from now on, beacons; the beacon is heard or lost.
Beacons(n) ==
  /\ sleeper' = [n EXCEPT !.until = now + Stay, !.wake = 0]
  /\ \/ /\ NoteNodeHeard([HeardNow EXCEPT !.beacon = IF clock THEN now ELSE lastBeacon, !.mode = n.auto])
        /\ heard' = [ever |-> TRUE, boot |-> clock] /\ seen' = clock
        /\ UNCHANGED mishaps
     \/ /\ mishaps < MaxMishaps /\ mishaps' = mishaps + 1
        /\ heard' = [ever |-> FALSE, boot |-> FALSE] /\ seen' = FALSE
        /\ UNCHANGED <<belief, shown, refreshAt>>
  /\ UNCHANGED <<now, clock, table, auto, netAt, changes, boots>>

WakesUp == ~sleeper.awake /\ now >= sleeper.wake /\ Beacons([sleeper EXCEPT !.awake = TRUE])

\* A reset at any moment, asleep or not; the boot takes more than a second.
Resets ==
  /\ mishaps < MaxMishaps /\ now > sleeper.down + 1
  /\ sleeper' = [sleeper EXCEPT !.awake = TRUE, !.until = now + Stay, !.wake = 0]
  /\ NoteNodeHeard([HeardNow EXCEPT !.beacon = IF clock THEN now ELSE lastBeacon, !.mode = sleeper.auto])
  /\ heard' = [ever |-> TRUE, boot |-> clock] /\ seen' = clock
  /\ mishaps' = mishaps + 1
  /\ UNCHANGED <<now, clock, table, auto, netAt, changes, boots>>

\* An automatic node is quiet before it sleeps: it listens only right after an uplink.
Speaks == sleeper.awake /\ (sleeper.auto => now + ClassA <= sleeper.until)
Uplink ==
  /\ Speaks /\ HeardUplink
  /\ UNCHANGED <<now, clock, table, auto, netAt, sleeper, seen, counts>>

\* It is told table and mode while it is awake; a change of mode makes it beacon.
Adopts ==
  LET n == [sleeper EXCEPT !.table = table, !.auto = auto]
  IN /\ Speaks /\ n # sleeper
     /\ IF n.auto # sleeper.auto THEN Beacons(n)
        ELSE /\ sleeper' = n /\ HeardUplink
             /\ UNCHANGED <<now, clock, table, auto, netAt, seen, counts>>

GoesToSleep ==
  /\ sleeper.awake /\ sleeper.auto /\ now >= sleeper.until
  /\ sleeper' = GoesDown
  /\ UNCHANGED <<now, clock, table, auto, belief, screen, seen, heard, counts>>

-----------------------------------------------------------------------------
(* The hub. *)

\* The sleep happened at the ack, but never earlier than the uplink that carried it.
SleepStamp(b) == IF clock THEN Max({now, b.heard + 1}) ELSE b.sleep

SleepAcknowledged ==
  /\ sleeper.awake /\ ~sleeper.auto
  /\ sleeper' = GoesDown
  /\ NoteNodeHeard([HeardNow EXCEPT !.sleep = SleepStamp(HeardNow)])
  /\ UNCHANGED <<now, clock, table, auto, netAt, seen, heard, counts>>

\* The ladder of a SLEEP is spent: it was not heard, or its ack was lost.
SleepUnconfirmed ==
  /\ mishaps < MaxMishaps /\ mishaps' = mishaps + 1
  /\ NoteNodeHeard([Belief EXCEPT !.unconf = TRUE])
  /\ sleeper' \in {sleeper} \union (IF sleeper.awake /\ ~sleeper.auto THEN {GoesDown} ELSE {})
  /\ UNCHANGED <<now, clock, table, auto, netAt, seen, heard, changes, boots>>

RefreshDue == refreshAt # 0 /\ now >= refreshAt
StatusTimeout ==
  /\ RefreshDue /\ RefreshStatus(Belief)
  /\ UNCHANGED <<now, clock, table, auto, belief, netAt, sleeper, seen, heard, counts>>

StatusNet ==
  /\ now >= netAt /\ netAt' = now + Net /\ RefreshStatus(Belief)
  /\ UNCHANGED <<now, clock, table, auto, belief, sleeper, seen, heard, counts>>

\* Neither the mode switch nor an edit looks at the status.
Edit == changes < MaxChanges /\ changes' = changes + 1
                /\ UNCHANGED <<now, clock, belief, screen, sleeper, seen, heard, mishaps, boots>>
SwitchAutoMode == auto' = ~auto /\ Edit /\ UNCHANGED table

\* set_slot_*: one field of one slot; a slot past the end brings empty ones with it.
Blank == [minute |-> 0, days |-> {}, enabled |-> FALSE]
EntryOf(i) == IF i <= Len(table) THEN table[i] ELSE Blank
SetSlot(i, entry) ==
  /\ table' = [j \in 1..Max({i, Len(table)}) |-> IF j = i THEN entry ELSE EntryOf(j)]
  /\ table' # table /\ Edit /\ UNCHANGED auto

\* The entities of a slot: its time, its days and its switch.
ScheduleSlotTime(i) == \E m \in Minutes : SetSlot(i, [EntryOf(i) EXCEPT !.minute = m])
ScheduleSlotSelect(i) == \E d \in DaySets : SetSlot(i, [EntryOf(i) EXCEPT !.days = d])
ScheduleEnableSwitch(i) == \E on \in BOOLEAN : SetSlot(i, [EntryOf(i) EXCEPT !.enabled = on])

\* set_schedule_text: the whole table is replaced, or nothing if the text does not parse.
SetScheduleText(text) == Parse(text).ok /\ table' = Parse(text).entries

\* The entity of the compact text form.
ScheduleText ==
  /\ \E text \in Texts : SetScheduleText(text)
  /\ Edit /\ UNCHANGED auto

\* The sleep, the table and the mode are restored, what was heard is not.  (A crash may restore
\* older ones, by up to flash_write_interval: left out here, ScheduleSync has it for the table.)
HubReboots ==
  /\ boots < MaxBoots /\ boots' = boots + 1
  /\ clock' = FALSE
  /\ lastHeard' = 0 /\ lastBeacon' = 0 /\ nodeMode' = FALSE /\ unconfirmed' = FALSE
  /\ shown' = FALSE /\ refreshAt' = 0 /\ netAt' = now + Net
  /\ seen' = FALSE /\ heard' = [heard EXCEPT !.boot = FALSE]
  /\ UNCHANGED <<now, table, auto, lastSleep, sleeper, changes, mishaps>>

ClockIsSet ==
  /\ ~clock /\ clock' = TRUE
  /\ UNCHANGED <<now, table, auto, belief, screen, sleeper, seen, heard, counts>>

\* Nodes and timeouts are prompt.
Tick ==
  /\ now < MaxNow /\ ~RefreshDue /\ now < netAt
  /\ IF sleeper.awake THEN sleeper.auto => now < sleeper.until ELSE now < sleeper.wake
  /\ now' = now + 1
  /\ UNCHANGED <<clock, table, auto, belief, screen, sleeper, seen, heard, counts>>

PlanInit ==
  /\ now = 1 /\ clock = TRUE /\ table \in SeedTables /\ auto \in BOOLEAN
  /\ lastSleep = 0 /\ lastHeard = 0 /\ lastBeacon = 0 /\ nodeMode = FALSE /\ unconfirmed = FALSE
  /\ shown = FALSE /\ refreshAt = 0 /\ netAt = 1 + Net
  /\ sleeper = [awake |-> TRUE, auto |-> auto, table |-> table, until |-> 1 + Stay, down |-> 0, wake |-> 0]
  /\ seen = FALSE /\ heard = [ever |-> FALSE, boot |-> FALSE]
  /\ changes = 0 /\ mishaps = 0 /\ boots = 0

PlanNext ==
  \/ WakesUp \/ Resets \/ Uplink \/ Adopts \/ GoesToSleep
  \/ SleepAcknowledged \/ SleepUnconfirmed \/ StatusTimeout \/ StatusNet
  \/ \E i \in 1..MaxEntries : ScheduleSlotTime(i) \/ ScheduleSlotSelect(i) \/ ScheduleEnableSwitch(i)
  \/ SwitchAutoMode \/ ScheduleText \/ HubReboots \/ ClockIsSet \/ Tick
PlanSpec == PlanInit /\ [][PlanNext]_wakeVars

-----------------------------------------------------------------------------
(* Properties. *)

\* Every variable keeps its type, and the records the hub and the node keep of one another are
\* well formed.
PlanTypeOK ==
  /\ now \in Nat \ {0} /\ clock \in BOOLEAN
  /\ table \in Seq(Entries) /\ Len(table) <= MaxEntries /\ auto \in BOOLEAN
  /\ lastSleep \in Nat /\ lastHeard \in Nat /\ lastBeacon \in Nat
  /\ nodeMode \in BOOLEAN /\ unconfirmed \in BOOLEAN
  /\ shown \in BOOLEAN /\ refreshAt \in Int /\ netAt \in Nat
  /\ sleeper \in [awake : BOOLEAN, auto : BOOLEAN, table : Seq(Entries), until : Nat, down : Nat, wake : Nat]
  /\ seen \in BOOLEAN /\ heard \in [ever : BOOLEAN, boot : BOOLEAN]
  /\ changes \in 0..MaxChanges /\ mishaps \in 0..MaxMishaps /\ boots \in 0..MaxBoots

\* next_occurrence is the first instant after now at which a slot fires, and last_missed the
\* last one up to now since the node went down or was heard, whatever the zone, the day of
\* the week and the order of the slots; of two slots at one instant the first is next and
\* the last was missed.
ScheduleSearchIsExact ==
  LET fires(t, i) == Valid(table[i]) /\ table[i].minute = LocalMinute(t) /\ Weekday(t) \in table[i].days
      at(t) == {i \in DOMAIN table : fires(t, i)}
      ahead == {t \in (now + 1)..(now + Weekdays * DayLen) : at(t) # {}}
      past(from) == {t \in (from + 1)..now : at(t) # {}}
      is(o, times, t, i) == IF times = {} THEN o = None ELSE o.at = t /\ o.which = i
  IN /\ is(NextOccurrence(table, now), ahead, Min(ahead), Min(at(Min(ahead))))
     /\ \A from \in {sleeper.down, lastHeard} :
          is(LastMissed(table, from, now), past(from), Max(past(from)), Max(at(Max(past(from)))))

\* A node heard by this boot of the hub since it last woke is never believed asleep, so no
\* command to it is ignored: early resets, unconfirmed sleeps and mode switches included.
HeardIsNotAsleep ==
  sleeper.awake /\ heard.boot => SleepState(Belief) # "Asleep"

\* The same across reboots of the hub, as SleepModel.h states it.  No run lists it: it fails,
\* because the time of the last sleep is kept in flash and that of the last uplink is not.
HearingBeatsTheClock ==
  sleeper.awake /\ heard.ever => SleepState(Belief) # "Asleep"

\* The sensor goes off on time: it shows a sleep at most one second after the model has
\* ended it, whether or not the node was heard.
SensorEndsOnTime ==
  shown /\ ~RefreshDue /\ ~auto => SleepState([Belief EXCEPT !.now = now - 1]) = "Asleep"

\* What is stored is what the node has, it never slept on command, and no slot is off.
Agreed ==
  /\ clock /\ sleeper.auto = auto /\ sleeper.table = table
  /\ auto => lastSleep = 0 /\ \A i \in DOMAIN table : table[i].enabled

\* A node whose last beacon was heard is not overdue, however long it has been quiet.
OverdueIsTrue == BeaconOverdue(Belief) /\ Agreed => ~seen

\* The hub does not take a sleeping automatic node for an awake one, except for the little
\* it stayed awake after the beacon its check-in is counted from.
AutoNodeIsLeftAlone ==
  auto /\ Agreed /\ seen /\ ~sleeper.awake /\ IsNodeAwake(Belief) => sleeper.wake - now <= Stay

\* What the hub believes of the node's sleep is true of the node: heard is not asleep, silent is
\* not overdue, and asleep by itself is not awake.
BeliefIsTrue == HeardIsNotAsleep /\ OverdueIsTrue /\ AutoNodeIsLeftAlone

-----------------------------------------------------------------------------
(* Inductive invariants. *)

\* A sleep is shown only while nothing was heard since it, and the timeout that ends it is set.
ShownInv ==
  shown => /\ clock /\ ~unconfirmed /\ lastHeard < lastSleep
           /\ refreshAt = lastSleep + SleepFor - Margin + 1 /\ refreshAt > 0

\* A node that is awake woke after the last sleep it acknowledged, one that sleeps wakes after
\* it; and it does neither later than it planned.
NapInv ==
  /\ lastSleep <= sleeper.down + 1 /\ sleeper.down <= now /\ lastHeard <= now
  /\ sleeper.awake => lastSleep < now /\ sleeper.down < now /\ (sleeper.auto => now <= sleeper.until)
  /\ ~sleeper.awake => /\ lastSleep < sleeper.wake /\ now <= sleeper.wake
                       /\ sleeper.wake = NodeWake(sleeper.down, sleeper.auto, sleeper.table)

\* What was heard since the node woke was heard after its sleep.
HeardInv ==
  /\ heard.boot => clock
  /\ sleeper.awake /\ heard.boot => lastHeard >= lastSleep

\* What the last beacon told the hub still holds; an acknowledged sleep since is the node's last.
SeenInv ==
  seen =>
    /\ clock /\ lastBeacon # 0 /\ nodeMode = sleeper.auto
    /\ sleeper.awake => lastSleep < lastBeacon /\ sleeper.until = lastBeacon + Stay
    /\ sleeper.awake /\ sleeper.auto => lastHeard + ClassA <= sleeper.until
    /\ ~sleeper.awake /\ sleeper.auto =>
         lastSleep < lastBeacon /\ sleeper.down <= lastBeacon + Stay /\ lastHeard + ClassA <= sleeper.down
    /\ ~sleeper.awake /\ ~sleeper.auto => lastSleep < lastBeacon \/ sleeper.down <= lastSleep

PlanInv == ShownInv /\ NapInv /\ HeardInv /\ SeenInv
=============================================================================
