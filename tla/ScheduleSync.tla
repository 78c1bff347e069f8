---------------------------- MODULE ScheduleSync ----------------------------
(***************************************************************************)
(* The schedule of one node: what Home Assistant edits on the hub, its     *)
(* copy in flash (written once an interval, so a crash loses the edits     *)
(* since), the push to the node (the Config channel's request), and the    *)
(* reconciliation that makes it self-healing - the node reports the        *)
(* version it runs in every wake beacon and the hub pushes whenever that   *)
(* is not its own.  The automatic mode is part of the schedule, but the    *)
(* hub also switches an awake node at once with a sysop, and a button at   *)
(* the blind suspends it without a word to the schedule's version.         *)
(*                                                                         *)
(* A version is the CRC of the canonical schedule: here, the schedule      *)
(* itself.  Uplinks of the node arrive in order.  What the node does with  *)
(* a frame is external (it is not in this repository).                     *)
(***************************************************************************)
EXTENDS Integers, Sequences, FiniteSets

CONSTANTS
  Tables,        \* contents of the slot table
  Seed,          \* the schedule compiled in from the YAML
  MaxRetries,    \* kSchedMaxRetries, 3 in the code
  AckCap,        \* AckIds::kCap, 8 in the code
  Override,      \* does a button's override end by itself (interactive_timeout # 0)?
  MaxEdits,      \* bound: edits in Home Assistant and buttons at the blind
  MaxFaults,     \* bound: restarts, logins, resets, losses and saves that fail
  MaxEvents,     \* bound: all of these together
  MaxUp          \* bound: uplinks on their way

Schedules == [auto: BOOLEAN, table: Tables]
NoSchedule == [auto |-> FALSE, table |-> "none"]   \* version 0
Versions == Schedules \cup {NoSchedule}

\* schedule_version: a CRC of 0 becomes 1, so no schedule has version 0.
ASSUME SeedAssumption == Seed \in Schedules /\ NoSchedule \notin Schedules
ASSUME LadderAssumption == MaxRetries \in Nat /\ AckCap \in Nat \ {0} /\ Override \in BOOLEAN
ASSUME BoundsAssumption == {MaxEdits, MaxFaults, MaxEvents, MaxUp} \subseteq Nat

VARIABLES
  \* the hub
  config,      \* sched_entries_ and auto_mode_
  staged,      \* the blob ESPHome was last handed, NoSchedule when there is none
  flash,       \* the blob it has last written
  known,       \* node_sched_version_
  live,        \* the session is confirmed (FALSE: it is being rebuilt)
  timer,       \* schedule_push is armed
  awaiting, tries, acks,   \* the Config channel; acks: <<msgid, version>>, oldest first
  modes,       \* mode sysops on the Control channel, oldest first
  switch,      \* what Home Assistant shows
  \* the node
  node,        \* the schedule it runs
  nodeAuto,    \* it is in automatic mode
  \* the air
  down,        \* the push on the air: <<msgid, version>>, or <<>>
  up,          \* acks and beacons on their way, oldest first
  \* history
  wanted,      \* the mode asked of the switch that the node is not in yet, if any
               \* (followed where a button's override does not end by itself)
  unsaved,     \* the blob of the latest edit was not taken in hand
  crossed,     \* the latest news of the node may be of before a push it has since taken
  used         \* how much of each bound is spent

slot == <<awaiting, tries, acks>>
hub == <<config, staged, flash, known, live, timer, slot, modes, switch>>
blind == <<node, nodeAuto>>
history == <<wanted, unsaved, crossed>>
vars == <<hub, blind, down, up, history, used>>

Init ==
  /\ config = Seed /\ staged = NoSchedule /\ flash = NoSchedule /\ known = NoSchedule
  /\ live = FALSE /\ timer = FALSE
  /\ awaiting = FALSE /\ tries = 0 /\ acks = <<>>
  /\ modes = <<>> /\ switch = Seed.auto
  /\ node = NoSchedule /\ nodeAuto = FALSE
  /\ down = <<>> /\ up = <<>>
  /\ wanted = "none" /\ unsaved = FALSE /\ crossed = FALSE
  /\ used = [edits |-> 0, faults |-> 0]

Mode(auto) == IF auto THEN "auto" ELSE "interactive"

\* The node is now in this mode.
NodeTurns(auto) ==
  /\ nodeAuto' = auto
  /\ wanted' = IF wanted = Mode(auto) THEN "none" ELSE wanted

Spend(edits, faults) ==
  /\ used' = [edits |-> used.edits + edits, faults |-> used.faults + faults]
  /\ used'.edits <= MaxEdits /\ used'.faults <= MaxFaults
  /\ used'.edits + used'.faults <= MaxEvents

Edited == Spend(1, 0)
Fault == Spend(0, 1)

\* An edit, and whether ESPHome takes the blob in hand.
EditedAnd(taken) == Spend(1, IF taken THEN 0 ELSE 1)

\* schedule_pending
Pending == known # config

-----------------------------------------------------------------------------
(* Edits in Home Assistant *)

\* Mutant of Save: the blob has the table alone, the mode stays what it was.
SavesTheTable(c) == [c EXCEPT !.auto = IF staged = NoSchedule THEN Seed.auto ELSE staged.auto]

\* save_schedule_: the whole schedule in one blob.  ESPHome only takes it in hand;
\* when it does not, that is logged and no more.
Save(c) == c

\* The push of another schedule is on the air, or the node runs another one.
Elsewhere(c) == (down # <<>> /\ down[2] # c) \/ node \notin {c, NoSchedule}

\* Mutant of Carried: an ack is taken to be for the latest version.
CarriesLatest(id) == {config : i \in {j \in DOMAIN acks : acks[j][1] = id}}

\* The version of the attempt an ack names, if it is still on record (AckIds).
Carried(id) == {acks[i][2] : i \in {j \in DOMAIN acks : acks[j][1] = id}}

\* The version an uplink tells the hub, if it tells any.
Told(m) == IF m.kind = "beacon" THEN {m.version} ELSE Carried(m.id)

\* The node runs c, or the hub has heard or is about to hear that it does.
Returned(c) == c \in {known, node} \/ \E i \in DOMAIN up : c \in Told(up[i])

\* Every edit is saved and the version recomputed; nothing is sent for it.
\* (History: it crosses a push when it goes back to a schedule the node has had
\* while a push of another one is on its way, or taken without the hub knowing.)
Change(c, taken) ==
  /\ config' = c
  /\ staged' = IF taken THEN Save(c) ELSE staged
  /\ unsaved' = ~taken
  /\ crossed' = (crossed \/ (Returned(c) /\ Elsewhere(c)))
  /\ UNCHANGED flash

\* set_slot_*, set_schedule_text (a text that does not parse changes nothing)
EditTable ==
  /\ \E t \in Tables \ {config.table}, taken \in BOOLEAN :
       EditedAnd(taken) /\ Change([config EXCEPT !.table = t], taken)
  /\ UNCHANGED <<known, live, timer, slot, modes, switch, blind, down, up, wanted>>

\* set_auto_mode: to a node that is awake on a live session the mode also goes
\* as a sysop at once (refuse_while_asleep_).
SetAutoMode(on) ==
  IF config.auto = on
  THEN Edited /\ UNCHANGED <<config, staged, flash, unsaved, crossed, modes>>
  ELSE /\ \E taken \in BOOLEAN : EditedAnd(taken) /\ Change([config EXCEPT !.auto = on], taken)
       /\ \E awake \in BOOLEAN : modes' = IF live /\ awake THEN Append(modes, on) ELSE modes

\* AutoModeSwitch::write_state: the switch shows at once what was asked for.
FlipSwitch(on) ==
  /\ switch' = on /\ switch # on
  /\ wanted' = IF Override \/ nodeAuto = on THEN "none" ELSE Mode(on)
  /\ SetAutoMode(on)
  /\ UNCHANGED <<known, live, timer, slot, blind, down, up>>

\* ESPHome's preferences: what it has in hand is written every
\* flash_write_interval, 30 min on this hub.
Flush ==
  /\ staged # flash /\ flash' = staged
  /\ UNCHANGED <<config, staged, known, live, timer, slot, modes, switch, blind, down, up, history,
                 used>>

\* restore_schedule_ at boot: the stored schedule, else the seed; the session,
\* the timers and the requests are gone, and what is on its way no longer decrypts.
Boots(blob) ==
  /\ Fault
  /\ staged' = blob /\ flash' = blob
  /\ config' = IF blob = NoSchedule THEN Seed ELSE blob
  /\ switch' = config'.auto
  /\ known' = NoSchedule /\ live' = FALSE /\ timer' = FALSE
  /\ awaiting' = FALSE /\ tries' = 0 /\ acks' = <<>> /\ modes' = <<>>
  /\ down' = <<>> /\ up' = <<>>
  /\ unsaved' = FALSE /\ crossed' = FALSE
  /\ UNCHANGED <<blind, wanted>>

\* "Hub Restart", an update: what is in hand is written first.
HubRestart == Boots(staged)

\* A crash or the loss of power.
HubCrash == Boots(flash)

-----------------------------------------------------------------------------
(* The session *)

\* do_login_: a new msgid space (dlv_forget_ids_); what is on its way no longer
\* decrypts.  The request in flight goes on.
Login ==
  /\ live /\ Fault
  /\ live' = FALSE /\ acks' = <<>>
  /\ down' = <<>> /\ up' = <<>>
  /\ UNCHANGED <<config, staged, flash, known, timer, awaiting, tries, modes, switch, blind, history>>

\* confirm_session_: a pending schedule is pushed here too.
ConfirmSession ==
  /\ ~live /\ live' = TRUE
  /\ timer' = (timer \/ Pending)
  /\ UNCHANGED <<config, staged, flash, known, slot, modes, switch, blind, down, up, history, used>>

-----------------------------------------------------------------------------
(* The push *)

IdsOut == {acks[i][1] : i \in DOMAIN acks}
            \cup {up[i].id : i \in {j \in DOMAIN up : up[j].kind = "ack"}}

\* AckIds::add: a full record forgets its oldest id.
Record(id, version) ==
  Append(IF Len(acks) = AckCap THEN Tail(acks) ELSE acks, <<id, version>>)

\* dlv_tx_ and encode_schedule_: one attempt, built from the schedule as it is
\* now, under an id of its own.
Attempt ==
  /\ down = <<>>
  /\ LET id == CHOOSE n \in 1..(Cardinality(IdsOut) + 1) : n \notin IdsOut
     IN  down' = <<id, config>> /\ acks' = Record(id, config)
  /\ awaiting' = TRUE

\* send_schedule_config: a fresh ladder, with the ids of the old one kept on
\* record; deferred while the session is being rebuilt (ConfirmSession).
PushTimer ==
  /\ timer /\ timer' = FALSE
  /\ IF live THEN Attempt /\ tries' = 0 ELSE UNCHANGED <<slot, down>>
  /\ UNCHANGED <<config, staged, flash, known, live, modes, switch, blind, up, history, used>>

\* The ack timer, with retries left; a timer in a relogin only waits on.
Resend ==
  /\ awaiting /\ live /\ tries < MaxRetries
  /\ tries' = tries + 1 /\ Attempt
  /\ UNCHANGED <<config, staged, flash, known, live, timer, modes, switch, blind, up, history, used>>

\* The ladder is spent (on_schedule_failed_): the next beacon or login pushes.
GiveUp ==
  /\ awaiting /\ live /\ tries = MaxRetries
  /\ tries' = tries + 1 /\ awaiting' = FALSE
  /\ UNCHANGED <<config, staged, flash, known, live, timer, acks, modes, switch, blind, down, up,
                 history, used>>

\* dlv_ack_ and on_schedule_acked_
HearAck(id) ==
  IF Carried(id) = {}
  THEN UNCHANGED <<known, slot>>
  ELSE LET v == CHOOSE c \in Carried(id) : TRUE
       IN  /\ known' = v
           /\ IF v = config THEN awaiting' = FALSE /\ tries' = 0 /\ acks' = <<>>
                            ELSE UNCHANGED slot

\* Mutant of HearBeacon: the version is learnt from the acks alone.
HearBeaconModeOnly(b) ==
  /\ UNCHANGED known
  /\ switch' = IF Pending THEN switch ELSE b.auto
  /\ timer' = (timer \/ Pending)

\* sync_auto_mode_switch_: the switch follows the node once the node is on the
\* hub's version; until then its report is only out of date.
SwitchAfter(b) == IF b.version = config THEN b.auto ELSE switch

\* handle_beacon_: a node on another version is pushed the schedule.
HearBeacon(b) ==
  /\ known' = b.version
  /\ switch' = SwitchAfter(b)
  /\ timer' = (timer \/ b.version # config)

\* (History: a beacon behind which nothing is on its way says how the node is.)
HearUplink ==
  /\ up # <<>> /\ live
  /\ up' = Tail(up)
  /\ IF Head(up).kind = "ack"
     THEN HearAck(Head(up).id) /\ UNCHANGED <<timer, switch, crossed>>
     ELSE /\ HearBeacon(Head(up)) /\ UNCHANGED slot
          /\ crossed' = (crossed /\ (down # <<>> \/ Tail(up) # <<>>))
  /\ UNCHANGED <<config, staged, flash, live, modes, blind, down, wanted, unsaved, used>>

LoseUplink ==
  /\ up # <<>> /\ up' = Tail(up) /\ Fault
  /\ UNCHANGED <<hub, blind, down, history>>

LosePush ==
  /\ down # <<>> /\ down' = <<>> /\ Fault
  /\ UNCHANGED <<hub, blind, up, history>>

\* A mode sysop no attempt of which is heard (the Control channel gives up).
LoseMode ==
  /\ modes # <<>> /\ modes' = Tail(modes) /\ Fault
  /\ UNCHANGED <<config, staged, flash, known, live, timer, slot, switch, blind, down, up, history>>

-----------------------------------------------------------------------------
(* The node (external) *)

Ack(id) == [kind |-> "ack", id |-> id]

TakePush ==
  /\ down # <<>> /\ Len(up) < MaxUp
  /\ node' = down[2] /\ NodeTurns(down[2].auto)
  /\ up' = Append(up, Ack(down[1])) /\ down' = <<>>
  /\ UNCHANGED <<hub, unsaved, crossed, used>>

TakeMode ==
  /\ modes # <<>> /\ live
  /\ NodeTurns(Head(modes)) /\ modes' = Tail(modes)
  /\ UNCHANGED <<config, staged, flash, known, live, timer, slot, switch, node, down, up, unsaved, crossed,
                 used>>

Beacon ==
  /\ live /\ Len(up) < MaxUp
  /\ \A i \in DOMAIN up : up[i].kind # "beacon"
  /\ up' = Append(up, [kind |-> "beacon", version |-> node, auto |-> nodeAuto])
  /\ UNCHANGED <<hub, blind, down, history, used>>

\* A button at the blind overrules whatever was asked.
Button ==
  /\ nodeAuto /\ Edited
  /\ nodeAuto' = FALSE /\ wanted' = "none"
  /\ UNCHANGED <<hub, node, down, up, unsaved, crossed>>

OverrideEnds ==
  /\ Override /\ node.auto /\ ~nodeAuto
  /\ NodeTurns(TRUE)
  /\ UNCHANGED <<hub, node, down, up, unsaved, crossed, used>>

\* The node is reflashed or loses its config file.
NodeReset ==
  /\ node # NoSchedule /\ Fault
  /\ node' = NoSchedule /\ nodeAuto' = FALSE
  /\ UNCHANGED <<hub, down, up, history>>

-----------------------------------------------------------------------------
Next ==
  \/ EditTable \/ FlipSwitch(TRUE) \/ FlipSwitch(FALSE)
  \/ Flush \/ HubRestart \/ HubCrash
  \/ Login \/ ConfirmSession
  \/ PushTimer \/ Resend \/ GiveUp \/ HearUplink
  \/ LoseUplink \/ LosePush \/ LoseMode
  \/ TakePush \/ TakeMode \/ Beacon \/ Button \/ OverrideEnds \/ NodeReset

Spec == Init /\ [][Next]_vars

\* Timers fire, the session is rebuilt, frames that are not lost arrive, and
\* the node wakes again (its check-in or the nightly sleep) and beacons.
FairSpec ==
  /\ Spec
  /\ WF_vars(ConfirmSession) /\ WF_vars(PushTimer) /\ WF_vars(Resend) /\ WF_vars(GiveUp)
  /\ WF_vars(HearUplink) /\ WF_vars(TakePush) /\ WF_vars(TakeMode) /\ WF_vars(Beacon)
  /\ WF_vars(OverrideEnds)

-----------------------------------------------------------------------------
Uplinks ==
  [kind : {"ack"}, id : Nat] \cup [kind : {"beacon"}, version : Versions, auto : BOOLEAN]

TypeOK ==
  /\ config \in Schedules /\ {staged, flash, known, node} \subseteq Versions
  /\ {live, timer, awaiting, switch, nodeAuto, crossed, unsaved} \subseteq BOOLEAN
  /\ tries \in 0..(MaxRetries + 1)
  /\ acks \in Seq(Nat \X Schedules) /\ Len(acks) <= AckCap
  /\ modes \in Seq(BOOLEAN)
  /\ down = <<>> \/ down \in Nat \X Schedules
  /\ up \in Seq(Uplinks) /\ Len(up) <= MaxUp
  /\ wanted \in {"none", "auto", "interactive"}
  /\ used \in [edits : 0..MaxEdits, faults : 0..MaxFaults]

\* "Schedule Pending" goes out only when the node runs the hub's schedule: a
\* late ack of an earlier attempt applies what that attempt carried.  A node
\* that has just lost its schedule has yet to say so.  The one exception is an
\* edit that goes back to a schedule the node has had while the push of another
\* one is still unanswered, and it lasts until the next beacon that nothing
\* follows: there the acknowledgement of the first push clears the flag and the
\* record, so that of the second is ignored.
PendingIsTrue == ~Pending /\ ~crossed => node \in {config, NoSchedule}

\* The same without the exception, which the code does not keep (README, 4).
PendingIsExact == ~Pending => node \in {config, NoSchedule}

\* What the user entered, table and mode together, is given up only by an edit,
\* by a restart when ESPHome did not take the blob in hand, and by a crash
\* before the interval has written it.
IntentIsKept ==
  [][config' # config => \/ used'.edits # used.edits
                         \/ HubRestart /\ unsaved
                         \/ HubCrash /\ (unsaved \/ staged # flash)]_vars

\* Self-healing: whatever was lost, reset, restarted, restored or edited back and
\* forth, the node comes to run the hub's schedule and the hub comes to know it.
ScheduleArrives == <>[](node = config /\ ~Pending)

\* A mode asked of the switch reaches the node, unless it is overruled by a
\* later request or at the blind.
AskedReachesNode == \A on \in BOOLEAN : (wanted = Mode(on)) ~> (wanted # Mode(on))

-----------------------------------------------------------------------------
(* The inductive invariant behind PendingIsTrue and IntentIsKept *)

\* What ESPHome has in hand is the schedule of now.
BlobsKept == ~unsaved => config = IF staged = NoSchedule THEN Seed ELSE staged

\* The latest uplink, when it is a beacon, says how the node is.
LastIsTrue ==
  up # <<>> /\ up[Len(up)].kind = "beacon" => node \in {up[Len(up)].version, NoSchedule}

\* Nothing older is on its way to the node.
NothingOlderComes == down # <<>> => down[2] = config
NodeCurrent == node \in {config, NoSchedule} /\ NothingOlderComes

\* An id on the air names its own push, and once the hub knows, or is about to be
\* told, that the node runs its schedule, no older push can still reach the node.
KnowledgeKept ==
  /\ down # <<>> => Carried(down[1]) \subseteq {down[2]}
  /\ ~crossed =>
       /\ known = config => NodeCurrent
       /\ node = config => NothingOlderComes
       /\ \A i \in DOMAIN up : config \in Told(up[i]) => NodeCurrent

ScheduleInv == TypeOK /\ BlobsKept /\ LastIsTrue /\ KnowledgeKept
=============================================================================
