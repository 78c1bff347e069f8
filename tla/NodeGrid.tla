------------------------------- MODULE NodeGrid -------------------------------
(***************************************************************************)
(* One node keeps time with the hub.  It adopted a grid from a stamped     *)
(* GridSync, learns the rate of its own clock from beacons, is promoted on *)
(* phase samples, and then opens one window at a time: its private mark    *)
(* every round, the beacon's on beacon rounds, less the private marks the  *)
(* pending-data bitmap lets it pass over.                                  *)
(*                                                                         *)
(* The arithmetic is GridMath's.  The order in which a node calls it is    *)
(* the node firmware's, which is not in this repository: it is taken from  *)
(* the headers' contracts and the scenarios that drive a node.  The hub's  *)
(* clock is truth.rate slower than the node's: truth is the grid a node    *)
(* with an exact anchor and rate would hold.  This hub always sends        *)
(* AllListening; ClearsBits makes it send the mask it computes in shadow.  *)
(*                                                                         *)
(* Names are after the node: its theorems share a module with the          *)
(* supervisor's and GridSync's.                                            *)
(***************************************************************************)
EXTENDS GridMath

CONSTANTS
  Every, BeaconSlot,     \* kBeaconEveryRounds, kBeaconSlotIndex
  Window,                \* kWindowUs
  Lead,                  \* the receive task's own arm lead
  UlOffset, MaxWait,     \* ulOffsetUs, maxUplinkAimWaitUs
  MinSamples, MinFrames, \* phaseTrustworthy's min_samples, min_frames
  Drifts, Slots, SyncRounds,  \* the clocks, slots and adoption rounds explored
  CopyOffsets,           \* where in a round a copy may be aired
  ClearsBits,            \* whether the shadow mask is sent
  MaxLost, MaxNow        \* bounds: beacons lost in a row once the rate is learned, the clock

ASSUME NodeAssumption ==
  /\ Every \in Nat \ {0} /\ BeaconSlot \in 0..(SlotCount - 1) /\ Window \in Nat /\ Lead \in Nat
  /\ UlOffset \in Nat /\ MaxWait \in Nat /\ MinSamples \in Nat /\ MinFrames \in Nat
  /\ Drifts \subseteq Int /\ Slots \subseteq 0..(SlotCount - 1) /\ SyncRounds \subseteq Nat
  /\ CopyOffsets \subseteq Nat /\ ClearsBits \in BOOLEAN /\ MaxLost \in Nat /\ MaxNow \in Nat

VARIABLES
  now,       \* the node's clock
  truth,     \* the grid as it is
  held,      \* the grid as the node holds it
  since,     \* the hub instant of the last accepted anchor
  learned,   \* a beacon has shown the rate
  stats,     \* phase samples
  windowed,  \* the node listens in windows only
  mask,      \* the bitmap it holds
  timer,     \* the one-shot that opens the next window
  opened, kind,  \* the mark of the window opened last (0: none) and which it is
  ownRound,  \* the round of the private window opened last
  aired,     \* the round of the beacon sent last
  missed,    \* beacons lost in a row
  work,      \* the hub has something for the node
  promised,  \* the rounds a heard mask let the node pass over
  owed       \* the rounds covered by a beacon built while the hub had work

clock == <<truth, held, since, learned>>
quality == <<stats, windowed>>
window == <<timer, opened, kind, ownRound>>
hubSide == <<aired, missed, work, promised, owed>>
nodeVars == <<now, clock, quality, mask, window, hubSide>>

NoTimer == [t0 |-> 0, kind |-> "None", at |-> 0]
SyncT0 == Pitch  \* the instant, on the node's clock, at which the GridSync is measured

\* GridSync: the anchor solved with the rate the node holds, none yet.
NodeInit ==
  \E d \in Drifts, s \in Slots, r \in SyncRounds :
    LET at == HubInstant(r, s * Pitch)
        g == [anchor |-> SolveAnchor(SyncT0, at, 0), rate |-> 0, slot |-> s,
              beaconSlot |-> BeaconSlot, every |-> Every, ulOffset |-> UlOffset]
    IN /\ held = g
       /\ truth = [g EXCEPT !.anchor = SolveAnchor(SyncT0, at, d), !.rate = d]
       /\ since = at /\ learned = FALSE
       /\ stats = NoSamples /\ windowed = FALSE /\ mask = NoMask
       /\ timer = NoTimer /\ opened = 0 /\ kind = "None" /\ ownRound = r
       /\ aired = r - 1 /\ missed = 0 /\ work = FALSE /\ promised = {} /\ owed = {}
       /\ now = SyncT0

BeaconDue(r) == r % Every = 0 /\ r > aired /\ now = BeaconT0ForRound(truth, r)
CopyInstants == {HubInstant(r, o) : r \in 0..(MaxNow \div Round + 5), o \in CopyOffsets}
BeaconRounds == (aired + 1)..(aired + 2 * Every)

-----------------------------------------------------------------------------
(* The node's receive task. *)

\* A sample counts towards promotion, which starts the windows; what a promoted node
\* samples decides nothing before its demotion, which is not modelled here.
Sample(s) ==
  /\ windowed' = (windowed \/ PhaseTrustworthy(s, MinSamples, MinFrames))
  /\ stats' = IF windowed' THEN NoSamples ELSE s
  /\ ownRound' = IF ~windowed /\ windowed' THEN RoundForT0(held, NextT0(held, now)) - 1 ELSE ownRound

SkipOwn == ~ShouldArmWindow(mask, held.slot,
                            RoundForT0(held, NextT0(held, NextWindowSearchFrom(now, opened))))

\* The task comes round and arms the one-shot for the next window.
Arm ==
  /\ windowed /\ timer = NoTimer
  /\ timer' = NextWindowArm(held, now, Lead, SkipOwn, opened)
  /\ UNCHANGED <<now, clock, quality, mask, opened, kind, ownRound, hubSide>>

Open ==
  /\ timer # NoTimer /\ now >= timer.at
  /\ opened' = timer.t0 /\ kind' = timer.kind /\ timer' = NoTimer
  /\ ownRound' = IF timer.kind = "Own" THEN RoundForT0(held, timer.t0) ELSE ownRound
  /\ promised' = {q \in promised : q > ownRound'}
  /\ owed' = {q \in owed : q > ownRound'}
  /\ UNCHANGED <<now, clock, quality, mask, aired, missed, work>>

\* A stamped copy heard by a node that listens all the time.
HearCopy ==
  /\ ~windowed /\ stats.n < MinSamples + 1
  /\ \E newFrame \in BOOLEAN, at \in CopyInstants :
       /\ T0ForHubInstant(truth, at) = now
       /\ Sample(Commit(stats, now - T0ForHubInstant(held, at), newFrame))
  /\ UNCHANGED <<now, clock, mask, timer, opened, kind, hubSide>>

-----------------------------------------------------------------------------
(* The beacon. *)

\* What the hub puts in it: another node on the same slot may have reasons of its own.
MaskBits(neighbour) ==
  LET reasons(b) == IF b THEN {"op_awaiting_ack"} ELSE {}
      nodes == <<[slot |-> held.slot, reasons |-> reasons(work)],
                 [slot |-> held.slot, reasons |-> reasons(neighbour)]>>
  IN IF ClearsBits THEN ShadowMask(nodes) ELSE AllListening

\* A node that listens all the time hears it wherever it falls; a timed one in its window.
CanHear ==
  \/ ~windowed
  \/ kind = "Beacon" /\ ReanchorIsSane(now - opened)

\* The node learns its rate from the error, re-anchors and adopts the mask.  A skip leads to
\* the next beacon window, so it reaches past the private mark of that beacon's own round.
Adopt(r, bits) ==
  LET err == now - BeaconT0ForRound(held, r)
      at == HubInstant(r, BeaconSlot * Pitch)
      rate == ClampRate(held.rate + ResidualRate(err, at - since))
  IN IF BeaconErrLearnable(err)
     THEN /\ held' = [held EXCEPT !.anchor = SolveAnchor(now, at, rate), !.rate = rate]
          /\ since' = at
          /\ learned' = (learned \/ at - since >= MinSpan)
          /\ mask' = [bits |-> bits, valid |-> TRUE, beaconRound |-> r, every |-> Every]
          /\ promised' = IF held.slot \in bits THEN promised
                         ELSE promised \union r..(r + Every)
          /\ timer' = NoTimer
          /\ Sample(IF rate # held.rate THEN NoSamples
                    ELSE IF ReanchorIsSane(err) /\ stats.n <= MinSamples
                         THEN Commit(stats, err, TRUE) ELSE stats)
     ELSE UNCHANGED <<held, since, learned, mask, promised, timer, quality, ownRound>>

HubBeacon ==
  \E r \in BeaconRounds, heard \in BOOLEAN, neighbour \in BOOLEAN :
    /\ BeaconDue(r)
    /\ heard => CanHear
    /\ ~heard /\ learned /\ CanHear => missed < MaxLost
    /\ aired' = r
    /\ owed' = IF work THEN owed \union (r + 1)..(r + Every) ELSE owed
    /\ missed' = IF heard \/ ~learned THEN 0 ELSE IF CanHear THEN missed + 1 ELSE missed
    /\ IF heard THEN Adopt(r, MaskBits(neighbour))
       ELSE UNCHANGED <<held, since, learned, mask, promised, timer, quality, ownRound>>
    /\ UNCHANGED <<now, truth, opened, kind, work>>

\* Home Assistant issues a command, or the node has answered it.
Work ==
  /\ work' = ~work
  /\ \E r \in BeaconRounds : BeaconDue(r)
  /\ UNCHANGED <<now, clock, quality, mask, window, aired, missed, promised, owed>>

-----------------------------------------------------------------------------
\* Time passes, at once to the next instant something can happen at.  The task comes round
\* before the window it opened has closed; the one-shot is prompt.
NodeTick ==
  /\ now < MaxNow
  /\ \A r \in BeaconRounds : ~BeaconDue(r)
  /\ windowed => IF timer = NoTimer
              THEN now < ArmInstant(opened) + Window
              ELSE now < timer.at
  /\ now' = IF windowed /\ timer = NoTimer THEN now + 1
            ELSE LET beacons == {BeaconT0ForRound(truth, r) : r \in {q \in BeaconRounds : q % Every = 0}}
                     others == IF windowed THEN {timer.at}
                               ELSE {T0ForHubInstant(truth, at) : at \in CopyInstants}
                 IN Min({MaxNow} \union {t \in beacons \union others : t > now})
  /\ UNCHANGED <<clock, quality, mask, window, hubSide>>

NodeNext == Arm \/ Open \/ HearCopy \/ HubBeacon \/ Work \/ NodeTick
NodeSpec == NodeInit /\ [][NodeNext]_nodeVars

-----------------------------------------------------------------------------
(* Properties. *)

\* Every variable keeps its type: windows are never armed for a mark already past by more
\* than the guard, and the clock discipline keeps the rate inside its clamp.
NodeTypeOK ==
  /\ now \in SyncT0..MaxNow /\ held.anchor \in Int /\ held.rate \in -RateMax..RateMax
  /\ held.slot \in Slots /\ windowed \in BOOLEAN /\ learned \in BOOLEAN /\ work \in BOOLEAN
  /\ stats.n \in 0..(MinSamples + 2) /\ stats.frames \in 0..stats.n
  /\ stats.outside \in 0..stats.n /\ stats.low <= stats.high
  /\ mask.bits \subseteq AllListening /\ kind \in {"None", "Own", "Beacon"}
  /\ timer # NoTimer => windowed /\ timer.at \in now..(timer.t0 + Guard)

Least(S, t) == CHOOSE x \in S : x >= t /\ \A y \in S : y >= t => x <= y

\* The searches of GridState.h return the mark they are documented to return - the first
\* own mark, beacon mark or reachable uplink mark at or after the instant asked for, and
\* the round that contains an instant - whatever rate the node has learned, before the first
\* mark of the grid and after it.  A first guess made at the nominal rate would be one
\* round off at the edges.
SearchesAreExact ==
  LET rounds == 0..((3 * Magnitude(now + Lead - held.anchor)) \div (2 * Round) + 2 + Every)
      own == {T0ForRound(held, r) : r \in rounds}
      beacons == {BeaconT0ForRound(held, r) : r \in {q \in rounds : q % Every = 0}}
      starts == {T0ForHubInstant(held, HubInstant(r, held.slot * Pitch + UlOffset)) - Lead
                   : r \in rounds}
      contains(r, t) == T0ForRound(held, r) <= t /\ t < T0ForRound(held, r + 1)
      next == NextT0(held, now)
      aim == AimUplink(held, now, Lead, MaxWait)
  IN /\ next = Least(own, now)
     /\ NextBeaconT0(held, now) = Least(beacons, now)
     /\ contains(RoundForT0(held, next), next)
     /\ T0ForRound(held, 0) <= now => contains(RoundForT0(held, now), now)
     /\ aim.aimed <=> UlOffset # 0 /\ Least(starts, now) <= now + MaxWait
     /\ aim.aimed => aim.t0 = Least(starts, now) + Lead

\* Between one private window and the next the node misses no mark and opens none twice:
\* rounds go up, and every round passed over was one a heard bitmap allowed.  The task
\* comes round while the window is still open and beacons move the anchor under it.
NoMarkTwiceOrMissed ==
  [][Open /\ timer.kind = "Own" =>
       /\ ownRound' > ownRound
       /\ (ownRound + 1)..(ownRound' - 1) \subseteq promised]_nodeVars

\* A mark is passed over only when the hub had nothing for the node, or for another node
\* of its slot, when it built the beacon covering that mark - also when that beacon was
\* lost and the node still holds the permission of the one before.
NothingWaitsBehindASkip ==
  [][Open /\ timer.kind = "Own" =>
       (ownRound + 1)..(ownRound' - 1) \cap owed = {}]_nodeVars

\* Once a beacon has shown the node its rate, each private window opens within the guard
\* of where the hub puts the mark, a lost beacon in between included.
OnTheGridOnceLearned ==
  learned /\ kind = "Own" =>
    Magnitude(opened - T0ForHubInstant(truth, HubInstant(ownRound, held.slot * Pitch))) <= Guard

-----------------------------------------------------------------------------
(* The inductive invariant behind SearchesAreExact. *)

Grids(rates) == [anchor : Int, rate : rates, slot : Nat, beaconSlot : {BeaconSlot},
                 every : {Every}, ulOffset : {UlOffset}]

\* What the searches are asked with: whole instants, and a grid whose rate is within its clamp.
ClocksTyped ==
  /\ now \in Int /\ since \in Int /\ aired \in Int /\ opened \in Int
  /\ timer \in [t0 : Int, kind : {"None", "Own", "Beacon"}, at : Int]
  /\ held \in Grids(-RateMax..RateMax) /\ truth \in Grids(Int)
=============================================================================
