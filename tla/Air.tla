--------------------------------- MODULE Air ---------------------------------
(***************************************************************************)
(* The hub's plan of the air: the grid of marks, the placement of frames   *)
(* on marks that are clear, the table of reserved spans, the price of what *)
(* is queued (txDrainUs, which the ack timers wait for) and the beacon.    *)
(* lora_tracker.cpp, and the placement in lora_client_timing.cpp (main     *)
(* loop) and lora_client_bench.cpp (esp_timer).                            *)
(*                                                                         *)
(* The buffer pool and the tasks of the transmit path are those of module  *)
(* Tracker; here a send takes effect at once, except that the mark it asks *)
(* for is chosen before it.  Time is in coarse units, 0 is boot; the clock does   *)
(* not pass an instant the send task must act on, nor between the choice   *)
(* of a mark and its send, where the other tasks may still run.            *)
(*                                                                         *)
(* The Waker is a node that sleeps by itself (Mode C): it is on no grid    *)
(* and listens twice, Rx1 and Rx2 after an uplink of its own.  The loop    *)
(* answers its beacon with a TimeSync in one of the two.                   *)
(*                                                                         *)
(* Init, Next and the like are named after the air: the theorems of this   *)
(* module are in one module with those of SingleShot.                      *)
(***************************************************************************)
EXTENDS Integers, Sequences, FiniteSets, SequencesExt

CONSTANTS
    Nodes,             \* the listeners; a node is its grid slot
    Round,             \* kRoundUs
    Pitch,             \* kSlotPitchUs
    Guard,             \* kGuardUs
    Lead,              \* kPrepareLeadUs
    ToT0,              \* kDownlinkPreambleToT0Us
    BeaconSlot,        \* kBeaconSlotIndex
    BeaconEvery,       \* kBeaconEveryRounds
    Stride,            \* txIntervalMs
    BurstCopies,       \* txSlotsPerRound
    FrameTime,         \* the time on air of one copy, stamped
    ResponseWindow,    \* responseWindowMs
    PoolSize,          \* POOL_SIZE
    MaxReservations,   \* kMaxReservations
    MaxSearchRounds,   \* kMaxClearSearchRounds
    Placers,           \* the tasks that place frames
    Waker,             \* the node with Class A windows; it is no slot of the grid
    Rx1, Rx2,          \* kRx1DelayUs, kRx2DelayUs
    ReplyAfter,        \* the delay of the "timesync_push" timer
    MaxStart,          \* bound: the instant the grid is started
    MaxSends,          \* bound: frames sent
    MaxNow             \* bound: the clock

ASSUME GridAssumption ==
    /\ {Round, Pitch, BeaconEvery, BurstCopies, FrameTime, PoolSize} \subseteq Nat \ {0}
    /\ {Guard, Lead, ToT0, BeaconSlot, Stride, ResponseWindow, MaxSearchRounds} \subseteq Nat
    /\ Nodes \subseteq Nat /\ "loop" \in Placers /\ Placers \subseteq {"loop", "timer"}
    /\ PoolSize < MaxReservations
    /\ Waker \in Nat \ (Nodes \cup {BeaconSlot})
    /\ {Rx1, Rx2, ReplyAfter} \subseteq Nat /\ Rx1 < Rx2

None == [at |-> -1]

VARIABLES
    now,
    anchor,            \* grid_anchor_us_; -1 until the grid is started
    waiting,           \* the frames accepted and not yet taken up, in that order
    onAir,             \* the frame on the air and when its burst ends, or None
    reservations,      \* reservations_
    burstBusy,         \* burst_busy_until_us_
    placedBusy,        \* placed_busy_until_us_
    queuedEnd,         \* queued_air_end_us_
    lastPlaced,        \* per placing task and node: last_placed_t0_us_, mt_last_mark_t0_us_
    pending,           \* per placing task: the frame whose mark it has chosen, or None
    beaconQueued,      \* beacon_round_queued_; -1 for none
    uplink,            \* last_uplink_t0_us_ of the Waker while "timesync_push" is set; else -1
    sends              \* frames sent or to be answered so far

planVars == <<reservations, burstBusy, placedBusy, queuedEnd>>
airVars == <<now, anchor, waiting, onAir, planVars, lastPlaced, pending, beaconQueued, uplink, sends>>

AirInit ==
    /\ now = 0 /\ anchor = -1
    /\ waiting = <<>> /\ onAir = None
    /\ reservations = [i \in 1 .. MaxReservations |-> [start |-> 0, end |-> 0]]
    /\ burstBusy = 0 /\ placedBusy = 0 /\ queuedEnd = 0
    /\ lastPlaced = [t \in Placers |-> [n \in Nodes |-> 0]]
    /\ pending = [t \in Placers |-> None]
    /\ beaconQueued = -1 /\ uplink = -1 /\ sends = 0

GridStarted == anchor >= 0

Larger(a, b) == IF a > b THEN a ELSE b

CeilDiv(a, b) == (a + b - 1) \div b

-----------------------------------------------------------------------------
(* The grid. *)

SlotBase(slot) == anchor + slot * Pitch

\* roundForSlotT0 and beaconRoundForT0
RoundForSlotT0(slot, t0) == IF t0 < SlotBase(slot) THEN 0 ELSE (t0 - SlotBase(slot)) \div Round

\* nextT0ForSlotUs: the slot's first mark at or after `from`.
NextT0(slot, from) ==
    IF from <= SlotBase(slot) THEN SlotBase(slot)
    ELSE SlotBase(slot) + CeilDiv(from - SlotBase(slot), Round) * Round

\* nextBeaconT0Us
NextBeaconT0(from) ==
    IF from <= SlotBase(BeaconSlot) THEN SlotBase(BeaconSlot)
    ELSE SlotBase(BeaconSlot)
           + CeilDiv(from - SlotBase(BeaconSlot), Round * BeaconEvery) * Round * BeaconEvery

FireInstant(t0) == t0 - ToT0

\* burstEndUs_: the copies, the last one's time on air and the response window.
BurstEnd(start, copies, reply) ==
    start + (copies - 1) * Stride + FrameTime + (IF reply THEN ResponseWindow ELSE 0)

FrameEnd(start, f) == BurstEnd(start, f.copies, f.reply)

\* Whether a frame of this shape, its guard before it, overlaps no live reservation.
Clear(t0, from, copies, reply) ==
    LET fire == FireInstant(t0)
    IN \A i \in DOMAIN reservations :
          ~ /\ reservations[i].end > from
            /\ fire - Guard < reservations[i].end
            /\ reservations[i].start < BurstEnd(fire, copies, reply)

\* Mutant of NextClearT0: only the burst on the air is cleared.
NextClearOfBurst(slot, from, copies, reply) == NextT0(slot, Larger(from, burstBusy))

\* nextClearT0ForSlotUs by interval: the first clear mark within the rounds it searches.
NextClearT0(slot, from, copies, reply) ==
    LET t0 == NextT0(slot, from)
        clear == {n \in 0 .. MaxSearchRounds - 1 : Clear(t0 + n * Round, from, copies, reply)}
    IN t0 + Round * IF clear = {} THEN MaxSearchRounds
                    ELSE CHOOSE n \in clear : \A m \in clear : n <= m

\* nextPlacementT0_, send_placed_from_timer_: a mark is not used twice by one task.
PlacementT0(t, node, copies, reply) ==
    LET t0 == NextClearT0(node, now, copies, reply)
    IN IF t0 > lastPlaced[t][node] THEN t0
       ELSE NextClearT0(node, lastPlaced[t][node] + 1, copies, reply)

-----------------------------------------------------------------------------
(* The plan. *)

\* Mutant of ReserveLocked: the last span is overwritten.
ReserveLatest(table, start, end) ==
    LET victim == CHOOSE i \in DOMAIN table : \A j \in DOMAIN table : table[i].end >= table[j].end
    IN [table EXCEPT ![victim] = [start |-> start, end |-> end]]

\* reserve_locked_: the span that ends first gives way.
ReserveLocked(table, start, end) ==
    LET ends(i) == table[i].end
        victim == CHOOSE i \in DOMAIN table :
                     /\ \A j \in DOMAIN table : ends(i) <= ends(j)
                     /\ \A j \in 1 .. i - 1 : ends(i) < ends(j)
    IN [table EXCEPT ![victim] = [start |-> start, end |-> end]]

\* Mutant of QueuedStart: the frame on the air is not counted.
QueuedStartIdle(f) == Larger(now, f.at)

\* send(): when the frame leaves, after what is on the air and what was accepted before it.
QueuedStart(f) == Larger(Larger(queuedEnd, burstBusy), Larger(now, f.at))

\* txDrainUs
TxDrain == Larger(0, Larger(queuedEnd, burstBusy) - now)

HasBuffer == Len(waiting) + (IF onAir = None THEN 0 ELSE 1) < PoolSize

\* send() with a buffer at hand: priced, and reserved when it is placed.
Accept(f) ==
    /\ waiting' = Append(waiting, f)
    /\ queuedEnd' = FrameEnd(QueuedStart(f), f)
    /\ IF f.at > 0
       THEN /\ placedBusy' = Larger(placedBusy, FrameEnd(f.at, f))
            /\ reservations' = ReserveLocked(reservations, f.at, FrameEnd(f.at, f))
       ELSE UNCHANGED <<placedBusy, reservations>>
    /\ UNCHANGED burstBusy

-----------------------------------------------------------------------------
(* The senders. *)

StartGrid ==
    /\ ~GridStarted /\ now <= MaxStart
    /\ anchor' = now
    /\ UNCHANGED <<now, waiting, onAir, planVars, lastPlaced, pending, beaconQueued, uplink, sends>>

\* The loop has no placement of its own under way.
LoopIdle == pending["loop"] = None

\* A listener that is not on the grid sends an ordinary burst; without a buffer it is refused.
SendUnplaced ==
    /\ LoopIdle /\ sends < MaxSends
    /\ sends' = sends + 1
    /\ \E n \in Nodes :
          IF HasBuffer
          THEN Accept([at |-> 0, node |-> n, kind |-> "command", copies |-> BurstCopies,
                       reply |-> TRUE, priority |-> 1])
          ELSE UNCHANGED <<waiting, planVars>>
    /\ UNCHANGED <<now, anchor, onAir, lastPlaced, pending, beaconQueued, uplink>>

\* send_aligned_ on the loop places commands, in one copy or in a burst; the measurement
\* timers place marks nobody answers.
Shapes(t) == IF t = "loop" THEN {[copies |-> 1, reply |-> TRUE], [copies |-> BurstCopies, reply |-> TRUE]}
             ELSE {[copies |-> 1, reply |-> FALSE]}

\* The mark is chosen ...
ChooseMark(t) ==
    /\ GridStarted /\ sends < MaxSends
    /\ pending[t] = None
    /\ sends' = sends + 1
    /\ \E n \in Nodes : \E s \in Shapes(t) :
          pending' = [pending EXCEPT ![t] =
             [at |-> FireInstant(PlacementT0(t, n, s.copies, s.reply)), node |-> n,
              kind |-> IF t = "loop" THEN "command" ELSE "mark",
              copies |-> s.copies, reply |-> s.reply, priority |-> 1]]
    /\ UNCHANGED <<now, anchor, waiting, onAir, planVars, lastPlaced, beaconQueued, uplink>>

\* ... and the frame is sent.  The mark is spent only if the frame was accepted.
SendPlaced(t) ==
    /\ pending[t] # None
    /\ pending' = [pending EXCEPT ![t] = None]
    /\ IF HasBuffer
       THEN /\ Accept(pending[t])
            /\ lastPlaced' = [lastPlaced EXCEPT ![t][pending[t].node] = pending[t].at + ToT0]
       ELSE UNCHANGED <<waiting, planVars, lastPlaced>>
    /\ UNCHANGED <<now, anchor, onAir, beaconQueued, uplink, sends>>

\* Mutant of BeaconDue: a beacon is not remembered by its round.
BeaconDueAlways ==
    LET lead == FireInstant(NextBeaconT0(now)) - now
    IN GridStarted /\ lead \in Lead .. Round

\* beacon_due_: once per beacon round, when its mark is near enough and not too near.
BeaconDue ==
    LET lead == FireInstant(NextBeaconT0(now)) - now
    IN /\ GridStarted
       /\ RoundForSlotT0(BeaconSlot, NextBeaconT0(now)) # beaconQueued
       /\ lead \in Lead .. Round

\* serviceBeacon: a beacon without a buffer is dropped and its round not recorded.
ServiceBeacon ==
    /\ LoopIdle /\ BeaconDue
    /\ HasBuffer
    /\ Accept([at |-> FireInstant(NextBeaconT0(now)), node |-> BeaconSlot, kind |-> "beacon",
               copies |-> 1, reply |-> FALSE, priority |-> 0])
    /\ beaconQueued' = RoundForSlotT0(BeaconSlot, NextBeaconT0(now))
    /\ UNCHANGED <<now, anchor, onAir, lastPlaced, pending, uplink, sends>>

-----------------------------------------------------------------------------
(* Replies to a node that listens only after its own uplink. *)

\* External: the Waker's beacon is heard, on a channel the hub does not use.
HearWaker ==
    /\ sends < MaxSends /\ onAir = None
    /\ uplink' = now /\ sends' = sends + 1
    /\ UNCHANGED <<now, anchor, waiting, onAir, planVars, lastPlaced, pending, beaconQueued>>

\* Mutant of Reachable: a window still ahead is taken, whether or not the queue can fire on it.
ReachableLate == {w \in {Rx1, Rx2} : uplink + w >= now}

\* The windows the queue can still fire on.
Reachable == {w \in {Rx1, Rx2} : FireInstant(uplink + w) >= now + Lead}

\* send_into_class_a_window_: one copy, ahead of the queue, in the first window within reach.
Reply(w) ==
    [at |-> FireInstant(uplink + w), node |-> Waker, kind |-> "reply", copies |-> 1,
     reply |-> TRUE, priority |-> 0]

\* fire_class_a_: with both windows past the node is asleep, and nothing is sent.
FireClassA ==
    IF Reachable # {} /\ HasBuffer
    THEN \E w \in Reachable : (\A v \in Reachable : w <= v) /\ Accept(Reply(w))
    ELSE UNCHANGED <<waiting, planVars>>

\* "timesync_push": the loop comes to it when it can, a stalled loop too late.
SendTimeSync ==
    /\ uplink >= 0 /\ now >= uplink + ReplyAfter
    /\ LoopIdle
    /\ FireClassA
    /\ uplink' = -1
    /\ UNCHANGED <<now, anchor, onAir, lastPlaced, pending, beaconQueued, sends>>

-----------------------------------------------------------------------------
(* The send task. *)

Due == {i \in DOMAIN waiting : waiting[i].at <= now + Lead}

Next1 == CHOOSE i \in Due : \A j \in Due \ {i} :
            \/ waiting[i].priority < waiting[j].priority
            \/ waiting[i].priority = waiting[j].priority /\ i < j

\* A command is dropped at the front when a newer one for its node was accepted.
Superseded(i) == /\ waiting[i].kind = "command"
                 /\ \E j \in DOMAIN waiting : /\ j > i
                                              /\ waiting[j].kind = "command"
                                              /\ waiting[j].node = waiting[i].node

\* serviceTxQueue: the channel is declared busy, and an unplaced burst reserved, as it starts.
TakeUp ==
    /\ onAir = None /\ Due # {}
    /\ waiting' = RemoveAt(waiting, Next1)
    /\ LET f == waiting[Next1]
           start == Larger(f.at, now)
       IN IF Superseded(Next1)
          THEN UNCHANGED <<onAir, reservations, burstBusy>>
          ELSE /\ onAir' = [at |-> start, end |-> FrameEnd(start, f)]
               /\ burstBusy' = FrameEnd(start, f)
               /\ IF f.at = 0 THEN reservations' = ReserveLocked(reservations, start, FrameEnd(start, f))
                  ELSE UNCHANGED reservations
    /\ UNCHANGED <<now, anchor, placedBusy, queuedEnd, lastPlaced, pending, beaconQueued, uplink, sends>>

\* The burst and its response window are over; the buffer goes back to the pool.
EndBurst ==
    /\ onAir # None /\ now >= onAir.end
    /\ onAir' = None
    /\ UNCHANGED <<now, anchor, waiting, planVars, lastPlaced, pending, beaconQueued, uplink, sends>>

Tick ==
    /\ now < MaxNow
    /\ \A t \in Placers : pending[t] = None
    /\ IF onAir = None THEN Due = {} ELSE now < onAir.end
    /\ now' = now + 1
    /\ UNCHANGED <<anchor, waiting, onAir, planVars, lastPlaced, pending, beaconQueued, uplink, sends>>

AirNext == \/ StartGrid \/ SendUnplaced \/ ServiceBeacon \/ HearWaker \/ SendTimeSync
        \/ \E t \in Placers : ChooseMark(t) \/ SendPlaced(t)
        \/ TakeUp \/ EndBurst \/ Tick

AirSpec == AirInit /\ [][AirNext]_airVars

-----------------------------------------------------------------------------
AirTypeOK ==
    /\ now \in 0 .. MaxNow /\ anchor \in -1 .. MaxNow
    /\ Len(waiting) <= PoolSize
    /\ DOMAIN reservations = 1 .. MaxReservations
    /\ \A i \in DOMAIN reservations : reservations[i].start <= reservations[i].end
    /\ {burstBusy, placedBusy, queuedEnd, sends} \subseteq Nat
    /\ {beaconQueued, uplink} \subseteq -1 .. MaxNow

PlacedFrames == {i \in DOMAIN waiting : waiting[i].at > 0}

\* A placed frame that is still to leave keeps its span in the table, however many frames are
\* placed, dropped as superseded or sent unplaced meanwhile ("Eight covers the pool (POOL_SIZE)
\* plus the burst on air; a full table evicts the span that ends first").
StaysReserved ==
    \A i \in PlacedFrames :
        FrameEnd(waiting[i].at, waiting[i]) > now =>
            \E r \in DOMAIN reservations :
                reservations[r] = [start |-> waiting[i].at, end |-> FrameEnd(waiting[i].at, waiting[i])]

\* The mark of a frame placed by the clear search does not fall into the span of a frame placed
\* before it that still waits, nor its burst over that frame's start (nextClearT0ForSlotUs: a
\* GridSync was placed inside a queued TimeSync burst and left 320 ms after the mark it
\* declared).  Beacons and replies are placed without a search.
PlacedClear ==
    \A i, j \in PlacedFrames :
        i < j /\ waiting[j].kind \notin {"beacon", "reply"} =>
            \/ waiting[j].at + ToT0 >= FrameEnd(waiting[i].at, waiting[i])
            \/ FrameEnd(waiting[j].at, waiting[j]) <= waiting[i].at

\* Two waiting frames for one node, or two beacons, never share a mark ("one frame per mark is
\* the invariant that was wanted", send_aligned_ and TxQueue.h).
OneFramePerMark ==
    \A i, j \in PlacedFrames :
        i # j /\ waiting[i].node # Waker =>
            waiting[i].node # waiting[j].node \/ waiting[i].at # waiting[j].at

\* Marks are shared with nobody: not with a frame of the same node, nor with a burst placed before.
MarksAreOwn == PlacedClear /\ OneFramePerMark

\* A reply is aimed at a window only if the queue can still fire on it, so what makes it late
\* is a burst on the air at that instant and nothing else ("a target closer than that cannot
\* be hit"); in particular the queue lets nothing else go first once it is due.
ReplyOnTime ==
    \A i \in PlacedFrames : waiting[i].kind = "reply" /\ waiting[i].at < now => burstBusy > waiting[i].at

\* The drain the ack timers add to their delay is never too short: once it is zero everything
\* that was accepted has left, reply window included, in whatever order the queue chose
\* ("this is what an ack timer has to add to its base delay").
DrainCovers == TxDrain = 0 /\ ~(onAir # None /\ now >= onAir.end) => onAir = None /\ waiting = <<>>

\* What the hub believes of the air is true of what it sends: the table of reservations and
\* the drain.
PlanSound == StaysReserved /\ DrainCovers

-----------------------------------------------------------------------------
(* The inductive invariant behind ReplyOnTime and OneFramePerMark. *)

Frames == [at : Int, node : Nat, kind : {"command", "mark", "beacon", "reply"}, copies : Nat \ {0},
           reply : BOOLEAN, priority : Nat]

AirTyped ==
    /\ now \in Nat /\ anchor \in Int /\ (GridStarted => anchor \in Nat)
    /\ burstBusy \in Int /\ beaconQueued \in Int /\ uplink \in Int
    /\ waiting \in Seq(Frames)
    /\ lastPlaced \in [Placers -> [Nodes -> Int]]
    /\ pending \in [Placers -> Frames \cup {None}]
    /\ \A t \in Placers : pending[t] # None =>
          /\ pending[t].node \in Nodes
          /\ pending[t].kind = IF t = "loop" THEN "command" ELSE "mark"

\* The burst on the air is the last one the channel was declared busy for.
BusyWhileOnAir == onAir # None => burstBusy = onAir.end

\* The mark of round r of the beacon's slot.
BeaconMark(r) == SlotBase(BeaconSlot) + r * Round

\* The task that placed a frame of this kind.
Sender(kind) == IF kind = "mark" THEN "timer" ELSE "loop"

\* A task's last mark for a node is not below that of a frame which waits; the beacon queued
\* last is the latest of the beacons.
MarksKnown ==
    \A i \in PlacedFrames :
        LET f == waiting[i]
        IN /\ f.kind \in {"command", "mark"} =>
                /\ Sender(f.kind) \in Placers /\ f.node \in Nodes
                /\ f.at + ToT0 <= lastPlaced[Sender(f.kind)][f.node]
           /\ f.kind = "beacon" => /\ f.node = BeaconSlot /\ beaconQueued >= 0
                                   /\ f.at + ToT0 <= BeaconMark(beaconQueued)
           /\ f.kind = "reply" => f.node = Waker

\* The beacon round queued last is one, and no later than the first whose mark is still ahead.
BeaconIsNext ==
    beaconQueued >= 0 => /\ GridStarted
                         /\ \E k \in 0 .. beaconQueued :
                               /\ beaconQueued = k * BeaconEvery
                               /\ k > 0 => BeaconMark((k - 1) * BeaconEvery) < now

\* Marks of one sender go up: the one a task has chosen is above its last for that node.
MarksGoUp ==
    /\ MarksKnown
    /\ \A t \in Placers : pending[t] # None =>
          pending[t].at + ToT0 > lastPlaced[t][pending[t].node]
    /\ BeaconIsNext

\* One task gives a mark to one frame: each measures against its own record of the last.
OneMarkPerSender ==
    \A i, j \in PlacedFrames :
        i # j /\ waiting[i].kind = waiting[j].kind /\ waiting[i].kind # "reply" =>
            waiting[i].node # waiting[j].node \/ waiting[i].at # waiting[j].at

\* What the replies and the marks rest on.
RepliesInv == AirTyped /\ BusyWhileOnAir /\ ReplyOnTime
MarksInv == AirTyped /\ MarksGoUp /\ OneMarkPerSender
=============================================================================
