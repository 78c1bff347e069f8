------------------------------- MODULE Tracker -------------------------------
(***************************************************************************)
(* LORATracker, the hub's one path to the radio (lora_tracker.cpp, with    *)
(* lora.cpp and TxQueue.h).  Two tasks send: the main loop and esp_timer.  *)
(* A send takes a buffer from the pool, announces its generation and hands *)
(* the buffer over.  The send task drains the hand-off queue into the      *)
(* reordering queue, pops what is due, drops it when it was superseded and *)
(* otherwise airs it copy by copy under the radio mutex.  Between copies   *)
(* the radio listens, and the main loop reads what arrived.                *)
(*                                                                         *)
(* Time is counted in units of a prepare lead or longer; 0 is no instant.  *)
(***************************************************************************)
EXTENDS TxQueue

CONSTANTS
    PoolSize,        \* POOL_SIZE
    HandoffSize,     \* RX_QUEUE_SIZE, the depth of data_queue
    Lead,            \* kPrepareLeadUs
    Stride,          \* from one copy of a placed burst to the next
    Policies,        \* the TxPolicy values of the instance, and the tasks that send them
    MaxFrames,       \* bound: frames sent
    MaxNow           \* bound: the clock

ASSUME PoolAssumption ==
    /\ PoolSize \in Nat /\ HandoffSize \in Nat
    /\ PoolSize <= HandoffSize /\ PoolSize <= MaxEntries

ASSUME TimeAssumption ==
    /\ Lead \in Nat /\ Stride \in Nat /\ MaxNow \in Nat /\ MaxFrames \in Nat
    /\ Policies \subseteq [key : Nat, earliest : Nat, priority : 0 .. 2, copies : Nat \ {0},
                         by : SUBSET {"loop", "timer"}]

Buffers == 1 .. PoolSize

Producers == {"loop", "timer"}      \* the tasks that call send()

Nobody == 0                         \* no buffer, no frame

Uplink == -1                        \* a node's frame in the radio's FIFO

VARIABLES
    free,            \* free_buffer_queue
    inUse,           \* rx_buffer_t::in_use, per buffer
    content,         \* the frame a buffer holds
    handoff,         \* data_queue
    sched,           \* tx_queue_
    table,           \* supersede_
    frames,          \* the frames sent so far, in the order their generations were chosen
    tpc, tbuf, tid,  \* per producer: where it is, its buffer, its frame
    spc, sbuf,       \* the send task: where it is and the buffer it took
    scopy,           \* copies begun in the burst; 0 while none
    snow,            \* the clock as the pass of the send task read it
    now,             \* esp_timer_get_time
    owner,           \* the task that holds radio_mutex_
    mode,            \* the mode of the SX1278
    fifo,            \* what its FIFO holds
    rxDone,          \* its RxDone flag
    prepared,        \* tx_prepared_
    txBusy           \* lora_tx_busy_

poolVars == <<free, inUse, content>>
queueVars == <<handoff, sched, table, frames>>
sendVars == <<spc, sbuf, scopy, snow>>
taskVars == <<tpc, tbuf, tid>>
radioVars == <<owner, mode, fifo, rxDone, prepared>>
vars == <<poolVars, queueVars, taskVars, sendVars, radioVars, now, txBusy>>

\* init_memory_pool: every buffer is free, nothing is handed over.
InitMemoryPool ==
    /\ free = [b \in Buffers |-> b]
    /\ inUse = [b \in Buffers |-> FALSE]
    /\ content = [b \in Buffers |-> Nobody]
    /\ handoff = <<>>

\* setup(): the radio is configured; the send task starts at the top of its loop.
Init ==
    /\ InitMemoryPool
    /\ sched = <<>> /\ frames = <<>>
    /\ table = EmptyTable
    /\ tpc = [t \in Producers |-> "idle"]
    /\ tbuf = [t \in Producers |-> Nobody]
    /\ tid = [t \in Producers |-> Nobody]
    /\ spc = "top" /\ sbuf = Nobody /\ scopy = 0 /\ snow = 0
    /\ now = 0
    /\ owner = "none" /\ mode = "rx" /\ fifo = Nobody /\ rxDone = FALSE
    /\ prepared = FALSE /\ txBusy = FALSE

Frame(b) == frames[content[b]]

\* return_buffer_to_pool, run to its end.
ReturnBuffer(b) ==
    /\ free' = Append(free, b)
    /\ inUse' = [inUse EXCEPT ![b] = FALSE]
    /\ content' = [content EXCEPT ![b] = Nobody]

\* The driver: lora_idle, lora_write, lora_tx, lora_waitTxDone, lora_receive,
\* lora_receive_packet.
Idle == mode' = "standby"

WriteFifo(f) == fifo' = f

Transmit == mode' = "tx"

WaitTxDone == mode' = "standby"

Receive == mode' = "rx"

ReceivePacket == rxDone' = FALSE /\ IF rxDone THEN Idle ELSE UNCHANGED mode

-----------------------------------------------------------------------------
(* send(), on the main loop or on esp_timer. *)

\* The generation of a command is its own, or that of the command it retries.
NextGen(key) == 1 + Cardinality({i \in DOMAIN frames : frames[i].key = key})

Generations(key) ==
    IF key = NoKey THEN {0}
    ELSE {NextGen(key)} \cup {frames[i].gen : i \in {j \in DOMAIN frames : frames[j].key = key}}

\* The policy travels with the frame.
Queued(p, g) == [key |-> p.key, gen |-> g, earliest |-> p.earliest,
                 priority |-> p.priority, copies |-> p.copies]

\* send() asks get_free_buffer for a buffer; without one it returns false.
TakeBuffer(t) ==
    /\ tpc[t] = "idle"
    /\ free # <<>> /\ Len(frames) < MaxFrames
    /\ \E p \in {q \in Policies : t \in q.by} : \E g \in Generations(p.key) :
          frames' = Append(frames, Queued(p, g))
    /\ tid' = [tid EXCEPT ![t] = Len(frames')]
    /\ tbuf' = [tbuf EXCEPT ![t] = Head(free)]
    /\ free' = Tail(free)
    /\ tpc' = [tpc EXCEPT ![t] = "taken"]
    /\ UNCHANGED <<inUse, content, handoff, sched, table, sendVars, radioVars, now, txBusy>>

\* ... and marks it in use; one that still is in use is not handed out, nor put back.
MarkInUse(t) ==
    /\ tpc[t] = "taken"
    /\ inUse' = [inUse EXCEPT ![tbuf[t]] = TRUE]
    /\ IF inUse[tbuf[t]]
       THEN tpc' = [tpc EXCEPT ![t] = "idle"] /\ UNCHANGED content
       ELSE /\ tpc' = [tpc EXCEPT ![t] = "marked"]
            /\ content' = [content EXCEPT ![tbuf[t]] = tid[t]]
    /\ UNCHANGED <<free, queueVars, tbuf, tid, sendVars, radioVars, now, txBusy>>

AnnounceGen(t) ==
    /\ tpc[t] = "marked"
    /\ table' = Note(table, frames[tid[t]].key, frames[tid[t]].gen)
    /\ tpc' = [tpc EXCEPT ![t] = "noted"]
    /\ UNCHANGED <<poolVars, handoff, sched, frames, tbuf, tid, sendVars, radioVars, now, txBusy>>

\* xQueueSend without waiting: a full queue gives the buffer back.
HandOff(t) ==
    /\ tpc[t] = "noted"
    /\ tpc' = [tpc EXCEPT ![t] = "idle"]
    /\ tbuf' = [tbuf EXCEPT ![t] = Nobody] /\ tid' = [tid EXCEPT ![t] = Nobody]
    /\ IF Len(handoff) < HandoffSize
       THEN handoff' = Append(handoff, tbuf[t]) /\ UNCHANGED poolVars
       ELSE ReturnBuffer(tbuf[t]) /\ UNCHANGED handoff
    /\ UNCHANGED <<sched, table, frames, sendVars, radioVars, now, txBusy>>

-----------------------------------------------------------------------------
(* sendTask: one pass of the scheduler. *)

StartPass ==
    /\ spc = "top"
    /\ snow' = now
    /\ spc' = "drain"
    /\ UNCHANGED <<poolVars, queueVars, taskVars, sbuf, scopy, radioVars, now, txBusy>>

\* The scheduler's entry for a buffer.
Entry(b) == [buf |-> b, earliest |-> Frame(b).earliest, priority |-> Frame(b).priority]

\* Mutant: the hand-off queue is read with a peek.
DrainPeeks ==
    /\ spc = "drain" /\ handoff # <<>>
    /\ sched' = Push(sched, Entry(Head(handoff)))
    /\ UNCHANGED <<poolVars, handoff, table, frames, taskVars, sendVars, radioVars, now, txBusy>>

\* drainHandoffQueue_: into the scheduler, or back to the pool when that is full.
Drain ==
    /\ spc = "drain" /\ handoff # <<>>
    /\ handoff' = Tail(handoff)
    /\ sched' = Push(sched, Entry(Head(handoff)))
    /\ IF Full(sched) THEN ReturnBuffer(Head(handoff)) ELSE UNCHANGED poolVars
    /\ UNCHANGED <<table, frames, taskVars, sendVars, radioVars, now, txBusy>>

Drained ==
    /\ spc = "drain" /\ handoff = <<>>
    /\ spc' = "pop"
    /\ UNCHANGED <<poolVars, queueVars, taskVars, sbuf, scopy, snow, radioVars, now, txBusy>>

\* serviceTxQueue: the best frame that is due is aired, or dropped when it is superseded.
Pop ==
    /\ spc = "pop"
    /\ LET i == PopDue(sched, snow, Lead)
           b == sched[i].buf
       IN /\ i # 0
          /\ sched' = Without(sched, i)
          /\ sbuf' = b
          /\ IF IsCurrent(table, Frame(b).key, Frame(b).gen)
             THEN spc' = "copy" /\ txBusy' = TRUE
             ELSE spc' = "release" /\ UNCHANGED txBusy
    /\ scopy' = 0
    /\ UNCHANGED <<poolVars, handoff, table, frames, taskVars, snow, radioVars, now>>

NothingDue ==
    /\ spc = "pop" /\ PopDue(sched, snow, Lead) = 0
    /\ spc' = "wait"
    /\ UNCHANGED <<poolVars, queueVars, taskVars, sbuf, scopy, snow, radioVars, now, txBusy>>

\* Mutant: the send task blocks on the hand-off queue alone.
WakesOnHandoff == handoff # <<>>

\* The send task sleeps on the hand-off queue, no longer than until an entry is due.
Wakes == handoff # <<>> \/ Due(sched, now, Lead) # {}

Wake ==
    /\ spc = "wait" /\ Wakes
    /\ spc' = "top"
    /\ UNCHANGED <<poolVars, queueVars, taskVars, sbuf, scopy, snow, radioVars, now, txBusy>>

-----------------------------------------------------------------------------
(* sendPacketBurst: the copies of the frame in hand. *)

\* The instant of the next copy; 0 in an unplaced burst, which follows the stride alone.
CopyAt == IF Frame(sbuf).earliest = 0 THEN 0 ELSE Frame(sbuf).earliest + scopy * Stride

\* A copy is stamped and sealed; one that cannot be sealed is not sent.
BeginCopy ==
    /\ spc = "copy"
    /\ scopy > 0 => now + Lead >= CopyAt
    /\ txBusy' = TRUE
    /\ spc' \in {"prepare", "copyDone"}
    /\ UNCHANGED <<poolVars, queueVars, taskVars, sbuf, scopy, snow, radioVars, now>>

\* preparePacket: the mutex is taken, the radio idled and the frame written.
Prepare ==
    /\ spc = "prepare" /\ owner = "none"
    /\ owner' = "send"
    /\ Idle
    /\ WriteFifo(content[sbuf])
    /\ prepared' = TRUE
    /\ spc' = "fire"
    /\ UNCHANGED <<poolVars, queueVars, taskVars, sbuf, scopy, snow, rxDone, now, txBusy>>

\* firePacket holds to the copy's instant, then switches the radio to transmit.
Fire ==
    /\ spc = "fire" /\ now >= CopyAt
    /\ Transmit
    /\ spc' = "onair"
    /\ UNCHANGED <<poolVars, queueVars, taskVars, sbuf, scopy, snow, owner, fifo, rxDone,
                   prepared, now, txBusy>>

\* TxDone, or the wait for it given up; the mutex is released.
TxDone ==
    /\ spc = "onair"
    /\ WaitTxDone
    /\ prepared' = FALSE
    /\ owner' = "none"
    /\ spc' = "copyDone"
    /\ UNCHANGED <<poolVars, queueVars, taskVars, sbuf, scopy, snow, fifo, rxDone, now, txBusy>>

\* Between copies the radio listens and the main loop may read it.
Gap ==
    /\ spc = "copyDone" /\ scopy + 1 < Frame(sbuf).copies
    /\ owner = "none"
    /\ Receive
    /\ txBusy' = FALSE
    /\ scopy' = scopy + 1
    /\ spc' = "copy"
    /\ UNCHANGED <<poolVars, queueVars, taskVars, sbuf, snow, owner, fifo, rxDone, prepared, now>>

BurstDone ==
    /\ spc = "copyDone" /\ scopy + 1 = Frame(sbuf).copies
    /\ txBusy' = FALSE
    /\ scopy' = scopy + 1
    /\ spc' = "release"
    /\ UNCHANGED <<poolVars, queueVars, taskVars, sbuf, snow, radioVars, now>>

\* return_buffer_to_pool clears in_use first and puts the buffer back after.
Release ==
    /\ spc = "release"
    /\ inUse' = [inUse EXCEPT ![sbuf] = FALSE]
    /\ content' = [content EXCEPT ![sbuf] = Nobody]
    /\ spc' = "free"
    /\ UNCHANGED <<free, queueVars, taskVars, sbuf, scopy, snow, radioVars, now, txBusy>>

\* A dropped frame is no work: the pass goes on to the next one.
PutBack ==
    /\ spc = "free"
    /\ free' = Append(free, sbuf)
    /\ sbuf' = Nobody
    /\ spc' = IF scopy = 0 THEN "pop" ELSE "hold"
    /\ UNCHANGED <<inUse, content, queueVars, taskVars, scopy, snow, radioVars, now, txBusy>>

\* The response window: the radio listens until the next pass.
Hold ==
    /\ spc = "hold" /\ owner = "none"
    /\ Receive
    /\ spc' = "top"
    /\ UNCHANGED <<poolVars, queueVars, taskVars, sbuf, scopy, snow, owner, fifo, rxDone,
                   prepared, now, txBusy>>

-----------------------------------------------------------------------------
(* The main loop reads the radio. *)

\* loop(): the flag is only a hint, the send task may start a burst right after it.
Poll ==
    /\ tpc["loop"] = "idle" /\ ~txBusy
    /\ tpc' = [tpc EXCEPT !["loop"] = "poll"]
    /\ UNCHANGED <<poolVars, queueVars, tbuf, tid, sendVars, radioVars, now, txBusy>>

\* Mutant: the mode is read and the radio armed without the mutex.
ListenUnlocked ==
    /\ tpc["loop"] = "poll"
    /\ IF mode = "standby" THEN Receive ELSE UNCHANGED mode
    /\ tpc' = [tpc EXCEPT !["loop"] = IF mode = "rx" THEN "check" ELSE "idle"]
    /\ UNCHANGED <<poolVars, queueVars, tbuf, tid, sendVars, owner, fifo, rxDone, prepared,
                   now, txBusy>>

\* receive(): the mode is read and the radio armed, under the mutex.
Listen ==
    /\ tpc["loop"] = "poll" /\ owner = "none"
    /\ IF mode = "standby" THEN Receive ELSE UNCHANGED mode
    /\ tpc' = [tpc EXCEPT !["loop"] = IF mode = "rx" THEN "check" ELSE "idle"]
    /\ UNCHANGED <<poolVars, queueVars, tbuf, tid, sendVars, owner, fifo, rxDone, prepared,
                   now, txBusy>>

\* checkReception takes the mutex again and looks for a packet; reading it idles the radio.
ReadRadio ==
    /\ tpc["loop"] = "check" /\ owner = "none"
    /\ ReceivePacket
    /\ tpc' = [tpc EXCEPT !["loop"] = "idle"]
    /\ UNCHANGED <<poolVars, queueVars, tbuf, tid, sendVars, owner, fifo, prepared, now, txBusy>>

\* A node's frame arrives while the radio listens.
Arrive ==
    /\ mode = "rx"
    /\ fifo' = Uplink /\ rxDone' = TRUE
    /\ UNCHANGED <<poolVars, queueVars, taskVars, sendVars, owner, mode, prepared, now, txBusy>>

Tick ==
    /\ now < MaxNow
    /\ now' = now + 1
    /\ UNCHANGED <<poolVars, queueVars, taskVars, sendVars, radioVars, txBusy>>

-----------------------------------------------------------------------------
\* One copy goes out.
SendPacketAt == Prepare \/ Fire \/ TxDone

SendPacketBurst == BeginCopy \/ SendPacketAt \/ Gap \/ BurstDone

\* The task that spawn_send_task starts, pinned to a core of its own.
SendTask == \/ StartPass \/ Drain \/ Drained \/ Pop \/ NothingDue \/ Wake
            \/ SendPacketBurst
            \/ Release \/ PutBack \/ Hold

Sending(t) == TakeBuffer(t) \/ MarkInUse(t) \/ AnnounceGen(t) \/ HandOff(t)

Next == \/ \E t \in Producers : Sending(t)
        \/ SendTask
        \/ Poll \/ Listen \/ ReadRadio
        \/ Arrive \/ Tick

Spec == Init /\ [][Next]_vars

\* The send task runs, a send() once begun returns, and time passes.
FairSpec == /\ Spec
            /\ WF_vars(SendTask) /\ WF_vars(Tick)
            /\ \A t \in Producers : WF_vars(MarkInUse(t) \/ AnnounceGen(t) \/ HandOff(t))

-----------------------------------------------------------------------------
Bursting == spc \in {"copy", "prepare", "fire", "onair", "copyDone"}

Holding(t) == tpc[t] \in {"taken", "marked", "noted"}

\* All variables have their types: a task that holds a buffer or a frame holds a real one.
TypeOK ==
    /\ free \in Seq(Buffers) /\ handoff \in Seq(Buffers)
    /\ inUse \in [Buffers -> BOOLEAN]
    /\ content \in [Buffers -> 0 .. Len(frames)]
    /\ Len(frames) <= MaxFrames
    /\ \A i \in DOMAIN sched : sched[i].buf \in Buffers
    /\ Cardinality(DOMAIN table) <= MaxKeys
    /\ tpc \in [Producers -> {"idle", "taken", "marked", "noted", "poll", "check"}]
    /\ \A t \in Producers : Holding(t) => tbuf[t] \in Buffers /\ tid[t] \in DOMAIN frames
    /\ spc \in {"top", "drain", "pop", "wait", "hold"} \/ sbuf \in Buffers
    /\ scopy \in Nat /\ snow \in 0 .. now /\ now \in 0 .. MaxNow
    /\ owner \in {"none", "send"} /\ mode \in {"rx", "standby", "tx"}
    /\ fifo \in Uplink .. Len(frames)
    /\ {rxDone, prepared, txBusy} \subseteq BOOLEAN

Scheduled == {sched[i].buf : i \in DOMAIN sched}

HandedOver == {handoff[i] : i \in DOMAIN handoff}

InHand == {tbuf[t] : t \in {u \in Producers : Holding(u)}}

OnSend == IF spc \in {"release", "free"} \/ Bursting THEN {sbuf} ELSE {}

Free == {free[i] : i \in DOMAIN free}

\* Every buffer of the pool is in one place: free, with a sender, handed over, scheduled or
\* with the send task.  What is free or not yet marked is not in use, what waits or is sent
\* is (get_free_buffer "should never happen", the double-free check and the pool's leaks).
PoolSound ==
    /\ Cardinality(Free) = Len(free)
    /\ Cardinality(Free) + Cardinality(InHand) + Len(handoff) + Len(sched)
          + Cardinality(OnSend) = PoolSize
    /\ Free \cup InHand \cup HandedOver \cup Scheduled \cup OnSend = Buffers
    /\ \A b \in Free : ~inUse[b]
    /\ \A b \in HandedOver \cup Scheduled : inUse[b]
    /\ \A t \in Producers : Holding(t) => (inUse[tbuf[t]] <=> tpc[t] # "taken")
    /\ Bursting => inUse[sbuf]

\* A frame whose generation was announced finds room in the hand-off queue and, once handed
\* over, in the scheduler: neither "full" branch runs, though both tasks send at once.  With
\* the branch taken, the older command would have been withdrawn for one never queued.
NothingRefused ==
    /\ \A t \in Producers : tpc[t] = "noted" => Len(handoff) < HandoffSize
    /\ Len(sched) + Len(handoff) <= MaxEntries

\* The buffers and queues are enough for what is accepted, and every buffer comes back.
NothingLost == PoolSound /\ NothingRefused

\* While a frame is prepared and until its copy has left, the FIFO holds that frame and the
\* radio does not listen, whatever the main loop does with the radio in the meantime
\* (preparePacket: "a concurrent receive on the main loop would read it out from under us").
FifoHoldsFrame ==
    prepared => /\ fifo = content[sbuf]
                /\ mode = IF spc = "onair" THEN "tx" ELSE "standby"

\* The tracker is a queue its senders can rely on: see DownlinkQueue.
CommandKeys == {p.key : p \in Policies} \ {NoKey}

NoFrame == [key |-> NoKey]

\* The buffers that wait, in the order they were handed over.
Waiter(i) == IF i <= Len(sched) THEN sched[i].buf ELSE handoff[i - Len(sched)]

Waiting == [i \in 1 .. Len(sched) + Len(handoff) |-> Frame(Waiter(i))]

Latest == [k \in CommandKeys |-> IF k \in DOMAIN table THEN table[k] ELSE 0]

OnAir == IF Bursting THEN Frame(sbuf) ELSE NoFrame

Queue == INSTANCE DownlinkQueue WITH
            Keys <- CommandKeys,
            waiting <- Waiting,
            latest <- Latest,
            onAir <- OnAir

\* Frames leave in the promised order and a superseded one never does, although it is
\* announced on one task, queued on another and judged on a third (serviceTxQueue).
Contract == Queue!Spec

\* Whatever was handed over leaves the tracker in the end, its buffers with it: the send task
\* does not sleep past an entry, and no later traffic is needed to wake it (sendTask: "blocking
\* forever on the handoff queue would hold that frame until some UNRELATED traffic").
QueueEmpties == []<>(handoff = <<>> /\ sched = <<>> /\ sbuf = Nobody)

-----------------------------------------------------------------------------
(* The inductive invariant behind NothingLost, FifoHoldsFrame and Contract. *)

SendStates == {"top", "drain", "pop", "wait", "hold", "copy", "prepare", "fire", "onair",
               "copyDone", "release", "free"}
FrameRecords == [key : CommandKeys \cup {NoKey}, gen : Nat, earliest : Nat, priority : 0 .. 2,
                 copies : Nat \ {0}]
Entries == [buf : Buffers, earliest : Nat, priority : 0 .. 2]

Typed ==
    /\ free \in Seq(Buffers) /\ handoff \in Seq(Buffers) /\ sched \in Seq(Entries)
    /\ inUse \in [Buffers -> BOOLEAN]
    /\ frames \in Seq(FrameRecords) /\ content \in [Buffers -> 0 .. Len(frames)]
    /\ \A i \in 1 .. Len(frames) : frames[i].key # NoKey => frames[i].gen > 0
    /\ DOMAIN table \subseteq CommandKeys /\ table \in [DOMAIN table -> Nat]
    /\ tpc \in [Producers -> {"idle", "taken", "marked", "noted", "poll", "check"}]
    /\ tbuf \in [Producers -> 0 .. PoolSize] /\ tid \in [Producers -> Nat]
    /\ spc \in SendStates /\ sbuf \in 0 .. PoolSize /\ scopy \in Nat /\ snow \in Nat /\ now \in Nat

\* The send task has a buffer of its own.
Taken == spc \in {"release", "free"} \/ Bursting

Bufs(q) == [i \in 1 .. Len(q) |-> q[i].buf]

Places == {"free", "loop", "timer", "handed", "scheduled", "sending"}

At(b, p) ==
    CASE p = "free" -> Holds(free, b)
      [] p \in Producers -> Holding(p) /\ tbuf[p] = b
      [] p = "handed" -> Holds(handoff, b)
      [] p = "scheduled" -> Holds(Bufs(sched), b)
      [] p = "sending" -> Taken /\ sbuf = b

InOnePlace == \A b \in Buffers : \E p \in Places : \A q \in Places : At(b, q) <=> q = p

\* Every buffer is in one place, and once.
Placed ==
    /\ Distinct(free) /\ Distinct(handoff) /\ Distinct(Bufs(sched))
    /\ \A t \in Producers : Holding(t) => tbuf[t] \in Buffers
    /\ Taken => sbuf \in Buffers
    /\ InOnePlace

\* A buffer is marked in use, and holds its frame, from the sender's mark to the send task's
\* release.
Carries(b) == inUse[b] /\ content[b] # Nobody

QueuesMarked ==
    \A b \in Buffers : /\ Holds(free, b) => ~inUse[b]
                       /\ Holds(handoff, b) \/ Holds(Bufs(sched), b) => Carries(b)

SenderMarked(t) == /\ tid[t] \in 1 .. Len(frames)
                   /\ tpc[t] = "taken" => ~inUse[tbuf[t]]
                   /\ tpc[t] # "taken" => Carries(tbuf[t])

SendTaskMarked == /\ Bursting \/ spc = "release" => Carries(sbuf)
                  /\ spc = "free" => ~inUse[sbuf]

Marked == /\ QueuesMarked
          /\ \A t \in Producers : Holding(t) => SenderMarked(t)
          /\ SendTaskMarked

\* An entry of the scheduler has the policy of its frame.
EntryMatches(e) == /\ e.earliest = Frame(e.buf).earliest
                   /\ e.priority = Frame(e.buf).priority
EntriesMatch == \A i \in 1 .. Len(sched) : EntryMatches(sched[i])

\* The mutex is the send task's from the frame in the FIFO to the end of its copy.
Exclusive ==
    /\ prepared <=> spc \in {"fire", "onair"}
    /\ owner = IF spc \in {"fire", "onair"} THEN "send" ELSE "none"
    /\ spc = "fire" => mode = "standby"
    /\ spc = "onair" => mode = "tx"
    /\ spc \in {"fire", "onair"} => fifo = content[sbuf]

PoolInv == Typed /\ Placed /\ Marked
TrackerInv == PoolInv /\ EntriesMatch /\ Exclusive
=============================================================================
