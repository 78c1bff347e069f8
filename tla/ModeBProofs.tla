---------------------------- MODULE ModeBProofs ----------------------------
(***************************************************************************)
(* One warm-up at a time, for any number of nodes and any times for which  *)
(* the lease outlives a warm-up: the invariant WarmupInv is inductive.     *)
(* An own test needs the token; the token passes on by cancel, which takes *)
(* the test with it, or by a lease that has run out, and the lease is      *)
(* longer than the stop timer of the test it was taken for.                *)
(*                                                                         *)
(* What the supervisor is told of a node's promotion (module GridSync):    *)
(* PromotionInv follows the reports of it that are under way.              *)
(*                                                                         *)
(* And how a promoted node finds its windows (NodeGrid, GridMath): marks   *)
(* go up whatever rate the node has learned, the rounding of both          *)
(* products included, so the two loops of a search end at the first mark   *)
(* that serves, whatever they guessed.                                     *)
(***************************************************************************)
EXTENDS ModeB, GridSync, NodeGrid, WellFoundedInduction, TLAPS

LEMMA InitWarmup == Init => WarmupInv
  BY NodesAssumption
  DEF Init, WarmupInv, Typed, HolderWarms, Covered, CommandGoesFirst, NoTest

\* The token is only granted when no test of another node is covered by it.
LEMMA Grant ==
  ASSUME WarmupInv, NEW n \in Nodes, NEW q, Ask(q, n), phase[n] # "Warming", ~command[n],
         UNCHANGED command
  PROVE  WarmupInv'
  <1> USE DEF WarmupInv
  <1>1. LiveHolder # n /\ holder # n
    BY NodesAssumption DEF HolderWarms, LiveHolder
  <1>2. CASE Granted(q, n)
    <2>1. /\ holder' = n /\ phase' = [phase EXCEPT ![n] = "Warming"] /\ lease' = Lease
          /\ StartWarmup(n)
      BY <1>1, <1>2 DEF Ask
    <2>2. lease = 0 \/ holder = None
      BY <1>1, <1>2 DEF Granted, LiveHolder
    <2>3. \A m \in Nodes : test[m] # "own"
      BY <2>2, NodesAssumption DEF Covered, Typed
    <2>4. Typed'
      BY <2>1, TimesAssumption DEF Typed, StartWarmup, NoTest
    <2>5. HolderWarms'
      BY <2>1 DEF HolderWarms, Typed
    <2>6. Covered' /\ CommandGoesFirst'
      BY <2>1, <2>3, TimesAssumption, LeaseAssumption
      DEF Covered, CommandGoesFirst, Typed, StartWarmup, NoTest
    <2> QED
      BY <2>4, <2>5, <2>6
  <1>3. CASE ~Granted(q, n)
    <2>1. /\ holder' = LiveHolder /\ phase' = [phase EXCEPT ![n] = "Queued"]
          /\ UNCHANGED <<lease, test, testLeft>>
      BY <1>3 DEF Ask
    <2>2. \A m \in Nodes : test[m] = "own" => LiveHolder = m /\ m # n
      BY DEF Covered, LiveHolder, Typed
    <2>3. Typed' /\ HolderWarms'
      BY <1>1, <2>1, NodesAssumption DEF Typed, HolderWarms, LiveHolder
    <2> QED
      BY <2>1, <2>2, <2>3 DEF Covered, CommandGoesFirst, Typed
  <1> QED
    BY <1>2, <1>3

\* Giving the token up, with the test it covered, keeps the invariant, whatever
\* phase the node goes to; nobody else is touched.
LEMMA LetGo ==
  ASSUME WarmupInv, NEW n \in Nodes, Cancel(n) \/ UNCHANGED holder,
         NEW p \in {"Idle", "Verifying"}, phase' = [phase EXCEPT ![n] = p], UNCHANGED lease,
         holder = n => Cancel(n),
         AbortWarmup(n) \/ (UNCHANGED <<test, testLeft>> /\ test[n] # "own"),
         command' \in {command, [command EXCEPT ![n] = TRUE]}
  PROVE  WarmupInv'
  <1> USE DEF WarmupInv
  <1>1. /\ holder' = IF holder = n THEN None ELSE holder
        /\ test' = [test EXCEPT ![n] = IF @ = "own" THEN NoTest ELSE @]
        /\ testLeft' = [testLeft EXCEPT ![n] = IF test[n] = "own" THEN 0 ELSE @]
    BY DEF Cancel, AbortWarmup, Typed
  <1>2. Typed'
    BY <1>1 DEF Typed, NoTest
  <1>3. HolderWarms'
    BY <1>1, NodesAssumption DEF HolderWarms, Typed
  <1>4. \A m \in Nodes : test'[m] = "own" => m # n /\ test[m] = "own"
    BY <1>1 DEF Typed, NoTest
  <1>5. Covered' /\ CommandGoesFirst'
    BY <1>1, <1>4 DEF Covered, CommandGoesFirst, Typed
  <1> QED
    BY <1>2, <1>3, <1>5

\* A node in hand of a command or a push: only a warm-up gives way.
LEMMA Yields ==
  ASSUME WarmupInv, NEW n \in Nodes, YieldSelf(n), UNCHANGED lease,
         command' \in {command, [command EXCEPT ![n] = TRUE]}
  PROVE  WarmupInv'
  <1>1. CASE phase[n] = "Warming"
    <2>1. /\ holder' = IF holder = n THEN None ELSE holder
          /\ test' = [test EXCEPT ![n] = IF @ = "own" THEN NoTest ELSE @]
          /\ testLeft' = [testLeft EXCEPT ![n] = IF test[n] = "own" THEN 0 ELSE @]
          /\ phase' = [phase EXCEPT ![n] = "Idle"]
      BY <1>1 DEF YieldSelf, AbortWarmup
    <2>2. \A m \in Nodes : test'[m] = "own" => m # n /\ test[m] = "own"
      BY <2>1 DEF WarmupInv, Typed, NoTest
    <2>3. Typed' /\ HolderWarms'
      BY <2>1, NodesAssumption DEF WarmupInv, Typed, HolderWarms, NoTest
    <2> QED
      BY <2>1, <2>2, <2>3 DEF WarmupInv, Covered, CommandGoesFirst, Typed
  <1>2. CASE phase[n] # "Warming"
    <2>1. UNCHANGED <<phase, holder, test, testLeft>> /\ test[n] # "own"
      BY <1>2 DEF YieldSelf, WarmupInv, Covered
    <2> QED
      BY <2>1 DEF WarmupInv, Typed, HolderWarms, Covered, CommandGoesFirst
  <1> QED
    BY <1>1, <1>2

\* What neither phase, token, test nor command are touched by.
LEMMA Untouched ==
  ASSUME WarmupInv, UNCHANGED <<phase, holder, lease, test, testLeft, command>>
  PROVE  WarmupInv'
  BY DEF WarmupInv, Typed, HolderWarms, Covered, CommandGoesFirst

LEMMA TickStep ==
  ASSUME WarmupInv, NEW n \in Nodes, SupervisorTick(n)
  PROVE  WarmupInv'
  <1>0. UNCHANGED command
    BY DEF SupervisorTick, DropOut, IdlePromoted, Idle, QueuedYield, QueuedLeave, QueuedAsk,
           Warming, Verifying, Tick, inputs
  <1> USE <1>0
  <1>1. CASE DropOut(n)
    <2>1. holder = n => phase[n] = "Warming"
      BY DEF WarmupInv, HolderWarms
    <2>2. phase[n] # "Warming" => test[n] # "own"
      BY DEF WarmupInv, Covered
    <2> QED
      BY <1>1, <2>1, <2>2, LetGo DEF DropOut, Cancel, arbiter
  <1>2. CASE IdlePromoted(n)
    BY <1>2, Untouched DEF IdlePromoted, arbiter
  <1>3. CASE Idle(n)
    <2>1. CASE UNCHANGED <<phase, arbiter, test, testLeft>>
      BY <2>1, Untouched DEF arbiter
    <2>2. CASE StartOk(n) /\ Ask(Requested(n), n)
      BY <1>3, <2>2, Grant DEF Idle, StartOk, Busy
    <2> QED
      BY <1>3, <2>1, <2>2 DEF Idle
  <1>4. CASE QueuedYield(n)
    BY <1>4, LetGo DEF QueuedYield, Cancel
  <1>5. CASE QueuedLeave(n)
    <2>1. test[n] # "own"
      BY <1>5 DEF QueuedLeave, WarmupInv, Covered
    <2> QED
      BY <1>5, <2>1, LetGo DEF QueuedLeave, Cancel
  <1>6. CASE QueuedAsk(n)
    BY <1>6, Grant DEF QueuedAsk, StartOk, Busy
  <1>7. CASE Warming(n)
    <2>1. CASE LiveHolder # n
      <3>1. /\ holder' = LiveHolder /\ phase' = [phase EXCEPT ![n] = "Idle"] /\ UNCHANGED lease
            /\ AbortWarmup(n)
        BY <1>7, <2>1 DEF Warming
      <3>2. \A m \in Nodes : test'[m] = "own" => test[m] = "own" /\ m # n /\ LiveHolder = m
        BY <3>1 DEF AbortWarmup, WarmupInv, Typed, Covered, LiveHolder, NoTest
      <3>3. Typed' /\ HolderWarms'
        BY <2>1, <3>1, NodesAssumption DEF AbortWarmup, WarmupInv, Typed, HolderWarms, LiveHolder, NoTest
      <3> QED
        BY <3>1, <3>2, <3>3 DEF AbortWarmup, WarmupInv, Typed, Covered, CommandGoesFirst
    <2>2. CASE UNCHANGED <<phase, arbiter, test, testLeft>>
      BY <2>2, Untouched DEF arbiter
    <2>3. CASE LiveHolder = n /\ test[n] # "own"
      BY <1>7, <2>3, LetGo DEF Warming, Cancel
    <2> QED
      BY <1>7, <2>1, <2>2, <2>3 DEF Warming
  <1>8. CASE Verifying(n)
    <2>1. holder # n /\ test[n] # "own"
      BY <1>8 DEF Verifying, WarmupInv, HolderWarms, Covered
    <2>2. CASE UNCHANGED phase
      BY <1>8, <2>2, Untouched DEF Verifying, arbiter
    <2>3. CASE phase' = [phase EXCEPT ![n] = "Idle"]
      BY <1>8, <2>1, <2>3, LetGo DEF Verifying, arbiter
    <2> QED
      BY <1>8, <2>2, <2>3 DEF Verifying
  <1> QED
    BY <1>1, <1>2, <1>3, <1>4, <1>5, <1>6, <1>7, <1>8 DEF SupervisorTick

LEMMA EnvironmentStep ==
  ASSUME WarmupInv, NEW n \in Nodes, Environment(n)
  PROVE  WarmupInv'
  <1>1. ASSUME Restart(n), UNCHANGED command PROVE WarmupInv'
    BY <1>1, LetGo DEF Restart, Cancel
  <1>2. CASE Submit(n)
    BY <1>2, Yields DEF Submit
  <1>3. CASE Push(n)
    BY <1>3, Yields DEF Push
  <1>4. CASE CommandDone(n)
    BY <1>4 DEF CommandDone, supervisor, arbiter, WarmupInv, Typed, HolderWarms, Covered,
                CommandGoesFirst
  <1>5. CASE PushDone(n) \/ GridAcked(n) \/ PhaseReport(n) \/ Confirm(n) \/ Sleep(n) \/ Wake(n)
    BY <1>5, Untouched
    DEF PushDone, GridAcked, PhaseReport, Confirm, Sleep, Wake, supervisor, arbiter
  <1>6. CASE Relogin(n) \/ SwitchOff(n) \/ SwitchOn(n) \/ Regrid(n)
    BY <1>1, <1>6 DEF Relogin, SwitchOff, SwitchOn, Regrid
  <1>7. CASE WarmupRefused(n)
    <2>1. UNCHANGED <<phase, holder, lease, command>> /\ AbortWarmup(n)
      BY <1>7 DEF WarmupRefused, supervisor, arbiter
    <2> QED
      BY <2>1 DEF AbortWarmup, WarmupInv, Typed, HolderWarms, Covered, CommandGoesFirst, NoTest
  <1>8. CASE ManualTest(n)
    BY <1>8, TimesAssumption
    DEF ManualTest, supervisor, arbiter, inputs, WarmupInv, Typed, HolderWarms, Covered,
        CommandGoesFirst
  <1> QED
    BY <1>2, <1>3, <1>4, <1>5, <1>6, <1>7, <1>8 DEF Environment

LEMMA TimeStep ==
  ASSUME WarmupInv, Advance \/ \E n \in Nodes : StopTest(n)
  PROVE  WarmupInv'
  <1>1. CASE Advance
    <2>1. /\ \A n \in Nodes : test[n] # NoTest => testLeft[n] > 0
          /\ testLeft' = [n \in Nodes |-> Less(testLeft[n])] /\ lease' = Less(lease)
          /\ UNCHANGED <<phase, holder, test, command>>
      BY <1>1 DEF Advance
    <2>2. Typed'
      BY <2>1 DEF WarmupInv, Typed, Less
    <2>3. \A n \in Nodes : test[n] = "own" => testLeft'[n] < lease'
      BY <2>1 DEF WarmupInv, Typed, Covered, Less, NoTest
    <2> QED
      BY <2>1, <2>2, <2>3 DEF WarmupInv, HolderWarms, Covered, CommandGoesFirst
  <1>2. ASSUME NEW n \in Nodes, StopTest(n) PROVE WarmupInv'
    BY <1>2 DEF StopTest, supervisor, arbiter, inputs, WarmupInv, Typed, HolderWarms, Covered,
                CommandGoesFirst, NoTest
  <1> QED
    BY <1>1, <1>2

LEMMA WarmupStep == WarmupInv /\ [Next]_vars => WarmupInv'
  <1>1. ASSUME WarmupInv, Next PROVE WarmupInv'
    BY <1>1, TickStep, EnvironmentStep, TimeStep DEF Next
  <1>2. ASSUME WarmupInv, UNCHANGED vars PROVE WarmupInv'
    BY <1>2, Untouched DEF vars, supervisor, arbiter, inputs
  <1> QED
    BY <1>1, <1>2

\* The token, the tests and the commands of every node keep to the invariant,
\* for any number of nodes, any queue and any times with a lease longer than a
\* warm-up.
THEOREM WarmupInvHolds == Spec => []WarmupInv
  BY InitWarmup, WarmupStep, PTL DEF Spec

\* Two nodes never warm up at once, although the token may pass on by a lease
\* that runs out while nobody looks.
THEOREM OneWarmupHolds == Spec => []OneWarmup
  <1>1. WarmupInv => OneWarmup
    BY DEF WarmupInv, Covered, OneWarmup
  <1> QED
    BY <1>1, WarmupInvHolds, PTL

\* No command is on the air against its own node's warm-up.
THEOREM CommandGoesFirstHolds == Spec => []CommandGoesFirst
  <1>1. WarmupInv => CommandGoesFirst
    BY DEF WarmupInv
  <1> QED
    BY <1>1, WarmupInvHolds, PTL

\* A warm-up has the token to itself, and no node warms up with a command of its own to send.
THEOREM WarmupAloneHolds == Spec => []WarmupAlone
  <1>1. OneWarmup /\ CommandGoesFirst => WarmupAlone
    BY DEF WarmupAlone
  <1> QED
    BY <1>1, OneWarmupHolds, CommandGoesFirstHolds, PTL
-----------------------------------------------------------------------------
(* The queue *)

\* Asking for the token: the head goes from the queue to the token, any other waits.
LEMMA AskQueue ==
  ASSUME TokenInv, NEW n \in Nodes, phase[n] # "Warming",
         NEW q \in Seq(Nodes), Distinct(q), Ask(q, n),
         \A m \in Nodes : Holds(q, m) <=> phase[m] = "Queued" \/ m = n
  PROVE  QueueSound'
  <1>1. LiveHolder # n
    BY NodesAssumption DEF TokenInv, WarmupInv, HolderWarms, LiveHolder
  <1>2. CASE Granted(q, n)
    <2>1. q # <<>> /\ Head(q) = n
      BY <1>1, <1>2 DEF Granted
    <2>2. queue' = Tail(q) /\ phase' = [phase EXCEPT ![n] = "Warming"]
      BY <1>1, <1>2 DEF Ask
    <2> QED
      BY <2>1, <2>2, HeadLeaves DEF QueueSound, TokenInv, WarmupInv, Typed
  <1>3. CASE ~Granted(q, n)
    BY <1>3 DEF Ask, QueueSound, TokenInv, WarmupInv, Typed
  <1> QED
    BY <1>2, <1>3

\* A node that gives its turn up is in the queue no more, whether it held the token or waited.
LEMMA CancelQueue ==
  ASSUME TokenInv, NEW n \in Nodes, NEW p \in {"Idle", "Verifying"},
         phase' = [phase EXCEPT ![n] = p],
         queue' = IF holder = n THEN queue ELSE Leave(queue, n)
  PROVE  QueueSound'
  <1>1. CASE holder = n
    <2>1. phase[n] = "Warming" /\ queue' = queue
      BY <1>1 DEF TokenInv, WarmupInv, HolderWarms
    <2> QED
      BY <2>1 DEF QueueSound, TokenInv, WarmupInv, Typed
  <1>2. CASE holder # n
    BY <1>2, OthersStay DEF QueueSound, TokenInv, WarmupInv, Typed
  <1> QED
    BY <1>1, <1>2

\* A supervisor outside the queue moves to another phase outside it.
LEMMA QueueAlone ==
  ASSUME TokenInv, NEW n \in Nodes, UNCHANGED queue,
         \/ UNCHANGED phase
         \/ /\ phase[n] # "Queued"
            /\ \E p \in {"Idle", "Verifying"} : phase' = [phase EXCEPT ![n] = p]
  PROVE  QueueSound'
  BY DEF QueueSound, TokenInv, WarmupInv, Typed

LEMMA TickQueue ==
  ASSUME TokenInv, NEW n \in Nodes, SupervisorTick(n)
  PROVE  QueueSound'
  <1> USE DEF TokenInv
  <1>1. CASE DropOut(n)
    <2>1. CASE phase[n] = "Idle"
      BY <1>1, <2>1, QueueAlone DEF DropOut, arbiter
    <2>2. CASE phase[n] # "Idle"
      BY <1>1, <2>2, CancelQueue DEF DropOut, Cancel
    <2> QED
      BY <2>1, <2>2
  <1>2. CASE IdlePromoted(n)
    BY <1>2, QueueAlone DEF IdlePromoted, arbiter
  <1>3. CASE Idle(n)
    <2>1. CASE UNCHANGED <<phase, arbiter, test, testLeft>>
      BY <2>1, QueueAlone DEF arbiter
    <2>2. CASE Ask(Requested(n), n)
      <3>1. phase[n] = "Idle"
        BY <1>3 DEF Idle
      <3>2. holder # n /\ ~Holds(queue, n)
        BY <3>1 DEF WarmupInv, HolderWarms, QueueSound
      <3>3. Requested(n) = Append(queue, n)
        BY <3>2 DEF Requested, Queued, Holds
      <3>4. /\ Requested(n) \in Seq(Nodes) /\ Distinct(Requested(n))
            /\ \A m \in Nodes : Holds(Requested(n), m) <=> phase[m] = "Queued" \/ m = n
        BY <3>2, <3>3, NewcomerJoins DEF QueueSound
      <3> QED
        BY <2>2, <3>1, <3>4, AskQueue
    <2> QED
      BY <1>3, <2>1, <2>2 DEF Idle
  <1>4. CASE QueuedYield(n) \/ QueuedLeave(n)
    BY <1>4, CancelQueue DEF QueuedYield, QueuedLeave, Cancel
  <1>5. CASE QueuedAsk(n)
    BY <1>5, AskQueue DEF QueuedAsk, QueueSound
  <1>6. CASE Warming(n)
    <2>1. CASE LiveHolder # n
      BY <1>6, <2>1, QueueAlone DEF Warming
    <2>2. CASE UNCHANGED <<phase, arbiter, test, testLeft>>
      BY <2>2, QueueAlone DEF arbiter
    <2>3. CASE LiveHolder = n /\ test[n] # "own"
      BY <1>6, <2>3, CancelQueue DEF Warming, Cancel
    <2> QED
      BY <1>6, <2>1, <2>2, <2>3 DEF Warming
  <1>7. CASE Verifying(n)
    BY <1>7, QueueAlone DEF Verifying, arbiter
  <1> QED
    BY <1>1, <1>2, <1>3, <1>4, <1>5, <1>6, <1>7 DEF SupervisorTick

LEMMA EnvironmentQueue ==
  ASSUME TokenInv, NEW n \in Nodes, Environment(n)
  PROVE  QueueSound'
  <1>1. CASE Submit(n) \/ Push(n)
    <2>1. CASE phase[n] = "Warming"
      BY <1>1, <2>1, CancelQueue DEF Submit, Push, YieldSelf
    <2>2. CASE phase[n] # "Warming"
      BY <1>1, <2>2, QueueAlone DEF Submit, Push, YieldSelf
    <2> QED
      BY <2>1, <2>2
  <1>2. CASE Relogin(n) \/ SwitchOff(n) \/ SwitchOn(n) \/ Regrid(n)
    BY <1>2, CancelQueue DEF Relogin, SwitchOff, SwitchOn, Regrid, Restart, Cancel
  <1>3. CASE \/ CommandDone(n) \/ PushDone(n) \/ GridAcked(n) \/ PhaseReport(n) \/ Confirm(n)
             \/ Sleep(n) \/ Wake(n) \/ WarmupRefused(n) \/ ManualTest(n)
    BY <1>3, QueueAlone
    DEF CommandDone, PushDone, GridAcked, PhaseReport, Confirm, Sleep, Wake, WarmupRefused,
        ManualTest, supervisor, arbiter
  <1> QED
    BY <1>1, <1>2, <1>3 DEF Environment

LEMMA TokenStep == TokenInv /\ [Next]_vars => TokenInv'
  <1>1. ASSUME TokenInv, Next PROVE QueueSound'
    <2>1. ASSUME NEW n \in Nodes, StopTest(n) PROVE QueueSound'
      BY <1>1, <2>1, QueueAlone DEF StopTest, supervisor, arbiter
    <2>2. CASE Advance
      BY <1>1, <2>2 DEF Advance, TokenInv, QueueSound, Distinct, Holds
    <2> QED
      BY <1>1, <2>1, <2>2, TickQueue, EnvironmentQueue DEF Next
  <1>2. ASSUME TokenInv, UNCHANGED vars PROVE QueueSound'
    BY <1>2 DEF vars, supervisor, arbiter, TokenInv, QueueSound, Distinct, Holds
  <1> QED
    BY <1>1, <1>2, WarmupStep DEF TokenInv

\* The queue and the supervisors never come apart, for any number of nodes and whatever
\* takes a node out: a lease, a yield, a restart, sleep or a change of its grid.
THEOREM TokenSoundHolds == Spec => []TokenSound
  <1>1. Init => TokenInv
    <2>1. Init => QueueSound
      BY DEF Init, QueueSound, Distinct, Holds
    <2> QED
      BY <2>1, InitWarmup DEF TokenInv
  <1>2. TokenInv => TokenSound
    BY NodesAssumption
    DEF TokenInv, WarmupInv, Typed, HolderWarms, QueueSound, Distinct, Holds, TokenSound, Queued
  <1> QED
    BY <1>1, <1>2, TokenStep, PTL DEF Spec
-----------------------------------------------------------------------------
(* The operator's test *)

Stays(n) == test[n] = "manual" /\ testLeft[n] > 0 => test'[n] = "manual"

\* A node that starts a warm-up runs no test of the operator; an abort spares one.
LEMMA Spared ==
  ASSUME Typed, NEW m \in Nodes, NEW n \in Nodes,
         \/ StartWarmup(m) /\ ~OtherTest(m)
         \/ AbortWarmup(m)
         \/ UNCHANGED test
  PROVE  Stays(n)
  BY DEF Stays, Typed, StartWarmup, AbortWarmup, OtherTest, NoTest

LEMMA ManualStep ==
  ASSUME Typed, Next, NEW n \in Nodes
  PROVE  Stays(n)
  <1>1. ASSUME NEW m \in Nodes, SupervisorTick(m) PROVE Stays(n)
    <2>1. CASE DropOut(m) \/ IdlePromoted(m) \/ QueuedYield(m) \/ QueuedLeave(m)
               \/ Warming(m) \/ Verifying(m)
      BY <2>1, Spared
      DEF DropOut, IdlePromoted, QueuedYield, QueuedLeave, Warming, Verifying
    <2>2. CASE Idle(m) \/ QueuedAsk(m)
      BY <2>2, Spared DEF Idle, QueuedAsk, StartOk, Ask
    <2> QED
      BY <1>1, <2>1, <2>2 DEF SupervisorTick
  <1>2. ASSUME NEW m \in Nodes, Environment(m) PROVE Stays(n)
    <2>1. CASE Submit(m) \/ Push(m)
      BY <2>1, Spared DEF Submit, Push, YieldSelf
    <2>2. CASE Relogin(m) \/ SwitchOff(m) \/ SwitchOn(m) \/ Regrid(m) \/ WarmupRefused(m)
      BY <2>2, Spared DEF Relogin, SwitchOff, SwitchOn, Regrid, WarmupRefused, Restart
    <2>3. CASE CommandDone(m) \/ PushDone(m) \/ GridAcked(m) \/ PhaseReport(m) \/ Confirm(m)
               \/ Sleep(m) \/ Wake(m)
      BY <2>3, Spared
      DEF CommandDone, PushDone, GridAcked, PhaseReport, Confirm, Sleep, Wake
    <2>4. CASE ManualTest(m)
      BY <2>4 DEF ManualTest, Stays, Typed
    <2> QED
      BY <1>2, <2>1, <2>2, <2>3, <2>4 DEF Environment
  <1>3. ASSUME NEW m \in Nodes, StopTest(m) PROVE Stays(n)
    BY <1>3 DEF StopTest, Stays, Typed
  <1>4. CASE Advance
    BY <1>4, Spared DEF Advance
  <1> QED
    BY <1>1, <1>2, <1>3, <1>4 DEF Next

\* Only its own stop timer ends an operator's test, whatever the supervisor of its
\* node does with the warm-up that it replaced.
THEOREM ManualUndisturbedHolds == Spec => ManualUndisturbed
  <1>1. WarmupInv /\ [Next]_vars
        => [\A n \in Nodes : test[n] = "manual" /\ testLeft[n] > 0 => test'[n] = "manual"]_vars
    BY ManualStep DEF WarmupInv, Stays
  <1> QED
    BY <1>1, WarmupInvHolds, PTL DEF Spec, ManualUndisturbed

-----------------------------------------------------------------------------
(* The node's own word, which the supervisor goes by ("promoted" above),   *)
(* in the module that says where it comes from: GridSync, where it is      *)
(* "believed".                                                             *)

\* Nothing is said and nothing is heard.
LEMMA BeliefUnmoved ==
  ASSUME BeliefCorrected, up' = up,
         ~timed' /\ ~owes' => ~timed /\ ~owes,
         believed' /\ ~unheard' => believed /\ ~unheard
  PROVE  BeliefCorrected'
  BY DEF BeliefCorrected, Corrected

\* A new session: what was under way is gone, and so is the belief.
LEMMA BeliefForgotten ==
  ASSUME up' = <<>>, ~believed'
  PROVE  BeliefCorrected'
  BY DEF BeliefCorrected

LEMMA CorrectionMoves ==
  ASSUME GridTyped, up # <<>>, up' = Tail(up),
         NEW i \in Nat, NEW j \in DOMAIN up, j > i + 1, TakesBack(up[j])
  PROVE  Corrected(i)'
  <1>1. j - 1 \in DOMAIN up' /\ up'[j - 1] = up[j] /\ j - 1 > i
    BY DEF GridTyped
  <1> QED
    BY <1>1 DEF Corrected, TakesBack

\* An uplink is heard or lost.  What is believed after it, and not known to be missed, the
\* uplink says, unless it says nothing and it was so before.
LEMMA BeliefHeard ==
  ASSUME GridTyped, BeliefCorrected, up # <<>>, up' = Tail(up), timed' = timed, owes' = owes,
         believed' /\ ~unheard' =>
           \/ believed /\ ~unheard /\ ~TakesBack(Head(up))
           \/ Head(up).kind \in {"beacon", "ack"} /\ Head(up).timed
  PROVE  BeliefCorrected'
  <1> SUFFICES ASSUME ~timed, ~owes
               PROVE  /\ believed' /\ ~unheard' => Corrected(0)'
                      /\ \A i \in DOMAIN up' :
                           up'[i].kind \in {"beacon", "ack"} /\ up'[i].timed => Corrected(i)'
    BY DEF BeliefCorrected
  <1>1. Len(up) \in Nat /\ 1 \in DOMAIN up /\ Head(up) = up[1]
    BY DEF GridTyped
  <1>2. ASSUME NEW i \in DOMAIN up', up'[i].kind \in {"beacon", "ack"}, up'[i].timed
        PROVE  Corrected(i)'
    <2>1. i \in Nat /\ i + 1 \in DOMAIN up /\ up'[i] = up[i + 1]
      BY <1>2 DEF GridTyped
    <2>2. Corrected(i + 1)
      BY <1>2, <2>1 DEF BeliefCorrected
    <2> QED
      BY <2>1, <2>2, CorrectionMoves DEF Corrected
  <1>3. ASSUME believed', ~unheard' PROVE Corrected(0)'
    <2>1. CASE Head(up).kind \in {"beacon", "ack"} /\ Head(up).timed
      <3>1. Corrected(1)
        BY <1>1, <2>1 DEF BeliefCorrected
      <3> QED
        BY <3>1, CorrectionMoves DEF Corrected
    <2>2. CASE believed /\ ~unheard /\ ~TakesBack(Head(up))
      <3>1. PICK j \in DOMAIN up : j > 0 /\ TakesBack(up[j])
        BY <2>2 DEF BeliefCorrected, Corrected
      <3>2. j > 0 + 1
        BY <1>1, <2>2, <3>1 DEF GridTyped
      <3> QED
        BY <3>1, <3>2, CorrectionMoves
    <2> QED
      BY <1>3, <2>1, <2>2
  <1> QED
    BY <1>2, <1>3

\* The node takes the belief back, after whatever else it says with it.
LEMMA BeliefTakenBack ==
  ASSUME GridTyped, NEW ms \in Seq(Uplinks), ms # <<>>, up' = up \o ms,
         TakesBack(ms[Len(ms)]), \A i \in 1..(Len(ms) - 1) : TakesBack(ms[i])
  PROVE  BeliefCorrected'
  <1>1. /\ Len(up) \in Nat /\ Len(ms) \in Nat /\ Len(ms) > 0
        /\ DOMAIN up' = 1..(Len(up) + Len(ms))
        /\ up'[Len(up) + Len(ms)] = ms[Len(ms)]
        /\ \A i \in 1..Len(ms) : up'[Len(up) + i] = ms[i]
    BY DEF GridTyped
  <1>2. \A i \in 0..(Len(up) + Len(ms) - 1) : Corrected(i)'
    <2> DEFINE last == Len(up) + Len(ms)
    <2>1. last \in DOMAIN up' /\ up'[last] = ms[Len(ms)] /\ last \in Nat
      BY <1>1
    <2>2. up'[last].kind \in {"beacon", "ack"} /\ ~up'[last].timed
      BY <2>1 DEF TakesBack
    <2> HIDE DEF last
    <2>3. ASSUME NEW i \in 0..(last - 1) PROVE Corrected(i)'
      BY <2>1, <2>2 DEF Corrected, TakesBack
    <2> QED
      BY <2>3 DEF last
  <1>3. ASSUME NEW i \in DOMAIN up', up'[i].timed, up'[i].kind \in {"beacon", "ack"}
        PROVE  i \in 0..(Len(up) + Len(ms) - 1)
    BY <1>1, <1>3 DEF TakesBack
  <1> QED
    BY <1>1, <1>2, <1>3 DEF BeliefCorrected

\* The node says how it is, or something else.
LEMMA BeliefSaid ==
  ASSUME GridTyped, BeliefCorrected, NEW m \in Uplinks, up' = Append(up, m),
         believed' = believed, unheard' = unheard,
         \/ timed' \/ TakesBack(m)
         \/ timed' = timed /\ owes' = owes /\ m.kind \notin {"beacon", "ack"}
  PROVE  BeliefCorrected'
  <1>1. /\ Len(up) \in Nat /\ DOMAIN up' = 1..(Len(up) + 1) /\ DOMAIN up = 1..Len(up)
        /\ up'[Len(up) + 1] = m /\ \A i \in DOMAIN up : up'[i] = up[i]
    BY DEF GridTyped
  <1>2. ASSUME NEW i \in Nat, Corrected(i) PROVE Corrected(i)'
    BY <1>1, <1>2 DEF Corrected
  <1>3. CASE TakesBack(m)
    <2>1. \A i \in 0..Len(up) : Corrected(i)'
      BY <1>1, <1>3 DEF Corrected
    <2>2. ASSUME NEW i \in DOMAIN up', up'[i].timed, up'[i].kind \in {"beacon", "ack"}
          PROVE  i \in 0..Len(up)
      BY <1>1, <1>3, <2>2 DEF TakesBack
    <2> QED
      BY <1>1, <2>1, <2>2 DEF BeliefCorrected
  <1>4. CASE timed'
    BY <1>4 DEF BeliefCorrected
  <1>5. CASE timed' = timed /\ owes' = owes /\ m.kind \notin {"beacon", "ack"}
    <2> SUFFICES ASSUME ~timed, ~owes
                 PROVE  /\ believed' /\ ~unheard' => Corrected(0)'
                        /\ \A i \in DOMAIN up' :
                             up'[i].kind \in {"beacon", "ack"} /\ up'[i].timed => Corrected(i)'
      BY <1>5 DEF BeliefCorrected
    <2>1. ASSUME NEW i \in DOMAIN up', up'[i].timed, up'[i].kind \in {"beacon", "ack"}
          PROVE  Corrected(i)'
      <3>1. i \in DOMAIN up /\ up[i] = up'[i]
        BY <1>1, <1>5, <2>1
      <3>2. Corrected(i)
        BY <2>1, <3>1 DEF BeliefCorrected
      <3> QED
        BY <1>1, <1>2, <3>1, <3>2
    <2>2. believed' /\ ~unheard' => Corrected(0)'
      BY <1>2 DEF BeliefCorrected
    <2> QED
      BY <2>1, <2>2
  <1> QED
    BY <1>3, <1>4, <1>5

\* The flags of GridTyped, and that a beacon without a report comes from a node that is
\* not timed.
Flags == {believed, grid, timed, owes, unheard} \subseteq BOOLEAN
BareIsBoot(us) == \A i \in DOMAIN us : us[i].kind = "beacon" /\ us[i].timed => us[i].phase
Named == down.kind = "publish" => down.id \in 0..(Ids - 1)

LEMMA TypedParts ==
  GridTyped <=> up \in Seq(Uplinks) /\ Flags /\ Named /\ BareIsBoot(up)
  BY DEF GridTyped, Flags, Named, BareIsBoot

LEMMA TypedTail ==
  ASSUME up \in Seq(Uplinks), BareIsBoot(up), up # <<>>
  PROVE  Tail(up) \in Seq(Uplinks) /\ BareIsBoot(Tail(up))
         /\ Head(up) \in Uplinks /\ (Head(up).kind = "beacon" /\ Head(up).timed => Head(up).phase)
  <1>1. Tail(up) \in Seq(Uplinks) /\ Head(up) \in Uplinks /\ Head(up) = up[1] /\ 1 \in DOMAIN up
    OBVIOUS
  <1>2. \A i \in DOMAIN Tail(up) : i + 1 \in DOMAIN up /\ Tail(up)[i] = up[i + 1]
    OBVIOUS
  <1> QED
    BY <1>1, <1>2 DEF BareIsBoot

LEMMA TypedAppend ==
  ASSUME up \in Seq(Uplinks), BareIsBoot(up), NEW m \in Uplinks,
         m.kind = "beacon" /\ m.timed => m.phase
  PROVE  Append(up, m) \in Seq(Uplinks) /\ BareIsBoot(Append(up, m))
  <1>1. /\ Append(up, m) \in Seq(Uplinks) /\ DOMAIN Append(up, m) = 1..(Len(up) + 1)
        /\ Append(up, m)[Len(up) + 1] = m /\ DOMAIN up = 1..Len(up) /\ Len(up) \in Nat
        /\ \A i \in DOMAIN up : Append(up, m)[i] = up[i]
    OBVIOUS
  <1> QED
    BY <1>1 DEF BareIsBoot

LEMMA InitBelief == GridInit => PromotionInv
  <1> SUFFICES ASSUME GridInit PROVE PromotionInv
    OBVIOUS
  <1>1. up = <<>> /\ up \in Seq(Uplinks)
    BY DEF GridInit
  <1>2. Flags
    BY DEF GridInit, Flags
  <1>3. Named
    BY DEF GridInit, Quiet, Named
  <1>4. BareIsBoot(up)
    BY <1>1 DEF BareIsBoot
  <1>5. BeliefCorrected
    BY <1>1 DEF GridInit, BeliefCorrected
  <1> QED
    BY <1>1, <1>2, <1>3, <1>4, <1>5, TypedParts DEF PromotionInv

\* What a publish does: the slot is free, and it bears one of the ids.
LEMMA Publishes ==
  ASSUME Named, Attempt \/ SendGridSync
  PROVE  Named'
  <1>1. CASE Attempt
    <2>1. FreshId \in 0..(Ids - 1)
      BY BoundsAssumption DEF FreshId
    <2> QED
      BY <1>1, <2>1 DEF Attempt, Named
  <1>2. CASE NoPublish
    BY <1>2 DEF NoPublish, Named
  <1> QED
    BY <1>1, <1>2 DEF SendGridSync

\* A step that is neither said nor heard, and leaves the node and the belief alone.
LEMMA BeliefStays ==
  ASSUME PromotionInv, up' = up, UNCHANGED node, UNCHANGED <<believed, unheard>>, Named'
  PROVE  PromotionInv'
  <1>1. up \in Seq(Uplinks) /\ Flags /\ BareIsBoot(up) /\ BeliefCorrected
    BY TypedParts DEF PromotionInv
  <1>2. timed' = timed /\ owes' = owes /\ grid' = grid /\ believed' = believed /\ unheard' = unheard
    BY DEF node, announce
  <1>3. BeliefCorrected'
    BY <1>1, <1>2, BeliefUnmoved
  <1>4. Flags'
    BY <1>1, <1>2 DEF Flags
  <1> QED
    BY <1>1, <1>3, <1>4, TypedParts DEF PromotionInv, GridTyped, Flags, Named, BareIsBoot

LEMMA HubBelief ==
  ASSUME PromotionInv, HubStep \/ OtherLogin
  PROVE  PromotionInv'
  <1>0. up \in Seq(Uplinks) /\ Flags /\ Named /\ BareIsBoot(up) /\ BeliefCorrected
    BY TypedParts DEF PromotionInv
  <1>1. CASE ConfirmSession
    BY <1>0, <1>1, BeliefStays DEF ConfirmSession, history, Named
  <1>2. CASE RegridFire
    <2>1. Named'
      BY <1>0, <1>2, Publishes DEF RegridFire, NoPublish, Named
    <2> QED
      BY <1>2, <2>1, BeliefStays DEF RegridFire, history
  <1>3. CASE Republish
    <2>1. Named'
      BY <1>0, <1>3, Publishes DEF Republish
    <2> QED
      BY <1>3, <2>1, BeliefStays DEF Republish, history
  <1>4. CASE LadderSpent \/ OtherLogin
    <2>1. CASE UNCHANGED <<believed, up, history>>
      BY <1>0, <1>4, <2>1, BeliefStays DEF LadderSpent, OtherLogin, history, Named
    <2>2. CASE DoLogin
      <3>1. up' = <<>> /\ believed' = FALSE /\ unheard' = FALSE /\ UNCHANGED node /\ down' = down
        BY <1>4, <2>2 DEF LadderSpent, OtherLogin, DoLogin
      <3>2. BeliefCorrected'
        BY <3>1, BeliefForgotten
      <3>3. Flags'
        BY <1>0, <3>1 DEF Flags, node, announce
      <3>4. up' \in Seq(Uplinks) /\ BareIsBoot(up') /\ Named'
        BY <1>0, <3>1 DEF BareIsBoot, Named
      <3> QED
        BY <3>2, <3>3, <3>4 DEF PromotionInv, GridTyped, Flags, Named, BareIsBoot
    <2> QED
      BY <1>4, <2>1, <2>2 DEF LadderSpent, OtherLogin
  <1>5. CASE WarmupStart \/ WarmupEnd
    BY <1>0, <1>5, BeliefStays DEF WarmupStart, WarmupEnd, history, Named
  <1> QED
    BY <1>1, <1>2, <1>3, <1>4, <1>5 DEF HubStep

\* What the hub hears, and what is lost on its way to it.
LEMMA HeardBelief ==
  ASSUME PromotionInv, HubHears \/ LoseUplink
  PROVE  PromotionInv'
  <1>0. up \in Seq(Uplinks) /\ Flags /\ Named /\ BareIsBoot(up) /\ BeliefCorrected /\ GridTyped
    BY TypedParts DEF PromotionInv
  <1>1. /\ up # <<>> /\ up' = Tail(up)
        /\ timed' = timed /\ owes' = owes /\ grid' = grid
    BY DEF HubHears, LoseUplink, HearBeacon, HearAck, HearRefusal, HearRequest, Hear, node, announce
  <1>2. /\ Tail(up) \in Seq(Uplinks) /\ BareIsBoot(Tail(up))
        /\ Head(up) \in Uplinks /\ (Head(up).kind = "beacon" /\ Head(up).timed => Head(up).phase)
    BY <1>0, <1>1, TypedTail
  <1> SUFFICES ASSUME TRUE
               PROVE  /\ Named' /\ believed' \in BOOLEAN /\ unheard' \in BOOLEAN
                      /\ believed' /\ ~unheard' =>
                           \/ believed /\ ~unheard /\ ~TakesBack(Head(up))
                           \/ Head(up).kind \in {"beacon", "ack"} /\ Head(up).timed
    <2>1. BeliefCorrected'
      BY <1>0, <1>1, BeliefHeard
    <2>2. Flags'
      BY <1>0, <1>1 DEF Flags
    <2> QED
      BY <1>1, <1>2, <2>1, <2>2 DEF PromotionInv, GridTyped, Flags, Named, BareIsBoot
  <1>3. CASE HearBeacon
    <2>1. Head(up).kind = "beacon" /\ Head(up).timed \in BOOLEAN /\ Head(up).phase \in BOOLEAN
      BY <1>2, <1>3 DEF HearBeacon, Hear, Uplinks
    <2>2. Named'
      BY <1>0, <1>3 DEF HearBeacon, Named
    <2>3. CASE Head(up).phase
      <3>1. (believed' = Head(up).timed \/ believed' = FALSE) /\ unheard' = FALSE
        BY <1>3, <2>3 DEF HearBeacon, RegridNode, ForgetNodeGrid
      <3> QED
        BY <2>1, <2>2, <3>1
    <2>4. CASE ~Head(up).phase
      <3>1. believed' \in BOOLEAN /\ unheard' \in BOOLEAN /\ (believed' => unheard')
        <4>1. CASE Head(up).why = "boot" /\ ~Head(up).timed /\ Regrids
          BY <1>3, <2>4, <4>1 DEF HearBeacon, RegridNode, ForgetNodeGrid
        <4>2. CASE ~(Head(up).why = "boot" /\ ~Head(up).timed /\ Regrids)
          <5>1. believed' = believed /\ unheard' = believed
            BY <1>0, <1>3, <2>4, <4>2, Zenon DEF HearBeacon, RegridNode, Flags
          <5> QED
            BY <1>0, <5>1 DEF Flags
        <4> QED
          BY <4>1, <4>2
      <3> QED
        BY <2>2, <3>1
    <2> QED
      BY <2>1, <2>3, <2>4
  <1>4. CASE HearAck
    <2>1. /\ Head(up).kind = "ack" /\ Head(up).timed \in BOOLEAN /\ believed' = Head(up).timed
          /\ unheard' = FALSE /\ Named'
      BY <1>0, <1>2, <1>4 DEF HearAck, Hear, Uplinks, Named
    <2> QED
      BY <2>1
  <1>5. CASE HearRefusal
    <2>1. /\ Head(up).kind = "noGrid" /\ Named'
          /\ \/ believed' = believed /\ unheard' = unheard
             \/ believed' = FALSE /\ unheard' = FALSE
      <3>1. Head(up).kind = "noGrid" /\ Named'
        BY <1>0, <1>5 DEF HearRefusal, Hear, Named
      <3>2. CASE warming /\ Regrids
        BY <1>5, <3>1, <3>2 DEF HearRefusal, RegridNode, ForgetNodeGrid
      <3>3. CASE warming /\ ~Regrids
        <4>1. unheard' = (unheard /\ TRUE) /\ believed' = believed
          BY <1>5, <3>3 DEF HearRefusal, RegridNode
        <4>2. unheard' = unheard
          BY <1>0, <4>1 DEF Flags
        <4> QED
          BY <3>1, <4>1, <4>2
      <3>4. CASE ~warming
        BY <1>5, <3>1, <3>4 DEF HearRefusal
      <3> QED
        BY <3>2, <3>3, <3>4
    <2>2. believed \in BOOLEAN /\ unheard \in BOOLEAN /\ ~TakesBack(Head(up))
      BY <1>0, <2>1 DEF TakesBack, Flags
    <2>3. CASE believed' = believed /\ unheard' = unheard
      BY <2>1, <2>2, <2>3
    <2>4. CASE believed' = FALSE /\ unheard' = FALSE
      BY <2>1, <2>2, <2>4
    <2> QED
      BY <2>1, <2>3, <2>4
  <1>6. CASE HearRequest
    <2>1. Head(up).kind = "request" /\ believed' = believed /\ unheard' = unheard /\ Named'
      BY <1>0, <1>6, Publishes DEF HearRequest, Hear, NoPublish, Named, history
    <2> QED
      BY <1>0, <2>1 DEF TakesBack, Flags
  <1>7. CASE LoseUplink
    <2>1. believed' = believed /\ Named'
      BY <1>0, <1>7 DEF LoseUplink, hub, Named
    <2>2. CASE Head(up).kind \in {"beacon", "ack"}
      <3>1. unheard' = (believed # Head(up).timed) /\ Head(up).timed \in BOOLEAN
        BY <1>2, <1>7, <2>2 DEF LoseUplink, Uplinks
      <3>2. believed \in BOOLEAN
        BY <1>0 DEF Flags
      <3>3. believed' /\ ~unheard' => Head(up).timed
        BY <2>1, <3>1, <3>2
      <3>4. unheard' \in BOOLEAN /\ believed' \in BOOLEAN
        BY <2>1, <3>1, <3>2
      <3> QED
        BY <2>1, <2>2, <3>3, <3>4
    <2>3. CASE Head(up).kind \notin {"beacon", "ack"}
      <3>1. unheard' = unheard
        BY <1>7, <2>3 DEF LoseUplink
      <3> QED
        BY <1>0, <2>1, <2>3, <3>1 DEF Flags, TakesBack
    <2> QED
      BY <2>2, <2>3
  <1> QED
    BY <1>3, <1>4, <1>5, <1>6, <1>7 DEF HubHears

\* The node starts or ends timed reception: the change is owed.
LEMMA TurnsOwe ==
  ASSUME Flags, NEW t \in BOOLEAN, Turns(t)
  PROVE  timed' \in BOOLEAN /\ owes' \in BOOLEAN /\ (~timed' /\ ~owes' => ~timed /\ ~owes)
  <1>1. timed' = t /\ owes' = (owes \/ timed # t) /\ timed \in BOOLEAN /\ owes \in BOOLEAN
    BY DEF Turns, Flags
  <1> QED
    BY <1>1

\* What the node says, with all that goes with it.
LEMMA SaidBelief ==
  ASSUME PromotionInv, NEW m \in Uplinks, Say(m), m.kind = "beacon" /\ m.timed => m.phase,
         UNCHANGED <<hub, unheard>>, Named', grid' \in BOOLEAN, timed' \in BOOLEAN, owes' \in BOOLEAN,
         \/ timed' \/ TakesBack(m)
         \/ timed' = timed /\ owes' = owes /\ m.kind \notin {"beacon", "ack"}
  PROVE  PromotionInv'
  <1>0. up \in Seq(Uplinks) /\ Flags /\ BareIsBoot(up) /\ BeliefCorrected /\ GridTyped
    BY TypedParts DEF PromotionInv
  <1>1. up' = Append(up, m) /\ believed' = believed /\ unheard' = unheard
    BY DEF Say, hub
  <1>2. up' \in Seq(Uplinks) /\ BareIsBoot(up')
    BY <1>0, <1>1, TypedAppend
  <1>3. BeliefCorrected'
    BY <1>0, <1>1, BeliefSaid
  <1>4. Flags'
    BY <1>0, <1>1 DEF Flags
  <1> QED
    BY <1>2, <1>3, <1>4 DEF PromotionInv, GridTyped, Flags, Named, BareIsBoot

\* A change of the node that goes with no word.
LEMMA TurnedBelief ==
  ASSUME PromotionInv, up' = up, UNCHANGED <<hub, unheard>>, Named',
         grid' \in BOOLEAN, timed' \in BOOLEAN, owes' \in BOOLEAN,
         ~timed' /\ ~owes' => ~timed /\ ~owes
  PROVE  PromotionInv'
  <1>0. up \in Seq(Uplinks) /\ Flags /\ BareIsBoot(up) /\ BeliefCorrected
    BY TypedParts DEF PromotionInv
  <1>1. believed' = believed /\ unheard' = unheard
    BY DEF hub
  <1>2. BeliefCorrected'
    BY <1>0, <1>1, BeliefUnmoved
  <1>3. Flags'
    BY <1>0, <1>1 DEF Flags
  <1> QED
    BY <1>0, <1>2, <1>3 DEF PromotionInv, GridTyped, Flags, Named, BareIsBoot

LEMMA RebootBelief ==
  ASSUME PromotionInv, NodeReboots
  PROVE  PromotionInv'
  <1>0. up \in Seq(Uplinks) /\ Flags /\ BareIsBoot(up) /\ GridTyped
    BY TypedParts DEF PromotionInv
  <1>1. PICK said \in BootBeacons :
          up' = up \o said /\ owes' = (Len(said) = 1)
    BY DEF NodeReboots
  <1>2. /\ said \in Seq(Uplinks) /\ said # <<>> /\ BareIsBoot(said)
        /\ TakesBack(said[Len(said)]) /\ \A i \in 1..(Len(said) - 1) : TakesBack(said[i])
    <2>1. /\ BareBoot \in Uplinks /\ TakesBack(BareBoot) /\ ~BareBoot.timed
          /\ \A why \in {"mode", "boot"} : /\ Beacon(why, FALSE) \in Uplinks
                                           /\ TakesBack(Beacon(why, FALSE)) /\ ~Beacon(why, FALSE).timed
      BY DEF BareBoot, Beacon, Uplinks, TakesBack
    <2> DEFINE Takers == {m \in Uplinks : TakesBack(m) /\ ~m.timed}
    <2>2. said \in Seq(Takers) /\ Len(said) \in 1..2
      <3>1. BareBoot \in Takers /\ \A why \in {"mode", "boot"} : Beacon(why, FALSE) \in Takers
        BY <2>1
      <3> HIDE DEF Takers
      <3>2. \A x, y \in Takers : /\ <<x>> \in Seq(Takers) /\ Len(<<x>>) = 1
                                 /\ <<x, y>> \in Seq(Takers) /\ Len(<<x, y>>) = 2
        OBVIOUS
      <3>3. \/ said = <<BareBoot>> \/ said = <<Beacon("boot", FALSE)>>
            \/ \E why \in {"mode", "boot"} : said = <<Beacon(why, FALSE), Beacon("boot", FALSE)>>
        BY DEF BootBeacons
      <3>4. ASSUME NEW x \in Takers, NEW y \in Takers, said = <<x>> \/ said = <<x, y>>
            PROVE  said \in Seq(Takers) /\ Len(said) \in 1..2
        <4>1. CASE said = <<x>>
          BY <3>2, <4>1
        <4>2. CASE said = <<x, y>>
          BY <3>2, <4>2
        <4> QED
          BY <3>4, <4>1, <4>2
      <3> QED
        BY <3>1, <3>3, <3>4, Zenon
    <2>3. \A i \in 1..Len(said) : said[i] \in Takers
      BY <2>2
    <2> QED
      BY <2>2, <2>3 DEF BareIsBoot
  <1>3. BeliefCorrected'
    BY <1>0, <1>1, <1>2, BeliefTakenBack
  <1>4. up' \in Seq(Uplinks) /\ BareIsBoot(up')
    <2>1. /\ Len(up) \in Nat /\ Len(said) \in Nat
          /\ DOMAIN up = 1..Len(up) /\ DOMAIN said = 1..Len(said)
      BY <1>0, <1>2
    <2>2. /\ up' \in Seq(Uplinks) /\ DOMAIN up' = 1..(Len(up) + Len(said))
          /\ \A i \in 1..Len(up) : up'[i] = up[i]
      BY <1>0, <1>1, <1>2
    <2>3. ASSUME NEW i \in DOMAIN up', ~(i \in DOMAIN up)
          PROVE  i - Len(up) \in DOMAIN said /\ up'[i] = said[i - Len(up)]
      BY <1>0, <1>1, <1>2, <2>1, <2>2, <2>3
    <2>4. ASSUME NEW i \in DOMAIN up', up'[i].kind = "beacon", up'[i].timed
          PROVE  up'[i].phase
      <3>1. CASE i \in DOMAIN up
        BY <1>0, <2>1, <2>2, <2>4, <3>1 DEF BareIsBoot
      <3>2. CASE ~(i \in DOMAIN up)
        BY <1>2, <2>3, <2>4, <3>2 DEF BareIsBoot
      <3> QED
        BY <3>1, <3>2
    <2> QED
      BY <2>2, <2>4 DEF BareIsBoot
  <1>5. Flags'
    BY <1>0, <1>1 DEF NodeReboots, Flags, hub, history
  <1>6. Named'
    BY DEF NodeReboots, Quiet, Named
  <1> QED
    BY <1>3, <1>4, <1>5, <1>6 DEF PromotionInv, GridTyped, Flags, Named, BareIsBoot

\* The node: nothing takes it out of timed reception that it does not tell or owe.
LEMMA NodeBelief ==
  ASSUME PromotionInv,
         \/ NodeHears \/ NodeAsks \/ Announce \/ NodeDemotes \/ NodeReboots
         \/ NodeDrifts \/ LoseDownlink
  PROVE  PromotionInv'
  <1>f. Flags /\ Named
    BY TypedParts DEF PromotionInv
  <1>1. CASE HearPublish
    <2>1. UNCHANGED <<hub, unheard>> /\ timed' = timed /\ owes' = owes /\ Named'
      BY <1>1 DEF HearPublish, announce, history, Quiet, Named
    <2>2. timed' \in BOOLEAN /\ owes' \in BOOLEAN
      BY <1>f, <2>1 DEF Flags
    <2>3. CASE down.heard
      <3> DEFINE m == [kind |-> "ack", id |-> down.id, timed |-> timed]
      <3>1. m \in Uplinks /\ m.kind = "ack" /\ m.timed = timed
        BY <1>1, <1>f DEF HearPublish, Named, Uplinks, Flags
      <3>2. Say(m) /\ grid' \in BOOLEAN
        BY <1>1, <2>3 DEF HearPublish
      <3> HIDE DEF m
      <3>3. timed' \/ TakesBack(m)
        BY <2>1, <3>1 DEF TakesBack
      <3> QED
        BY <2>1, <2>2, <3>1, <3>2, <3>3, SaidBelief
    <2>4. CASE ~down.heard
      <3>1. up' = up /\ grid' = grid
        BY <1>1, <2>4 DEF HearPublish
      <3>2. grid' \in BOOLEAN
        BY <1>f, <3>1 DEF Flags
      <3> QED
        BY <2>1, <2>2, <3>1, <3>2, TurnedBelief
    <2> QED
      BY <2>3, <2>4
  <1>2. CASE HearWarmup
    <2>1. UNCHANGED <<hub, unheard>> /\ grid' = grid /\ Named' /\ grid' \in BOOLEAN
      BY <1>2, <1>f DEF HearWarmup, history, Quiet, Named, Flags
    <2>2. CASE ~(down.heard /\ drift = "none")
      <3>1. up' = up /\ timed' = timed /\ owes' = owes
        BY <1>2, <2>2 DEF HearWarmup, announce
      <3>2. timed' \in BOOLEAN /\ owes' \in BOOLEAN
        BY <1>f, <3>1 DEF Flags
      <3> QED
        BY <2>1, <3>1, <3>2, TurnedBelief
    <2>3. CASE down.heard /\ drift = "none" /\ grid
      <3>1. Turns(TRUE) /\ up' = up
        BY <1>2, <2>3 DEF HearWarmup
      <3> QED
        BY <1>f, <2>1, <3>1, TurnsOwe, TurnedBelief
    <2>4. CASE down.heard /\ drift = "none" /\ ~grid
      <3> DEFINE m == [kind |-> "noGrid"]
      <3>1. m \in Uplinks /\ m.kind = "noGrid"
        BY DEF Uplinks
      <3>2. Say(m) /\ timed' = timed /\ owes' = owes
        BY <1>2, <2>4 DEF HearWarmup, announce
      <3>3. timed' \in BOOLEAN /\ owes' \in BOOLEAN
        BY <1>f, <3>2 DEF Flags
      <3> HIDE DEF m
      <3> QED
        BY <2>1, <3>1, <3>2, <3>3, SaidBelief
    <2> QED
      BY <2>2, <2>3, <2>4
  <1>3. CASE HearWithdrawal
    <2>1. UNCHANGED <<hub, unheard>> /\ up' = up /\ Named'
      BY <1>3 DEF HearWithdrawal, history, Quiet, Named
    <2>2. CASE down.heard
      <3>1. Turns(FALSE) /\ grid' \in BOOLEAN
        BY <1>3, <2>2 DEF HearWithdrawal
      <3> QED
        BY <1>f, <2>1, <3>1, TurnsOwe, TurnedBelief
    <2>3. CASE ~down.heard
      <3>1. grid' = grid /\ timed' = timed /\ owes' = owes
        BY <1>3, <2>3 DEF HearWithdrawal, node, announce
      <3>2. grid' \in BOOLEAN /\ timed' \in BOOLEAN /\ owes' \in BOOLEAN
        BY <1>f, <3>1 DEF Flags
      <3> QED
        BY <2>1, <3>1, <3>2, TurnedBelief
    <2> QED
      BY <2>2, <2>3
  <1>4. CASE NodeDemotes
    <2>1. Turns(FALSE) /\ up' = up /\ UNCHANGED <<hub, unheard>> /\ grid' = grid /\ down' = down
      BY <1>4 DEF NodeDemotes, history
    <2>2. grid' \in BOOLEAN /\ Named'
      BY <1>f, <2>1 DEF Flags, Named
    <2> QED
      BY <1>f, <2>1, <2>2, TurnsOwe, TurnedBelief
  <1>5. CASE Announce
    <2> DEFINE m == Beacon("mode", timed)
    <2>1. m \in Uplinks /\ m.kind = "beacon" /\ m.timed = timed /\ m.phase
      BY <1>f DEF Beacon, Uplinks, Flags
    <2>2. /\ Say(m) /\ timed' = timed /\ owes' = FALSE /\ grid' = grid /\ down' = down
          /\ UNCHANGED <<hub, unheard>>
      BY <1>5 DEF Announce, history
    <2> HIDE DEF m
    <2>3. grid' \in BOOLEAN /\ timed' \in BOOLEAN /\ owes' \in BOOLEAN /\ Named'
      BY <1>f, <2>2 DEF Flags, Named
    <2>4. timed' \/ TakesBack(m)
      BY <2>1, <2>2 DEF TakesBack
    <2> QED
      BY <2>1, <2>2, <2>3, <2>4, SaidBelief
  <1>6. CASE NodeAsks
    <2> DEFINE m == [kind |-> "request"]
    <2>1. m \in Uplinks /\ m.kind = "request"
      BY DEF Uplinks
    <2>2. Say(m) /\ UNCHANGED <<hub, unheard>> /\ timed' = timed /\ owes' = owes /\ grid' = grid /\ down' = down
      BY <1>6 DEF NodeAsks, node, announce, history
    <2>3. grid' \in BOOLEAN /\ timed' \in BOOLEAN /\ owes' \in BOOLEAN /\ Named'
      BY <1>f, <2>2 DEF Flags, Named
    <2> HIDE DEF m
    <2> QED
      BY <2>1, <2>2, <2>3, SaidBelief
  <1>7. CASE NodeDrifts \/ LoseDownlink
    <2>1. /\ up' = up /\ timed' = timed /\ owes' = owes /\ grid' = grid /\ UNCHANGED <<hub, unheard>>
          /\ Named'
      BY <1>7, <1>f DEF NodeDrifts, LoseDownlink, node, announce, history, Quiet, Named
    <2>2. grid' \in BOOLEAN /\ timed' \in BOOLEAN /\ owes' \in BOOLEAN
      BY <1>f, <2>1 DEF Flags
    <2> QED
      BY <2>1, <2>2, TurnedBelief
  <1> QED
    BY <1>1, <1>2, <1>3, <1>4, <1>5, <1>6, <1>7, RebootBelief DEF NodeHears

LEMMA BeliefStep ==
  ASSUME PromotionInv, [GridNext]_gridVars
  PROVE  PromotionInv'
  <1>0. up \in Seq(Uplinks) /\ Flags /\ Named /\ BareIsBoot(up)
    BY TypedParts DEF PromotionInv
  <1>1. CASE EnableTimedMode
    <2>1. up' = <<>> /\ believed' = FALSE /\ unheard' = FALSE /\ UNCHANGED node
      BY <1>1 DEF EnableTimedMode
    <2>2. Named'
      BY <1>0, <1>1, Publishes DEF EnableTimedMode
    <2>3. BeliefCorrected'
      BY <2>1, BeliefForgotten
    <2>4. Flags'
      BY <1>0, <2>1 DEF Flags, node, announce
    <2>5. up' \in Seq(Uplinks) /\ BareIsBoot(up')
      BY <2>1 DEF BareIsBoot
    <2> QED
      BY <2>2, <2>3, <2>4, <2>5 DEF PromotionInv, GridTyped, Flags, Named, BareIsBoot
  <1>2. CASE DisableTimedMode
    BY <1>2, BeliefStays DEF DisableTimedMode, history, Named
  <1>3. CASE \/ Pass20 \/ Pass60 \/ PassAsk \/ Pass300 \/ Pass600
             \/ UNCHANGED gridVars
    BY <1>0, <1>3, BeliefStays DEF Pass20, Pass60, PassAsk, Pass300, Pass600, gridVars,
                                   hub, history, Named
  <1>4. CASE PassAnnounce
    <2>1. /\ up' = up /\ UNCHANGED <<hub, unheard>> /\ down' = down
          /\ timed' = timed /\ owes' = owes /\ grid' = grid
      BY <1>4 DEF PassAnnounce, history
    <2>2. grid' \in BOOLEAN /\ timed' \in BOOLEAN /\ owes' \in BOOLEAN /\ Named'
      BY <1>0, <2>1 DEF Flags, Named
    <2> QED
      BY <2>1, <2>2, TurnedBelief
  <1> QED
    BY <1>1, <1>2, <1>3, <1>4, HubBelief, HeardBelief, NodeBelief DEF GridNext, Switch, Fault

\* The supervisor's belief that a node is promoted is wrong only while the node has yet to
\* announce the change, or what corrects it is under way, or was lost or came without its
\* report - whatever reboots, demotions, refused warm-ups, lost beacons and acks, logins and
\* flips of the Timed Mode switch interleave, for all values of the bounds.
THEOREM PromotionIsTrueHolds == GridSpec => []PromotionIsTrue
  <1>1. PromotionInv => PromotionIsTrue
    <2> SUFFICES ASSUME PromotionInv, believed, ~timed, ~owes, ~unheard
                 PROVE  \E i \in 1..Len(up) : TakesBack(up[i])
      BY DEF PromotionIsTrue
    <2>1. DOMAIN up = 1..Len(up)
      BY DEF PromotionInv, GridTyped
    <2> QED
      BY <2>1 DEF PromotionInv, BeliefCorrected, Corrected
  <1>2. PromotionInv /\ [GridNext]_gridVars => PromotionInv'
    BY BeliefStep
  <1> QED
    BY <1>1, <1>2, InitBelief, PTL DEF GridSpec

-----------------------------------------------------------------------------
(* Least elements, and quotients that truncate as in C. *)

\* Natural numbers have a least.
LEMMA LeastNat ==
  ASSUME NEW S, S \subseteq Nat, S # {}
  PROVE  \E m \in S : \A k \in S : m <= k
  <1> DEFINE R == OpToRel(<, Nat)
  <1>1. IsWellFoundedOn(R, Nat)
    BY NatLessThanWellFounded
  <1>2. \A x, y \in Nat : y < x => <<y, x>> \in R
    BY DEF OpToRel
  <1> HIDE DEF R
  <1>3. PICK m \in S : \A y \in S : ~(<<y, m>> \in R)
    BY <1>1, WFMin
  <1>4. \A k \in S : ~(k < m)
    BY <1>2, <1>3
  <1> QED
    BY <1>4

\* Integers bounded below have a least.
LEMMA LeastInt ==
  ASSUME NEW S, S \subseteq Int, S # {}, NEW low \in Int, \A x \in S : low <= x
  PROVE  \E m \in S : \A k \in S : m <= k
  <1> DEFINE T == {x - low : x \in S}
  <1>1. T \subseteq Nat /\ T # {}
    <2>1. \A x \in S : x - low \in Nat
      OBVIOUS
    <2>2. PICK x \in S : TRUE
      OBVIOUS
    <2>3. x - low \in T
      BY <2>2
    <2> QED
      BY <2>1, <2>3
  <1>2. PICK m \in T : \A k \in T : m <= k
    BY <1>1, LeastNat
  <1>3. PICK x \in S : m = x - low
    BY <1>2
  <1>4. ASSUME NEW y \in S PROVE x <= y
    <2>1. m <= y - low
      BY <1>2
    <2> QED
      BY <1>3, <2>1
  <1> QED
    BY <1>4

LEMMA MinIs ==
  ASSUME NEW S, S \subseteq Int, S # {}, NEW low \in Int, \A x \in S : low <= x
  PROVE  Min(S) \in S /\ \A k \in S : Min(S) <= k
  BY LeastInt DEF Min

\* C's quotient is off by less than one.
LEMMA TruncDivIs ==
  ASSUME NEW a \in Int, NEW d \in Nat \ {0}
  PROVE  /\ TruncDiv(a, d) \in Int
         /\ a - d < TruncDiv(a, d) * d /\ TruncDiv(a, d) * d < a + d
  <1>1. \A x \in Nat : x \div d \in Nat /\ (x \div d) * d <= x /\ x < (x \div d) * d + d
    OBVIOUS
  <1>2. CASE a >= 0
    BY <1>1, <1>2 DEF TruncDiv
  <1>3. CASE a < 0
    <2> DEFINE q == (-a) \div d
    <2>1. -a \in Nat
      BY <1>3
    <2>2. q \in Nat /\ q * d <= -a /\ -a < q * d + d
      BY <1>1, <2>1
    <2>3. TruncDiv(a, d) = -q
      BY <1>3 DEF TruncDiv
    <2> HIDE DEF q
    <2>4. (-q) * d = -(q * d) /\ q * d \in Int
      BY <2>2
    <2> QED
      BY <2>2, <2>3, <2>4
  <1> QED
    BY <1>2, <1>3

LEMMA MultiplesGrow ==
  ASSUME NEW a \in Int, NEW b \in Int, a <= b, NEW p \in Nat
  PROVE  a * p \in Int /\ b * p \in Int /\ a * p <= b * p
  <1>1. (b - a) * p \in Nat
    OBVIOUS
  <1>2. b * p = a * p + (b - a) * p /\ a * p \in Int /\ b * p \in Int
    OBVIOUS
  <1> QED
    BY <1>1, <1>2

LEMMA Cancels ==
  ASSUME NEW a \in Int, NEW b \in Int, NEW d \in Nat \ {0}, a * d < b * d
  PROVE  a < b
  <1> SUFFICES ASSUME b <= a PROVE FALSE
    OBVIOUS
  <1> QED
    BY MultiplesGrow

-----------------------------------------------------------------------------
(* Spans, marks and the searches for them. *)

\* Of two spans the longer is longer by three quarters of the difference at least, in spite of
\* the rounding of both.
LEMMA StretchGrows ==
  ASSUME NEW rate \in -RateMax..RateMax, NEW s \in Nat, NEW d \in Nat
  PROVE  /\ Stretch(rate, s) \in Int /\ Stretch(rate, s + d) \in Int
         /\ 4 * (Stretch(rate, s + d) - Stretch(rate, s)) > 3 * d - 8
  <1> DEFINE p == s * rate
             e == d * rate
             q == TruncDiv(p, RateDen)
             r == TruncDiv(p + e, RateDen)
  <1>0. RateDen \in Nat \ {0} /\ RateMax \in Nat /\ 4 * RateMax <= RateDen /\ rate \in Int
    BY GridAssumption, RateAssumption
  <1>1. p \in Int /\ e \in Int /\ (s + d) * rate = p + e
    BY <1>0
  <1>2. Stretch(rate, s) = s + q /\ Stretch(rate, s + d) = s + d + r
    BY <1>1 DEF Stretch
  <1>3. 4 * e >= -(d * RateDen) /\ d * RateDen \in Int
    <2>1. (-RateMax) * d <= rate * d
      BY <1>0, MultiplesGrow
    <2>2. (4 * RateMax) * d <= RateDen * d
      BY <1>0, MultiplesGrow
    <2> DEFINE u == (-RateMax) * d
               v == (4 * RateMax) * d
               w == d * RateDen
    <2>3. rate * d = e /\ u \in Int /\ v = -(4 * u) /\ RateDen * d = w /\ w \in Int
      BY <1>0
    <2>4. u <= e /\ v <= w
      BY <2>1, <2>2, <2>3
    <2> HIDE DEF u, v, w, e
    <2>5. 4 * e >= -w
      BY <1>1, <2>3, <2>4
    <2> QED
      BY <2>3, <2>5 DEF w
  <1>4. q \in Int /\ q * RateDen < p + RateDen
    BY <1>0, <1>1, TruncDivIs
  <1>5. r \in Int /\ p + e - RateDen < r * RateDen
    <2>1. p + e \in Int
      BY <1>1
    <2> QED
      BY <1>0, <2>1, TruncDivIs
  <1> HIDE DEF p, e, q, r
  <1>6. (-(d + 8)) * RateDen < (4 * (r - q)) * RateDen
    <2>1. (-(d + 8)) * RateDen = -(d * RateDen) - 8 * RateDen
      BY <1>0
    <2>2. (4 * (r - q)) * RateDen = 4 * (r * RateDen) - 4 * (q * RateDen)
      BY <1>0, <1>4, <1>5
    <2>3. r * RateDen \in Int /\ q * RateDen \in Int
      BY <1>0, <1>4, <1>5
    <2> QED
      BY <1>0, <1>1, <1>3, <1>4, <1>5, <2>1, <2>2, <2>3
  <1>7. -(d + 8) < 4 * (r - q)
    <2>1. -(d + 8) \in Int /\ 4 * (r - q) \in Int
      BY <1>4, <1>5
    <2> QED
      BY <1>0, <1>6, <2>1, Cancels
  <1> QED
    BY <1>2, <1>4, <1>5, <1>7

\* Whatever the guess, the two loops end at the least that serves.
LEMMA FirstFromIs ==
  ASSUME NEW guess \in Nat, NEW short \in Nat, NEW serving, serving \subseteq Nat,
         \A n \in serving : \A m \in Nat : n <= m => m \in serving,
         NEW reached \in serving, reached <= guess + short
  PROVE  LET k == FirstFrom(guess, short, serving)
         IN k \in serving /\ \A n \in serving : k <= n
  <1> DEFINE downs == {r \in 0..guess : r..(guess - 1) \subseteq serving}
             low == Min(downs)
             ups == {r \in low..(guess + short) : r \in serving}
             k == Min(ups)
  <1>1. low \in downs /\ \A r \in downs : low <= r
    <2>1. downs \subseteq Int /\ \A r \in downs : 0 <= r
      OBVIOUS
    <2>2. guess \in downs
      OBVIOUS
    <2> HIDE DEF downs
    <2>3. downs # {} /\ 0 \in Int
      BY <2>2
    <2> QED
      BY <2>1, <2>3, MinIs
  <1>2. low \in 0..guess /\ low..(guess - 1) \subseteq serving
    BY <1>1
  <1>3. FirstFrom(guess, short, serving) = k
    BY DEF FirstFrom
  <1>4. \A n \in serving : low <= n
    <2> SUFFICES ASSUME NEW n \in serving, n < low PROVE FALSE
      BY <1>2
    <2>1. n \in 0..guess
      BY <1>2
    <2>2. n..(guess - 1) \subseteq serving
      OBVIOUS
    <2>3. n \in downs
      BY <2>1, <2>2
    <2> HIDE DEF low, downs
    <2> QED
      BY <1>1, <1>2, <2>1, <2>3
  <1> HIDE DEF low, downs
  <1>5. reached \in ups
    BY <1>2, <1>4
  <1>6. ups \subseteq Int /\ ups # {} /\ \A r \in ups : low <= r
    BY <1>2, <1>5
  <1>7. k \in ups /\ \A r \in ups : k <= r
    <2> HIDE DEF ups
    <2>1. low \in Int
      BY <1>2
    <2> QED
      BY <1>6, <2>1, MinIs
  <1>8. ASSUME NEW n \in serving PROVE k <= n
    <2> HIDE DEF k
    <2>1. CASE n <= guess + short
      <3>1. n \in ups
        BY <1>2, <1>4, <2>1
      <3> QED
        BY <1>7, <3>1
    <2>2. CASE n > guess + short
      BY <1>7, <1>2, <2>2
    <2> QED
      BY <2>1, <2>2
  <1> QED
    BY <1>3, <1>7, <1>8

\* A grid the searches may be asked with.
SomeGrid == Grids(-RateMax..RateMax)

Mark(g, stride, offset, n) == T0ForHubInstant(g, n * stride + offset)

\* A mark later by so many strides is later by at least as many instants.
LEMMA MarksGrow ==
  ASSUME NEW g \in SomeGrid, NEW stride \in Nat, stride >= 4, NEW offset \in Nat,
         NEW m \in Nat, NEW n \in Nat, m <= n
  PROVE  /\ Mark(g, stride, offset, m) \in Int /\ Mark(g, stride, offset, n) \in Int
         /\ Mark(g, stride, offset, m) + (n - m) <= Mark(g, stride, offset, n)
         /\ 4 * (Mark(g, stride, offset, n) - Mark(g, stride, offset, m)) > 3 * ((n - m) * stride) - 8
  <1> DEFINE s == m * stride + offset
             d == (n - m) * stride
             p == Stretch(g.rate, s)
             q == Stretch(g.rate, s + d)
  <1>1. s \in Nat /\ d \in Nat /\ n * stride + offset = s + d
    OBVIOUS
  <1>2. g.rate \in -RateMax..RateMax /\ g.anchor \in Int
    BY DEF SomeGrid, Grids
  <1>3. p \in Int /\ q \in Int /\ 4 * (q - p) > 3 * d - 8
    <2> HIDE DEF s, d
    <2> QED
      BY <1>1, <1>2, StretchGrows
  <1>4. Mark(g, stride, offset, m) = g.anchor + p /\ Mark(g, stride, offset, n) = g.anchor + q
    BY <1>1 DEF Mark, T0ForHubInstant
  <1>5. d >= 4 * (n - m) /\ (n = m => d = 0)
    <2>1. 4 * (n - m) <= stride * (n - m)
      BY MultiplesGrow
    <2>2. stride * (n - m) = d
      OBVIOUS
    <2> QED
      BY <2>1, <2>2
  <1>6. n = m => q = p
    BY <1>1, <1>5
  <1> HIDE DEF d, p, q, s
  <1>7. n - m <= q - p
    BY <1>1, <1>3, <1>5, <1>6
  <1>8. d = (n - m) * stride
    BY DEF d
  <1> QED
    BY <1>2, <1>3, <1>4, <1>7, <1>8

LEMMA GuessIs ==
  ASSUME NEW g \in SomeGrid, NEW x \in Int, NEW stride \in Nat \ {0}
  PROVE  /\ AtLeast0(TruncDiv(Unstretch(g.rate, x) + stride - 1, stride)) \in Nat
         /\ AtLeast0(TruncDiv(Unstretch(g.rate, x), stride)) \in Nat
  <1>0. RateDen \in Nat \ {0} /\ g.rate \in Int
    BY GridAssumption DEF SomeGrid, Grids
  <1>1. Unstretch(g.rate, x) \in Int
    <2> DEFINE y == x * g.rate
    <2>1. y \in Int
      BY <1>0
    <2>2. Unstretch(g.rate, x) = x - TruncDiv(y, RateDen)
      BY DEF Unstretch
    <2> HIDE DEF y
    <2> QED
      BY <1>0, <2>1, <2>2, TruncDivIs
  <1> DEFINE u == Unstretch(g.rate, x)
             v == u + stride - 1
  <1>2. v \in Int
    BY <1>1
  <1> HIDE DEF u, v
  <1>3. TruncDiv(u, stride) \in Int /\ TruncDiv(v, stride) \in Int
    BY <1>1, <1>2, TruncDivIs DEF u
  <1> QED
    BY <1>3 DEF AtLeast0, u, v

\* The first mark at or after an instant.
LEMMA FirstMarkIs ==
  ASSUME NEW g \in SomeGrid, NEW stride \in Nat, stride >= 4, NEW offset \in Nat, NEW from \in Int
  PROVE  LET k == FirstMark(g, stride, offset, from)
         IN /\ k \in Nat /\ Mark(g, stride, offset, k) >= from
            /\ \A n \in Nat : Mark(g, stride, offset, n) >= from => k <= n
  <1> DEFINE M(n) == Mark(g, stride, offset, n)
             guess == AtLeast0(TruncDiv(Unstretch(g.rate, from - M(0)) + stride - 1, stride))
             short == AtLeast0(from - M(guess))
             serving == {n \in Nat : M(n) >= from}
  <1>1. FirstMark(g, stride, offset, from)
          = IF from <= M(0) THEN 0 ELSE FirstFrom(guess, short, serving)
    BY DEF FirstMark, Mark
  <1>2. \A n \in Nat : M(n) \in Int
    BY MarksGrow
  <1>3. guess \in Nat
    <2>1. from - M(0) \in Int
      BY <1>2
    <2> HIDE DEF M
    <2> QED
      BY <2>1, GuessIs
  <1> HIDE DEF guess
  <1>4. short \in Nat /\ M(guess) + short >= from
    BY <1>2, <1>3 DEF AtLeast0
  <1>5. guess + short \in serving
    <2>1. M(guess) + short <= M(guess + short)
      <3> HIDE DEF short
      <3> DEFINE there == guess + short
      <3>1. there \in Nat /\ guess <= there /\ there - guess = short
        BY <1>3, <1>4
      <3> HIDE DEF there
      <3>2. M(guess) + (there - guess) <= M(there)
        BY <1>3, <3>1, MarksGrow
      <3> QED
        BY <3>1, <3>2 DEF there
    <2> HIDE DEF M, short
    <2> QED
      BY <1>2, <1>3, <1>4, <2>1
  <1>6. \A n \in serving : \A m \in Nat : n <= m => m \in serving
    <2> SUFFICES ASSUME NEW n \in serving, NEW m \in Nat, n <= m PROVE m \in serving
      OBVIOUS
    <2>1. n \in Nat /\ M(n) >= from
      OBVIOUS
    <2>2. M(n) + (m - n) <= M(m)
      BY <2>1, MarksGrow
    <2> HIDE DEF M
    <2> QED
      BY <1>2, <2>1, <2>2
  <1>7. serving \subseteq Nat
    OBVIOUS
  <1>8. CASE from <= M(0)
    BY <1>1, <1>8
  <1>9. CASE ~(from <= M(0))
    <2> DEFINE k == FirstFrom(guess, short, serving)
    <2>1. k \in serving /\ \A n \in serving : k <= n
      <3> HIDE DEF serving, short
      <3>1. guess + short <= guess + short
        BY <1>3, <1>4
      <3> QED
        BY <1>3, <1>4, <1>5, <1>6, <1>7, <3>1, FirstFromIs
    <2>2. FirstMark(g, stride, offset, from) = k
      BY <1>1, <1>9
    <2> HIDE DEF k, short
    <2> QED
      BY <2>1, <2>2
  <1> QED
    BY <1>8, <1>9

\* Three quarters of a span are a lower bound of the mark it leads to: the first mark at or after
\* an instant is one of so many.
LEMMA FirstMarkIsNear ==
  ASSUME NEW g \in SomeGrid, NEW stride \in Nat, stride >= 4, NEW offset \in Nat, NEW from \in Int,
         NEW q \in Nat, 3 * (q * stride) >= 4 * (from - g.anchor) + 12
  PROVE  Mark(g, stride, offset, q) >= from
  <1> DEFINE s == Stretch(g.rate, offset)
             m == Mark(g, stride, offset, 0)
             n == Mark(g, stride, offset, q)
             d == q * stride
  <1>1. m \in Int /\ n \in Int /\ 4 * (n - m) > 3 * d - 8
    <2>1. 0 \in Nat /\ 0 <= q
      OBVIOUS
    <2>2. m \in Int /\ n \in Int
      BY <2>1, MarksGrow
    <2>3. 4 * (n - m) > 3 * ((q - 0) * stride) - 8
      BY <2>1, MarksGrow
    <2>4. (q - 0) * stride = d
      OBVIOUS
    <2> HIDE DEF m, n
    <2> QED
      BY <2>2, <2>3, <2>4
  <1>2. g.anchor \in Int /\ g.rate \in -RateMax..RateMax
    BY DEF SomeGrid, Grids
  <1>3. s \in Int /\ s >= -1
    <2> DEFINE z == Stretch(g.rate, 0)
               f == Stretch(g.rate, 0 + offset)
    <2>1. f \in Int /\ z \in Int /\ 4 * (f - z) > 3 * offset - 8
      BY <1>2, StretchGrows
    <2>2. z = 0
      <3>1. 0 * g.rate = 0
        BY <1>2, GridAssumption
      <3>2. TruncDiv(0, RateDen) = 0
        BY GridAssumption DEF TruncDiv
      <3> QED
        BY <3>1, <3>2 DEF Stretch
    <2>3. f = s
      OBVIOUS
    <2> HIDE DEF z, f, s
    <2> QED
      BY <2>1, <2>2, <2>3
  <1>4. m = g.anchor + s
    <2>1. 0 * stride + offset = offset
      OBVIOUS
    <2> QED
      BY <2>1 DEF Mark, T0ForHubInstant
  <1>5. d \in Nat /\ 3 * d >= 4 * (from - g.anchor) + 12
    OBVIOUS
  <1> HIDE DEF s, m, n, d
  <1>6. n >= from
    BY <1>1, <1>2, <1>3, <1>4, <1>5
  <1> QED
    BY <1>6 DEF n

\* The round that contains an instant.
LEMMA RoundForT0Is ==
  ASSUME NEW g \in SomeGrid, NEW t \in Int, T0ForRound(g, 0) <= t
  PROVE  LET k == RoundForT0(g, t)
         IN k \in Nat /\ T0ForRound(g, k) <= t /\ t < T0ForRound(g, k + 1)
  <1> DEFINE offset == g.slot * Pitch
             M(n) == T0ForRound(g, n)
             guess == AtLeast0(TruncDiv(Unstretch(g.rate, t - M(0)), Round))
             short == AtLeast0(t - M(guess))
             serving == {r \in Nat : M(r + 1) > t}
             k == FirstFrom(guess, short, serving)
  <1>0. Round \in Nat /\ Round >= 4 /\ offset \in Nat
    <2>1. Round \in Nat
      BY GridAssumption DEF Round
    <2>2. g.slot \in Nat /\ Pitch \in Nat
      BY GridAssumption DEF SomeGrid, Grids
    <2> QED
      BY <2>1, <2>2, RateAssumption
  <1>1. \A n \in Nat : M(n) = Mark(g, Round, offset, n)
    BY DEF T0ForRound, Mark, HubInstant
  <1> HIDE DEF offset
  <1>2. \A m, n \in Nat : m <= n => M(m) \in Int /\ M(n) \in Int /\ M(m) + (n - m) <= M(n)
    <2> HIDE DEF M
    <2> SUFFICES ASSUME NEW m \in Nat, NEW n \in Nat, m <= n
                 PROVE  M(m) \in Int /\ M(n) \in Int /\ M(m) + (n - m) <= M(n)
      OBVIOUS
    <2>1. /\ Mark(g, Round, offset, m) \in Int /\ Mark(g, Round, offset, n) \in Int
          /\ Mark(g, Round, offset, m) + (n - m) <= Mark(g, Round, offset, n)
      BY <1>0, MarksGrow
    <2> QED
      BY <1>1, <2>1
  <1>3. RoundForT0(g, t) = k
    <2>1. ~(t < M(0))
      BY <1>2
    <2> QED
      BY <2>1 DEF RoundForT0
  <1> HIDE DEF M
  <1>4. M(0) \in Int /\ M(0) <= t
    BY <1>2 DEF M
  <1>5. guess \in Nat
    <2> DEFINE x == t - M(0)
    <2>1. x \in Int
      BY <1>4
    <2>2. guess = AtLeast0(TruncDiv(Unstretch(g.rate, x), Round))
      OBVIOUS
    <2> HIDE DEF x, guess
    <2> QED
      BY <1>0, <2>1, <2>2, GuessIs
  <1> HIDE DEF guess
  <1>6. short \in Nat /\ M(guess) + short >= t
    BY <1>2, <1>5 DEF AtLeast0
  <1> DEFINE there == guess + short
  <1> HIDE DEF short
  <1>7. there \in serving
    <2> DEFINE n == there + 1
    <2>1. there \in Nat /\ n \in Nat /\ guess <= n /\ n - guess = short + 1
      BY <1>5, <1>6
    <2> HIDE DEF n
    <2>2. M(guess) \in Int /\ M(n) \in Int /\ M(guess) + (n - guess) <= M(n)
      BY <1>2, <1>5, <2>1
    <2>3. M(n) > t
      BY <1>4, <1>6, <2>1, <2>2
    <2> HIDE DEF there
    <2> QED
      BY <2>1, <2>3 DEF n
  <1>8. \A n \in serving : \A m \in Nat : n <= m => m \in serving
    <2> SUFFICES ASSUME NEW n \in serving, NEW m \in Nat, n <= m PROVE m \in serving
      OBVIOUS
    <2> DEFINE n1 == n + 1
               m1 == m + 1
    <2>1. n1 \in Nat /\ m1 \in Nat /\ n1 <= m1 /\ M(n1) > t
      OBVIOUS
    <2> HIDE DEF n1, m1
    <2>2. M(n1) \in Int /\ M(m1) \in Int /\ M(n1) + (m1 - n1) <= M(m1)
      BY <1>2, <2>1
    <2>3. M(m1) > t
      BY <2>1, <2>2
    <2> QED
      BY <2>3 DEF m1
  <1>9. k \in serving /\ \A n \in serving : k <= n
    <2>1. serving \subseteq Nat /\ there <= guess + short
      BY <1>5, <1>6
    <2> HIDE DEF serving, there
    <2> QED
      BY <1>5, <1>6, <1>7, <1>8, <2>1, FirstFromIs
  <1> HIDE DEF k
  <1>10. k \in Nat /\ M(k + 1) > t
    BY <1>9
  <1>11. M(k) <= t
    <2>1. CASE k = 0
      BY <1>4, <2>1
    <2>2. CASE k # 0
      <3> DEFINE j == k - 1
      <3>1. j \in Nat /\ j + 1 = k /\ ~(k <= j)
        BY <1>10, <2>2
      <3>2. j \notin serving
        <4> HIDE DEF serving, j
        <4> QED
          BY <1>9, <3>1
      <3> HIDE DEF j
      <3>3. ~(M(j + 1) > t)
        BY <3>1, <3>2
      <3> QED
        BY <1>2, <1>10, <3>1, <3>3
    <2> QED
      BY <2>1, <2>2
  <1> QED
    BY <1>3, <1>10, <1>11 DEF M

-----------------------------------------------------------------------------
(* The machine keeps the types the searches need. *)

LEMMA RoundIs == Round \in Nat /\ Round >= 4 /\ Pitch \in Nat
  <1>1. Round \in Nat
    BY GridAssumption DEF Round
  <1> QED
    BY <1>1, GridAssumption, RateAssumption

LEMMA StretchTyped ==
  ASSUME NEW rate \in Int, NEW span \in Int
  PROVE  Stretch(rate, span) \in Int
  <1> DEFINE y == span * rate
  <1>1. y \in Int
    OBVIOUS
  <1>2. Stretch(rate, span) = span + TruncDiv(y, RateDen)
    BY DEF Stretch
  <1> HIDE DEF y
  <1> QED
    BY <1>1, <1>2, TruncDivIs, GridAssumption

LEMMA HubInstantTyped ==
  ASSUME NEW r \in Int, NEW offset \in Int
  PROVE  HubInstant(r, offset) \in Int
  <1>1. r * Round \in Int
    BY RoundIs
  <1> QED
    BY <1>1 DEF HubInstant

LEMMA InstantTyped ==
  ASSUME NEW g \in Grids(Int), NEW at \in Int, NEW r \in Int
  PROVE  T0ForHubInstant(g, at) \in Int /\ BeaconT0ForRound(g, r) \in Int
  <1>1. g.anchor \in Int /\ g.rate \in Int /\ g.beaconSlot \in Int
    BY NodeAssumption DEF Grids
  <1>2. g.beaconSlot * Pitch \in Int
    BY <1>1, RoundIs
  <1> DEFINE o == g.beaconSlot * Pitch
             h == HubInstant(r, o)
  <1>3. h \in Int
    <2> HIDE DEF o
    <2> QED
      BY <1>2, HubInstantTyped DEF o
  <1>4. BeaconT0ForRound(g, r) = T0ForHubInstant(g, h)
    BY DEF BeaconT0ForRound
  <1> HIDE DEF h
  <1>5. \A x \in Int : T0ForHubInstant(g, x) \in Int
    <2> SUFFICES ASSUME NEW x \in Int PROVE g.anchor + Stretch(g.rate, x) \in Int
      BY DEF T0ForHubInstant
    <2>1. Stretch(g.rate, x) \in Int
      BY <1>1, StretchTyped
    <2> QED
      BY <1>1, <2>1
  <1> QED
    BY <1>3, <1>4, <1>5

LEMMA AnchorTyped ==
  ASSUME NEW t0 \in Int, NEW instant \in Int, NEW rate \in Int
  PROVE  SolveAnchor(t0, instant, rate) \in Int
  BY StretchTyped DEF SolveAnchor

LEMMA GridsAre == SomeGrid \subseteq Grids(Int)
  BY GridAssumption DEF SomeGrid, Grids

\* The searches return marks of their grid.
LEMMA SearchesAre ==
  ASSUME NEW g \in SomeGrid, NEW t \in Int
  PROVE  NextT0(g, t) \in Int /\ NextBeaconT0(g, t) \in Int
  <1>1. g \in Grids(Int) /\ g.slot \in Nat /\ g.every = Every /\ g.beaconSlot \in Nat
    BY GridsAre, NodeAssumption DEF SomeGrid, Grids
  <1> DEFINE offset == g.slot * Pitch
             beacon == g.beaconSlot * Pitch
             stride == Round * Every
             k == FirstMark(g, Round, offset, t)
             n == FirstMark(g, stride, beacon, t)
  <1>2. offset \in Nat /\ beacon \in Nat /\ stride \in Nat /\ stride >= 4 /\ Every \in Nat \ {0}
    <2>1. Every \in Nat \ {0}
      BY NodeAssumption
    <2>2. Round * 1 <= Round * Every
      BY <2>1, RoundIs
    <2> QED
      BY <1>1, <2>1, <2>2, RoundIs
  <1> HIDE DEF offset, beacon, stride
  <1>3. k \in Nat
    BY <1>2, FirstMarkIs, RoundIs
  <1>4. n \in Nat
    BY <1>2, FirstMarkIs
  <1>5. NextT0(g, t) = T0ForHubInstant(g, HubInstant(k, offset))
    BY DEF NextT0, T0ForRound, offset
  <1>6. NextBeaconT0(g, t) = BeaconT0ForRound(g, n * Every)
    BY <1>1, <1>2 DEF NextBeaconT0, beacon, stride
  <1> HIDE DEF k, n
  <1>7. n * Every \in Int
    BY <1>2, <1>4
  <1>8. HubInstant(k, offset) \in Int
    BY <1>2, <1>3, HubInstantTyped
  <1> QED
    BY <1>1, <1>5, <1>6, <1>7, <1>8, InstantTyped

LEMMA ArmTyped ==
  ASSUME NEW g \in SomeGrid, NEW t \in Int, NEW last \in Int, NEW skip
  PROVE  NextWindowArm(g, t, Lead, skip, last) \in [t0 : Int, kind : {"None", "Own", "Beacon"}, at : Int]
  <1> DEFINE from == NextWindowSearchFrom(t, last)
             w == NextWindow(g, from, skip)
             at == ArmInstant(w.t0) - Lead
  <1>1. from \in Int
    <2>1. Pitch \div 2 \in Int
      BY RoundIs
    <2> QED
      BY <2>1 DEF NextWindowSearchFrom
  <1> HIDE DEF from
  <1>2. w.t0 \in Int /\ w.kind \in {"None", "Own", "Beacon"}
    BY <1>1, SearchesAre DEF NextWindow
  <1>3. NextWindowArm(g, t, Lead, skip, last)
          = [t0 |-> w.t0, kind |-> w.kind, at |-> IF at <= t THEN t + 1 ELSE at]
    BY DEF NextWindowArm, from
  <1> HIDE DEF w
  <1>4. at \in Int
    BY <1>2, GridAssumption, NodeAssumption DEF ArmInstant
  <1> HIDE DEF at
  <1> QED
    BY <1>2, <1>3, <1>4

LEMMA ClocksTypedInit == NodeInit => ClocksTyped
  <1> SUFFICES ASSUME NodeInit PROVE ClocksTyped
    OBVIOUS
  <1>1. PICK d \in Drifts, s \in Slots, r \in SyncRounds :
          LET at == HubInstant(r, s * Pitch)
              g == [anchor |-> SolveAnchor(SyncT0, at, 0), rate |-> 0, slot |-> s,
                    beaconSlot |-> BeaconSlot, every |-> Every, ulOffset |-> UlOffset]
          IN /\ held = g
             /\ truth = [g EXCEPT !.anchor = SolveAnchor(SyncT0, at, d), !.rate = d]
             /\ since = at /\ timer = NoTimer /\ opened = 0 /\ aired = r - 1 /\ now = SyncT0
    BY DEF NodeInit
  <1> DEFINE at == HubInstant(r, s * Pitch)
  <1>2. d \in Int /\ s \in Nat /\ r \in Nat
    BY NodeAssumption, GridAssumption
  <1>3. at \in Int
    <2>1. s * Pitch \in Int
      BY <1>2, RoundIs
    <2> QED
      BY <1>2, <2>1, HubInstantTyped
  <1>4. /\ held = [anchor |-> SolveAnchor(SyncT0, at, 0), rate |-> 0, slot |-> s,
                   beaconSlot |-> BeaconSlot, every |-> Every, ulOffset |-> UlOffset]
        /\ truth = [anchor |-> SolveAnchor(SyncT0, at, d), rate |-> d, slot |-> s,
                    beaconSlot |-> BeaconSlot, every |-> Every, ulOffset |-> UlOffset]
        /\ since = at /\ timer = NoTimer /\ opened = 0 /\ aired = r - 1 /\ now = SyncT0
    BY <1>1
  <1> HIDE DEF at
  <1>5. SolveAnchor(SyncT0, at, 0) \in Int /\ SolveAnchor(SyncT0, at, d) \in Int /\ SyncT0 \in Int
    <2>1. 0 \in Int /\ SyncT0 \in Int
      BY RoundIs DEF SyncT0
    <2> QED
      BY <1>2, <1>3, <2>1, AnchorTyped
  <1>6. 0 \in -RateMax..RateMax
    BY GridAssumption
  <1>7. held \in Grids(-RateMax..RateMax) /\ truth \in Grids(Int)
    BY <1>2, <1>4, <1>5, <1>6 DEF Grids
  <1>8. timer \in [t0 : Int, kind : {"None", "Own", "Beacon"}, at : Int]
    BY <1>4 DEF NoTimer
  <1> QED
    BY <1>2, <1>3, <1>4, <1>5, <1>7, <1>8 DEF ClocksTyped

LEMMA AdoptTyped ==
  ASSUME ClocksTyped, NEW r \in Int, NEW bits, Adopt(r, bits)
  PROVE  /\ held' \in Grids(-RateMax..RateMax) /\ since' \in Int
         /\ timer' \in [t0 : Int, kind : {"None", "Own", "Beacon"}, at : Int]
  <1> DEFINE err == now - BeaconT0ForRound(held, r)
             at == HubInstant(r, BeaconSlot * Pitch)
             residual == ResidualRate(err, at - since)
             rate == ClampRate(held.rate + residual)
  <1>1. CASE BeaconErrLearnable(err)
    <2>1. /\ held' = [held EXCEPT !.anchor = SolveAnchor(now, at, rate), !.rate = rate]
          /\ since' = at /\ timer' = NoTimer
      BY <1>1 DEF Adopt
    <2>2. held \in SomeGrid /\ held.rate \in Int /\ now \in Int /\ since \in Int
      BY GridAssumption DEF ClocksTyped, SomeGrid, Grids
    <2>3. err \in Int
      BY <2>2, GridsAre, InstantTyped
    <2>4. at \in Int
      <3>1. BeaconSlot * Pitch \in Int
        BY NodeAssumption, RoundIs
      <3> QED
        BY <3>1, HubInstantTyped
    <2> DEFINE span == at - since
    <2>5. span \in Int
      BY <2>2, <2>4
    <2> HIDE DEF err, at, span
    <2>6. ResidualRate(err, span) \in Int
      <3> DEFINE y == err * RateDen
      <3>1. y \in Int
        BY <2>3, GridAssumption
      <3>2. ResidualRate(err, span) = IF span < MinSpan THEN 0 ELSE TruncDiv(y, span)
        BY DEF ResidualRate
      <3>3. span >= MinSpan => span \in Nat \ {0}
        BY <2>5, GridAssumption
      <3> HIDE DEF y
      <3> QED
        BY <2>5, <3>1, <3>2, <3>3, TruncDivIs, GridAssumption
    <2>7. residual \in Int
      BY <2>6 DEF span
    <2> HIDE DEF residual
    <2>8. rate \in -RateMax..RateMax /\ rate \in Int
      BY <2>2, <2>7, GridAssumption DEF ClampRate
    <2> HIDE DEF rate
    <2>9. SolveAnchor(now, at, rate) \in Int
      BY <2>2, <2>4, <2>8, AnchorTyped
    <2>10. held' \in Grids(-RateMax..RateMax)
      BY <2>1, <2>2, <2>8, <2>9 DEF SomeGrid, Grids
    <2> QED
      BY <2>1, <2>4, <2>10 DEF NoTimer
  <1>2. CASE ~BeaconErrLearnable(err)
    BY <1>2 DEF Adopt, ClocksTyped
  <1> QED
    BY <1>1, <1>2

LEMMA TickTyped ==
  ASSUME ClocksTyped, NodeTick
  PROVE  now' \in Int
  <1>1. CASE windowed /\ timer = NoTimer
    BY <1>1 DEF NodeTick, ClocksTyped
  <1>2. CASE ~(windowed /\ timer = NoTimer)
    <2> DEFINE beacons == {BeaconT0ForRound(truth, r) : r \in {q \in BeaconRounds : q % Every = 0}}
               others == IF windowed THEN {timer.at}
                         ELSE {T0ForHubInstant(truth, at) : at \in CopyInstants}
               ahead == {MaxNow} \union {t \in beacons \union others : t > now}
    <2>1. now' = Min(ahead) /\ now < MaxNow
      BY <1>2 DEF NodeTick
    <2>2. truth \in Grids(Int) /\ now \in Int /\ timer.at \in Int /\ aired \in Int /\ MaxNow \in Int
      BY NodeAssumption DEF ClocksTyped
    <2>3. BeaconRounds \subseteq Int
      BY <2>2, NodeAssumption DEF BeaconRounds
    <2>4. beacons \subseteq Int
      BY <2>2, <2>3, InstantTyped
    <2>5. CopyInstants \subseteq Int
      <3>1. CopyOffsets \subseteq Int
        BY NodeAssumption
      <3> QED
        BY <3>1, HubInstantTyped DEF CopyInstants
    <2>6. others \subseteq Int
      BY <2>2, <2>5, InstantTyped
    <2> HIDE DEF beacons, others
    <2> DEFINE some == beacons \union others
    <2>7. some \subseteq Int
      BY <2>4, <2>6
    <2> HIDE DEF some
    <2>9. ahead = {MaxNow} \union {t \in some : t > now}
      BY DEF some
    <2>10. ahead \subseteq Int /\ ahead # {}
      <3> HIDE DEF ahead
      <3> QED
        BY <2>2, <2>7, <2>9
    <2>11. \A t \in ahead : now <= t
      <3> HIDE DEF ahead
      <3> SUFFICES ASSUME NEW t \in ahead PROVE now <= t
        OBVIOUS
      <3>1. t = MaxNow \/ (t \in some /\ t > now)
        BY <2>9
      <3>2. now < MaxNow /\ now \in Int /\ MaxNow \in Int
        BY <2>1, <2>2
      <3>3. CASE t = MaxNow
        BY <3>2, <3>3
      <3>4. CASE t \in some /\ t > now
        BY <2>7, <3>2, <3>4
      <3> QED
        BY <3>1, <3>3, <3>4
    <2> HIDE DEF ahead
    <2>8. Min(ahead) \in ahead
      BY <2>2, <2>10, <2>11, MinIs
    <2> QED
      BY <2>1, <2>10, <2>8
  <1> QED
    BY <1>1, <1>2

LEMMA ClocksTypedNext == ClocksTyped /\ [NodeNext]_nodeVars => ClocksTyped'
  <1> SUFFICES ASSUME ClocksTyped, [NodeNext]_nodeVars PROVE ClocksTyped'
    OBVIOUS
  <1>1. CASE Arm
    <2>1. timer' \in [t0 : Int, kind : {"None", "Own", "Beacon"}, at : Int]
      <3>1. held \in SomeGrid /\ now \in Int /\ opened \in Int
        BY DEF ClocksTyped, SomeGrid
      <3>2. timer' = NextWindowArm(held, now, Lead, SkipOwn, opened)
        BY <1>1 DEF Arm
      <3> QED
        BY <3>1, <3>2, ArmTyped
    <2> QED
      BY <1>1, <2>1 DEF Arm, ClocksTyped, clock, hubSide
  <1>2. CASE Open
    BY <1>2 DEF Open, ClocksTyped, clock, NoTimer
  <1>3. CASE HearCopy
    BY <1>3 DEF HearCopy, ClocksTyped, clock, hubSide
  <1>4. CASE HubBeacon
    <2>1. PICK r \in BeaconRounds, heard \in BOOLEAN, neighbour \in BOOLEAN :
            /\ aired' = r
            /\ IF heard THEN Adopt(r, MaskBits(neighbour))
               ELSE UNCHANGED <<held, since, learned, mask, promised, timer, quality, ownRound>>
            /\ UNCHANGED <<now, truth, opened, kind, work>>
      BY <1>4 DEF HubBeacon
    <2>2. r \in Int
      BY NodeAssumption DEF ClocksTyped, BeaconRounds
    <2>3. /\ held' \in Grids(-RateMax..RateMax) /\ since' \in Int
          /\ timer' \in [t0 : Int, kind : {"None", "Own", "Beacon"}, at : Int]
      BY <2>1, <2>2, AdoptTyped DEF ClocksTyped
    <2> QED
      BY <2>1, <2>2, <2>3 DEF ClocksTyped
  <1>5. CASE Work
    BY <1>5 DEF Work, ClocksTyped, clock, window
  <1>6. CASE NodeTick
    <2>1. now' \in Int
      BY <1>6, TickTyped
    <2> QED
      BY <1>6, <2>1 DEF NodeTick, ClocksTyped, clock, window, hubSide
  <1>7. CASE UNCHANGED nodeVars
    BY <1>7 DEF nodeVars, ClocksTyped, clock, window, hubSide
  <1> QED
    BY <1>1, <1>2, <1>3, <1>4, <1>5, <1>6, <1>7 DEF NodeNext

\* Instants stay whole and the learned rate stays within its clamp, whatever beacons are lost,
\* heard or refused, whatever their errors: what the searches are called with.
THEOREM ClocksTypedHolds == NodeSpec => []ClocksTyped
  BY ClocksTypedInit, ClocksTypedNext, PTL DEF NodeSpec

-----------------------------------------------------------------------------
(* The searches are exact. *)

LEMMA LeastIs ==
  ASSUME NEW S \in SUBSET Int, NEW t \in Int, NEW x \in S, x >= t, \A y \in S : y >= t => x <= y
  PROVE  Least(S, t) = x
  <1> DEFINE L(z) == z >= t /\ \A y \in S : y >= t => z <= y
  <1>1. L(x)
    OBVIOUS
  <1>2. \A z \in S : L(z) => z = x
    OBVIOUS
  <1>3. Least(S, t) = CHOOSE z \in S : L(z)
    BY DEF Least
  <1> HIDE DEF L
  <1> QED
    BY <1>1, <1>2, <1>3

\* The marks of those numbers, less so much.
Marks(g, stride, offset, N, less) == {Mark(g, stride, offset, n) - less : n \in N}

\* The least mark at or after an instant, of any set of marks that holds the one found.
LEMMA FirstOfMarks ==
  ASSUME NEW g \in SomeGrid, NEW stride \in Nat, stride >= 4, NEW offset \in Nat, NEW from \in Int,
         NEW N \in SUBSET Nat, FirstMark(g, stride, offset, from) \in N, NEW less \in Nat
  PROVE  Least(Marks(g, stride, offset, N, less), from - less)
           = Mark(g, stride, offset, FirstMark(g, stride, offset, from)) - less
  <1> DEFINE M(n) == Mark(g, stride, offset, n)
             k == FirstMark(g, stride, offset, from)
             S == {M(n) - less : n \in N}
  <1>1. k \in N /\ k \in Nat /\ M(k) >= from /\ \A n \in Nat : M(n) >= from => k <= n
    BY FirstMarkIs
  <1>2. \A n \in Nat : M(n) \in Int
    BY MarksGrow
  <1>3. \A n \in Nat : k <= n => M(k) <= M(n)
    <2> SUFFICES ASSUME NEW n \in Nat, k <= n PROVE M(k) <= M(n)
      OBVIOUS
    <2> HIDE DEF k
    <2>1. M(k) + (n - k) <= M(n)
      BY <1>1, MarksGrow
    <2> HIDE DEF M
    <2> QED
      BY <1>1, <1>2, <2>1
  <1> HIDE DEF M, k
  <1>4. S \subseteq Int /\ M(k) - less \in S /\ from - less \in Int
    BY <1>1, <1>2
  <1>5. \A y \in S : y >= from - less => M(k) - less <= y
    <2> SUFFICES ASSUME NEW n \in N, M(n) - less >= from - less PROVE M(k) - less <= M(n) - less
      OBVIOUS
    <2>1. n \in Nat /\ M(n) >= from
      BY <1>2
    <2> QED
      BY <1>1, <1>2, <1>3, <2>1
  <1>6. M(k) - less >= from - less
    BY <1>1, <1>2
  <1> DEFINE x == M(k) - less
             t == from - less
  <1>7. S \subseteq Int /\ x \in S /\ t \in Int /\ x >= t
    BY <1>4, <1>6
  <1>8. \A y \in S : y >= t => x <= y
    BY <1>5
  <1>9. Least(S, t) = x
    <2> HIDE DEF S, x, t
    <2> QED
      BY <1>7, <1>8, LeastIs
  <1> QED
    BY <1>9 DEF M, k, Marks

\* So many rounds past the anchor are enough for any instant at that distance.
Enough(distance) == (3 * distance) \div (2 * Round) + 2

LEMMA EnoughIs ==
  ASSUME NEW distance \in Nat
  PROVE  Enough(distance) \in Nat /\ 3 * (Enough(distance) * Round) >= 4 * distance + 12
  <1> DEFINE x == 3 * distance
             d == 2 * Round
             q == x \div d
  <1>1. x \in Nat /\ d \in Nat \ {0} /\ d >= 8
    BY RoundIs
  <1>2. q \in Nat /\ x < q * d + d
    <2> HIDE DEF x, d
    <2> QED
      BY <1>1
  <1> HIDE DEF q
  <1>3. Enough(distance) = q + 2
    BY DEF Enough, q
  <1> DEFINE e == q * Round
  <1>4. e \in Nat /\ q * d = 2 * e /\ (q + 2) * Round = e + d
    BY <1>2, RoundIs
  <1> HIDE DEF e
  <1>5. 3 * (e + d) >= 4 * distance + 12
    <2> HIDE DEF d
    <2>1. 3 * distance < 2 * e + d
      BY <1>2, <1>4
    <2> QED
      BY <1>1, <1>4, <2>1
  <1> QED
    BY <1>2, <1>3, <1>4, <1>5

LEMMA FirstMarkIsWithin ==
  ASSUME NEW g \in SomeGrid, NEW offset \in Nat, NEW from \in Int, NEW distance \in Nat,
         from - g.anchor <= distance
  PROVE  FirstMark(g, Round, offset, from) <= Enough(distance)
  <1> DEFINE q == Enough(distance)
  <1>1. g.anchor \in Int
    BY DEF SomeGrid, Grids
  <1>2. q \in Nat /\ 3 * (q * Round) >= 4 * distance + 12
    BY EnoughIs
  <1> HIDE DEF q
  <1>3. q * Round \in Int
    BY <1>2, RoundIs
  <1>4. 3 * (q * Round) >= 4 * (from - g.anchor) + 12
    BY <1>1, <1>2, <1>3
  <1>5. Mark(g, Round, offset, q) >= from
    BY <1>2, <1>4, RoundIs, FirstMarkIsNear
  <1>6. FirstMark(g, Round, offset, from) <= q
    BY <1>2, <1>5, RoundIs, FirstMarkIs
  <1> QED
    BY <1>6 DEF q

\* The rounds a beacon is due in are the marks of a stride of Every rounds.
LEMMA BeaconMarks ==
  ASSUME NEW g \in SomeGrid, NEW n \in Nat
  PROVE  BeaconT0ForRound(g, n * Every) = Mark(g, Round * Every, g.beaconSlot * Pitch, n)
  <1>1. Every \in Nat /\ Round \in Nat
    BY NodeAssumption, RoundIs
  <1>2. (n * Every) * Round = n * (Round * Every)
    BY <1>1
  <1> QED
    BY <1>2 DEF BeaconT0ForRound, Mark, HubInstant

LEMMA FirstBeaconIsWithin ==
  ASSUME NEW g \in SomeGrid, NEW offset \in Nat, NEW from \in Int, NEW distance \in Nat,
         from - g.anchor <= distance
  PROVE  FirstMark(g, Round * Every, offset, from) * Every \in 0..(Enough(distance) + Every)
  <1> DEFINE e == Enough(distance)
             n == (e + Every - 1) \div Every
             stride == Round * Every
             k == FirstMark(g, stride, offset, from)
  <1>0. Every \in Nat \ {0} /\ g.anchor \in Int
    BY NodeAssumption DEF SomeGrid, Grids
  <1>1. e \in Nat /\ 3 * (e * Round) >= 4 * distance + 12
    BY EnoughIs
  <1> HIDE DEF e
  <1>2. n \in Nat /\ e <= n * Every /\ n * Every <= e + Every - 1
    <2> DEFINE x == e + Every - 1
    <2>1. x \in Nat
      BY <1>0, <1>1
    <2> HIDE DEF x
    <2>2. n = x \div Every
      BY DEF x
    <2> HIDE DEF n
    <2>3. n \in Nat /\ n * Every <= x /\ x < n * Every + Every
      BY <1>0, <2>1, <2>2
    <2>4. n * Every \in Nat
      BY <1>0, <2>3
    <2> QED
      BY <1>0, <1>1, <2>3, <2>4 DEF x
  <1> HIDE DEF n
  <1>3. stride \in Nat /\ stride >= 4
    <2>1. Round * 1 <= Round * Every
      BY <1>0, RoundIs
    <2> QED
      BY <1>0, <2>1, RoundIs
  <1>4. 3 * (n * stride) >= 4 * (from - g.anchor) + 12
    <2> DEFINE y == n * Every
               u == e * Round
               w == y * Round
    <2>1. y \in Nat /\ e <= y
      BY <1>0, <1>2
    <2>2. n * stride = w
      BY <1>0, <1>2, RoundIs
    <2> HIDE DEF y
    <2>3. u \in Int /\ w \in Int /\ u <= w
      BY <1>1, <2>1, RoundIs, MultiplesGrow
    <2>4. 3 * u >= 4 * distance + 12
      BY <1>1
    <2> HIDE DEF u, w
    <2> QED
      BY <1>0, <2>2, <2>3, <2>4
  <1> HIDE DEF stride
  <1>5. Mark(g, stride, offset, n) >= from
    BY <1>2, <1>3, <1>4, FirstMarkIsNear
  <1>6. k \in Nat /\ k <= n
    BY <1>2, <1>3, <1>5, FirstMarkIs
  <1> HIDE DEF k
  <1>7. k * Every \in Nat /\ k * Every <= n * Every
    BY <1>0, <1>2, <1>6, MultiplesGrow
  <1>8. n * Every \in Int
    BY <1>0, <1>2
  <1>9. k * Every \in 0..(e + Every)
    BY <1>0, <1>1, <1>2, <1>7, <1>8
  <1> QED
    BY <1>9 DEF k, stride, e

LEMMA SearchesAreExactThen == ClocksTyped => SearchesAreExact
  <1> SUFFICES ASSUME ClocksTyped PROVE SearchesAreExact
    OBVIOUS
  <1> DEFINE offset == held.slot * Pitch
             beacon == held.beaconSlot * Pitch
             uplink == held.slot * Pitch + UlOffset
             distance == Magnitude(now + Lead - held.anchor)
             rounds == 0..(Enough(distance) + Every)
             own == {T0ForRound(held, r) : r \in rounds}
             beacons == {BeaconT0ForRound(held, r) : r \in {q \in rounds : q % Every = 0}}
             starts == {T0ForHubInstant(held, HubInstant(r, uplink)) - Lead : r \in rounds}
             contains(r, t) == T0ForRound(held, r) <= t /\ t < T0ForRound(held, r + 1)
             next == NextT0(held, now)
             aim == AimUplink(held, now, Lead, MaxWait)
  <1>1. held \in SomeGrid /\ now \in Int /\ held.anchor \in Int
    BY DEF ClocksTyped, SomeGrid, Grids
  <1>2. /\ held.slot \in Nat /\ held.beaconSlot \in Nat /\ held.every = Every
        /\ held.ulOffset = UlOffset
    BY <1>1, NodeAssumption DEF SomeGrid, Grids
  <1>3. Every \in Nat \ {0} /\ Lead \in Nat /\ UlOffset \in Nat /\ MaxWait \in Nat
    BY NodeAssumption
  <1>4. offset \in Nat /\ beacon \in Nat /\ uplink \in Nat
    BY <1>2, <1>3, RoundIs
  <1>5. distance \in Nat /\ now - held.anchor <= distance /\ now + Lead - held.anchor <= distance
    BY <1>1, <1>3 DEF Magnitude
  <1>6. Enough(distance) \in Nat
    <2> HIDE DEF distance
    <2> QED
      BY <1>5, EnoughIs
  <1>7. rounds \subseteq Nat
    BY <1>3, <1>6
  <1> DEFINE soon == now + Lead
  <1>8. soon \in Int /\ soon - held.anchor <= distance
    BY <1>1, <1>3, <1>5
  <1> HIDE DEF distance, soon, offset, beacon, uplink
  <1> DEFINE k == FirstMark(held, Round, offset, now)
             stride == Round * Every
             b == FirstMark(held, stride, beacon, now)
             u == FirstMark(held, Round, uplink, soon)
  <1>9. k \in Nat /\ k \in rounds /\ u \in Nat /\ u \in rounds
    <2>1. k \in Nat /\ u \in Nat
      BY <1>1, <1>4, <1>8, RoundIs, FirstMarkIs
    <2>2. k <= Enough(distance) /\ u <= Enough(distance)
      BY <1>1, <1>4, <1>5, <1>8, FirstMarkIsWithin
    <2> HIDE DEF k, u
    <2> QED
      BY <1>3, <1>6, <2>1, <2>2
  <1>10. b * Every \in rounds
    BY <1>1, <1>4, <1>5, FirstBeaconIsWithin
  <1>11. stride \in Nat /\ stride >= 4
    <2>1. Round * 1 <= Round * Every
      BY <1>3, RoundIs
    <2> QED
      BY <1>3, <2>1, RoundIs
  <1>12. b \in Nat
    <2> HIDE DEF stride
    <2> QED
      BY <1>1, <1>4, <1>11, FirstMarkIs
  <1>13. \A r : T0ForRound(held, r) = Mark(held, Round, offset, r)
    BY DEF T0ForRound, Mark, HubInstant, offset
  <1>14. next = Mark(held, Round, offset, k)
    BY <1>13 DEF NextT0, offset
  <1>15. next = Least(own, now)
    <2> DEFINE S == Marks(held, Round, offset, rounds, 0)
    <2>1. \A r \in rounds : T0ForRound(held, r) = Mark(held, Round, offset, r) - 0
      <3> SUFFICES ASSUME NEW r \in Nat PROVE Mark(held, Round, offset, r) \in Int
        BY <1>7, <1>13
      <3>1. r <= r
        OBVIOUS
      <3> QED
        BY <1>1, <1>4, <3>1, RoundIs, MarksGrow
    <2>2. own = S
      BY <2>1 DEF Marks
    <2>3. Least(S, now - 0) = Mark(held, Round, offset, k) - 0
      <3>1. 0 \in Nat
        OBVIOUS
      <3> HIDE DEF rounds
      <3> QED
        BY <1>1, <1>4, <1>7, <1>9, <3>1, RoundIs, FirstOfMarks
    <2>4. now - 0 = now /\ Mark(held, Round, offset, k) - 0 = Mark(held, Round, offset, k)
      BY <1>1, <1>9, <1>13, <2>1
    <2> HIDE DEF S, own, k, next
    <2> QED
      BY <1>14, <2>2, <2>3, <2>4
  <1>16. NextBeaconT0(held, now) = Least(beacons, now)
    <2> DEFINE N == {n \in Nat : n * Every \in rounds}
               S == Marks(held, stride, beacon, N, 0)
    <2>1. \A n \in Nat : BeaconT0ForRound(held, n * Every) = Mark(held, stride, beacon, n)
      BY <1>1, BeaconMarks DEF beacon
    <2>2. \A n \in Nat : Mark(held, stride, beacon, n) \in Int
      <3> SUFFICES ASSUME NEW n \in Nat PROVE Mark(held, stride, beacon, n) \in Int
        OBVIOUS
      <3>1. n <= n
        OBVIOUS
      <3> HIDE DEF stride
      <3> QED
        BY <1>1, <1>4, <1>11, <3>1, MarksGrow
    <2>3. NextBeaconT0(held, now) = Mark(held, stride, beacon, b)
      <3>1. NextBeaconT0(held, now) = BeaconT0ForRound(held, b * Every)
        BY <1>2, <1>3 DEF NextBeaconT0, beacon
      <3> HIDE DEF b, stride
      <3> QED
        BY <1>12, <2>1, <3>1
    <2> HIDE DEF stride
    <2>4. \A q \in rounds : q % Every = 0 => \E n \in N : q = n * Every
      <3> SUFFICES ASSUME NEW q \in rounds, q % Every = 0 PROVE \E n \in N : q = n * Every
        OBVIOUS
      <3>1. q \in Nat
        BY <1>7
      <3>2. PICK n \in Nat : q = n * Every
        BY <1>3, <3>1
      <3> QED
        BY <3>2
    <2>5. \A n \in N : (n * Every) % Every = 0
      <3> SUFFICES ASSUME NEW n \in Nat PROVE (n * Every) % Every = 0
        OBVIOUS
      <3> QED
        BY <1>3
    <2>6. beacons = S
      <3> HIDE DEF rounds
      <3>1. beacons \subseteq S
        <4> SUFFICES ASSUME NEW q \in rounds, q % Every = 0 PROVE BeaconT0ForRound(held, q) \in S
          OBVIOUS
        <4>1. PICK n \in N : q = n * Every
          BY <2>4
        <4>2. BeaconT0ForRound(held, q) = Mark(held, stride, beacon, n) - 0
          BY <2>1, <2>2, <4>1
        <4> QED
          BY <4>1, <4>2 DEF Marks
      <3>2. S \subseteq beacons
        <4> SUFFICES ASSUME NEW n \in N PROVE Mark(held, stride, beacon, n) - 0 \in beacons
          BY DEF Marks
        <4> DEFINE q == n * Every
        <4>1. q \in rounds /\ q % Every = 0
          BY <2>5
        <4>2. Mark(held, stride, beacon, n) - 0 = BeaconT0ForRound(held, q)
          BY <2>1, <2>2
        <4> HIDE DEF q
        <4> QED
          BY <4>1, <4>2
      <3> QED
        BY <3>1, <3>2
    <2>7. b \in N /\ N \subseteq Nat
      BY <1>10, <1>12 DEF stride
    <2>8. Least(S, now - 0) = Mark(held, stride, beacon, b) - 0
      <3>1. 0 \in Nat
        OBVIOUS
      <3> HIDE DEF N
      <3> QED
        BY <1>1, <1>4, <1>11, <2>7, <3>1, FirstOfMarks
    <2>9. now - 0 = now /\ Mark(held, stride, beacon, b) - 0 = Mark(held, stride, beacon, b)
      BY <1>1, <1>12, <2>2
    <2> HIDE DEF S, beacons, b
    <2> QED
      BY <2>3, <2>6, <2>8, <2>9
  <1>17. next \in Int /\ T0ForRound(held, 0) <= next
    <2> HIDE DEF k, next
    <2>1. 0 \in Nat /\ 0 <= k
      BY <1>9
    <2>2. /\ Mark(held, Round, offset, 0) \in Int /\ Mark(held, Round, offset, k) \in Int
          /\ Mark(held, Round, offset, 0) + (k - 0) <= Mark(held, Round, offset, k)
      BY <1>1, <1>4, <1>9, <2>1, RoundIs, MarksGrow
    <2> QED
      BY <1>9, <1>13, <1>14, <2>2
  <1>18. contains(RoundForT0(held, next), next)
    <2> HIDE DEF next
    <2> QED
      BY <1>1, <1>17, RoundForT0Is
  <1>19. T0ForRound(held, 0) <= now => contains(RoundForT0(held, now), now)
    BY <1>1, RoundForT0Is
  <1> DEFINE t0 == Mark(held, Round, uplink, u)
  <1>20. t0 \in Int /\ Least(starts, now) = t0 - Lead
    <2> DEFINE S == Marks(held, Round, uplink, rounds, Lead)
    <2>1. starts = S
      BY DEF Mark, Marks, HubInstant
    <2> HIDE DEF rounds
    <2>2. Least(S, soon - Lead) = t0 - Lead
      BY <1>1, <1>3, <1>4, <1>7, <1>8, <1>9, RoundIs, FirstOfMarks
    <2>3. soon - Lead = now
      BY <1>1, <1>3 DEF soon
    <2>4. t0 \in Int
      <3> HIDE DEF u
      <3>1. u <= u
        BY <1>9
      <3> QED
        BY <1>1, <1>4, <1>9, <3>1, RoundIs, MarksGrow
    <2> HIDE DEF S, starts, t0
    <2> QED
      BY <2>1, <2>2, <2>3, <2>4
  <1>21. aim = IF UlOffset = 0 \/ t0 - Lead - now > MaxWait
               THEN [aimed |-> FALSE, t0 |-> 0] ELSE [aimed |-> TRUE, t0 |-> t0]
    BY <1>2 DEF AimUplink, Mark, HubInstant, uplink, soon
  <1> HIDE DEF t0, aim
  <1>22. /\ aim.aimed <=> (UlOffset # 0 /\ t0 - Lead <= now + MaxWait)
         /\ aim.aimed => aim.t0 = t0
    BY <1>1, <1>3, <1>20, <1>21
  <1> HIDE DEF starts
  <1>23. /\ aim.aimed <=> (UlOffset # 0 /\ Least(starts, now) <= now + MaxWait)
         /\ aim.aimed => aim.t0 = Least(starts, now) + Lead
    BY <1>3, <1>20, <1>22
  <1> QED
    BY <1>15, <1>16, <1>18, <1>19, <1>23
    DEF SearchesAreExact, Enough, distance, starts, aim, offset, uplink, beacon

\* Every search a node makes returns the mark it is documented to return - its next private
\* mark, the next beacon, the round an instant is in, the uplink mark it can still reach -
\* whatever clock it has, whatever rate it has learned and whenever it asks.
THEOREM SearchesAreExactHolds == NodeSpec => []SearchesAreExact
  BY ClocksTypedHolds, SearchesAreExactThen, PTL
=============================================================================
