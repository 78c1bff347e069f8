------------------------------- MODULE ModeB -------------------------------
(***************************************************************************)
(* The Mode B supervisor (ModeBSupervisor.h) and its glue in the listener  *)
(* (lora_client.cpp, "ModeBSupervisor glue"): after a node has confirmed   *)
(* its grid, the hub warms it up with a ModeTest so that it is promoted to *)
(* timed reception.  Warm-ups of all nodes share ONE token, kept by a      *)
(* static Arbiter: a FIFO of requesters and a holder with a lease.  Every  *)
(* node's supervisor ticks on its own interval; nothing but the ticks      *)
(* moves the token, so a node that went away, gave way to a command or was *)
(* refused must leave the queue or the token by itself.                    *)
(*                                                                         *)
(* Times are countdowns: a variable holds the number of units until the    *)
(* instant the code stores, and reached(now, t) is "the countdown is 0".   *)
(* One unit is one supervisor tick of every node; Advance ends the unit    *)
(* once every supervisor has ticked and every due stop timer has run,      *)
(* which is the assumption that the loop is not stalled for a whole unit.  *)
(***************************************************************************)
EXTENDS WaitLine

CONSTANTS
  Nodes,       \* the listeners of one hub
  None,        \* not a node
  Cap,         \* kCap: the longest the queue of the arbiter gets
  Settle,      \* kGridSettleS
  Jitter,      \* kJitterMaxS
  Warmup,      \* kWarmupS + 5: the stop timer of the hub's own test
  Manual,      \* the stop timer of an operator's test
  Lease,       \* kLeaseS
  Verify,      \* kVerifyGraceS
  YieldRetry,  \* kYieldRetryS
  HoldOff,     \* kOpHoldOffS
  Rearm,       \* kRearmHoldS
  Backoff,     \* kBackoffS, a sequence
  MaxEvents    \* bounds what happens to the nodes from outside

ASSUME NodesAssumption == None \notin Nodes
ASSUME TimesAssumption ==
  /\ Cap \in Nat /\ Settle \in Nat /\ Jitter \in Nat /\ Manual \in Nat /\ Verify \in Nat
  /\ YieldRetry \in Nat /\ HoldOff \in Nat /\ Rearm \in Nat /\ MaxEvents \in Nat
  /\ Warmup \in Nat /\ Lease \in Nat
  /\ Backoff \in Seq(Nat) /\ Len(Backoff) \in Nat \ {0}
\* kLeaseS is the warm-up, its stop timer and a hand-over: the lease outlives
\* every test it covers, by more than a tick.
ASSUME LeaseAssumption == Warmup + 1 < Lease

NotAcked == -1
NoTest == "none"

VARIABLES
  \* one Supervisor per node
  phase,       \* phase_
  armed,       \* armed_: the jitter of this attempt is drawn
  failures,    \* failures_, capped where backoffS saturates
  notBefore,   \* not_before_
  verifyLeft,  \* verify_until_
  \* the Arbiter
  queue, holder, lease, hold,
  \* the test on the air of each node
  test,        \* mode_test_active_ with mbs_owns_test_: NoTest, "own", "manual"
  testLeft,    \* until "modetest_stop"
  \* what mbs_inputs_ reads
  link,        \* "up", "asleep", "relogin", or "off" (Timed Mode switch)
  settle,      \* until the acknowledged grid is settled, or NotAcked
  promoted,    \* the node's own word: have_phase_report_ and node_timed_rx
  command,     \* a Control command is awaited or deferred
  pushing,     \* the pushes that await an ack: "cfg" (schedule), "mac" (GridSync)
  ticked,      \* supervisors that ticked in this unit
  events       \* outside events so far (bound)

supervisor == <<phase, armed, failures, notBefore, verifyLeft>>
arbiter == <<queue, holder, lease, hold>>
inputs == <<link, settle, promoted, command, pushing>>
vars == <<supervisor, arbiter, test, testLeft, inputs, ticked, events>>

Larger(a, b) == IF a > b THEN a ELSE b
Less(t) == IF t > 0 THEN t - 1 ELSE t

Init ==
  /\ phase = [n \in Nodes |-> "Idle"] /\ armed = [n \in Nodes |-> FALSE]
  /\ failures = [n \in Nodes |-> 0] /\ notBefore = [n \in Nodes |-> 0]
  /\ verifyLeft = [n \in Nodes |-> 0]
  /\ queue = <<>> /\ holder = None /\ lease = 0 /\ hold = 0
  /\ test = [n \in Nodes |-> NoTest] /\ testLeft = [n \in Nodes |-> 0]
  /\ link = [n \in Nodes |-> "relogin"] /\ settle = [n \in Nodes |-> NotAcked]
  /\ promoted = [n \in Nodes |-> FALSE]
  /\ command = [n \in Nodes |-> FALSE] /\ pushing = [n \in Nodes |-> {}]
  /\ ticked = {} /\ events = 0

-----------------------------------------------------------------------------
(* The Arbiter. *)

Queued(n) == Holds(queue, n)

\* expire() comes first in granted() and holds(): a lease that has run out
\* leaves no holder.
LiveHolder == IF lease = 0 THEN None ELSE holder

\* Mutant: only the holder is ever removed.
CancelHolder(n) ==
  /\ holder' = IF holder = n THEN None ELSE holder
  /\ UNCHANGED <<queue, lease, hold>>

\* cancel(): the holder gives the token up, a waiter leaves the queue.
Cancel(n) ==
  /\ holder' = IF holder = n THEN None ELSE holder
  /\ queue' = IF holder = n THEN queue ELSE Leave(queue, n)
  /\ UNCHANGED <<lease, hold>>

\* request(): idempotent, and refused when the queue is full.
Refused(n) == ~Queued(n) /\ holder # n /\ Len(queue) >= Cap
Requested(n) == IF Queued(n) \/ holder = n THEN queue ELSE Append(queue, n)

\* granted(): only the head of the queue, and not during a hold-off.
Granted(q, n) ==
  \/ LiveHolder = n
  \/ LiveHolder = None /\ Len(q) > 0 /\ Head(q) = n /\ hold = 0

-----------------------------------------------------------------------------
(* The gates. *)

Grid(n) == settle[n] = 0
CommonOk(n) == link[n] = "up"
Busy(n) == command[n] \/ pushing[n] # {}
OtherTest(n) == test[n] = "manual"
BusyGate(n) == Grid(n) /\ ~promoted[n] /\ (Busy(n) \/ OtherTest(n))
StartOk(n) == Grid(n) /\ ~promoted[n] /\ ~Busy(n) /\ ~OtherTest(n)

-----------------------------------------------------------------------------
(* The glue that puts a test on the air or takes it off. *)

\* mbs_start_warmup_: start_mode_test creates its timer or gives up at once.
StartWarmup(n) ==
  \E started \in BOOLEAN :
    /\ test' = [test EXCEPT ![n] = IF started THEN "own" ELSE NoTest]
    /\ testLeft' = [testLeft EXCEPT ![n] = IF started THEN Warmup ELSE 0]

\* Mutants: any test of the node is stopped; the supervisor alone stops.
AbortAny(n) ==
  /\ test' = [test EXCEPT ![n] = NoTest]
  /\ testLeft' = [testLeft EXCEPT ![n] = 0]
AbortNothing(n) == n \in Nodes /\ UNCHANGED <<test, testLeft>>

\* mbs_abort_warmup_: only ever the supervisor's own test.
AbortWarmup(n) ==
  /\ test' = [test EXCEPT ![n] = IF @ = "own" THEN NoTest ELSE @]
  /\ testLeft' = [testLeft EXCEPT ![n] = IF test[n] = "own" THEN 0 ELSE @]

-----------------------------------------------------------------------------
(* Supervisor::tick and mbs_apply_ on its event. *)

Tick(n) ==
  /\ n \notin ticked
  /\ ticked' = ticked \cup {n}
  /\ UNCHANGED <<inputs, events>>

\* Queue or go: the tail of queuedTick on a queue that holds n.
Ask(q, n) ==
  IF Granted(q, n)
    THEN /\ phase' = [phase EXCEPT ![n] = "Warming"]
         /\ queue' = IF LiveHolder = n THEN q ELSE Tail(q)
         /\ holder' = n
         /\ lease' = IF LiveHolder = n THEN lease ELSE Lease
         /\ StartWarmup(n)
    ELSE /\ phase' = [phase EXCEPT ![n] = "Queued"]
         /\ queue' = q /\ holder' = LiveHolder
         /\ UNCHANGED <<lease, test, testLeft>>

\* Mutant: a node that drops out of the queue keeps its place.
DropOutKeepsPlace(n) ==
  /\ Tick(n) /\ ~CommonOk(n)
  /\ phase' = [phase EXCEPT ![n] = "Idle"]
  /\ armed' = [armed EXCEPT ![n] = FALSE]
  /\ IF phase[n] = "Warming" THEN Cancel(n) /\ AbortWarmup(n)
     ELSE UNCHANGED <<arbiter, test, testLeft>>
  /\ UNCHANGED <<failures, notBefore, verifyLeft>>

DropOut(n) ==
  /\ Tick(n) /\ ~CommonOk(n)
  /\ phase' = [phase EXCEPT ![n] = "Idle"]
  /\ armed' = [armed EXCEPT ![n] = FALSE]
  /\ IF phase[n] = "Idle" THEN UNCHANGED arbiter ELSE Cancel(n)
  /\ IF phase[n] = "Warming" THEN AbortWarmup(n) ELSE UNCHANGED <<test, testLeft>>
  /\ UNCHANGED <<failures, notBefore, verifyLeft>>

IdlePromoted(n) ==
  /\ Tick(n) /\ CommonOk(n) /\ phase[n] = "Idle" /\ promoted[n]
  /\ failures' = [failures EXCEPT ![n] = 0]
  /\ armed' = [armed EXCEPT ![n] = FALSE]
  /\ UNCHANGED <<phase, notBefore, verifyLeft, arbiter, test, testLeft>>

\* The jitter is drawn once per attempt and never shortens a wait.
Idle(n) ==
  /\ Tick(n) /\ CommonOk(n) /\ phase[n] = "Idle" /\ ~promoted[n]
  /\ \E due \in 0..Jitter :
       LET wait == IF armed[n] THEN notBefore[n] ELSE Larger(notBefore[n], due) IN
       /\ notBefore' = [notBefore EXCEPT ![n] = wait]
       /\ IF wait > 0 \/ ~StartOk(n) \/ Refused(n)
            THEN UNCHANGED <<phase, arbiter, test, testLeft>>
            ELSE Ask(Requested(n), n) /\ UNCHANGED hold
  /\ armed' = [armed EXCEPT ![n] = TRUE]
  /\ UNCHANGED <<failures, verifyLeft>>

\* The node became busy, or another test runs: give the turn up.
QueuedYield(n) ==
  /\ Tick(n) /\ CommonOk(n) /\ phase[n] = "Queued" /\ BusyGate(n)
  /\ Cancel(n)
  /\ phase' = [phase EXCEPT ![n] = "Idle"]
  /\ notBefore' = [notBefore EXCEPT ![n] = YieldRetry]
  /\ AbortWarmup(n)
  /\ UNCHANGED <<armed, failures, verifyLeft>>

\* The grid changed under the node, or it was promoted meanwhile.
QueuedLeave(n) ==
  /\ Tick(n) /\ CommonOk(n) /\ phase[n] = "Queued" /\ (~Grid(n) \/ promoted[n])
  /\ Cancel(n)
  /\ phase' = [phase EXCEPT ![n] = "Idle"]
  /\ UNCHANGED <<armed, failures, notBefore, verifyLeft, test, testLeft>>

QueuedAsk(n) ==
  /\ Tick(n) /\ CommonOk(n) /\ phase[n] = "Queued" /\ StartOk(n)
  /\ Ask(queue, n)
  /\ UNCHANGED <<armed, failures, notBefore, verifyLeft, hold>>

\* A holder that lost its lease stops its test; one whose test has ended hands
\* the token on and waits for the node's word.
Warming(n) ==
  /\ Tick(n) /\ CommonOk(n) /\ phase[n] = "Warming"
  /\ IF LiveHolder # n
       THEN /\ phase' = [phase EXCEPT ![n] = "Idle"]
            /\ armed' = [armed EXCEPT ![n] = FALSE]
            /\ holder' = LiveHolder
            /\ AbortWarmup(n)
            /\ UNCHANGED <<verifyLeft, queue, lease, hold>>
       ELSE IF test[n] = "own"
       THEN UNCHANGED <<phase, armed, verifyLeft, arbiter, test, testLeft>>
       ELSE /\ Cancel(n)
            /\ phase' = [phase EXCEPT ![n] = "Verifying"]
            /\ verifyLeft' = [verifyLeft EXCEPT ![n] = Verify]
            /\ UNCHANGED <<armed, test, testLeft>>
  /\ UNCHANGED <<failures, notBefore>>

\* report: a fresh ModeTest report showed timed windows (mbs_report_fresh_).
Verifying(n) ==
  /\ Tick(n) /\ CommonOk(n) /\ phase[n] = "Verifying"
  /\ \E report \in BOOLEAN :
       IF promoted[n] \/ report
         THEN /\ failures' = [failures EXCEPT ![n] = 0]
              /\ phase' = [phase EXCEPT ![n] = "Idle"]
              /\ armed' = [armed EXCEPT ![n] = FALSE]
              /\ notBefore' = [notBefore EXCEPT ![n] = Rearm]
         ELSE IF verifyLeft[n] > 0
         THEN UNCHANGED <<failures, phase, armed, notBefore>>
         ELSE LET f == IF failures[n] < Len(Backoff) THEN failures[n] + 1 ELSE failures[n] IN
              /\ failures' = [failures EXCEPT ![n] = f]
              /\ phase' = [phase EXCEPT ![n] = "Idle"]
              /\ armed' = [armed EXCEPT ![n] = FALSE]
              /\ notBefore' = [notBefore EXCEPT ![n] = Backoff[f]]
  /\ UNCHANGED <<verifyLeft, arbiter, test, testLeft>>

SupervisorTick(n) ==
  \/ DropOut(n) \/ IdlePromoted(n) \/ Idle(n)
  \/ QueuedYield(n) \/ QueuedLeave(n) \/ QueuedAsk(n)
  \/ Warming(n) \/ Verifying(n)

-----------------------------------------------------------------------------
(* Time. *)

\* "modetest_stop": the hub ends every test itself.
StopTest(n) ==
  /\ test[n] # NoTest /\ testLeft[n] = 0
  /\ test' = [test EXCEPT ![n] = NoTest]
  /\ UNCHANGED <<supervisor, arbiter, testLeft, inputs, ticked, events>>

Advance ==
  /\ ticked = Nodes
  /\ \A n \in Nodes : test[n] # NoTest => testLeft[n] > 0
  /\ ticked' = {}
  /\ notBefore' = [n \in Nodes |-> Less(notBefore[n])]
  /\ verifyLeft' = [n \in Nodes |-> Less(verifyLeft[n])]
  /\ testLeft' = [n \in Nodes |-> Less(testLeft[n])]
  /\ settle' = [n \in Nodes |-> Less(settle[n])]
  /\ lease' = Less(lease) /\ hold' = Less(hold)
  /\ UNCHANGED <<phase, armed, failures, queue, holder, test, link, promoted,
                 command, pushing, events>>

-----------------------------------------------------------------------------
(* What reaches the supervisors from the rest of the hub. *)

Event == events < MaxEvents /\ events' = events + 1 /\ UNCHANGED ticked

\* mbs_restart_: whatever happened before no longer predicts anything.
Restart(n) ==
  /\ Cancel(n)
  /\ phase' = [phase EXCEPT ![n] = "Idle"]
  /\ failures' = [failures EXCEPT ![n] = 0]
  /\ notBefore' = [notBefore EXCEPT ![n] = 0]
  /\ armed' = [armed EXCEPT ![n] = FALSE]
  /\ AbortWarmup(n)
  /\ UNCHANGED verifyLeft

\* Mutant: the next tick will see the busy node.
YieldLater(n) ==
  /\ n \in Nodes
  /\ UNCHANGED <<phase, armed, notBefore, queue, holder, test, testLeft>>

\* yieldToOp and mbs_yield_self_: a warm-up on the air is given up; any other
\* phase is left to the next tick.
YieldSelf(n) ==
  IF phase[n] = "Warming"
    THEN /\ holder' = IF holder = n THEN None ELSE holder
         /\ queue' = IF holder = n THEN queue ELSE Leave(queue, n)
         /\ phase' = [phase EXCEPT ![n] = "Idle"]
         /\ armed' = [armed EXCEPT ![n] = FALSE]
         /\ notBefore' = [notBefore EXCEPT ![n] = YieldRetry]
         /\ AbortWarmup(n)
    ELSE UNCHANGED <<phase, armed, notBefore, queue, holder, test, testLeft>>

\* A cover op or sysop was submitted: mbs_yield_to_op_ holds every other node
\* off as well.
Submit(n) ==
  /\ Event /\ link[n] # "asleep"
  /\ hold' = Larger(hold, HoldOff)
  /\ YieldSelf(n)
  /\ command' = [command EXCEPT ![n] = TRUE]
  /\ UNCHANGED <<failures, verifyLeft, lease, link, settle, promoted, pushing>>

\* A schedule push: only this node's warm-up gives way.
Push(n) ==
  /\ Event /\ link[n] # "asleep"
  /\ YieldSelf(n)
  /\ pushing' = [pushing EXCEPT ![n] = @ \cup {"cfg"}]
  /\ UNCHANGED <<failures, verifyLeft, lease, hold, link, settle, promoted, command>>

CommandDone(n) ==
  /\ command[n]
  /\ command' = [command EXCEPT ![n] = FALSE]
  /\ UNCHANGED <<supervisor, arbiter, test, testLeft, link, settle, promoted, pushing,
                 ticked, events>>

\* A push is acknowledged, or its ladder is spent.
PushDone(n) ==
  /\ \E ch \in pushing[n] : pushing' = [pushing EXCEPT ![n] = @ \ {ch}]
  /\ UNCHANGED <<supervisor, arbiter, test, testLeft, link, settle, promoted, command,
                 ticked, events>>

\* on_grid_sync_acked_: newer than the publish, as long as nothing was
\* published since.
GridAcked(n) ==
  /\ "mac" \in pushing[n] /\ link[n] = "up"
  /\ pushing' = [pushing EXCEPT ![n] = @ \ {"mac"}]
  /\ settle' = [settle EXCEPT ![n] = Settle]
  /\ UNCHANGED <<supervisor, arbiter, test, testLeft, link, promoted, command, ticked, events>>

\* The phase report of a beacon or of an ack.
PhaseReport(n) ==
  /\ Event /\ link[n] = "up"
  /\ promoted' = [promoted EXCEPT ![n] = ~@]
  /\ UNCHANGED <<supervisor, arbiter, test, testLeft, link, settle, command, pushing>>

\* do_login_: the acknowledgement and the report go with the session.
Relogin(n) ==
  /\ Event /\ link[n] = "up"
  /\ link' = [link EXCEPT ![n] = "relogin"]
  /\ settle' = [settle EXCEPT ![n] = NotAcked]
  /\ promoted' = [promoted EXCEPT ![n] = FALSE]
  /\ Restart(n)
  /\ UNCHANGED <<command, pushing>>

\* confirm_session_ publishes the grid again.
Confirm(n) ==
  /\ link[n] = "relogin"
  /\ link' = [link EXCEPT ![n] = "up"]
  /\ pushing' = [pushing EXCEPT ![n] = @ \cup {"mac"}]
  /\ UNCHANGED <<supervisor, arbiter, test, testLeft, settle, promoted, command, ticked, events>>

Sleep(n) ==
  /\ Event /\ link[n] = "up"
  /\ link' = [link EXCEPT ![n] = "asleep"]
  /\ UNCHANGED <<supervisor, arbiter, test, testLeft, settle, promoted, command, pushing>>

Wake(n) ==
  /\ link[n] = "asleep"
  /\ link' = [link EXCEPT ![n] = "up"]
  /\ UNCHANGED <<supervisor, arbiter, test, testLeft, settle, promoted, command, pushing,
                 ticked, events>>

\* The Timed Mode switch: off withdraws the grid, on publishes it and forgets
\* the belief.
SwitchOff(n) ==
  /\ Event /\ link[n] = "up"
  /\ link' = [link EXCEPT ![n] = "off"]
  /\ Restart(n)
  /\ pushing' = [pushing EXCEPT ![n] = @ \ {"mac"}]
  /\ UNCHANGED <<settle, promoted, command>>

SwitchOn(n) ==
  /\ link[n] = "off"
  /\ link' = [link EXCEPT ![n] = "up"]
  /\ Restart(n)
  /\ settle' = [settle EXCEPT ![n] = NotAcked]
  /\ promoted' = [promoted EXCEPT ![n] = FALSE]
  /\ pushing' = [pushing EXCEPT ![n] = @ \cup {"mac"}]
  /\ UNCHANGED <<command, ticked, events>>

\* regrid_after_reboot_: a beacon says the node came back without its grid.
Regrid(n) ==
  /\ Event /\ link[n] = "up" /\ "mac" \notin pushing[n]
  /\ settle' = [settle EXCEPT ![n] = NotAcked]
  /\ promoted' = [promoted EXCEPT ![n] = FALSE]
  /\ pushing' = [pushing EXCEPT ![n] = @ \cup {"mac"}]
  /\ Restart(n)
  /\ UNCHANGED <<link, command>>

\* note_warmup_refusal_: the node answered the warm-up with NoGrid.  The test
\* ends at once; the token is handed on by the next tick.
WarmupRefused(n) ==
  /\ Event /\ test[n] = "own" /\ link[n] = "up"
  /\ AbortWarmup(n)
  /\ IF "mac" \in pushing[n] THEN UNCHANGED <<settle, promoted, pushing>>
     ELSE /\ settle' = [settle EXCEPT ![n] = NotAcked]
          /\ promoted' = [promoted EXCEPT ![n] = FALSE]
          /\ pushing' = [pushing EXCEPT ![n] = @ \cup {"mac"}]
  /\ UNCHANGED <<supervisor, arbiter, link, command>>

\* An operator starts a test on this node, replacing whatever runs.
ManualTest(n) ==
  /\ Event
  /\ test' = [test EXCEPT ![n] = "manual"]
  /\ testLeft' = [testLeft EXCEPT ![n] = Manual]
  /\ UNCHANGED <<supervisor, arbiter, inputs>>

Environment(n) ==
  \/ Submit(n) \/ Push(n) \/ CommandDone(n) \/ PushDone(n) \/ GridAcked(n) \/ PhaseReport(n)
  \/ Relogin(n) \/ Confirm(n) \/ Sleep(n) \/ Wake(n) \/ SwitchOff(n) \/ SwitchOn(n)
  \/ Regrid(n) \/ WarmupRefused(n) \/ ManualTest(n)

-----------------------------------------------------------------------------

Next ==
  \/ \E n \in Nodes : SupervisorTick(n) \/ StopTest(n) \/ Environment(n)
  \/ Advance

\* The interval of every supervisor and the loop's timers run; nothing is
\* assumed of what comes from outside.
Fairness ==
  /\ \A n \in Nodes : WF_vars(SupervisorTick(n)) /\ WF_vars(StopTest(n))
  /\ WF_vars(Advance)

Spec == Init /\ [][Next]_vars /\ Fairness

-----------------------------------------------------------------------------
(* Properties. *)

TypeOK ==
  /\ phase \in [Nodes -> {"Idle", "Queued", "Warming", "Verifying"}]
  /\ armed \in [Nodes -> BOOLEAN]
  /\ failures \in [Nodes -> 0..Len(Backoff)]
  /\ notBefore \in [Nodes -> Nat] /\ verifyLeft \in [Nodes -> 0..Verify]
  /\ queue \in Seq(Nodes) /\ Len(queue) <= Cap
  /\ holder \in Nodes \cup {None} /\ lease \in 0..Lease /\ hold \in 0..HoldOff
  /\ test \in [Nodes -> {NoTest, "own", "manual"}] /\ testLeft \in [Nodes -> Nat]
  /\ link \in [Nodes -> {"up", "asleep", "relogin", "off"}]
  /\ settle \in [Nodes -> Int] /\ promoted \in [Nodes -> BOOLEAN]
  /\ command \in [Nodes -> BOOLEAN] /\ pushing \in [Nodes -> SUBSET {"cfg", "mac"}]
  /\ ticked \subseteq Nodes /\ events \in 0..MaxEvents

\* ONE warm-up occupies the air of the whole hub (the comment at the Arbiter:
\* "FIFO of requesters + at most one holder").  The test is not stopped by the
\* arbiter but by the listener's own timer, by a yield, a restart, a refusal or
\* the operator, while the token is given up by cancel or by an expiring lease:
\* no order of these lets a second node start while a first still sends.
OneWarmup ==
  \A m, n \in Nodes : test[m] = "own" /\ test[n] = "own" => m = n

\* The token and the queue agree with the supervisors, whatever removed a node
\* from either: a holder is warming up (a token left behind would lock every
\* other node out until its lease ends), a queued supervisor is in the queue
\* (one that fell out of it would wait for ever), and nobody waits twice.
TokenSound ==
  /\ holder # None => phase[holder] = "Warming"
  /\ \A n \in Nodes : Queued(n) <=> phase[n] = "Queued"
  /\ \A i, j \in 1..Len(queue) : queue[i] = queue[j] => i = j

\* A command is never on the air against its own node's warm-up: "never fight
\* it" (mbs_yield_to_op_), whichever of the two came first.
CommandGoesFirst ==
  \A n \in Nodes : command[n] => test[n] # "own"

\* A warm-up that is on the air has the air and its node to itself.
WarmupAlone == OneWarmup /\ CommandGoesFirst

\* An operator's test is ended by its own timer only: no abort of a warm-up
\* that the operator replaced reaches the test that replaced it.
ManualUndisturbed ==
  [][\A n \in Nodes :
       test[n] = "manual" /\ testLeft[n] > 0 => test'[n] = "manual"]_vars

\* The promise of token, jitter and backoff together: a node that stays ready
\* (session, settled grid, not promoted, not busy, no other test, and no
\* command holding the fleet off) is warmed up again and again, however the
\* other nodes' warm-ups end.
Ready(n) == CommonOk(n) /\ StartOk(n) /\ hold = 0
EveryoneGetsATurn ==
  \A n \in Nodes : <>[]Ready(n) => []<>(phase[n] = "Warming")

-----------------------------------------------------------------------------
(* The inductive invariant behind OneWarmup and CommandGoesFirst. *)

\* What the proof needs of the types.
Typed ==
  /\ phase \in [Nodes -> {"Idle", "Queued", "Warming", "Verifying"}]
  /\ holder \in Nodes \cup {None} /\ lease \in Nat
  /\ test \in [Nodes -> {NoTest, "own", "manual"}] /\ testLeft \in [Nodes -> Nat]
  /\ command \in [Nodes -> BOOLEAN]

\* Whoever holds the token warms up, its lease spent or not.
HolderWarms == \A n \in Nodes : holder = n => phase[n] = "Warming"

\* A warm-up on the air is covered by the token, and the lease outlives it.
Covered ==
  \A n \in Nodes : test[n] = "own" => /\ holder = n /\ phase[n] = "Warming"
                                      /\ testLeft[n] < lease

WarmupInv == Typed /\ HolderWarms /\ Covered /\ CommandGoesFirst

\* What TokenSound adds to it: the queue holds each queued supervisor, once.
QueueSound ==
  /\ queue \in Seq(Nodes) /\ Distinct(queue)
  /\ \A n \in Nodes : Holds(queue, n) <=> phase[n] = "Queued"
TokenInv == WarmupInv /\ QueueSound

=============================================================================
