------------------------------ MODULE Onboarding ------------------------------
(***************************************************************************)
(* Bringing nodes up one at a time: the process-wide onboarding gate       *)
(* (OnboardingGate.h), each listener's login challenge with its retries,   *)
(* REGISTER, the configuration push and the config-sync relogin.           *)
(*                                                                         *)
(* All of it runs on the loop task.  A timer is off; later (a delay nobody *)
(* counts on); or, polling every kPollMs, due in this round or in the next *)
(* one: within a round every poll fires once, in any order.                *)
(***************************************************************************)
EXTENDS WaitLine

CONSTANTS
    Nodes,
    Absent,           \* nodes that never answer
    Legacy,           \* nodes whose firmware ignores request_register
    InSync,           \* nodes whose restored configuration hash matches at boot
    Talking,          \* nodes with an uplink of their old session on the air at boot
    MaxWaiters,       \* onboarding::kMaxWaiters, 32 in the code
    MaxLoginRetries,  \* kMaxLoginRetries, 24 in the code
    SettlePolls,      \* kSettleAfterConfirmMs / kPollMs, 6 in the code
    SilentPolls,      \* kSilentAfterMs / kPollMs, 30 in the code
    HoldPolls,        \* kMaxHoldMs / kPollMs, 120 in the code
    MaxFaults         \* bound: reboots, commands given up, losses, slow answers

ASSUME NodesAssumption  == 
    /\ {Absent, Legacy, InSync, Talking} \subseteq SUBSET Nodes
    /\ Absent \cap Talking = {}
ASSUME LimitsAssumption ==
    /\ {MaxWaiters, MaxLoginRetries, SettlePolls, SilentPolls, HoldPolls} \subseteq Nat \ {0}
    /\ MaxFaults \in Nat

Nobody == "nobody"
ASSUME NobodyAssumption == Nobody \notin Nodes

VARIABLES
    gate,       \* the Gate: holder, line, front_denials_
    held,       \* onboarding_held_ of each listener
    hold,       \* what its holder counts: age, confirmed, since, heard
    timer,      \* per listener: startup, retry, poll, sync
    login,      \* per listener: login_acked_, retries, session and config flags
    node,       \* per node: its session, whether it is provisioned
    down, up,   \* per node: the LOGIN and the uplink on their way
    faults      \* how much of the bound is spent

onboarding == <<gate, held, hold>>
session == <<timer, login>>
vars == <<onboarding, session, node, down, up, faults>>

Sealed(s) == [kind |-> "sealed", session |-> s]
TimerNames == {"startup", "retry", "poll", "sync"}
NoHold  == [age |-> 0, confirmed |-> FALSE, since |-> 0, heard |-> FALSE]
NoFrame == [kind |-> "none", session |-> 0]

\* Session ids: 0 is none; no more than three others are ever in use at once.
SessionIds == 1..4

\* The hub has booted: every node is registered, its session id unknown to the
\* hub; the restored configuration hash says whether its config is in sync.
Init ==
    /\ gate = [holder |-> Nobody, line |-> <<>>, denials |-> 0]
    /\ held = [n \in Nodes |-> FALSE]
    /\ hold = [n \in Nodes |-> NoHold]
    /\ timer = [n \in Nodes |-> [startup |-> "later", retry |-> "off", poll |-> "off", sync |-> "off"]]
    /\ login = [n \in Nodes |-> [acked |-> FALSE, retries |-> 0, relogin |-> TRUE, confirmed |-> FALSE,
                                 pending |-> FALSE, session |-> 0, synced |-> n \in InSync,
                                 push |-> FALSE]]
    /\ node = [n \in Nodes |-> [session |-> 1, provisioned |-> TRUE]]
    /\ down = [n \in Nodes |-> NoFrame]
    /\ up = [n \in Nodes |-> IF n \in Talking THEN Sealed(1) ELSE NoFrame]
    /\ faults = 0

-----------------------------------------------------------------------------
(* onboarding::Gate                                                        *)

InLine(g, n) == Holds(g.line, n)

Forget(g, n) == [g EXCEPT !.line = Leave(@, n)]

Enqueue(g, n) ==
    IF InLine(g, n) \/ Len(g.line) = MaxWaiters THEN g ELSE [g EXCEPT !.line = Append(@, n)]

\* Mutant of Grant: the new holder keeps its place in the line.
GrantInLine(g, n) == [g EXCEPT !.holder = n, !.denials = 0]

Grant(g, n) == [holder |-> n, line |-> Forget(g, n).line, denials |-> 0]

FirstInLine(g, n) == g.line = <<>> \/ Head(g.line) = n

\* Mutant of TryAcquire: the front of the line is never given up on.
TryAcquirePatient(g, n) ==
    IF g.holder = n THEN g
    ELSE IF g.holder = Nobody /\ FirstInLine(g, n) THEN Grant(g, n)
    ELSE Enqueue(g, n)

\* Gate::tryAcquire: the holder keeps it; a free gate goes to the front of the
\* line; a front that let more asks pass than a live one would is dropped.
TryAcquire(g, n) ==
    IF g.holder = n THEN g
    ELSE IF g.holder # Nobody THEN Enqueue(g, n)
    ELSE IF FirstInLine(g, n) THEN Grant(g, n)
    ELSE IF g.denials + 1 <= 2 * Len(g.line) + 2 THEN Enqueue([g EXCEPT !.denials = @ + 1], n)
    ELSE LET p == [g EXCEPT !.line = Tail(@), !.denials = 0]
         IN  IF FirstInLine(p, n) THEN Grant(p, n) ELSE Enqueue(p, n)

\* Gate::release
Released(g, n) == Forget([g EXCEPT !.holder = IF @ = n THEN Nobody ELSE @], n)

-----------------------------------------------------------------------------
(* The login challenge                                                     *)

\* acquire_onboarding_: granted, the hold starts and is polled.
Acquire(n) ==
    /\ gate' = TryAcquire(gate, n)
    /\ IF held[n] \/ gate'.holder # n THEN UNCHANGED <<held, hold>>
       ELSE held' = [held EXCEPT ![n] = TRUE] /\ hold' = [hold EXCEPT ![n] = NoHold]

Granted(n) == gate'.holder = n
PollAfter(n) == IF held'[n] /\ ~held[n] THEN "next" ELSE timer[n].poll

\* request_register: not while a deferred push waits for this very session.
AsksRegister(l) == ~l.synced /\ ~l.push

\* esp_random: an id neither side nor the air still holds.
FreshSession(n) == CHOOSE s \in SessionIds : s \notin {login[n].session, node[n].session, up[n].session}

\* Mutant of SendLogin: the hub still counts the node in during the challenge.
SendLoginConfident(n, l) ==
    LET s == IF l.pending THEN l.session ELSE FreshSession(n)
    IN  /\ login' = [login EXCEPT ![n] = [l EXCEPT !.pending = TRUE, !.session = s]]
        /\ down' = [down EXCEPT ![n] = [kind |-> "login", session |-> s, register |-> AsksRegister(l),
                                        rebooted |-> ~l.acked]]

\* send_login, from login state l.
SendLogin(n, l) ==
    LET s == IF l.pending THEN l.session ELSE FreshSession(n)
    IN  /\ login' = [login EXCEPT ![n] = [l EXCEPT !.confirmed = FALSE, !.relogin = TRUE,
                                                   !.pending = TRUE, !.session = s]]
        /\ down' = [down EXCEPT ![n] = [kind |-> "login", session |-> s, register |-> AsksRegister(l),
                                        rebooted |-> ~l.acked]]

\* Mutant of DoLogin: the LOGIN does not wait for the gate.
DoLoginUngated(n, l, t) ==
    /\ timer' = [timer EXCEPT ![n] = [t EXCEPT !.retry = "later"]]
    /\ SendLogin(n, [l EXCEPT !.acked = FALSE, !.retries = 0])
    /\ UNCHANGED <<gate, held, hold>>

\* do_login_and_arm_retry_ on login state l, with the timers of t.
DoLogin(n, l, t) ==
    /\ Acquire(n)
    /\ IF ~Granted(n)
         THEN /\ timer' = [timer EXCEPT ![n] = [t EXCEPT !.startup = "next"]]
              /\ login' = [login EXCEPT ![n] = l]
              /\ UNCHANGED down
         ELSE /\ timer' = [timer EXCEPT ![n] = [t EXCEPT !.retry = "later", !.poll = PollAfter(n)]]
              /\ SendLogin(n, [l EXCEPT !.acked = FALSE, !.retries = 0])

\* release_onboarding_, the poll timer with it.
Release(n, t) ==
    /\ gate' = IF held[n] THEN Released(gate, n) ELSE gate
    /\ held' = [held EXCEPT ![n] = FALSE]
    /\ timer' = [timer EXCEPT ![n] = IF held[n] THEN [t EXCEPT !.poll = "off"] ELSE t]

Due(n, name) == timer[n][name] = "now"
Fired(n, name) == [timer[n] EXCEPT ![name] = "off"]

StartupTimer(n) ==
    /\ Due(n, "startup")
    /\ DoLogin(n, login[n], Fired(n, "startup"))
    /\ UNCHANGED <<node, up, faults>>

\* login_retry_step_: not counted while another node holds the gate; the last
\* one gives up and lets the next node in.
RetryTimer(n) ==
    /\ Due(n, "retry")
    /\ UNCHANGED <<node, up, faults>>
    /\ IF login[n].acked
         THEN /\ timer' = [timer EXCEPT ![n].retry = "off"]
              /\ UNCHANGED <<gate, held, hold, login, down>>
         ELSE \/ /\ Acquire(n) /\ ~Granted(n)
                 /\ timer' = [timer EXCEPT ![n].retry = "next"]
                 /\ UNCHANGED <<login, down>>
              \/ /\ Acquire(n) /\ Granted(n)
                 /\ login[n].retries + 1 < MaxLoginRetries
                 /\ timer' = [timer EXCEPT ![n].retry = "later", ![n].poll = PollAfter(n)]
                 /\ SendLogin(n, [login[n] EXCEPT !.retries = @ + 1])
              \/ /\ TryAcquire(gate, n).holder = n
                 /\ login[n].retries + 1 >= MaxLoginRetries
                 /\ login' = [login EXCEPT ![n].retries = @ + 1]
                 /\ gate' = Released(TryAcquire(gate, n), n)
                 /\ held' = [held EXCEPT ![n] = FALSE]
                 /\ hold' = [hold EXCEPT ![n] = NoHold]
                 /\ timer' = [timer EXCEPT ![n].retry = "off", ![n].poll = "off"]
                 /\ UNCHANGED down

\* A deferred relogin because this boot has not synced the configuration.
SyncTimer(n) ==
    /\ Due(n, "sync")
    /\ IF login[n].synced
         THEN /\ timer' = [timer EXCEPT ![n].sync = "off"]
              /\ UNCHANGED <<gate, held, hold, login, down>>
         ELSE DoLogin(n, login[n], Fired(n, "sync"))
    /\ UNCHANGED <<node, up, faults>>

\* dlv_give_up_ and the other relogins the hub starts by itself.
GiveUp(n) ==
    /\ login[n].confirmed
    /\ faults < MaxFaults
    /\ faults' = faults + 1
    /\ DoLogin(n, [login[n] EXCEPT !.confirmed = FALSE], timer[n])
    /\ UNCHANGED <<node, up>>

-----------------------------------------------------------------------------
(* The hold                                                                *)

\* onboarding::assess of hold h; drained: the hub's own queue is empty; owed:
\* a schedule push can still be retried.
Verdict(h, drained, owed) ==
    IF h.age >= HoldPolls THEN "capped"
    ELSE IF h.confirmed /\ h.since >= SettlePolls /\ drained /\ ~owed THEN "settled"
    ELSE IF ~h.confirmed /\ ~h.heard /\ drained /\ h.age >= SilentPolls THEN "silent"
    ELSE "keep"

\* onboarding_poll_
PollTimer(n) ==
    /\ Due(n, "poll")
    /\ \E drained, owed \in BOOLEAN :
         LET h == [hold[n] EXCEPT !.age = @ + 1, !.since = IF hold[n].confirmed THEN @ + 1 ELSE @]
         IN  IF Verdict(h, drained, owed) = "keep"
               THEN /\ hold' = [hold EXCEPT ![n] = h]
                    /\ timer' = [timer EXCEPT ![n].poll = "next"]
                    /\ UNCHANGED <<gate, held>>
               ELSE /\ hold' = [hold EXCEPT ![n] = NoHold]
                    /\ Release(n, Fired(n, "poll"))
    /\ UNCHANGED <<login, node, down, up, faults>>

-----------------------------------------------------------------------------
(* Uplinks                                                                 *)

\* handle_register_: an unprovisioned node gets its config in the clear now, a
\* provisioned one when its session is confirmed; the next login is fresh.
HandleRegister(n) ==
    /\ up[n].kind = "register"
    /\ up' = [up EXCEPT ![n] = NoFrame]
    /\ hold' = [hold EXCEPT ![n].heard = held[n]]
    /\ LET l == login[n]
           clear == up[n].needsConfig
       IN  /\ login' = [login EXCEPT ![n] =
                          [l EXCEPT !.synced = @ \/ clear, !.push = @ \/ (~clear /\ ~l.synced),
                                    !.acked = FALSE, !.retries = 0, !.relogin = TRUE, !.pending = FALSE]]
           /\ node' = [node EXCEPT ![n].provisioned = @ \/ clear]
    /\ timer' = [timer EXCEPT ![n].startup = "later", ![n].retry = "off"]
    /\ UNCHANGED <<gate, held, down, faults>>

\* confirm_session_: the deferred config push is made, the login is acked.
Confirmed(l) ==
    [l EXCEPT !.confirmed = TRUE, !.relogin = FALSE, !.pending = FALSE, !.acked = TRUE, !.retries = 0,
              !.synced = @ \/ l.push, !.push = FALSE]

\* An uplink of the session the hub offered confirms it.
HandleUplink(n) ==
    /\ up[n].kind = "sealed" /\ up[n].session = login[n].session
    /\ up' = [up EXCEPT ![n] = NoFrame]
    /\ login' = [login EXCEPT ![n] = Confirmed(@)]
    /\ hold' = [hold EXCEPT ![n] = [@ EXCEPT !.heard = held[n], !.confirmed = held[n]]]
    /\ timer' = [timer EXCEPT ![n] =
                   IF login[n].acked THEN @
                   ELSE [timer[n] EXCEPT !.retry = "off",
                           !.sync = IF Confirmed(login[n]).synced THEN timer[n].sync ELSE "later"]]
    /\ UNCHANGED <<gate, held, node, down, faults>>

\* An uplink of an older session: dropped, or, when the hub holds no session id
\* for the node (uplink_check_base_nonce_), answered with a login.
HandleStrayUplink(n) ==
    /\ up[n].kind = "sealed" /\ up[n].session # login[n].session
    /\ up' = [up EXCEPT ![n] = NoFrame]
    /\ IF login[n].session = 0
         THEN DoLogin(n, login[n], timer[n])
         ELSE UNCHANGED <<gate, held, hold, timer, login, down>>
    /\ UNCHANGED <<node, faults>>
-----------------------------------------------------------------------------
(* Time                                                                    *)

\* A delay elapses.  A retry waits out the round trip of its LOGIN
\* (ack_wait_ms_, ms_until_node_awake_) except when answers are slow, which is
\* bounded like a loss.
Elapse(n, name) ==
    /\ timer[n][name] = "later"
    /\ timer' = [timer EXCEPT ![n][name] = "now"]
    /\ IF name = "retry" /\ (down[n] # NoFrame \/ up[n] # NoFrame)
         THEN faults < MaxFaults /\ faults' = faults + 1
         ELSE UNCHANGED faults
    /\ UNCHANGED <<gate, held, hold, login, node, down, up>>

\* kPollMs pass: everything due in this round has run.
Tick ==
    /\ \A n \in Nodes, t \in TimerNames : ~Due(n, t)
    /\ \E n \in Nodes, t \in TimerNames : timer[n][t] = "next"
    /\ timer' = [n \in Nodes |-> [t \in TimerNames |-> IF timer[n][t] = "next" THEN "now" ELSE timer[n][t]]]
    /\ UNCHANGED <<gate, held, hold, login, node, down, up, faults>>

-----------------------------------------------------------------------------
(* The nodes and the radio, as far as the hub sees them                    *)

\* A LOGIN that asks for it is answered with a REGISTER and not adopted; any
\* other is adopted and answered under the new session.
NodeLogin(n) ==
    /\ down[n] # NoFrame /\ up[n] = NoFrame
    /\ down' = [down EXCEPT ![n] = NoFrame]
    /\ \/ /\ n \in Absent
          /\ UNCHANGED <<node, up>>
       \/ /\ n \notin Absent /\ down[n].register /\ n \notin Legacy
          /\ up' = [up EXCEPT ![n] = [kind |-> "register", session |-> 0, asked |-> TRUE,
                                      needsConfig |-> ~node[n].provisioned]]
          /\ UNCHANGED node
       \/ /\ n \notin Absent /\ (~down[n].register \/ n \in Legacy)
          /\ node' = [node EXCEPT ![n].session = down[n].session]
          /\ up' = [up EXCEPT ![n] = Sealed(down[n].session)]
    /\ UNCHANGED <<gate, held, hold, timer, login, faults>>

\* The node restarts, perhaps with its configuration erased, and registers.
NodeReboot(n) ==
    /\ n \notin Absent /\ up[n] = NoFrame
    /\ faults < MaxFaults
    /\ faults' = faults + 1
    /\ \E p \in BOOLEAN :
         /\ node' = [node EXCEPT ![n] = [session |-> 0, provisioned |-> p]]
         /\ up' = [up EXCEPT ![n] = [kind |-> "register", session |-> 0, asked |-> FALSE,
                                     needsConfig |-> ~p]]
    /\ UNCHANGED <<gate, held, hold, timer, login, down>>

\* Lost in the air, or a REGISTER too soon after the last (kRegisterRateLimitUs).
\* A restarted node repeats its REGISTER until the hub has it.
Lost(n) ==
    /\ faults < MaxFaults
    /\ faults' = faults + 1
    /\ \/ /\ down[n] # NoFrame
          /\ down' = [down EXCEPT ![n] = NoFrame]
          /\ UNCHANGED up
       \/ /\ up[n].kind = "sealed" \/ (up[n].kind = "register" /\ up[n].asked)
          /\ up' = [up EXCEPT ![n] = NoFrame]
          /\ UNCHANGED down
    /\ UNCHANGED <<gate, held, hold, timer, login, node>>

-----------------------------------------------------------------------------
Timer(n) == StartupTimer(n) \/ RetryTimer(n) \/ SyncTimer(n) \/ PollTimer(n)
Uplink(n) == HandleRegister(n) \/ HandleUplink(n) \/ HandleStrayUplink(n)
Environment(n) == NodeLogin(n) \/ NodeReboot(n) \/ Lost(n) \/ GiveUp(n)

Next == Tick \/ \E n \in Nodes : \/ Timer(n) \/ Uplink(n) \/ Environment(n)
                               \/ \E t \in TimerNames : Elapse(n, t)

Spec == Init /\ [][Next]_vars

\* The loop runs every timer that is due and every uplink received, time passes,
\* and a node that has a LOGIN answers it.
FairSpec ==
    /\ Spec
    /\ SF_vars(Tick)
    /\ \A n \in Nodes :
         /\ WF_vars(StartupTimer(n)) /\ WF_vars(RetryTimer(n)) /\ WF_vars(SyncTimer(n))
         /\ WF_vars(PollTimer(n)) /\ WF_vars(Uplink(n)) /\ WF_vars(NodeLogin(n))
         /\ \A t \in TimerNames : WF_vars(Elapse(n, t))

-----------------------------------------------------------------------------
(* Properties                                                              *)

\* Types of the gate, the listeners and the frames under way; no hold reaches its cap, no
\* retry its limit, and there is always a session id to offer.
TimerStates == {"off", "later", "next", "now"}
Sessions == SessionIds \cup {0}
LoginFrames == [kind : {"login"}, session : Sessions, register : BOOLEAN, rebooted : BOOLEAN]
Sealeds == [kind : {"sealed"}, session : Sessions]
Registers == [kind : {"register"}, session : {0}, asked : BOOLEAN, needsConfig : BOOLEAN]

TypeOK ==
    /\ gate \in [holder : Nodes \cup {Nobody}, line : Seq(Nodes), denials : Nat]
    /\ held \in [Nodes -> BOOLEAN]
    /\ hold \in [Nodes -> [age : 0..HoldPolls-1, confirmed : BOOLEAN, since : Nat, heard : BOOLEAN]]
    /\ timer \in [Nodes -> [TimerNames -> TimerStates]]
    /\ login \in [Nodes -> [acked : BOOLEAN, retries : 0..MaxLoginRetries, relogin : BOOLEAN,
                            confirmed : BOOLEAN, pending : BOOLEAN, session : Sessions,
                            synced : BOOLEAN, push : BOOLEAN]]
    /\ node \in [Nodes -> [session : Sessions, provisioned : BOOLEAN]]
    /\ down \in [Nodes -> {NoFrame} \cup LoginFrames]
    /\ up \in [Nodes -> {NoFrame} \cup Sealeds \cup Registers]

\* The gate's holder and the listeners' own flags never disagree (a stale timer
\* or a late answer frees nobody else's hold), whoever holds it is polled, so no
\* hold can outlive its cap, and nobody waits in line twice or behind itself.
GateAgrees ==
    /\ \A n \in Nodes : /\ held[n] <=> gate.holder = n
                        /\ held[n] => timer[n].poll # "off"
    /\ Distinct(gate.line) /\ ~Holds(gate.line, gate.holder)

\* One node is brought up at a time: a LOGIN goes out only to the node that holds
\* the gate, whichever of the four paths sends it.
OneOnboarding == [][\A n \in Nodes : down'[n] # down[n] /\ down'[n] # NoFrame => gate'.holder = n]_vars

\* The hub counts a node in (session_confirmed_ and no relogin_pending_) only while
\* both hold the same session, or the node has restarted and its REGISTER is under
\* way: no late or repeated answer revives a session one side has left.
ConfirmedIsShared ==
    \A n \in Nodes : login[n].confirmed /\ ~login[n].relogin =>
        \/ node[n].session = login[n].session
        \/ up[n].kind = "register"

\* Gate, listeners and nodes agree: nobody holds the gate unknown to it, nobody is counted in
\* whose session is another.
OnboardingAgrees == GateAgrees /\ ConfirmedIsShared

\* Every node that is there ends up with a confirmed session and its
\* configuration, whatever the others do and however the gate is contended.  One
\* of older firmware, to which the configuration is never pushed, is brought up
\* again and again (ConfigReloginsEnd): it keeps no other node out by that.
Live(n) == login[n].confirmed /\ ~login[n].relogin /\ node[n].session = login[n].session
EveryNodeOnboarded ==
    \A n \in Nodes \ Absent :
        IF n \in Legacy THEN []<>Live(n) ELSE <>[](Live(n) /\ login[n].synced)

\* LOGIN tells the node the hub has restarted (hub_rebooted) only when it has: not
\* on the challenges of a hub that stayed up and whose session the node still holds
\* (send_login: "never by the OTHER triggers ... while the node stays up").
HubRebootedOnlyOnce ==
    [][\A n \in Nodes :
        /\ down'[n] # down[n] /\ down'[n] # NoFrame
        /\ login[n].acked /\ login[n].session = node[n].session
        => ~down'[n].rebooted]_vars

\* Older firmware that ignores request_register costs one config-sync relogin
\* and not a loop of them (confirm_session_, "Loop-safe"): in the end none is
\* scheduled.
ConfigReloginsEnd == \A n \in Nodes : <>[](timer[n].sync = "off")

-----------------------------------------------------------------------------
(* The inductive invariant behind OnboardingAgrees. *)

\* A LOGIN on the air offers the hub's session, a sealed uplink carries its node's, and a
\* node that left a confirmed session has told so in a REGISTER nobody asked it for, which
\* is repeated until it is heard.
FramesAgree ==
    \A n \in Nodes :
        /\ down[n] # NoFrame => down[n].session = login[n].session
        /\ up[n].kind = "sealed" => up[n].session = node[n].session
        /\ login[n].confirmed /\ ~login[n].relogin =>
              \/ node[n].session = login[n].session
              \/ up[n].kind = "register" /\ ~up[n].asked

\* A retry that is under way has not used up its tries.
RetriesLeft == \A n \in Nodes : timer[n].retry # "off" => login[n].retries < MaxLoginRetries

OnboardingInv == TypeOK /\ GateAgrees /\ FramesAgree /\ RetriesLeft
=============================================================================
