-------------------------------- MODULE Delivery --------------------------------
(***************************************************************************)
(* The Control channel of the hub's delivery service for one node: one     *)
(* command in hand (a cover operation or a sysop), the line behind it, the *)
(* retry ladder, the ack-id record, and what a relogin, a node reboot and  *)
(* the nightly sleep do to them.  Everything here runs on the loop task,   *)
(* so one handler is one step; what interleaves is the handlers, the radio *)
(* (which loses frames) and the node (which sleeps and reboots).           *)
(*                                                                         *)
(* hub is the listener's state as a record; the code's functions are       *)
(* functions from hub to hub, so a handler that calls them is their        *)
(* composition.  e is what the environment decides within one handler:     *)
(* e.ok, the frame could be built; e.opt, it goes out as an optimistic     *)
(* single shot; e.gate, the onboarding gate is free.                       *)
(***************************************************************************)
EXTENDS WaitLine, Sequencer, AckCache

CONSTANTS
    MaxRetries,     \* deliverypolicy::kControlMaxRetries, 4 in the code
    QueueDepth,     \* ControlQueue::kDepth, 4 in the code
    AckCap,         \* AckIds::kCap, 8 in the code
    ReplayWindow,   \* mac1::kReplayWindow, 64 in the code
    CacheEntries,   \* ackcache::Cache::kEntries, 4 in the code
    MaxReAcks,      \* ackcache::kMaxReAcks, 3 in the code
    Optimistic,     \* may a first attempt be an optimistic single shot?
    UserKinds,      \* the kinds of commands the user gives
    MaxCommands,    \* bound: commands the user gives
    MaxFaults,      \* bound: node reboots, frames that cannot be built, frames of
                    \* other channels and uplinks the node sends on its own
    MaxUp           \* bound: uplinks on their way at one time

ASSUME PolicyAssumption == MaxRetries \in Nat /\ QueueDepth \in Nat /\ AckCap \in Nat \ {0}
ASSUME NodeAssumption   == {ReplayWindow, CacheEntries} \subseteq Nat \ {0} /\ MaxReAcks \in Nat
ASSUME ShotAssumption   == Optimistic \in BOOLEAN
ASSUME BoundsAssumption == {MaxCommands, MaxFaults, MaxUp} \subseteq Nat

Kinds == {"cover", "sysop", "sleep", "ota"}

ASSUME KindsAssumption == UserKinds \subseteq Kinds

VARIABLES
    hub,
    asked,      \* kind of each command given so far
    node,       \* base nonce adopted, the last one, its key, replay window, cache, asleep
    up,         \* uplinks on their way, oldest first
    ran,        \* history: <<command, key, fcnt, again>> the node executed
    faults      \* how much of MaxFaults is spent

vars == <<hub, asked, node, up, ran, faults>>

\* A downlink: a command under a session key (0: in the clear), or, with
\* command 0, the LOGIN that proposes session key.  A session key is named by
\* the node nonce it is derived from, a session by its base nonce.
NoFrame == [key |-> 0, fcnt |-> 0, cmd |-> 0]

KindOf(id)  == asked[id]

\* The hub has logged the node in once: session 1 is confirmed both ways.
Init ==
    /\ hub = [cmd |-> 0, awaiting |-> FALSE, retries |-> 0, acks |-> <<>>, timer |-> "off",
              deferred |-> FALSE, shortSpent |-> FALSE, opt |-> FALSE, frame |-> NoFrame,
              line |-> <<>>, hold |-> FALSE, asleep |-> FALSE, unconfirmed |-> FALSE, expiry |-> FALSE,
              relogin |-> FALSE, confirmed |-> TRUE, pending |-> FALSE, key |-> 1,
              login |-> "off", sess |-> 1, tx |-> 1, sent |-> {}, ended |-> <<>>]
    /\ asked = <<>>
    /\ node = [sess |-> 1, last |-> 1, key |-> 1, nonces |-> 1, win |-> FreshWindow,
              cache |-> <<>>, asleep |-> FALSE]
    /\ up = <<>>
    /\ ran = {}
    /\ faults = 0

-----------------------------------------------------------------------------
(* The slot: one attempt, its wait, its end                                *)

\* AckIds::add: a full record forgets its oldest id.
AddId(acks, id) ==
    IF Len(acks) < AckCap THEN Append(acks, id) ELSE Append(Tail(acks), id)

Acknowledges(h, id) == \E n \in DOMAIN h.acks : h.acks[n] = id

\* The command in hand ends as o, unless it already has.
Close(h, o) ==
    [h EXCEPT !.ended = [i \in DOMAIN @ |-> IF i = h.cmd /\ @[i] = "open" THEN o ELSE @[i]]]

\* mac_frame_: sealed once a session is confirmed, in the clear before.
Built(h, e) ==
    [key |-> IF h.confirmed THEN h.key ELSE 0, fcnt |-> h.tx + 1, cmd |-> h.cmd]

CanBuild(h, e) == e.ok /\ (h.confirmed => h.key # 0)

\* dlv_tx_ and dlv_attempt_.  A retry re-sends the stored bytes; every other
\* attempt takes a fresh FCNT, which is on record even if no frame comes of it.
Transmit(h, retry, e) ==
    LET same == retry /\ h.frame # NoFrame
        framed == same \/ CanBuild(h, e)
        f == IF same THEN h.frame ELSE Built(h, e)
        opt == IF framed THEN e.opt ELSE h.opt
    IN  [h EXCEPT !.tx = IF same THEN @ ELSE f.fcnt,
                  !.frame = IF framed THEN f ELSE @,
                  !.sent = IF framed THEN @ \cup {f} ELSE @,
                  !.acks = AddId(@, f.fcnt),
                  !.opt = opt,
                  !.awaiting = TRUE,
                  !.timer = IF opt /\ h.retries = 0 /\ ~h.shortSpent THEN "short" ELSE "long"]

\* deliver_: the request replaces the one in the slot, with a ladder of its own and
\* none of its bytes, and goes out.
Deliver(h, e) ==
    Transmit([h EXCEPT !.retries = 0, !.awaiting = FALSE, !.frame = NoFrame], FALSE, e)

\* Mutant of SendInHand: the ids of the command it replaces stay on record.
SendInHandKeepIds(h, e) == Deliver([h EXCEPT !.deferred = FALSE, !.shortSpent = FALSE], e)

\* ctl_send_
SendInHand(h, e) ==
    Deliver([h EXCEPT !.deferred = FALSE, !.shortSpent = FALSE, !.acks = <<>>], e)

\* ctl_begin_: the generation is bumped, so the tracker drops what it still
\* holds of an older command (SupersedeTable).
Begin(h, id, hold, e) ==
    LET b == [h EXCEPT !.cmd = id, !.sent = {f \in @ : f.cmd = 0}]
    IN  IF b.relogin \/ hold THEN [b EXCEPT !.deferred = TRUE] ELSE SendInHand(b, e)

\* Mutant of NextInLine: a command that waited behind a sleep is sent at once.
NextUnheld(h, e) ==
    IF h.line = <<>> THEN h
    ELSE Begin([h EXCEPT !.line = Tail(@)], Head(h.line), FALSE, e)

\* ctl_next_
NextInLine(h, e) ==
    IF h.line = <<>> THEN h
    ELSE Begin([h EXCEPT !.line = Tail(@)], Head(h.line), h.hold, e)

\* dlv_cancel_
Cancel(h) == [h EXCEPT !.timer = "off", !.awaiting = FALSE, !.retries = 0, !.acks = <<>>]

-----------------------------------------------------------------------------
(* Sessions                                                                *)

\* send_login: a fresh challenge is a new session and drops the keys with the
\* bytes sealed under them; a retry repeats the pending one.  Either way the
\* counters restart, so no id on record means anything any more.
SendLogin(h) ==
    LET s == IF h.pending THEN h.sess ELSE h.sess + 1
        k == IF h.pending THEN h ELSE [h EXCEPT !.key = 0, !.frame = NoFrame]
    IN  [k EXCEPT !.sess = s, !.pending = TRUE, !.tx = 1, !.acks = <<>>, !.confirmed = FALSE,
                  !.relogin = TRUE, !.login = "sent",
                  !.sent = @ \cup {[key |-> s, fcnt |-> 1, cmd |-> 0]}]

\* do_login_and_arm_retry_: at once, or polling while another node is onboarded.
Login(h, e) == IF e.gate THEN SendLogin(h) ELSE [h EXCEPT !.login = "due"]

\* note_node_heard_
Heard(h) == [h EXCEPT !.asleep = FALSE, !.unconfirmed = FALSE]

\* Mutant of Confirm: the deferred command is forgotten.
ConfirmOnly(h, k, e) ==
    [h EXCEPT !.confirmed = TRUE, !.relogin = FALSE, !.pending = FALSE, !.key = k,
              !.hold = FALSE, !.login = IF @ = "sent" THEN "off" ELSE @]

\* confirm_session_ and send_deferred_tracked_op_: what waited for the session
\* or for the node's wake is sent now.
Confirm(h, k, e) ==
    LET c == [h EXCEPT !.confirmed = TRUE, !.relogin = FALSE, !.pending = FALSE, !.key = k,
                       !.hold = FALSE, !.login = IF @ = "sent" THEN "off" ELSE @]
    IN  IF c.deferred THEN SendInHand(c, e) ELSE c

\* handle_register_: the node restarted, so the session and its keys are void.
Registered(h) ==
    [Heard(h) EXCEPT !.relogin = TRUE, !.pending = FALSE, !.key = 0, !.frame = NoFrame,
                     !.login = "due"]

-----------------------------------------------------------------------------
(* The end of a command                                                    *)

\* on_sleep_acknowledged_: the session ends with the sleep, and the fallback
\* login is armed for the modelled wake.
SleepAcknowledged(h) ==
    [h EXCEPT !.unconfirmed = FALSE, !.hold = TRUE, !.asleep = TRUE, !.pending = FALSE,
              !.login = "fallback"]

\* dlv_ack_ with on_ctl_acked_
Acked(h, e) ==
    LET d == Close(h, "delivered")
        s == IF KindOf(h.cmd) = "sleep" THEN SleepAcknowledged(d) ELSE d
    IN  NextInLine(Cancel(s), e)

\* dlv_refused_: the node heard the command and will not execute it.
Refused(h, e) == NextInLine(Close(Cancel(h), "failed"), e)

\* on_ctl_abandoned_: a late ack must not revive it.
Abandoned(h) == Close([h EXCEPT !.acks = <<>>], "failed")

\* dlv_abandon_
Abandon(h, e) == NextInLine(Abandoned([h EXCEPT !.awaiting = FALSE, !.timer = "off"]), e)

\* on_sleep_unconfirmed_: silence after a sleep proves nothing.
SleepUnconfirmed(h) == Close([h EXCEPT !.awaiting = FALSE, !.unconfirmed = TRUE], "failed")

\* on_ctl_failed_
Failed(h) ==
    LET q == [h EXCEPT !.acks = <<>>]
    IN  IF KindOf(h.cmd) = "sleep" THEN SleepUnconfirmed(q) ELSE Close(q, "failed")

\* dlv_give_up_: the ladder ran out.  Silence ends the session, except after a sleep.
GiveUp(h, e) ==
    LET f == Failed([h EXCEPT !.awaiting = FALSE, !.timer = "off"])
    IN  NextInLine(IF KindOf(h.cmd) = "sleep" THEN f ELSE Login([f EXCEPT !.confirmed = FALSE], e), e)

\* An OTA whose bytes are gone may not be packed again.
Resendable(h) == ~(KindOf(h.cmd) = "ota" /\ h.frame = NoFrame)

\* Mutant of Resend: a command whose bytes are gone is always packed again.
ResendAlways(h, e) == Transmit([h EXCEPT !.retries = @ + 1], TRUE, e)

\* dlv_resend_
Resend(h, e) ==
    LET r == [h EXCEPT !.retries = @ + 1]
    IN  IF Resendable(r) THEN Transmit(r, TRUE, e) ELSE Abandon(r, e)

\* onAckTimeout and the handlers of its verdicts.  A short wait that was missed
\* costs no retry (dlv_short_wait_missed_).
TimedOut(h, e) ==
    IF ~h.awaiting THEN [h EXCEPT !.timer = "off"]
    ELSE IF h.relogin THEN h
    ELSE IF h.timer = "short" THEN Transmit([h EXCEPT !.shortSpent = TRUE], TRUE, e)
    ELSE IF h.retries + 1 > MaxRetries THEN GiveUp([h EXCEPT !.retries = @ + 1], e)
    ELSE Resend(h, e)

-----------------------------------------------------------------------------
(* The hub's handlers                                                      *)

Env ==
    {e \in [ok : BOOLEAN, opt : {FALSE, Optimistic}, gate : BOOLEAN] : e.ok \/ faults < MaxFaults}

\* A handler makes hub' of f(e), for some environment.
Handle(f(_)) ==
    \E e \in Env :
        /\ hub' = f(e)
        /\ faults' = IF e.ok THEN faults ELSE faults + 1

Busy(h) == h.awaiting \/ h.deferred

\* ControlQueue::find: the places of commands of kind k in a line.  No more than one cover
\* operation and one sleep ever wait.
Places(line, k) == {n \in 1..Len(line) : KindOf(line[n]) = k}
Found(line, k)  == CHOOSE n \in Places(line, k) : TRUE

\* removeCover, removeSysop: the line without that command; who it was.
Removed(line, k) == IF Places(line, k) = {} THEN line ELSE Without(line, Found(line, k))
Gone(line, k)    == IF Places(line, k) = {} THEN {} ELSE {line[Found(line, k)]}

SleepInHand(h) == h.cmd # 0 /\ KindOf(h.cmd) = "sleep" /\ Busy(h)
SleepWaits(h)  == Places(h.line, "sleep") # {}

\* Mutant of Replaces: what is in hand is not looked at.
ReplacesAny(h, k) == k = "cover"

\* admitControl: only a cover operation is replaced, and only by another.
Replaces(h, k) == k = "cover" /\ KindOf(h.cmd) = "cover"

\* ctl_submit_ and, for a sleep, enterSleep: ignored, started, put in place of
\* a cover operation, or queued (ctl_enqueue_, ControlQueue::push).
Submitted(h, k, e) ==
    LET id == Len(h.ended) + 1
        add(o, old) == [i \in 1..id |-> IF i = id THEN o ELSE IF i \in old THEN "superseded" ELSE h.ended[i]]
        rest == IF k = "cover" THEN Removed(h.line, k) ELSE h.line
        gone == IF k = "cover" THEN Gone(h.line, k) ELSE {}
        s == IF k = "sleep" THEN [h EXCEPT !.expiry = TRUE] ELSE h
    IN  IF (k = "sleep" /\ (SleepInHand(h) \/ SleepWaits(h))) \/ (k # "sleep" /\ h.asleep)
          THEN [h EXCEPT !.ended = add("ignored", {})]
        ELSE IF ~Busy(h)
          THEN Begin([s EXCEPT !.ended = add("open", {})], id, FALSE, e)
        ELSE IF Replaces(h, k)
          THEN Begin([s EXCEPT !.ended = add("open", {h.cmd})], id, FALSE, e)
        ELSE IF Len(rest) = QueueDepth
          THEN [s EXCEPT !.line = rest, !.ended = add("full", gone)]
        ELSE [s EXCEPT !.line = Append(rest, id), !.ended = add("open", gone)]

Submit(k) ==
    /\ Len(asked) < MaxCommands
    /\ asked' = Append(asked, k)
    /\ Handle(LAMBDA e : Submitted(hub, k, e))
    /\ UNCHANGED <<node, up, ran>>

\* on_dlv_timeout_
Timeout ==
    /\ hub.timer # "off"
    /\ Handle(LAMBDA e : TimedOut(hub, e))
    /\ UNCHANGED <<asked, node, up, ran>>

\* The login timers: startup, register, gate poll, retry; the fallback after a
\* sleep is skipped when the node has resumed its session and acks.
LoginTimer ==
    /\ hub.login \in {"due", "fallback"} \/ hub.relogin
    /\ hub' = SendLogin(hub)
    /\ UNCHANGED <<asked, node, up, ran, faults>>

FallbackSkipped ==
    /\ hub.login = "fallback"
    /\ hub.confirmed /\ ~hub.relogin /\ ~hub.hold
    /\ hub' = [hub EXCEPT !.login = "off"]
    /\ UNCHANGED <<asked, node, up, ran, faults>>

\* The modelled wake is reached: the hub stops refusing commands.
WakeTime ==
    /\ hub.asleep
    /\ hub' = [hub EXCEPT !.asleep = FALSE]
    /\ UNCHANGED <<asked, node, up, ran, faults>>

\* expire_pending_sleep_ and drop_stale_sleep_: only while a relogin hangs.
SleepExpired(h, e) ==
    LET x == [h EXCEPT !.expiry = FALSE]
    IN  IF ~h.relogin THEN x
        ELSE IF SleepInHand(h)
          THEN NextInLine(SleepUnconfirmed([x EXCEPT !.deferred = FALSE, !.timer = "off"]), e)
        ELSE [x EXCEPT !.line = Removed(@, "sleep"),
                       !.ended = [i \in DOMAIN @ |-> IF i \in Gone(h.line, "sleep") THEN "dropped" ELSE @[i]]]

SleepExpiry ==
    /\ hub.expiry
    /\ Handle(LAMBDA e : SleepExpired(hub, e))
    /\ UNCHANGED <<asked, node, up, ran>>

\* handle_command_ack_: only an id on record ends the command.
CommandAck(h, u, e) ==
    IF ~Acknowledges(h, u.ack) THEN h
    ELSE IF u.ok THEN Acked(h, e) ELSE Refused(h, e)

\* dispatch_payload_: only the ack of a MAC port is an answer; a beacon or a POSITION
\* proves no delivery.
Dispatched(h, u, e) == IF u.ack = 0 THEN h ELSE CommandAck(h, u, e)

\* uplink_accept_: hearing the node confirms the session before the payload is looked at.
Answered(h, u, e) == Dispatched(Confirm(Heard(h), u.key, e), u, e)

\* An uplink of the hub's session that it holds the keys for, or can derive them from.
Decrypts(h, u) == u.sess = h.sess /\ (u.key = h.key \/ (u.opening /\ h.key = 0))

\* handle_encrypted_: what does not verify is dropped before anything changes.
HandleEncrypted(u) ==
    IF Decrypts(hub, u) THEN Handle(LAMBDA e : Answered(hub, u, e)) ELSE UNCHANGED <<hub, faults>>

IsRegister(u) == u.key = 0

\* The oldest uplink on its way reaches the hub.
Receive ==
    /\ up # <<>>
    /\ LET u == Head(up)
       IN  IF IsRegister(u) THEN Handle(LAMBDA e : Registered(hub)) ELSE HandleEncrypted(u)
    /\ up' = Tail(up)
    /\ UNCHANGED <<asked, node, ran>>

-----------------------------------------------------------------------------
(* The radio and the node (external: modelled from what the hub relies on) *)

Uplink(ack, ok, opening) ==
    [sess |-> node'.sess, key |-> node'.key, ack |-> ack, ok |-> ok, opening |-> opening]

\* An uplink is lost when MaxUp are on their way.
Send(u) == up' = IF Len(up) < MaxUp THEN Append(up, u) ELSE up

LoseUplink ==
    /\ up # <<>>
    /\ up' = Tail(up)
    /\ UNCHANGED <<hub, asked, node, ran, faults>>

\* The frames a node with this key, last logged in to s, can still accept.
Receivable(key, s, F) == {f \in F : f.key >= s /\ f.cmd = 0} \cup {f \in F : f.key = key /\ f.cmd # 0}

\* A LOGIN: a session not held is adopted under a fresh node nonce, the one
\* held is answered again.
NodeLogin(f) ==
    /\ ~node.asleep
    /\ f.cmd = 0 /\ f.key >= node.last
    /\ node' = IF f.key = node.sess THEN node
               ELSE [node EXCEPT !.sess = f.key, !.last = f.key, !.nonces = @ + 1,
                                 !.key = node.nonces + 1,
                                 !.win = FreshWindow, !.cache = <<>>]
    /\ Send(Uplink(0, TRUE, TRUE))
    /\ hub' = [hub EXCEPT !.sent = Receivable(node'.key, f.key, @ \ {f})]
    /\ UNCHANGED <<asked, ran, faults>>

New(f) == Admissible(node.win, f.fcnt, ReplayWindow)

\* The node after a frame it accepted and answered.
Taken(f, ok) ==
    [node EXCEPT !.win = Admitted(@, f.fcnt, ReplayWindow), !.cache = Noted(@, f.fcnt, ok, CacheEntries)]

Ran(f) == LET again == \E x \in ran : x[1] = f.cmd /\ x[2] = f.key /\ x[3] = f.fcnt
          IN  ran \cup {<<f.cmd, f.key, f.fcnt, again>>}

\* A command the replay filter lets through is executed or refused, and acked.  A
\* plaintext one is accepted only outside a session, and its ack is not one the
\* hub trusts.
NodeCommand(f, ok) ==
    /\ ~node.asleep
    /\ f.cmd # 0 /\ f.key = node.key
    /\ New(f)
    /\ node' = [Taken(f, ok) EXCEPT !.asleep = ok /\ KindOf(f.cmd) = "sleep"]
    /\ ran' = IF ok THEN Ran(f) ELSE ran
    /\ IF f.key = 0 THEN UNCHANGED up ELSE Send(Uplink(f.fcnt, ok, FALSE))
    /\ hub' = [hub EXCEPT !.sent = @ \ {f}]
    /\ UNCHANGED <<asked, faults>>

\* One it has accepted before is only answered again, or dropped.
NodeReplay(f) ==
    /\ ~node.asleep
    /\ f.cmd # 0 /\ f.key = node.key
    /\ ~New(f)
    /\ IF f.key # 0 /\ AnsweredAgain(node.cache, f.fcnt, MaxReAcks)
         THEN /\ node' = [node EXCEPT !.cache = ReAcked(@, f.fcnt)]
              /\ Send(Uplink(f.fcnt, EntryOf(node.cache, f.fcnt).ok, FALSE))
         ELSE UNCHANGED <<node, up>>
    /\ hub' = [hub EXCEPT !.sent = @ \ {f}]
    /\ UNCHANGED <<asked, ran, faults>>

\* A ScheduleConfig or a GridSync goes out between the attempts of a command, on
\* a channel of its own (deliver_), and takes the next FCNT.  If it is heard, the
\* node remembers it like a command; its ack is to this channel a status report.
OtherChannel ==
    LET f == [key |-> hub.key, fcnt |-> hub.tx + 1, cmd |-> 0]
    IN  /\ faults < MaxFaults
        /\ hub.awaiting   \* where it matters
        /\ hub.confirmed /\ ~hub.relogin /\ ~hub.asleep
        /\ faults' = faults + 1
        /\ hub' = [hub EXCEPT !.tx = f.fcnt]
        /\ node' \in {node} \cup (IF node.asleep \/ node.key # f.key THEN {} ELSE {Taken(f, TRUE)})
        /\ UNCHANGED <<asked, up, ran>>

NodeStatus ==
    /\ ~node.asleep /\ node.sess # 0
    /\ faults < MaxFaults
    /\ UNCHANGED node
    /\ Send(Uplink(0, TRUE, FALSE))
    /\ faults' = faults + 1
    /\ UNCHANGED <<hub, asked, ran>>

\* The node wakes and resumes its session.
NodeWake ==
    /\ node.asleep
    /\ node' = [node EXCEPT !.asleep = FALSE]
    /\ Send(Uplink(0, TRUE, FALSE))
    /\ UNCHANGED <<hub, asked, ran, faults>>

\* The node restarts (an OTA, a brownout, a wake without its RAM) and REGISTERs.
NodeReboot ==
    /\ faults < MaxFaults
    /\ faults' = faults + 1
    /\ node' = [node EXCEPT !.sess = 0, !.key = 0, !.win = FreshWindow, !.cache = <<>>,
                            !.asleep = FALSE]
    /\ Send(Uplink(0, TRUE, FALSE))
    /\ hub' = [hub EXCEPT !.sent = Receivable(0, node.last, @)]
    /\ UNCHANGED <<asked, ran>>

Hub ==
    \/ \E k \in UserKinds : Submit(k)
    \/ Timeout \/ LoginTimer \/ FallbackSkipped \/ WakeTime \/ SleepExpiry \/ Receive

Node ==
    \/ \E f \in hub.sent :
         NodeLogin(f) \/ NodeReplay(f) \/ \E ok \in BOOLEAN : NodeCommand(f, ok)
    \/ OtherChannel \/ NodeStatus \/ NodeWake \/ NodeReboot \/ LoseUplink

Next == Hub \/ Node

Spec == Init /\ [][Next]_vars

-----------------------------------------------------------------------------
(* Fairness: the loop runs its timers; a radio on which an uplink or a     *)
(* LOGIN is offered again and again delivers one in the end; a sleeping    *)
(* node wakes.  Nothing says the node executes or acks a command.          *)

Fairness ==
    /\ WF_vars(Timeout)
    /\ WF_vars(LoginTimer \/ FallbackSkipped)
    /\ WF_vars(NodeWake)
    /\ SF_vars(\E f \in hub.sent : f.key = hub.sess /\ NodeLogin(f) /\ up' # up)
    /\ SF_vars(Receive)

FairSpec == Spec /\ Fairness

-----------------------------------------------------------------------------
(* Properties                                                              *)

Ids == DOMAIN asked
IsOpen(i) == i \in Ids /\ hub.ended[i] = "open"

\* Shape of the state, and the bounds the code gives its arrays: the ack-id
\* record and the line never exceed AckIds::kCap and ControlQueue::kDepth.
TypeOK ==
    /\ asked \in Seq(Kinds)
    /\ hub.cmd \in Ids \cup {0}
    /\ DOMAIN hub.ended = Ids
    /\ Len(hub.acks) <= AckCap /\ Len(hub.line) <= QueueDepth
    /\ hub.retries \in 0..(MaxRetries + 1)
    /\ hub.timer \in {"off", "short", "long"}
    /\ hub.login \in {"due", "sent", "fallback", "off"}
    /\ hub.awaiting => hub.timer # "off" /\ hub.cmd # 0
    /\ Len(up) <= MaxUp
    /\ \A x \in ran : x[1] \in Ids

\* What DeliveryPolicy.h promises of the line of commands (CommandLine),
\* whatever the radio, relogins, sleeps and reboots do: in particular whatever
\* ends the command in hand starts the next, and nothing else ends one.
Line == INSTANCE CommandLine WITH
            Depth <- QueueDepth,
            hand  <- IF Busy(hub) THEN hub.cmd ELSE 0,
            line  <- hub.line,
            ended <- hub.ended
Contract == Line!LineSpec

\* A command is reported delivered only if the node executed that command: an
\* ack of a superseded command, or of an FCNT of an older session, does not
\* complete a newer one (ctl_send_, dlv_forget_ids_).
DeliveredWasExecuted ==
    \A i \in Ids : hub.ended[i] = "delivered" => \E x \in ran : x[1] = i

\* The executions of sealed commands.  (One sent in the clear runs again if the node restarts
\* before a retry of its bytes: no replay filter survives that.  The hub is not to send one to
\* a node it has keys for, but does: HubPlaintext.cfg.)
Sealed == {x \in ran : x[2] # 0}

\* A command is not executed twice under one session: a retry repeats the
\* bytes, so the node's replay filter and AckCache recognise it.
OncePerSession ==
    \A x, y \in Sealed : x[1] = y[1] /\ x[2] = y[2] => x = y

\* An OTA is executed at most once, across sessions and reboots (kOtaPolicy).
OtaAtMostOnce ==
    \A x, y \in Sealed : x[1] = y[1] /\ KindOf(x[1]) = "ota" => x = y

\* A command is run no more often than its policy says: once in a session, an OTA once ever.
RunsNoMoreOften == OncePerSession /\ OtaAtMostOnce

\* Once the node has acked its sleep, nothing but another sleep is in flight to
\* it until it is heard or its modelled wake is reached, and what waited behind
\* the sleep stays held until it is heard (ctl_hold_for_wake_).
NothingSentToSleeper ==
    hub.asleep => \/ ~hub.awaiting /\ (hub.deferred => hub.hold \/ hub.relogin)
                  \/ KindOf(hub.cmd) = "sleep"

\* The later frames the node has accepted.
Overtook(f) == {id \in node.win.seen : id > f.fcnt}

\* A lost ack is recovered by the retry: a frame of the command in hand is either
\* new to the node, although later frames overtook it, or one it remembers, as
\* long as fewer frames than its cache has entries came between (AckCache.h) and
\* its counter is within the window.
RetryIsRecognised ==
    \A f \in hub.sent :
        \/ ~(f.cmd \in Ids /\ f.key = node.key /\ f.key # 0)
        \/ New(f) \/ Cached(node.cache, f.fcnt)
        \/ Cardinality(Overtook(f)) >= CacheEntries \/ node.win.mark - f.fcnt >= ReplayWindow

\* Acks mean what the slot takes them for: a delivered command was run, and a retry the node
\* has already run is answered rather than refused.
AcksAreTrue == DeliveredWasExecuted /\ RetryIsRecognised

\* Every command ends: delivered, failed, superseded or refused, but none is left
\* in the slot or in the line for ever (again and again, none is open).
EveryCommandEnds == []<>(\A i \in Ids : ~IsOpen(i))

-----------------------------------------------------------------------------
(* The inductive invariant behind the safety properties and the contract.  *)
(* h stands for the hub, so that it can be said of the state between two   *)
(* functions of one handler.                                               *)

Frames == [key : Nat, fcnt : Nat, cmd : Nat]
Uplinks == [sess : Nat, key : Nat, ack : Nat, ok : BOOLEAN, opening : BOOLEAN]
Executions == Nat \X Nat \X Nat \X BOOLEAN
Ends == {"open"} \cup Line!Endings

HubStates ==
    [cmd : Nat, awaiting : BOOLEAN, retries : Nat, acks : Seq(Nat), timer : {"off", "short", "long"},
     deferred : BOOLEAN, shortSpent : BOOLEAN, opt : BOOLEAN, frame : Frames,
     line : Seq(Nat), hold : BOOLEAN, asleep : BOOLEAN, unconfirmed : BOOLEAN, expiry : BOOLEAN,
     relogin : BOOLEAN, confirmed : BOOLEAN, pending : BOOLEAN, key : Nat,
     login : {"due", "sent", "fallback", "off"}, sess : Nat, tx : Nat, sent : SUBSET Frames,
     ended : Seq(Ends)]

NodeStates ==
    [sess : Nat, last : Nat, key : Nat, nonces : Nat, win : [mark : Nat, seen : SUBSET Nat],
     cache : Seq([fcnt : Nat, ok : BOOLEAN, reacks : Nat]), asleep : BOOLEAN]

Typed ==
    /\ hub \in HubStates /\ asked \in Seq(Kinds) /\ node \in NodeStates
    /\ up \in Seq(Uplinks) /\ ran \subseteq Executions /\ faults \in Nat

\* The line: the command in hand is open while it is awaited or deferred, and only then do
\* others wait, each in one place, open too.
LineKept(h) ==
    /\ h.cmd \in 0..Len(asked) /\ Len(h.ended) = Len(asked)
    /\ Busy(h) => h.cmd # 0
    /\ h.cmd # 0 => (Busy(h) <=> h.ended[h.cmd] = "open")
    /\ Distinct(h.line) /\ (~Busy(h) => h.line = <<>>) /\ Len(h.line) <= QueueDepth
    /\ \A n \in 1..Len(h.line) :
         h.line[n] \in 1..Len(asked) /\ h.line[n] # h.cmd /\ h.ended[h.line[n]] = "open"

\* One cover operation and one sleep at most wait.
LineOnce(h) ==
    \A n, m \in 1..Len(h.line) :
        KindOf(h.line[n]) = KindOf(h.line[m]) /\ KindOf(h.line[n]) \in {"cover", "sleep"} => n = m

\* The session: a login in progress has neither keys nor bytes sealed under them; a command is
\* deferred until a session, or, unsent, until the node wakes.
SlotKept(h) ==
    /\ h.pending => h.relogin
    /\ h.relogin => h.key = 0 /\ h.frame = NoFrame
    /\ h.frame # NoFrame => h.frame.cmd # 0 /\ h.frame.key \in {0, h.key}
    /\ h.frame # NoFrame /\ h.awaiting /\ ~h.deferred => h.frame.cmd = h.cmd
    /\ h.deferred => h.relogin \/ (h.hold /\ ~h.awaiting /\ h.acks = <<>>)
    /\ ~Optimistic => ~h.opt /\ h.timer # "short"

\* What holds a command back from a node asleep.
SleepKept(h) == h.asleep => h.hold /\ (h.awaiting => KindOf(h.cmd) = "sleep")

\* The frames of commands: queued, kept for a retry, or run.
Packed(h) ==
    {f \in h.sent : f.cmd # 0} \cup ({h.frame} \ {NoFrame})
        \cup {[key |-> x[2], fcnt |-> x[3], cmd |-> x[1]] : x \in ran}

Live(f, h) == f.key = h.key /\ f.key # 0

\* A frame of the live session is below the counter; an id on record is of the command in hand;
\* a command that waits has not been sent; in one session a command has one frame, an OTA
\* has one in all.
FramesKept(h) ==
    /\ \A f \in Packed(h) :
         /\ f.cmd \in 1..Len(asked) /\ ~Holds(h.line, f.cmd) /\ (h.deferred => f.cmd # h.cmd)
         /\ Live(f, h) =>
              /\ f.fcnt <= h.tx
              /\ ~h.deferred /\ Acknowledges(h, f.fcnt) => f.cmd = h.cmd
              /\ h.frame # NoFrame /\ f.fcnt = h.frame.fcnt => f.cmd = h.frame.cmd
              /\ h.awaiting /\ f.cmd = h.cmd => f = h.frame
    /\ \A f, g \in Packed(h) :
         /\ f.cmd = g.cmd
         /\ (f.key = g.key /\ f.key # 0) \/ (KindOf(f.cmd) = "ota" /\ ~Optimistic)
         => f = g

\* Keys: a key of the session that the hub has yet to learn has sealed nothing, and once the
\* hub reads a REGISTER it meets no key from before it again.
KeysKept(h, q) ==
    /\ node.sess <= h.sess /\ h.key <= node.nonces /\ node.key <= node.nonces
    /\ \A i \in 1..Len(q) : q[i].sess <= h.sess /\ q[i].key <= node.nonces
    /\ \A f \in h.sent : f.cmd = 0 => f.key <= h.sess
    /\ \A f \in Packed(h) : f.key <= node.nonces
    /\ \A i \in 1..Len(q) : q[i].key = node.key /\ node.key # 0 => q[i].sess = node.sess
    /\ \A f \in Packed(h) : f.key # 0 /\ f.key # h.key =>
         /\ ~(node.key = f.key /\ node.sess = h.sess)
         /\ \A i \in 1..Len(q) : ~(q[i].key = f.key /\ q[i].sess = h.sess)
    /\ \A i \in 1..Len(q) : IsRegister(q[i]) /\ h.key # 0 =>
         node.key # h.key /\ \A j \in i+1..Len(q) : q[j].key # h.key
    /\ \A i, j \in 1..Len(q) : i < j /\ IsRegister(q[j]) /\ q[i].key # 0 =>
         node.key # q[i].key /\ \A l \in j+1..Len(q) : q[l].key # q[i].key

\* The node: what it remembers was not numbered by anybody else, and what it remembers or
\* acks as done it has run.
Cache == {node.cache[i] : i \in 1..Len(node.cache)}

MemoryKept(h) ==
    /\ node.sess = h.sess /\ node.key # 0 /\ node.key # h.key => node.cache = <<>>
    /\ h.key = node.key /\ node.key # 0 => \A c \in Cache : c.fcnt <= h.tx
    /\ \A f \in Packed(h), c \in Cache :
         f.key = node.key /\ node.key # 0 /\ c.fcnt = f.fcnt /\ c.ok
            => \E x \in ran : x[2] = node.key /\ x[3] = c.fcnt

AcksKept(q) ==
    \A i \in 1..Len(q) : q[i].key # 0 /\ q[i].ack # 0 /\ q[i].ok
        => \E x \in ran : x[2] = q[i].key /\ x[3] = q[i].ack

RunsKept ==
    /\ \A x \in ran : x[2] = node.key /\ node.key # 0 => ~Admissible(node.win, x[3], ReplayWindow)
    /\ \A x, y \in Sealed : x[1] = y[1] /\ x[2] = y[2] /\ x[3] = y[3] => x = y

DeliveredRan(h) == \A i \in 1..Len(h.ended) : h.ended[i] = "delivered" => \E x \in ran : x[1] = i

\* The frames of the command in hand that the node may yet get: under way, or kept for a retry.
Unfinished(h) == {f \in h.sent : f.cmd # 0} \cup ({h.frame} \ {NoFrame})

OneCommand(h) ==
    /\ \A f \in h.sent : f.cmd \in {0, h.cmd}
    /\ \A f, g \in Unfinished(h) : f.cmd = g.cmd

\* What became of a frame: it is new, or remembered with no more entries behind it than frames
\* overtook it, or too many have.
Recognised(f) ==
    \/ New(f)
    \/ \E p \in 1..Len(node.cache) :
         node.cache[p].fcnt = f.fcnt /\ Len(node.cache) - p <= Cardinality(Overtook(f))
    \/ Cardinality(Overtook(f)) >= CacheEntries
    \/ node.win.mark - f.fcnt >= ReplayWindow

\* The window: it is no further than the counter, and nothing remembered is new.
WindowKept(h) ==
    /\ h.key = node.key /\ node.key # 0 => node.win.mark <= h.tx
    /\ node.sess = h.sess /\ node.key # 0 /\ node.key # h.key => node.win.mark = 0
    /\ \A id \in node.win.seen : id <= node.win.mark
    /\ \A c \in Cache : ~Admissible(node.win, c.fcnt, ReplayWindow)

RecognitionKept(h) ==
    /\ OneCommand(h) /\ WindowKept(h)
    /\ \A f \in Unfinished(h) : f.key = node.key /\ f.key # 0 => Recognised(f)

DeliveryInv ==
    /\ Typed /\ LineKept(hub) /\ LineOnce(hub) /\ SlotKept(hub) /\ SleepKept(hub)
    /\ FramesKept(hub) /\ KeysKept(hub, up) /\ MemoryKept(hub) /\ RecognitionKept(hub)
    /\ AcksKept(up) /\ RunsKept /\ DeliveredRan(hub)
=============================================================================
