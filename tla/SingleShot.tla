------------------------------ MODULE SingleShot ------------------------------
(***************************************************************************)
(* When the hub may send one placed copy instead of a burst.  The node     *)
(* drops out of timed reception (Mode B) whenever it likes; the hub has    *)
(* only an echo of that, the node's last phase report.  The hub's belief   *)
(* about one node, the ladder of refusals over it, the delivery channels   *)
(* whose frames may go out as a single shot, and what confirms, withdraws  *)
(* or outlives the belief.                                                 *)
(*                                                                         *)
(* Each handler of the loop task is one action.  Under them lie the radio, *)
(* which loses frames, and the node, which demotes itself, promotes itself *)
(* and restarts in between.  The node's firmware version and the published *)
(* resyncMaxS are known throughout.                                        *)
(***************************************************************************)
EXTENDS Integers, Sequences

CONSTANTS
    Channels,     \* the channels in use, of "control" (commands), "config" (schedule)
    MaxRetries,   \* kControlMaxRetries (4) and kSchedMaxRetries (3)
    Optimistic,   \* the operator's optimistic single shot switch
    MaxBoots,     \* bound: restarts of the node
    MaxUp         \* bound: uplinks on their way

ASSUME ShotAssumption == /\ Channels \subseteq {"control", "config"}
                         /\ MaxRetries \in Nat /\ Optimistic \in BOOLEAN
                         /\ MaxBoots \in Nat /\ MaxUp \in Nat \ {0}

VARIABLES
    belief,     \* HubBelief of the node, and the age of its last report
    slot,       \* [Channels -> DeliverySlot]
    air,        \* [Channels -> the frame placed and not yet on the air]
    relogin,    \* relogin_pending_: no session to answer on
    loginDue,   \* a login is scheduled, or to be repeated
    node,       \* timed reception, restarts, and whether it holds this session
    up,         \* uplinks on their way, oldest first
    proved,     \* history: the node's last report was made in the hub's last session
    exposed     \* history: [Channels -> single shots of the request in hand that met
                \* a demoted node since the hub's last confirmation of it]

hub == <<belief, slot, air>>
vars == <<hub, relogin, loginDue, node, up, proved, exposed>>

\* No request in hand; the next attempt overwrites what the last one left.
Idle == [awaiting |-> FALSE, retries |-> 0, shot |-> FALSE, opt |-> FALSE,
         shortSpent |-> FALSE, timer |-> "long", last |-> "none"]

\* A node in timed reception, and a hub that has heard it say so.
Init ==
    /\ belief = [grid |-> TRUE, rebooted |-> FALSE, session |-> FALSE, unacked |-> FALSE,
                 reported |-> TRUE, timed |-> TRUE, fresh |-> TRUE]
    /\ slot = [ch \in Channels |-> Idle]
    /\ air = [ch \in Channels |-> "none"]
    /\ relogin = FALSE /\ loginDue = FALSE
    /\ node = [timed |-> TRUE, boots |-> 0, keyed |-> TRUE]
    /\ up = <<>>
    /\ proved = TRUE
    /\ exposed = [ch \in Channels |-> 0]

-----------------------------------------------------------------------------
(* The shape of a frame                                                    *)

\* txRefusalFor: no reason to fall back to the burst.  overdue is
\* beacon_overdue_(), a fact about the clock and not about the belief.
Eligible(b, overdue) ==
    /\ b.grid /\ ~b.rebooted /\ ~b.session /\ ~overdue /\ ~b.unacked
    /\ b.reported /\ b.timed
    /\ b.fresh \/ Optimistic

Shape(b, overdue) == IF Eligible(b, overdue) THEN "single" ELSE "burst"

\* send_aligned_ under the channel's place function.  Only place_ctl_ records
\* in its slot what send_aligned_ chose; place_schedule_ does not.
Placed(ch, s, shape) ==
    LET t == IF ch = "control"
             THEN [s EXCEPT !.shot = (shape = "single"),
                            !.opt = (shape = "single" /\ ~belief.fresh)]
             ELSE s
    IN  [t EXCEPT !.awaiting = TRUE, !.last = shape,
                  !.timer = IF t.opt /\ t.retries = 0 /\ ~t.shortSpent THEN "short" ELSE "long"]

-----------------------------------------------------------------------------
(* Requests and their retries                                              *)

\* ctl_begin_ and deliver_, send_schedule_config: a fresh ladder.  A newer
\* cover operation, or a newer schedule, replaces the one in flight, whose
\* frame the tracker drops if it is still queued.  While the session is
\* rebuilt the request waits for its confirmation.
Submit(ch) ==
    /\ ~relogin
    /\ \E overdue \in BOOLEAN :
         LET shape == Shape(belief, overdue) IN
         /\ slot' = [slot EXCEPT ![ch] = Placed(ch, [@ EXCEPT !.retries = 0, !.shortSpent = FALSE], shape)]
         /\ air' = [air EXCEPT ![ch] = shape]
    /\ exposed' = [exposed EXCEPT ![ch] = 0]
    /\ UNCHANGED <<belief, relogin, loginDue, node, up, proved>>

\* Mutant of MarkUnacked: Rule 4 never fires.
NeverMarked(b, s) == b

\* dlv_resend_ and dlv_short_wait_missed_ (whose wait is short only after a
\* single shot): one unacknowledged single shot costs the node its confidence.
MarkUnacked(b, s) == [b EXCEPT !.unacked = @ \/ s.shot]

\* Mutant of Missed: an optimistic miss does not count as one.
MissedQuietly(ch) ==
    LET s == slot[ch] IN
    /\ s.awaiting /\ ~relogin /\ air[ch] = "none" /\ s.timer = "short"
    /\ \E overdue \in BOOLEAN :
         LET shape == Shape(belief, overdue) IN
         /\ slot' = [slot EXCEPT ![ch] = Placed(ch, [s EXCEPT !.shortSpent = TRUE], shape)]
         /\ air' = [air EXCEPT ![ch] = shape]
    /\ UNCHANGED <<belief, relogin, loginDue, node, up, proved, exposed>>

\* on_dlv_timeout_, the short first wait of an optimistic shot: burst now, and
\* the guess is not charged to the budget.  A wait ends after its frame is out.
Missed(ch) ==
    LET s == slot[ch] IN
    /\ s.awaiting /\ ~relogin /\ air[ch] = "none" /\ s.timer = "short"
    /\ belief' = MarkUnacked(belief, s)
    /\ \E overdue \in BOOLEAN :
         LET shape == Shape(belief', overdue) IN
         /\ slot' = [slot EXCEPT ![ch] = Placed(ch, [s EXCEPT !.shortSpent = TRUE], shape)]
         /\ air' = [air EXCEPT ![ch] = shape]
    /\ UNCHANGED <<relogin, loginDue, node, up, proved, exposed>>

\* on_dlv_timeout_, a counted retry.
Retry(ch) ==
    LET s == slot[ch] IN
    /\ s.awaiting /\ ~relogin /\ air[ch] = "none" /\ s.timer = "long" /\ s.retries < MaxRetries
    /\ belief' = MarkUnacked(belief, s)
    /\ \E overdue \in BOOLEAN :
         LET shape == Shape(belief', overdue) IN
         /\ slot' = [slot EXCEPT ![ch] = Placed(ch, [s EXCEPT !.retries = @ + 1], shape)]
         /\ air' = [air EXCEPT ![ch] = shape]
    /\ UNCHANGED <<relogin, loginDue, node, up, proved, exposed>>

\* dlv_give_up_: a command that fails takes the session with it, a schedule
\* only waits for its next push.
GiveUp(ch) ==
    LET s == slot[ch] IN
    /\ s.awaiting /\ ~relogin /\ air[ch] = "none" /\ s.timer = "long" /\ s.retries = MaxRetries
    /\ slot' = [slot EXCEPT ![ch] = Idle]
    /\ loginDue' = (loginDue \/ ch = "control")
    /\ UNCHANGED <<belief, air, relogin, node, up, proved, exposed>>

-----------------------------------------------------------------------------
(* What the belief is built from                                           *)

\* notePhaseReport_: thin is a report over no samples.
Report(b, u) ==
    [b EXCEPT !.reported = ~u.thin, !.timed = u.timed, !.fresh = TRUE,
              !.rebooted = FALSE, !.session = FALSE, !.unacked = FALSE]

\* noteUplinkPlacement_
InSlot(b) == [b EXCEPT !.rebooted = FALSE, !.session = FALSE, !.unacked = FALSE]

\* The age of the last report passes resyncMaxS.
AgesOut ==
    /\ belief.fresh
    /\ belief' = [belief EXCEPT !.fresh = FALSE]
    /\ UNCHANGED <<slot, air, relogin, loginDue, node, up, proved, exposed>>

\* enable_timed_mode: a grid newly published starts from no confidence.
SetTimedMode(on) ==
    /\ belief.grid # on
    /\ belief' = IF on THEN [belief EXCEPT !.grid = TRUE, !.rebooted = TRUE, !.session = FALSE,
                                           !.unacked = FALSE, !.reported = FALSE, !.timed = FALSE]
                 ELSE [belief EXCEPT !.grid = FALSE]
    /\ UNCHANGED <<slot, air, relogin, loginDue, node, up, proved, exposed>>

\* Mutant of DoLogin: the report of the session before is kept.
DoLoginOnly ==
    /\ loginDue
    /\ belief' = [belief EXCEPT !.session = TRUE]
    /\ relogin' = TRUE /\ proved' = FALSE
    /\ \E heard \in BOOLEAN :
         /\ loginDue' = ~heard
         /\ node' = IF heard THEN [node EXCEPT !.keyed = TRUE] ELSE node
         /\ up' = LET kept == SelectSeq(up, LAMBDA u : u.kind = "register")
                  IN  IF heard /\ Len(kept) < MaxUp
                      THEN Append(kept, [kind |-> "login"]) ELSE kept
    /\ UNCHANGED <<slot, air, exposed>>

\* do_login_: a new session, of which nothing is known.  What was sent under
\* the old one no longer decrypts.  The node may miss the LOGIN.
DoLogin ==
    /\ loginDue
    /\ belief' = [belief EXCEPT !.session = TRUE, !.reported = FALSE]
    /\ relogin' = TRUE /\ proved' = FALSE
    /\ \E heard \in BOOLEAN :
         /\ loginDue' = ~heard
         /\ node' = IF heard THEN [node EXCEPT !.keyed = TRUE] ELSE node
         /\ up' = LET kept == SelectSeq(up, LAMBDA u : u.kind = "register")
                  IN  IF heard /\ Len(kept) < MaxUp
                      THEN Append(kept, [kind |-> "login"]) ELSE kept
    /\ UNCHANGED <<slot, air, exposed>>

-----------------------------------------------------------------------------
(* The node and the radio                                                  *)

Say(u) == /\ Len(up) < MaxUp
          /\ up' = Append(up, u)

\* The node falls back to Mode A, or arms timed windows again.
NodeTurns ==
    /\ node' = [node EXCEPT !.timed = ~@]
    /\ UNCHANGED <<belief, slot, air, relogin, loginDue, up, proved, exposed>>

\* A restart costs the grid.  The node begins with a REGISTER, which it
\* repeats, or resumes its session and says so in a beacon.
NodeRestarts(resumed) ==
    /\ node.boots < MaxBoots
    /\ resumed => node.keyed
    /\ node' = [timed |-> FALSE, boots |-> node.boots + 1, keyed |-> resumed]
    /\ Say(IF resumed
           THEN [kind |-> "boot", timed |-> FALSE, thin |-> TRUE]
           ELSE [kind |-> "register"])
    /\ UNCHANGED <<belief, slot, air, relogin, loginDue, proved, exposed>>

\* A wake beacon, an announced mode change or another ack, with the phase
\* report; or an application uplink, without one.
NodeSpeaks ==
    /\ node.keyed
    /\ \/ \E thin \in BOOLEAN :
            Say([kind |-> "report", timed |-> node.timed, thin |-> thin])
       \/ Say([kind |-> "other"])
    /\ UNCHANGED <<belief, slot, air, relogin, loginDue, node, proved, exposed>>

LoseUplink ==
    /\ up # <<>>
    /\ Head(up).kind # "register"
    /\ up' = Tail(up)
    /\ UNCHANGED <<belief, slot, air, relogin, loginDue, node, proved, exposed>>

\* The mark comes.  A burst reaches a node in either mode, one copy only the
\* timed window; the node answers what it heard.
Arrive(ch) ==
    /\ air[ch] # "none"
    /\ air' = [air EXCEPT ![ch] = "none"]
    /\ exposed' = [exposed EXCEPT ![ch] = IF air[ch] = "single" /\ ~node.timed THEN @ + 1 ELSE @]
    /\ \/ up' = up
       \/ /\ node.keyed
          /\ air[ch] = "burst" \/ node.timed
          /\ Say([kind |-> "ack", ch |-> ch, timed |-> node.timed, thin |-> FALSE])
    /\ UNCHANGED <<belief, slot, relogin, loginDue, node, proved>>

-----------------------------------------------------------------------------
(* The hub hears the node                                                  *)

\* handle_register_: the node restarted, and its report described a grid it
\* held before.
HearRegister ==
    /\ up # <<>> /\ Head(up).kind = "register"
    /\ up' = Tail(up)
    /\ belief' = [belief EXCEPT !.rebooted = TRUE, !.reported = FALSE]
    /\ relogin' = TRUE /\ loginDue' = TRUE
    /\ proved' = FALSE
    /\ UNCHANGED <<slot, air, node, exposed>>

\* An authentic uplink: its placement first (mac0_commit_timing_), then what
\* it carries.  The first one of a session confirms it.
HearAuthentic ==
    /\ up # <<>> /\ Head(up).kind # "register"
    /\ up' = Tail(up)
    /\ relogin' = FALSE
    /\ \E inSlot \in BOOLEAN :
         LET u == Head(up)
             placed == IF inSlot /\ belief.grid THEN InSlot(belief) ELSE belief
             reports == u.kind \in {"report", "ack", "boot"}
             heard == IF reports THEN Report(placed, u) ELSE placed
         IN  \* regrid_after_reboot_, after the report: forget_node_grid_
             /\ belief' = IF u.kind = "boot" /\ heard.grid
                          THEN [heard EXCEPT !.rebooted = TRUE, !.reported = FALSE, !.timed = FALSE]
                          ELSE heard
             /\ proved' = (proved \/ reports)
             /\ slot' = IF u.kind = "ack" THEN [slot EXCEPT ![u.ch] = Idle] ELSE slot
             /\ exposed' = IF reports \/ (inSlot /\ belief.grid)
                           THEN [ch \in Channels |-> 0] ELSE exposed
    /\ UNCHANGED <<air, loginDue, node>>

-----------------------------------------------------------------------------
Next ==
    \/ \E ch \in Channels : Submit(ch) \/ Missed(ch) \/ Retry(ch) \/ GiveUp(ch) \/ Arrive(ch)
    \/ AgesOut \/ DoLogin \/ HearRegister \/ HearAuthentic
    \/ \E on \in BOOLEAN : SetTimedMode(on)
    \/ NodeTurns \/ NodeSpeaks \/ LoseUplink
    \/ \E resumed \in BOOLEAN : NodeRestarts(resumed)

Spec == Init /\ [][Next]_vars

-----------------------------------------------------------------------------
(* Properties                                                              *)

TypeOK ==
    /\ belief \in [grid : BOOLEAN, rebooted : BOOLEAN, session : BOOLEAN, unacked : BOOLEAN,
                   reported : BOOLEAN, timed : BOOLEAN, fresh : BOOLEAN]
    /\ \A ch \in Channels : /\ slot[ch].retries \in 0..MaxRetries
                            /\ air[ch] \in {"none", "single", "burst"}
                            /\ slot[ch].opt => slot[ch].shot
    /\ Len(up) <= MaxUp

\* TimedModePolicy.h: "at most ONE single-shot frame can be sent into a node
\* that has demoted, after which the policy reverts to burst until fresh
\* confirmation arrives", for the attempts of one request.
BoundedExposure == \A ch \in Channels : exposed[ch] <= 1

\* The retry of an unacknowledged single shot of a command is a burst, whatever
\* the hub heard from the node between the two.
MissIsRetriedAsBurst ==
    [][\A ch \in Channels :
         /\ slot[ch].awaiting /\ slot[ch].last = "single"
         /\ slot'[ch].retries > slot[ch].retries \/ (slot'[ch].shortSpent /\ ~slot[ch].shortSpent)
         => air'[ch] = "burst"]_vars

\* No frame is cut to a single shot on a report of an earlier session, though
\* an uplink that lands in the node's slot clears the restart and session
\* flags on its own ("session_changed alone did NOT achieve that").
OldSessionProvesNothing ==
    [][\A ch \in Channels : air[ch] # "single" /\ air'[ch] = "single" => proved]_vars

-----------------------------------------------------------------------------
(* The inductive invariant behind the three.                               *)

BeliefFields == {"grid", "rebooted", "session", "unacked", "reported", "timed", "fresh"}
Slots == [awaiting : BOOLEAN, retries : Nat, shot : BOOLEAN, opt : BOOLEAN, shortSpent : BOOLEAN,
          timer : {"short", "long"}, last : {"none", "single", "burst"}]

Typed == /\ belief = [f \in BeliefFields |-> belief[f]]
         /\ slot \in [Channels -> Slots]
         /\ air \in [Channels -> {"none", "single", "burst"}]
         /\ exposed \in [Channels -> Nat]

\* A slot that its placement recorded knows of the single shot it waits for.
ShotRecorded(ch) ==
    slot[ch].awaiting /\ (air[ch] = "single" \/ slot[ch].last = "single") => slot[ch].shot

\* After one single shot met a demoted node none is on its way, and the attempt that follows
\* finds a reason to be a burst.
ExposedOnce(ch) ==
    /\ exposed[ch] <= 1
    /\ exposed[ch] = 1 => /\ air[ch] # "single"
                          /\ slot[ch].awaiting => \/ slot[ch].shot
                                                  \/ belief.unacked \/ ~belief.reported

\* Only the command channel records its shots.
ShotInv == /\ Typed
           /\ \A ch \in Channels \ {"config"} : ShotRecorded(ch) /\ ExposedOnce(ch)
           /\ belief.reported => proved
===============================================================================
