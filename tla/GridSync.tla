------------------------------ MODULE GridSync ------------------------------
(***************************************************************************)
(* The grid of one node as the hub keeps it: publish (send_grid_sync), the *)
(* acknowledgement that opens the supervisor's gate, and what brings the   *)
(* grid back to a node that lost it.  The grid is plain RAM on the node;   *)
(* its session is not.  A node that reboots resumes the session, so no     *)
(* login tells the hub, and it cannot ask for a grid it does not know it   *)
(* had.  The hub has three ways to notice: the BOOT beacon                 *)
(* (regrid_after_reboot_), a warm-up refused with NoGrid                   *)
(* (note_warmup_refusal_), and a ladder spent with not one ack, because    *)
(* the node's restored replay mark is ahead of the hub's counter           *)
(* (on_grid_sync_failed_, which forces a LOGIN).  A node whose grid is off  *)
(* asks for it (GridSyncRequest), and the Timed Mode switch publishes and  *)
(* withdraws it.                                                           *)
(*                                                                         *)
(* Whether the node receives timed reaches the hub in the phase reports of *)
(* its beacons and acks.  A node announces a change by a beacon of its     *)
(* own, but at most once in kModeAnnounceMinS: a change inside that floor  *)
(* is held, and the announcement says how the node is by then.             *)
(*                                                                         *)
(* Uplinks of one node arrive in order.  Elapsed-time tests are flags that *)
(* are raised by the event they count from and lowered by an action of     *)
(* their own; the replay mark is kept as its lead over the hub's counter.  *)
(* The supervisor (ModeB.tla) is reduced to its warm-ups.  What both have  *)
(* is named after the grid here: their theorems are in one module.         *)
(***************************************************************************)
EXTENDS Integers, Sequences, FiniteSets

CONSTANTS
  MaxRepublishes,  \* kGridSyncMaxRepublishes
  Margin,          \* kTxBootMargin, the node's kRxPersistMargin
  Block,           \* the frame counters one warm-up reserves
  Ids,             \* message ids of a publish, each free again once no ack can name it
  DoubleBoots,     \* whether a node may reboot within kRegridMinGapS of a beacon that
                   \* advanced the counter, while a ladder runs that no regrid started
  MaxIncidents,    \* bound: reboots, logins, demotions, drifts, flips of the switch
  MaxLoss,         \* bound: lost frames
  MaxMishaps,       \* bound: all of these together
  MaxUp            \* bound: uplinks in flight

ASSUME BoundsAssumption ==
  /\ MaxRepublishes \in Nat /\ Margin \in Nat /\ Block \in Nat /\ Ids \in Nat \ {0}
  /\ DoubleBoots \in BOOLEAN
  /\ MaxIncidents \in Nat /\ MaxLoss \in Nat /\ MaxMishaps \in Nat /\ MaxUp \in Nat
\* A warm-up reserves an id for every mark of 65 s, far more than one margin.
ASSUME BlockAssumption == Block >= Margin

VARIABLES
  \* the hub
  on,          \* timed_mode_enabled_
  live,        \* session_confirmed_ and not relogin_pending_
  gridAck,     \* last_gridsync_ack_us_ against the publish: "none", "old", "current"
  pending,     \* regrid_pending_: the publish timer is armed
  awaiting,    \* the Mac channel awaits an ack
  tries,       \* its retry_count
  ids,         \* its msgids on record
  believed,    \* have_phase_report_ and node_timed_rx: it takes the node for promoted
  warming,     \* the supervisor's own test is on the air
  \* the clocks of the hub
  published60, \* less than kHubSyncRequestMinIntervalS since a publish
  published20, \* less than kRegridMinGapS since a publish
  advanced20,  \* less than kRegridMinGapS since the last advance of the counter
  regrid300,   \* at most kWedgeWindowS since a regrid
  forced600,   \* less than kForcedReloginGapS since a forced login
  asked,       \* the reasons the node has asked for within their interval
  \* the node
  grid,        \* it holds a grid
  timed,       \* it receives timed
  drift,       \* its anchor: "none" off, "stale" or "suspect"
  owes,        \* mode_announce_pending_: a mode change it has not announced
  announced60, \* less than kModeAnnounceMinS since an announcement
  lead,        \* how far its replay mark is ahead of the hub's counter
  \* the air
  down,        \* the downlink on the air: none, a publish or a warm-up
  up,          \* uplinks in flight, in order
  unheard,     \* history: the hub has missed the node's latest word, which its belief
               \* contradicts
  missedBoot,  \* history: it has missed a BOOT since the login, so its counter may be behind
  incidents, lost  \* bounds

hub == <<on, live, gridAck, pending, awaiting, tries, ids, believed, warming>>
clocks == <<published60, published20, advanced20, regrid300, forced600, asked>>
announce == <<owes, announced60>>
node == <<grid, timed, drift, announce>>
history == <<unheard, missedBoot>>
bounds == <<incidents, lost>>
gridVars == <<hub, clocks, node, lead, down, up, history, bounds>>

Quiet == [kind |-> "none"]
Minus(a, b) == IF a > b THEN a - b ELSE 0

\* What the bounds allow.
Happens ==
  /\ incidents < MaxIncidents /\ incidents + lost < MaxMishaps
  /\ incidents' = incidents + 1
GetsLost ==
  /\ lost < MaxLoss /\ incidents + lost < MaxMishaps
  /\ lost' = lost + 1

GridInit ==
  /\ on = TRUE /\ live = FALSE /\ gridAck = "none" /\ pending = FALSE /\ awaiting = FALSE
  /\ tries = 0 /\ ids = {} /\ believed = FALSE /\ warming = FALSE
  /\ published60 = FALSE /\ published20 = FALSE /\ advanced20 = FALSE /\ regrid300 = FALSE /\ forced600 = FALSE
  /\ asked = {} /\ grid = FALSE /\ timed = FALSE /\ drift = "none" /\ lead = 0
  /\ owes = FALSE /\ announced60 = FALSE /\ unheard = FALSE /\ missedBoot = FALSE
  /\ down = Quiet /\ up = <<>> /\ incidents = 0 /\ lost = 0

-----------------------------------------------------------------------------
(* The hub publishes. *)

FreshId ==
  LET free == {n \in 0..(Ids - 1) : n \notin ids /\ \A i \in 1..Len(up) : up[i].kind = "ack" => up[i].id # n}
  IN  IF free = {} THEN 0 ELSE CHOOSE n \in free : TRUE

\* encode_grid_sync_ and place_grid_sync_: one attempt, under a new id.  The
\* publish is later than any ack, so the grid is no longer confirmed.
Attempt ==
  /\ down = Quiet
  /\ down' = [kind |-> "publish", id |-> FreshId, heard |-> Minus(lead, 1) = 0]
  /\ lead' = Minus(lead, 1)
  /\ ids' = ids \cup {FreshId}
  /\ awaiting' = TRUE
  /\ published20' = TRUE /\ published60' = TRUE
  /\ gridAck' = IF gridAck = "current" THEN "old" ELSE gridAck

NoPublish == UNCHANGED <<down, lead, ids, awaiting, published20, published60, gridAck, tries>>

\* send_grid_sync: deferred while the session is rebuilt (confirm_session_ arms
\* the timer again), else a fresh ladder.
SendGridSync ==
  IF live THEN Attempt /\ tries' = 0
          ELSE NoPublish

\* confirm_session_: a confirmed session arms the publish timer in timed mode.
ConfirmSession ==
  /\ ~live
  /\ live' = TRUE /\ pending' = (pending \/ on)
  /\ UNCHANGED <<on, gridAck, awaiting, tries, ids, believed, warming, clocks, node,
                 lead, down, up, history, bounds>>

\* regrid_fire_
RegridFire ==
  /\ pending /\ pending' = FALSE
  /\ IF on THEN SendGridSync ELSE NoPublish
  /\ UNCHANGED <<on, live, believed, warming, advanced20, regrid300, forced600, asked, node, up,
                 history, bounds>>

\* The ack timer of the Mac channel.  The next attempt of a ladder is rebuilt.
\* A beacon is heard within one wait; an ack may come late.
Republish ==
  /\ \A i \in 1..Len(up) : up[i].kind # "beacon"
  /\ awaiting /\ live /\ down = Quiet /\ tries < MaxRepublishes
  /\ tries' = tries + 1
  /\ Attempt
  /\ UNCHANGED <<on, live, pending, believed, warming, advanced20, regrid300, forced600, asked,
                 node, up, history, bounds>>

\* Mutant: a spent ladder is only logged.
NeverWedged == FALSE

\* reloginAfterSpentLadder
Wedged == gridAck = "none" /\ regrid300 /\ ~forced600

\* do_login_: a new session restarts both counters and forgets the ack, the
\* report and the ids on record; what is under way no longer decrypts.
DoLogin ==
  /\ live' = FALSE
  /\ gridAck' = "none" /\ believed' = FALSE /\ warming' = FALSE
  /\ ids' = {}
  /\ lead' = 0 /\ up' = <<>> /\ unheard' = FALSE /\ missedBoot' = FALSE

\* on_grid_sync_failed_: the ladder is spent.  The last wait outlasts an answer.
LadderSpent ==
  /\ \A i \in 1..Len(up) : up[i].kind \notin {"ack", "beacon"}
  /\ awaiting /\ live /\ down = Quiet /\ tries >= MaxRepublishes
  /\ awaiting' = FALSE
  /\ IF Wedged
       THEN DoLogin /\ forced600' = TRUE
       ELSE ids' = {} /\ UNCHANGED <<live, gridAck, believed, warming, lead, up, history, forced600>>
  /\ UNCHANGED <<on, pending, tries, published60, published20, advanced20, regrid300, asked,
                 node, down, bounds>>

\* A command out of retries, an operator: any other login of the hub.
OtherLogin ==
  /\ live /\ down = Quiet /\ Happens
  /\ DoLogin
  /\ UNCHANGED <<on, pending, awaiting, tries, clocks, node, down, lost>>

-----------------------------------------------------------------------------
(* The supervisor's warm-up, as far as the grid is concerned. *)

\* kGridSettleS after the ack, so no publish is pending and no other ack or
\* request under way by then.
WarmupStart ==
  /\ \A i \in 1..Len(up) : up[i].kind \notin {"ack", "request"}
  /\ on /\ live /\ ~pending /\ gridAck = "current" /\ ~believed /\ ~awaiting /\ ~warming /\ down = Quiet
  /\ warming' = TRUE
  /\ lead' = Minus(lead, Block)
  /\ down' = [kind |-> "warmup", heard |-> Minus(lead, Block) = 0]
  /\ UNCHANGED <<on, live, gridAck, pending, awaiting, tries, ids, believed, clocks, node,
                 up, history, bounds>>

\* A minute outlasts every answer the test provokes.
WarmupEnd ==
  /\ warming /\ down = Quiet /\ up = <<>>
  /\ warming' = FALSE
  /\ UNCHANGED <<on, live, gridAck, pending, awaiting, tries, ids, believed, clocks, node,
                 lead, down, up, history, bounds>>

-----------------------------------------------------------------------------
(* The node and the air. *)

Say(m) == Len(up) < MaxUp /\ up' = Append(up, m)

\* A beacon with its phase report, and the one whose report is missing.
Beacon(why, t) == [kind |-> "beacon", why |-> why, timed |-> t, phase |-> TRUE]
BareBoot == [kind |-> "beacon", why |-> "boot", timed |-> FALSE, phase |-> FALSE]

\* The node starts or ends timed reception; the change is announced later.
Turns(t) == timed' = t /\ owes' = (owes \/ timed # t) /\ UNCHANGED announced60

\* A frame whose id is not above the replay mark is silently dropped.  A publish
\* is a burst, which a node off its marks hears and anchors on.
HearPublish ==
  /\ down.kind = "publish"
  /\ down' = Quiet
  /\ IF down.heard
       THEN /\ grid' = TRUE /\ drift' = "none"
            /\ Say([kind |-> "ack", id |-> down.id, timed |-> timed])
       ELSE UNCHANGED <<grid, drift, up>>
  /\ UNCHANGED <<hub, clocks, timed, announce, lead, history, bounds>>

\* A withdrawal is an unplaced burst too: the node is back in Mode A.
HearWithdrawal ==
  /\ down.kind = "withdrawal"
  /\ down' = Quiet
  /\ IF down.heard THEN grid' = FALSE /\ drift' = "none" /\ Turns(FALSE) ELSE UNCHANGED node
  /\ UNCHANGED <<hub, clocks, lead, up, history, bounds>>

\* A warm-up promotes a node on a grid, and is refused by one without.  The marks
\* of a node whose anchor is off are not heard.
HearWarmup ==
  /\ down.kind = "warmup"
  /\ down' = Quiet
  /\ IF down.heard /\ drift = "none"
       THEN IF grid THEN Turns(TRUE) /\ UNCHANGED up
                    ELSE Say([kind |-> "noGrid"]) /\ UNCHANGED <<timed, announce>>
       ELSE UNCHANGED <<timed, announce, up>>
  /\ UNCHANGED <<hub, clocks, grid, drift, lead, history, bounds>>

\* The node falls back to Mode A.
NodeDemotes ==
  /\ timed /\ Happens
  /\ Turns(FALSE)
  /\ UNCHANGED <<hub, clocks, grid, drift, lead, down, up, history, lost>>

\* shouldAnnounceModeChange: the last state wins.
Announce ==
  /\ owes /\ ~announced60 /\ live
  /\ Len(up) + 1 < MaxUp
  /\ Say(Beacon("mode", timed))
  /\ owes' = FALSE /\ announced60' = TRUE
  /\ UNCHANGED <<hub, clocks, grid, timed, drift, lead, down, history, bounds>>

\* The anchor ages in Mode A, where no beacon corrects it, or was taken from a
\* copy heard late (anchorSuspect).
NodeDrifts ==
  /\ grid /\ drift = "none" /\ Happens
  /\ drift' \in IF timed THEN {"suspect"} ELSE {"stale", "suspect"}
  /\ UNCHANGED <<hub, clocks, grid, timed, announce, lead, down, up, history, lost>>

\* syncRequestReason: a suspect anchor is asked about in Mode B too; each reason
\* has its own interval.
MayAsk(why) ==
  /\ grid /\ live /\ drift = why /\ why \notin asked
  /\ why = "suspect" \/ ~timed

NodeAsks == \E why \in {"stale", "suspect"} :
  /\ MayAsk(why)
  /\ asked' = asked \cup {why}
  /\ Len(up) + 1 < MaxUp   \* room is left for an answer
  /\ Say([kind |-> "request"])
  /\ UNCHANGED <<hub, published60, published20, advanced20, regrid300, forced600, node, lead, down,
                 history, bounds>>

\* What a rebooted node says: BOOT, and as a rule a first announcement before it,
\* which tells of the reboot as well when its reset reason is new to the hub.
BootBeacons ==
  {<<BareBoot>>, <<Beacon("boot", FALSE)>>}
    \cup {<<Beacon(why, FALSE), Beacon("boot", FALSE)>> : why \in {"mode", "boot"}}

\* A reboot on the resumed session: the grid is gone, the replay mark jumps.
NodeReboots ==
  /\ Happens
  /\ live
  /\ DoubleBoots \/ regrid300
     \/ (~advanced20 /\ \A i \in 1..Len(up) : up[i].kind # "beacon")
  /\ grid' = FALSE /\ timed' = FALSE /\ drift' = "none"
  /\ lead' = lead + Margin
  /\ down' = Quiet
  /\ \E said \in BootBeacons :
       /\ Len(up) + Len(said) <= MaxUp
       /\ up' = up \o said
       /\ announced60' = (Len(said) = 2) /\ owes' = (Len(said) = 1)
  /\ UNCHANGED <<hub, clocks, history, lost>>

LoseDownlink ==
  /\ down # Quiet /\ GetsLost
  /\ down' = Quiet
  /\ UNCHANGED <<hub, clocks, node, lead, up, history, incidents>>

LoseUplink ==
  /\ up # <<>> /\ GetsLost
  /\ up' = Tail(up)
  /\ unheard' = IF Head(up).kind \in {"beacon", "ack"} THEN believed # Head(up).timed ELSE unheard
  /\ missedBoot' = (missedBoot \/ (Head(up).kind = "beacon" /\ Head(up).why = "boot"))
  /\ UNCHANGED <<hub, clocks, node, lead, down, incidents>>

-----------------------------------------------------------------------------
(* The hub hears the node. *)

Hear(kind) == up # <<>> /\ Head(up).kind = kind /\ up' = Tail(up)

\* Mutant: the acknowledgement goes, the promoted belief stays.
ForgetAckOnly == gridAck' = "none" /\ believed' = believed

\* forget_node_grid_
ForgetNodeGrid == gridAck' = "none" /\ believed' = FALSE

\* regridDue
RegridDue == ~pending /\ ~awaiting /\ ~published20

\* regrid_node_: for a supervised node, and idempotent through regrid_due_.
Regrids == on /\ RegridDue
RegridNode(reported) ==
  IF Regrids
    THEN ForgetNodeGrid /\ pending' = TRUE /\ regrid300' = TRUE
    ELSE believed' = reported /\ UNCHANGED <<gridAck, pending, regrid300>>

\* handle_beacon_: note_node_reset_ first (any beacon of a node that does not sleep
\* deeply advances the counter), then notePhaseReport_, which leaves the belief alone
\* when there is no report, then regrid_after_reboot_, which restarts the supervisor.
HearBeacon ==
  /\ Hear("beacon")
  /\ LET b == Head(up)
         gridLost == b.why = "boot" /\ ~b.timed
         reported == IF b.phase THEN b.timed ELSE believed
     IN /\ lead' = IF advanced20 THEN lead ELSE Minus(lead, Margin)
        /\ advanced20' = TRUE
        /\ IF gridLost
             THEN RegridNode(reported) /\ warming' = (warming /\ ~Regrids)
             ELSE believed' = reported /\ UNCHANGED <<gridAck, pending, regrid300, warming>>
        /\ unheard' = (~b.phase /\ believed /\ ~(gridLost /\ Regrids))
  /\ UNCHANGED <<on, live, awaiting, tries, ids, published60, published20, forced600, asked,
                 node, down, missedBoot, bounds>>

\* dlv_ack_ and on_grid_sync_acked_: any id on record confirms the grid.
HearAck ==
  /\ Hear("ack")
  /\ believed' = Head(up).timed /\ unheard' = FALSE
  /\ IF Head(up).id \in ids
       THEN gridAck' = "current" /\ awaiting' = FALSE /\ tries' = 0 /\ ids' = {}
       ELSE UNCHANGED <<gridAck, awaiting, tries, ids>>
  /\ UNCHANGED <<on, live, pending, warming, clocks, node, lead, down, missedBoot,
                 bounds>>

\* note_warmup_refusal_: only while our own test runs.
HearRefusal ==
  /\ Hear("noGrid")
  /\ IF warming
       THEN RegridNode(believed) /\ warming' = FALSE /\ unheard' = (unheard /\ ~Regrids)
       ELSE UNCHANGED <<gridAck, believed, pending, regrid300, warming, unheard>>
  /\ UNCHANGED <<on, live, awaiting, tries, ids, published60, published20, advanced20, forced600,
                 asked, node, lead, down, missedBoot, bounds>>

\* Mutant: a request is answered at once only after a ladder was confirmed.
AnswersConfirmedOnly == on /\ ~awaiting /\ ~published60 /\ gridAck # "current"

\* hubAnswersSyncRequest
HubAnswers == on /\ ~awaiting /\ ~published60

\* handle_grid_sync_request_
HearRequest ==
  /\ Hear("request")
  /\ IF HubAnswers THEN down = Quiet /\ SendGridSync ELSE NoPublish
  /\ UNCHANGED <<on, live, pending, believed, warming, advanced20, regrid300, forced600, asked, node,
                 history, bounds>>

-----------------------------------------------------------------------------
(* The Timed Mode switch.  It is flipped more slowly than frames fly. *)

\* enable_timed_mode(true): mbs_restart_, the publish, and no belief from before.
EnableTimedMode ==
  /\ ~on /\ down = Quiet /\ up = <<>>
  /\ on' = TRUE
  /\ warming' = FALSE
  /\ SendGridSync
  /\ believed' = FALSE /\ unheard' = FALSE
  /\ UNCHANGED <<live, pending, advanced20, regrid300, forced600, asked, node, up,
                 missedBoot, bounds>>

\* enable_timed_mode(false) and withdraw_grid_sync_: a burst nobody awaits, which
\* ends the wait for a confirmation (dlv_cancel_).
DisableTimedMode ==
  /\ on /\ live /\ down = Quiet /\ Happens
  /\ on' = FALSE /\ warming' = FALSE
  /\ awaiting' = FALSE /\ tries' = 0 /\ ids' = {}
  /\ lead' = Minus(lead, 1)
  /\ down' = [kind |-> "withdrawal", heard |-> Minus(lead, 1) = 0]
  /\ UNCHANGED <<live, gridAck, pending, believed, clocks, node, up, history, lost>>

-----------------------------------------------------------------------------
(* Time passes.  A ladder is shorter than kWedgeWindowS. *)

Pass20 ==
  /\ published20 \/ advanced20
  /\ published20' = FALSE /\ advanced20' = FALSE
  /\ UNCHANGED <<hub, published60, regrid300, forced600, asked, node, lead, down, up, history, bounds>>

Pass60 ==
  /\ published60 /\ ~published20
  /\ published60' = FALSE
  /\ UNCHANGED <<hub, published20, advanced20, regrid300, forced600, asked, node, lead, down, up, history, bounds>>

\* kSuspectRequestMinIntervalS, resyncMaxS: longer than a minute and any flight
PassAsk ==
  /\ asked # {} /\ ~published60 /\ down = Quiet /\ up = <<>>
  /\ asked' = {}
  /\ UNCHANGED <<hub, published60, published20, advanced20, regrid300, forced600, node, lead, down, up,
                 history, bounds>>

Pass300 ==
  /\ regrid300 /\ ~awaiting /\ ~pending /\ ~published20
  /\ regrid300' = FALSE
  /\ UNCHANGED <<hub, published60, published20, advanced20, forced600, asked, node, lead, down, up, history, bounds>>

Pass600 ==
  /\ forced600 /\ ~regrid300
  /\ forced600' = FALSE
  /\ UNCHANGED <<hub, published60, published20, advanced20, regrid300, asked, node, lead, down, up, history, bounds>>

\* kModeAnnounceMinS
PassAnnounce ==
  /\ announced60 /\ announced60' = FALSE
  /\ UNCHANGED <<hub, clocks, grid, timed, drift, owes, lead, down, up, history, bounds>>

HubStep ==
  \/ ConfirmSession \/ RegridFire \/ Republish \/ LadderSpent \/ WarmupStart \/ WarmupEnd
HubHears == HearBeacon \/ HearAck \/ HearRefusal \/ HearRequest
NodeHears == HearPublish \/ HearWarmup \/ HearWithdrawal
Switch == EnableTimedMode \/ DisableTimedMode
Fault == OtherLogin \/ NodeDemotes \/ NodeDrifts \/ NodeReboots \/ LoseDownlink \/ LoseUplink

GridNext ==
  HubStep \/ HubHears \/ NodeHears \/ NodeAsks \/ Announce \/ Switch \/ Fault
  \/ Pass20 \/ Pass60 \/ PassAsk \/ PassAnnounce \/ Pass300 \/ Pass600

\* The hub's loop serves its timers and what it receives; the air delivers all
\* but MaxLoss frames; time passes, also while warm-ups fail.  Faults are never owed.
GridFairness ==
  /\ WF_gridVars(ConfirmSession) /\ WF_gridVars(RegridFire) /\ WF_gridVars(Republish)
  /\ WF_gridVars(LadderSpent) /\ WF_gridVars(WarmupStart) /\ WF_gridVars(WarmupEnd)
  /\ WF_gridVars(HubHears) /\ WF_gridVars(NodeHears)
  /\ WF_gridVars(NodeAsks) /\ WF_gridVars(Announce) /\ WF_gridVars(PassAnnounce)
  /\ WF_gridVars(Pass20) /\ WF_gridVars(Pass60) /\ SF_gridVars(PassAsk) /\ WF_gridVars(Pass300) /\ WF_gridVars(Pass600)

GridSpec == GridInit /\ [][GridNext]_gridVars /\ GridFairness

-----------------------------------------------------------------------------
(* Properties. *)

GridTypeOK ==
  /\ on \in BOOLEAN /\ live \in BOOLEAN /\ gridAck \in {"none", "old", "current"}
  /\ pending \in BOOLEAN /\ awaiting \in BOOLEAN /\ tries \in 0..MaxRepublishes
  /\ ids \subseteq 0..(Ids - 1)
  /\ believed \in BOOLEAN /\ warming \in BOOLEAN
  /\ {published60, published20, advanced20, regrid300, forced600} \subseteq BOOLEAN
  /\ asked \subseteq {"stale", "suspect"} /\ drift \in {"none", "stale", "suspect"} /\ grid \in BOOLEAN /\ timed \in BOOLEAN
  /\ {owes, announced60, unheard, missedBoot} \subseteq BOOLEAN
  /\ lead \in 0..(Margin * MaxIncidents) /\ Len(up) <= MaxUp
  /\ (timed \/ drift # "none") => grid

\* What tells the hub that the node does not receive timed.
TakesBack(m) == m.kind \in {"beacon", "ack"} /\ ~m.timed

\* The supervisor leaves a node alone because it BELIEVES it promoted.  That
\* belief is wrong only while the word that corrects it is under way, while the
\* node has yet to announce the change (the floor puts it off by up to a minute),
\* or because that word was lost, or came without its report while a publish was
\* awaited - and then only until the hub hears the node's next report, regrids it,
\* or logs it in.
PromotionIsTrue ==
  believed /\ ~timed => owes \/ unheard \/ \E i \in 1..Len(up) : TakesBack(up[i])

\* MEASURED 2026-10-11: a node that rebooted on its resumed session was warmed
\* up for ever against the acknowledgement from before the reboot.  Now a node
\* without a grid gets one, whichever of beacon, refusal and forced login
\* notices, although frames are lost and the replay mark makes it deaf.
GridComesBack == ~grid ~> (grid \/ ~on)

\* ... and then timed reception, which is what the grid is for - unless the hub has
\* missed the node's last word for good, or a BOOT in this session.
PromotionComesBack == []<>((timed /\ believed) \/ ~on \/ unheard \/ missedBoot)

\* MEASURED 2026-10-19: a node that adopted a publish heard late read every later
\* mark 66 ms off, nothing it heard could correct it, and it stayed so for ten
\* minutes.  A node whose anchor is off gets the grid published to it again,
\* unless it is withdrawn.
AnchorIsRepaired == drift # "none" ~> (drift = "none" \/ ~on)

-----------------------------------------------------------------------------
(* The inductive invariant behind PromotionIsTrue. *)

Uplinks ==
  [kind : {"beacon"}, why : {"mode", "boot"}, timed : BOOLEAN, phase : BOOLEAN]
  \cup [kind : {"ack"}, id : 0..(Ids - 1), timed : BOOLEAN]
  \cup [kind : {"noGrid", "request"}]

GridTyped ==
  /\ up \in Seq(Uplinks)
  /\ {believed, grid, timed, owes, unheard} \subseteq BOOLEAN
  /\ down.kind = "publish" => down.id \in 0..(Ids - 1)
  /\ \A i \in DOMAIN up : up[i].kind = "beacon" /\ up[i].timed => up[i].phase

\* A word further back than place i takes it back.
Corrected(i) == \E j \in DOMAIN up : j > i /\ TakesBack(up[j])

\* Once the node has no change to announce, whatever says that it is timed - the
\* belief, a beacon, an ack - is taken back by a later word, if it is not true.
BeliefCorrected ==
  ~timed /\ ~owes =>
    /\ believed /\ ~unheard => Corrected(0)
    /\ \A i \in DOMAIN up : up[i].kind \in {"beacon", "ack"} /\ up[i].timed => Corrected(i)

PromotionInv == GridTyped /\ BeliefCorrected
=============================================================================
