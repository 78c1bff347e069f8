------------------------- MODULE SingleShotProofs -------------------------
(***************************************************************************)
(* What bounds the single shots into a node that left timed reception, for *)
(* any ladder of retries and any number of restarts and uplinks.  The      *)
(* inductive invariant is ShotInv: the slot of a command records its       *)
(* single shot, so that after a miss the belief itself refuses the next    *)
(* one, until a report or an uplink in the node's slot clears the miss.    *)
(*                                                                         *)
(* And where such frames are placed (module Air), for any grid and any     *)
(* number of nodes and frames: a reply is late only behind a burst, and    *)
(* one task gives a mark to one frame.                                     *)
(***************************************************************************)
EXTENDS SingleShot, Air, WellFoundedInduction, TLAPS

\* txRefusalFor lets a frame go out once only to a node that reported and of which no
\* single shot is unanswered.
LEMMA SingleNeeds ==
  ASSUME NEW b, NEW overdue, Shape(b, overdue) = "single"
  PROVE  b.reported /\ ~b.unacked
  BY DEF Shape, Eligible

LEMMA ShapeIs ==
  ASSUME NEW b, NEW overdue
  PROVE  Shape(b, overdue) \in {"single", "burst"}
  BY DEF Shape

\* An unanswered shot leaves its mark and nothing else.
LEMMA MarkedIs ==
  ASSUME Typed, NEW s
  PROVE  LET b == MarkUnacked(belief, s)
         IN  /\ b = [f \in BeliefFields |-> b[f]]
             /\ b.reported = belief.reported
             /\ s.shot => b.unacked
             /\ belief.unacked => b.unacked
  BY DEF Typed, BeliefFields, MarkUnacked

\* place_ctl_ records what was chosen; place_schedule_ leaves the shot as it was.
LEMMA PlacedIs ==
  ASSUME NEW ch \in Channels, NEW s \in Slots, NEW shape \in {"single", "burst"}
  PROVE  LET p == Placed(ch, s, shape)
         IN  /\ p \in Slots /\ p.awaiting /\ p.last = shape
             /\ p.retries = s.retries /\ p.shortSpent = s.shortSpent
             /\ ch = "control" => (p.shot <=> shape = "single")
  BY DEF Placed, Slots

LEMMA InitInv ==
  ASSUME Init
  PROVE  ShotInv
  <1>1. Idle \in Slots /\ ~Idle.awaiting
    BY DEF Idle, Slots
  <1>2. Typed
    BY <1>1 DEF Init, Typed, BeliefFields
  <1>3. \A ch \in Channels : ShotRecorded(ch) /\ ExposedOnce(ch)
    <2> SUFFICES ASSUME NEW ch \in Channels PROVE ShotRecorded(ch) /\ ExposedOnce(ch)
      OBVIOUS
    <2>1. slot[ch] = Idle /\ exposed[ch] = 0 /\ air[ch] = "none"
      BY DEF Init
    <2>2. ShotRecorded(ch)
      BY <1>1, <2>1 DEF ShotRecorded
    <2>3. ExposedOnce(ch)
      BY <2>1 DEF ExposedOnce
    <2> QED
      BY <2>2, <2>3
  <1> QED
    BY <1>2, <1>3 DEF ShotInv, Init

\* An attempt is placed: a new request, or the next one after a miss that was marked.
LEMMA PlacingKeeps ==
  ASSUME ShotInv, NEW ch \in Channels, NEW s \in Slots, NEW overdue,
         NEW b, b = [f \in BeliefFields |-> b[f]], belief' = b,
         b.reported = belief.reported, belief.unacked => b.unacked, UNCHANGED proved,
         NEW shape, shape = Shape(b, overdue),
         slot' = [slot EXCEPT ![ch] = Placed(ch, s, shape)], air' = [air EXCEPT ![ch] = shape],
         \/ exposed' = [exposed EXCEPT ![ch] = 0]
         \/ UNCHANGED exposed /\ slot[ch].awaiting /\ (slot[ch].shot => b.unacked)
  PROVE  ShotInv'
  <1> DEFINE p == Placed(ch, s, shape)
  <1>1. shape \in {"single", "burst"} /\ (shape = "single" => b.reported /\ ~b.unacked)
    BY ShapeIs, SingleNeeds
  <1>2. p \in Slots /\ p.awaiting /\ p.last = shape /\ (ch = "control" => (p.shot <=> shape = "single"))
    BY <1>1, PlacedIs
  <1> HIDE DEF p
  <1>3. Typed /\ Typed'
    <2>1. Typed
      BY DEF ShotInv
    <2>2. exposed' \in [Channels -> Nat]
      BY <2>1 DEF Typed
    <2>3. slot' \in [Channels -> Slots] /\ air' \in [Channels -> {"none", "single", "burst"}]
      BY <1>1, <1>2, <2>1 DEF Typed, p
    <2> QED
      BY <2>1, <2>2, <2>3 DEF Typed
  <1>4. /\ slot'[ch] = p /\ air'[ch] = shape
        /\ \A c \in Channels \ {ch} : slot'[c] = slot[c] /\ air'[c] = air[c] /\ exposed'[c] = exposed[c]
    BY <1>3 DEF Typed, p
  <1>5. ASSUME NEW c \in Channels \ {"config"} PROVE ShotRecorded(c)' /\ ExposedOnce(c)'
    <2>1. CASE c # ch
      BY <1>4, <2>1 DEF ShotInv, ShotRecorded, ExposedOnce
    <2>2. CASE c = ch
      <3>1. c = "control" /\ ExposedOnce(ch)
        BY <2>2, ShotAssumption DEF ShotInv
      <3>2. ShotRecorded(ch)'
        BY <1>2, <1>4, <2>2, <3>1 DEF ShotRecorded
      <3>3. exposed'[ch] <= 1 /\ (exposed'[ch] = 1 => b.unacked \/ ~b.reported)
        BY <1>3, <3>1 DEF ExposedOnce, Typed
      <3>4. ExposedOnce(ch)'
        BY <1>1, <1>4, <3>3 DEF ExposedOnce
      <3> QED
        BY <2>2, <3>2, <3>4
    <2> QED
      BY <2>1, <2>2
  <1>6. belief'.reported => proved'
    BY DEF ShotInv
  <1> QED
    BY <1>3, <1>5, <1>6 DEF ShotInv

LEMMA SubmitKeeps ==
  ASSUME ShotInv, NEW ch \in Channels, Submit(ch)
  PROVE  ShotInv'
  <1> DEFINE s == [slot[ch] EXCEPT !.retries = 0, !.shortSpent = FALSE]
  <1>1. s \in Slots
    BY DEF ShotInv, Typed, Slots
  <1>2. PICK overdue \in BOOLEAN :
           /\ slot' = [slot EXCEPT ![ch] = Placed(ch, s, Shape(belief, overdue))]
           /\ air' = [air EXCEPT ![ch] = Shape(belief, overdue)]
    BY DEF Submit
  <1>3. belief = [f \in BeliefFields |-> belief[f]]
    BY DEF ShotInv, Typed
  <1> HIDE DEF s
  <1> QED
    BY <1>1, <1>2, <1>3, PlacingKeeps DEF Submit

LEMMA MissKeeps ==
  ASSUME ShotInv, NEW ch \in Channels, Missed(ch) \/ Retry(ch)
  PROVE  ShotInv'
  <1> DEFINE b == MarkUnacked(belief, slot[ch])
  <1>1. PICK s \in Slots, overdue \in BOOLEAN :
           /\ slot' = [slot EXCEPT ![ch] = Placed(ch, s, Shape(b, overdue))]
           /\ air' = [air EXCEPT ![ch] = Shape(b, overdue)]
    <2>1. slot[ch] \in Slots
      BY DEF ShotInv, Typed
    <2>2. CASE Missed(ch)
      <3>1. [slot[ch] EXCEPT !.shortSpent = TRUE] \in Slots
        BY <2>1 DEF Slots
      <3> QED
        BY <2>2, <3>1 DEF Missed
    <2>3. CASE Retry(ch)
      <3>1. [slot[ch] EXCEPT !.retries = @ + 1] \in Slots
        BY <2>1 DEF Slots
      <3> QED
        BY <2>3, <3>1 DEF Retry
    <2> QED
      BY <2>2, <2>3
  <1>2. /\ belief' = b /\ UNCHANGED <<proved, exposed>> /\ slot[ch].awaiting
    BY DEF Missed, Retry
  <1>3. /\ b = [f \in BeliefFields |-> b[f]] /\ b.reported = belief.reported
        /\ slot[ch].shot => b.unacked
        /\ belief.unacked => b.unacked
    BY MarkedIs DEF ShotInv
  <1> HIDE DEF b
  <1> QED
    BY <1>1, <1>2, <1>3, PlacingKeeps

\* Nothing is placed: the marks stay, unless the hub has just heard from the node.
LEMMA QuietKeeps ==
  ASSUME ShotInv, Typed',
         \A ch \in Channels : \/ slot'[ch] = slot[ch]
                              \/ ~slot'[ch].awaiting,
         \A ch \in Channels : air'[ch] \in {air[ch], "none"},
         \A ch \in Channels : \/ exposed'[ch] = 0
                              \/ /\ exposed'[ch] = exposed[ch]
                                 /\ belief.unacked => belief'.unacked \/ ~belief'.reported
                                 /\ ~belief.reported => ~belief'.reported,
         belief'.reported => proved'
  PROVE  ShotInv'
  <1>1. ASSUME NEW c \in Channels \ {"config"} PROVE ShotRecorded(c)' /\ ExposedOnce(c)'
    <2>1. ShotRecorded(c) /\ ExposedOnce(c)
      BY DEF ShotInv
    <2>2. ShotRecorded(c)'
      BY <2>1 DEF ShotRecorded
    <2>3. ExposedOnce(c)'
      BY <2>1 DEF ExposedOnce
    <2> QED
      BY <2>2, <2>3
  <1> QED
    BY <1>1 DEF ShotInv

LEMMA GiveUpKeeps ==
  ASSUME ShotInv, NEW ch \in Channels, GiveUp(ch)
  PROVE  ShotInv'
  <1>1. /\ slot' = [slot EXCEPT ![ch] = Idle] /\ UNCHANGED <<belief, air, proved, exposed>>
        /\ Idle \in Slots /\ ~Idle.awaiting
    BY DEF GiveUp, Idle, Slots
  <1>2. Typed'
    BY <1>1 DEF ShotInv, Typed
  <1>3. \A c \in Channels : slot'[c] = slot[c] \/ ~slot'[c].awaiting
    BY <1>1 DEF ShotInv, Typed
  <1>4. belief'.reported => proved'
    BY <1>1 DEF ShotInv
  <1> QED
    BY <1>1, <1>2, <1>3, <1>4, QuietKeeps

\* The one step that exposes a single shot; it takes the frame off the air.
LEMMA ArriveKeeps ==
  ASSUME ShotInv, NEW ch \in Channels, Arrive(ch)
  PROVE  ShotInv'
  <1>1. /\ air[ch] # "none" /\ air' = [air EXCEPT ![ch] = "none"]
        /\ exposed' = [exposed EXCEPT ![ch] = IF air[ch] = "single" /\ ~node.timed
                                              THEN exposed[ch] + 1 ELSE exposed[ch]]
        /\ UNCHANGED <<belief, slot, proved>>
    BY DEF Arrive
  <1>2. Typed'
    BY <1>1 DEF ShotInv, Typed
  <1>3. ASSUME NEW c \in Channels \ {"config"} PROVE ShotRecorded(c)' /\ ExposedOnce(c)'
    <2>1. ShotRecorded(c) /\ ExposedOnce(c) /\ exposed[c] \in Nat
      BY DEF ShotInv, Typed
    <2>2. CASE c # ch
      <3>1. air'[c] = air[c] /\ exposed'[c] = exposed[c]
        BY <1>1, <2>2 DEF ShotInv, Typed
      <3> QED
        BY <1>1, <2>1, <3>1 DEF ShotRecorded, ExposedOnce
    <2>3. CASE c = ch
      <3>1. /\ air'[c] = "none"
            /\ exposed'[c] = IF air[c] = "single" /\ ~node.timed THEN exposed[c] + 1 ELSE exposed[c]
        BY <1>1, <2>3 DEF ShotInv, Typed
      <3>2. CASE air[c] = "single" /\ ~node.timed
        <4>1. exposed[c] = 0
          BY <2>1, <3>2 DEF ExposedOnce
        <4> QED
          BY <1>1, <2>1, <3>1, <3>2, <4>1 DEF ShotRecorded, ExposedOnce
      <3>3. CASE ~(air[c] = "single" /\ ~node.timed)
        BY <1>1, <2>1, <3>1, <3>3 DEF ShotRecorded, ExposedOnce
      <3> QED
        BY <3>2, <3>3
    <2> QED
      BY <2>2, <2>3
  <1>4. belief'.reported => proved'
    BY <1>1 DEF ShotInv
  <1> QED
    BY <1>2, <1>3, <1>4 DEF ShotInv

\* A login, a restart or a new grid leaves the hub without a report.
LEMMA UnreportedKeeps ==
  ASSUME ShotInv, DoLogin \/ HearRegister \/ AgesOut \/ \E on \in BOOLEAN : SetTimedMode(on)
  PROVE  ShotInv'
  <1>1. UNCHANGED <<slot, air, exposed>> /\ Typed
    BY DEF DoLogin, HearRegister, AgesOut, SetTimedMode, ShotInv
  <1>2. /\ belief' = [f \in BeliefFields |-> belief'[f]]
        /\ \/ ~belief'.reported
           \/ /\ belief'.reported = belief.reported /\ belief'.unacked = belief.unacked
              /\ UNCHANGED proved
    <2>1. CASE DoLogin
      BY <1>1, <2>1 DEF DoLogin, Typed, BeliefFields
    <2>2. CASE HearRegister
      BY <1>1, <2>2 DEF HearRegister, Typed, BeliefFields
    <2>3. CASE AgesOut
      BY <1>1, <2>3 DEF AgesOut, Typed, BeliefFields
    <2>4. ASSUME SetTimedMode(TRUE)
          PROVE  belief' = [f \in BeliefFields |-> belief'[f]] /\ ~belief'.reported
      <3>1. belief' = [belief EXCEPT !.grid = TRUE, !.rebooted = TRUE, !.session = FALSE,
                                     !.unacked = FALSE, !.reported = FALSE, !.timed = FALSE]
        BY <2>4 DEF SetTimedMode
      <3> QED
        BY <1>1, <3>1 DEF Typed, BeliefFields
    <2>5. ASSUME SetTimedMode(FALSE)
          PROVE  /\ belief' = [f \in BeliefFields |-> belief'[f]] /\ UNCHANGED proved
                 /\ belief'.reported = belief.reported /\ belief'.unacked = belief.unacked
      <3>1. belief' = [belief EXCEPT !.grid = FALSE] /\ UNCHANGED proved
        BY <2>5 DEF SetTimedMode
      <3> QED
        BY <1>1, <3>1 DEF Typed, BeliefFields
    <2> QED
      BY <2>1, <2>2, <2>3, <2>4, <2>5
  <1>3. Typed'
    BY <1>1, <1>2 DEF Typed
  <1>4. belief'.reported => proved'
    BY <1>2 DEF ShotInv
  <1> QED
    BY <1>1, <1>2, <1>3, <1>4, QuietKeeps

\* Only a report, or an uplink in the node's slot, clears a miss, and both end the exposure.
LEMMA HeardKeeps ==
  ASSUME ShotInv, HearAuthentic
  PROVE  ShotInv'
  <1> DEFINE u == Head(up)
             reports == u.kind \in {"report", "ack", "boot"}
             Heard(placed) == IF reports THEN Report(placed, u) ELSE placed
             Final(heard) == IF u.kind = "boot" /\ heard.grid
                             THEN [heard EXCEPT !.rebooted = TRUE, !.reported = FALSE, !.timed = FALSE]
                             ELSE heard
  <1>1. PICK inSlot \in BOOLEAN :
           /\ belief' = Final(Heard(IF inSlot /\ belief.grid THEN InSlot(belief) ELSE belief))
           /\ proved' = (proved \/ reports)
           /\ slot' = IF u.kind = "ack" THEN [slot EXCEPT ![u.ch] = Idle] ELSE slot
           /\ exposed' = IF reports \/ (inSlot /\ belief.grid)
                         THEN [ch \in Channels |-> 0] ELSE exposed
    BY DEF HearAuthentic
  <1> DEFINE placed == IF inSlot /\ belief.grid THEN InSlot(belief) ELSE belief
  <1>2. UNCHANGED air /\ Typed /\ Idle \in Slots /\ ~Idle.awaiting
    BY DEF HearAuthentic, ShotInv, Idle, Slots
  <1>3. /\ placed = [f \in BeliefFields |-> placed[f]] /\ placed.reported = belief.reported
        /\ ~(inSlot /\ belief.grid) => placed = belief
    BY <1>2 DEF Typed, BeliefFields, InSlot
  <1>4. /\ Heard(placed) = [f \in BeliefFields |-> Heard(placed)[f]]
        /\ ~reports => Heard(placed) = placed
    <2> HIDE DEF placed
    <2> QED
      BY <1>3 DEF BeliefFields, Report
  <1>5. /\ belief' = [f \in BeliefFields |-> belief'[f]]
        /\ ~reports => belief' = placed
    <2> DEFINE h == Heard(placed)
    <2>1. belief' = Final(h) /\ h = [f \in BeliefFields |-> h[f]] /\ (~reports => h = placed)
      BY <1>1, <1>4
    <2> HIDE DEF h, placed
    <2>2. ~reports => u.kind # "boot"
      OBVIOUS
    <2> QED
      BY <2>1, <2>2 DEF BeliefFields
  <1> HIDE DEF placed, Heard, Final
  <1>6. /\ slot' \in [Channels -> Slots] /\ exposed' \in [Channels -> Nat]
        /\ \A ch \in Channels : slot'[ch] = slot[ch] \/ ~slot'[ch].awaiting
    BY <1>1, <1>2 DEF Typed
  <1>7. Typed'
    BY <1>2, <1>5, <1>6 DEF Typed
  <1>8. belief'.reported => proved'
    <2>1. CASE reports
      BY <1>1, <2>1
    <2>2. CASE ~reports
      BY <1>1, <1>3, <1>5, <2>2 DEF ShotInv
    <2> QED
      BY <2>1, <2>2
  <1>9. \A ch \in Channels : \/ exposed'[ch] = 0
                             \/ exposed'[ch] = exposed[ch] /\ belief' = belief
    BY <1>1, <1>3, <1>5
  <1> QED
    BY <1>2, <1>6, <1>7, <1>8, <1>9, QuietKeeps

LEMMA NextInv ==
  ASSUME ShotInv, [Next]_vars
  PROVE  ShotInv'
  <1>1. ASSUME NEW ch \in Channels, Submit(ch) \/ Missed(ch) \/ Retry(ch) \/ GiveUp(ch) \/ Arrive(ch)
        PROVE  ShotInv'
    BY <1>1, SubmitKeeps, MissKeeps, GiveUpKeeps, ArriveKeeps
  <1>2. CASE \/ AgesOut \/ DoLogin \/ HearRegister \/ HearAuthentic
             \/ \E on \in BOOLEAN : SetTimedMode(on)
    BY <1>2, UnreportedKeeps, HeardKeeps
  <1>3. CASE \/ NodeTurns \/ NodeSpeaks \/ LoseUplink \/ (\E resumed \in BOOLEAN : NodeRestarts(resumed))
             \/ UNCHANGED vars
    <2>1. UNCHANGED <<belief, slot, air, exposed, proved>>
      BY <1>3 DEF NodeTurns, NodeSpeaks, LoseUplink, NodeRestarts, vars, hub
    <2> QED
      BY <2>1 DEF ShotInv, Typed, ShotRecorded, ExposedOnce
  <1> QED
    BY <1>1, <1>2, <1>3 DEF Next

\* The slot of a command records its single shot and one shot at most met a demoted node.
THEOREM ShotInvHolds == Spec => []ShotInv
  BY InitInv, NextInv, PTL DEF Spec

\* At most one single shot of a request meets a demoted node before the hub hears from it,
\* as long as the schedule channel, whose placement records no shot, is not among them.
THEOREM BoundedExposureHolds ==
  ASSUME "config" \notin Channels
  PROVE  Spec => []BoundedExposure
  <1>1. ShotInv => BoundedExposure
    BY DEF ShotInv, ExposedOnce, BoundedExposure
  <1> QED
    BY <1>1, ShotInvHolds, PTL

\* With every channel in use it holds of the commands: schedule pushes do not clear a
\* command's miss.
THEOREM CommandsExposeOnce ==
  Spec => [](\A ch \in Channels \ {"config"} : exposed[ch] <= 1)
  <1>1. ShotInv => \A ch \in Channels \ {"config"} : exposed[ch] <= 1
    BY DEF ShotInv, ExposedOnce
  <1> QED
    BY <1>1, ShotInvHolds, PTL

-----------------------------------------------------------------------------
(* What a step may never do *)

\* The attempt after an unanswered single shot of a command.
LEMMA MissBursts ==
  ASSUME ShotInv, NEW ch \in Channels \ {"config"}, Missed(ch) \/ Retry(ch),
         slot[ch].last = "single"
  PROVE  air'[ch] = "burst"
  <1> DEFINE b == MarkUnacked(belief, slot[ch])
  <1>1. slot[ch].awaiting /\ slot[ch].shot
    BY DEF Missed, Retry, ShotInv, ShotRecorded
  <1>2. b.unacked
    BY <1>1, MarkedIs DEF ShotInv
  <1>3. PICK overdue \in BOOLEAN : air' = [air EXCEPT ![ch] = Shape(b, overdue)]
    BY DEF Missed, Retry
  <1> HIDE DEF b
  <1>4. Shape(b, overdue) = "burst"
    BY <1>2, SingleNeeds, ShapeIs
  <1> QED
    BY <1>3, <1>4 DEF ShotInv, Typed

\* Only the two retries move a request up its ladder.
LEMMA LadderMoves ==
  ASSUME ShotInv, [Next]_vars, NEW ch \in Channels,
         slot'[ch].retries > slot[ch].retries \/ (slot'[ch].shortSpent /\ ~slot[ch].shortSpent)
  PROVE  Missed(ch) \/ Retry(ch)
  <1>1. slot \in [Channels -> Slots] /\ slot[ch] \in Slots /\ slot[ch].retries \in Nat
    BY DEF ShotInv, Typed, Slots
  <1>2. Idle.retries = 0 /\ ~Idle.shortSpent
    BY DEF Idle
  <1>3. slot'[ch] # slot[ch] /\ slot'[ch] # Idle
    BY <1>1, <1>2
  <1>4. ASSUME NEW c \in Channels, GiveUp(c) \/ Arrive(c) PROVE FALSE
    BY <1>1, <1>3, <1>4 DEF GiveUp, Arrive
  <1>5. ASSUME NEW c \in Channels, c # ch, Submit(c) \/ Missed(c) \/ Retry(c) PROVE FALSE
    <2>1. \E r : slot' = [slot EXCEPT ![c] = r]
      BY <1>5 DEF Submit, Missed, Retry
    <2> QED
      BY <1>1, <1>3, <1>5, <2>1
  <1>6. ~Submit(ch)
    <2> SUFFICES ASSUME Submit(ch) PROVE FALSE
      OBVIOUS
    <2> DEFINE s == [slot[ch] EXCEPT !.retries = 0, !.shortSpent = FALSE]
    <2>1. s \in Slots /\ s.retries = 0 /\ ~s.shortSpent
      BY <1>1 DEF Slots
    <2>2. PICK overdue \in BOOLEAN : slot' = [slot EXCEPT ![ch] = Placed(ch, s, Shape(belief, overdue))]
      BY DEF Submit
    <2>3. slot'[ch] = Placed(ch, s, Shape(belief, overdue))
      BY <1>1, <2>2
    <2> HIDE DEF s
    <2>4. slot'[ch].retries = 0 /\ ~slot'[ch].shortSpent
      BY <2>1, <2>3, PlacedIs, ShapeIs
    <2> QED
      BY <1>1, <2>4
  <1>7. CASE HearAuthentic
    <2>1. \E x : slot' = slot \/ slot' = [slot EXCEPT ![x] = Idle]
      BY <1>7 DEF HearAuthentic
    <2> QED
      BY <1>1, <1>3, <2>1
  <1>8. CASE \/ AgesOut \/ DoLogin \/ HearRegister \/ NodeTurns \/ NodeSpeaks \/ LoseUplink
             \/ (\E on \in BOOLEAN : SetTimedMode(on)) \/ (\E resumed \in BOOLEAN : NodeRestarts(resumed))
             \/ UNCHANGED vars
    <2>1. UNCHANGED slot
      BY <1>8 DEF AgesOut, DoLogin, HearRegister, NodeTurns, NodeSpeaks, LoseUplink, SetTimedMode,
                  NodeRestarts, vars, hub
    <2> QED
      BY <1>3, <2>1
  <1> QED
    BY <1>4, <1>5, <1>6, <1>7, <1>8 DEF Next

\* The retry of an unacknowledged single shot of a command is a burst.
THEOREM MissIsRetriedAsBurstHolds ==
  ASSUME "config" \notin Channels
  PROVE  Spec => MissIsRetriedAsBurst
  <1>1. ASSUME ShotInv, [Next]_vars
        PROVE  \A ch \in Channels :
                  /\ slot[ch].awaiting /\ slot[ch].last = "single"
                  /\ slot'[ch].retries > slot[ch].retries \/ (slot'[ch].shortSpent /\ ~slot[ch].shortSpent)
                  => air'[ch] = "burst"
    BY <1>1, LadderMoves, MissBursts
  <1> QED
    BY <1>1, ShotInvHolds, PTL DEF Spec, MissIsRetriedAsBurst

\* No frame of any channel is cut to a single shot on a report of an earlier session.
THEOREM OldSessionProvesNothingHolds == Spec => OldSessionProvesNothing
  <1>1. ASSUME ShotInv, [Next]_vars
        PROVE  \A ch \in Channels : air[ch] # "single" /\ air'[ch] = "single" => proved
    <2> SUFFICES ASSUME NEW ch \in Channels, air[ch] # "single", air'[ch] = "single" PROVE proved
      OBVIOUS
    <2>1. Typed /\ (belief.reported => proved)
      BY <1>1 DEF ShotInv
    <2>2. ASSUME NEW c \in Channels, NEW b, NEW overdue, b.reported = belief.reported,
                 air' = [air EXCEPT ![c] = Shape(b, overdue)]
          PROVE  proved
      BY <2>1, <2>2, SingleNeeds DEF Typed
    <2>3. ASSUME NEW c \in Channels, Submit(c) PROVE proved
      BY <2>2, <2>3 DEF Submit
    <2>4. ASSUME NEW c \in Channels, Missed(c) \/ Retry(c) PROVE proved
      <3> DEFINE b == MarkUnacked(belief, slot[c])
      <3>1. b.reported = belief.reported
        BY <2>1, MarkedIs
      <3>2. PICK overdue \in BOOLEAN : air' = [air EXCEPT ![c] = Shape(b, overdue)]
        BY <2>4 DEF Missed, Retry
      <3> HIDE DEF b
      <3> QED
        BY <2>2, <3>1, <3>2
    <2>5. ASSUME NEW c \in Channels PROVE ~GiveUp(c) /\ ~Arrive(c)
      BY <2>1 DEF GiveUp, Arrive, Typed
    <2>6. ASSUME UNCHANGED air PROVE FALSE
      BY <2>6
    <2>7. CASE \/ AgesOut \/ DoLogin \/ HearRegister \/ HearAuthentic \/ NodeTurns \/ NodeSpeaks
               \/ LoseUplink \/ (\E on \in BOOLEAN : SetTimedMode(on))
               \/ (\E resumed \in BOOLEAN : NodeRestarts(resumed)) \/ UNCHANGED vars
      BY <2>6, <2>7 DEF AgesOut, DoLogin, HearRegister, HearAuthentic, NodeTurns, NodeSpeaks,
                        LoseUplink, SetTimedMode, NodeRestarts, vars, hub
    <2> QED
      BY <1>1, <2>3, <2>4, <2>5, <2>7 DEF Next
  <1> QED
    BY <1>1, ShotInvHolds, PTL DEF Spec, OldSessionProvesNothing

-----------------------------------------------------------------------------
(* The marks a frame is placed on (Air): arithmetic of the grid *)

LEMMA Least ==
  ASSUME NEW S, S \subseteq Nat, S # {}
  PROVE  \E m \in S : \A k \in S : m <= k
  <1> DEFINE R == OpToRel(<, Nat)
  <1>1. IsWellFoundedOn(R, Nat)
    BY NatLessThanWellFounded
  <1>2. \A x, y \in Nat : y < x => <<y, x>> \in R
    BY DEF OpToRel
  <1> HIDE DEF R
  <1>3. PICK m \in S : \A y \in S : ~(<<y, m>> \in R)
    BY <1>1, WFMin
  <1>4. \A k \in S : ~(k < m)
    BY <1>2, <1>3
  <1> QED
    BY <1>4

\* A quotient rounded up: the first multiple that is not below.
LEMMA CeilDivIs ==
  ASSUME NEW a \in Int, NEW b \in Nat \ {0}
  PROVE  LET c == CeilDiv(a, b) IN c \in Int /\ c * b >= a /\ (c - 1) * b < a
  BY DEF CeilDiv

LEMMA NextT0Is ==
  ASSUME AirTyped, NEW n \in Nat, NEW from \in Int
  PROVE  NextT0(n, from) \in Int /\ NextT0(n, from) >= from
  <1>1. Round \in Nat \ {0} /\ Pitch \in Nat
    BY GridAssumption
  <1>2. SlotBase(n) \in Int
    BY <1>1 DEF SlotBase, AirTyped
  <1>3. CASE from <= SlotBase(n)
    BY <1>2, <1>3 DEF NextT0
  <1>4. CASE ~(from <= SlotBase(n))
    <2> DEFINE c == CeilDiv(from - SlotBase(n), Round)
    <2>1. c \in Int /\ c * Round >= from - SlotBase(n)
      BY <1>1, <1>2, CeilDivIs
    <2>2. NextT0(n, from) = SlotBase(n) + c * Round
      BY <1>4 DEF NextT0
    <2> HIDE DEF c
    <2>3. c * Round \in Int
      BY <1>1, <2>1
    <2> QED
      BY <1>2, <2>1, <2>2, <2>3
  <1> QED
    BY <1>3, <1>4

LEMMA NextClearT0Is ==
  ASSUME AirTyped, NEW n \in Nat, NEW from \in Int, NEW copies, NEW reply
  PROVE  NextClearT0(n, from, copies, reply) \in Int /\ NextClearT0(n, from, copies, reply) >= from
  <1> DEFINE t0 == NextT0(n, from)
             clear == {r \in 0 .. MaxSearchRounds - 1 : Clear(t0 + r * Round, from, copies, reply)}
             rounds == IF clear = {} THEN MaxSearchRounds
                       ELSE CHOOSE r \in clear : \A m \in clear : r <= m
  <1>1. Round \in Nat /\ MaxSearchRounds \in Nat
    BY GridAssumption
  <1>2. t0 \in Int /\ t0 >= from
    BY NextT0Is
  <1>3. clear \subseteq Nat
    BY <1>1
  <1>4. rounds \in Nat
    <2>1. CASE clear = {}
      BY <1>1, <2>1
    <2>2. CASE clear # {}
      <3> HIDE DEF clear
      <3>1. \E r \in clear : \A m \in clear : r <= m
        BY <1>3, <2>2, Least
      <3> QED
        BY <1>3, <2>2, <3>1
    <2> QED
      BY <2>1, <2>2
  <1>5. NextClearT0(n, from, copies, reply) = t0 + Round * rounds
    BY DEF NextClearT0
  <1> HIDE DEF t0, rounds
  <1>6. Round * rounds \in Nat
    BY <1>1, <1>4
  <1> QED
    BY <1>2, <1>5, <1>6

\* A mark that is chosen is later than any the task has used for the node.
LEMMA PlacementIs ==
  ASSUME AirTyped, NEW t \in Placers, NEW n \in Nodes, NEW copies, NEW reply
  PROVE  PlacementT0(t, n, copies, reply) \in Int /\ PlacementT0(t, n, copies, reply) > lastPlaced[t][n]
  <1>1. n \in Nat /\ now \in Int /\ lastPlaced[t][n] \in Int /\ lastPlaced[t][n] + 1 \in Int
    <2>1. lastPlaced[t] \in [Nodes -> Int]
      BY DEF AirTyped
    <2>2. n \in Nat /\ now \in Int
      BY GridAssumption DEF AirTyped
    <2>3. lastPlaced[t][n] \in Int
      BY <2>1
    <2> QED
      BY <2>2, <2>3
  <1>2. NextClearT0(n, now, copies, reply) \in Int
    BY <1>1, NextClearT0Is
  <1>3. /\ NextClearT0(n, lastPlaced[t][n] + 1, copies, reply) \in Int
        /\ NextClearT0(n, lastPlaced[t][n] + 1, copies, reply) >= lastPlaced[t][n] + 1
    BY <1>1, NextClearT0Is
  <1> QED
    BY <1>1, <1>2, <1>3 DEF PlacementT0

\* The beacon's next mark is that of a beacon round, and the first that is not past.
LEMMA NextBeaconIs ==
  ASSUME AirTyped, GridStarted
  PROVE  \E k \in Nat :
           /\ NextBeaconT0(now) = BeaconMark(k * BeaconEvery)
           /\ RoundForSlotT0(BeaconSlot, NextBeaconT0(now)) = k * BeaconEvery
           /\ NextBeaconT0(now) >= now /\ NextBeaconT0(now) \in Int
           /\ k > 0 => BeaconMark((k - 1) * BeaconEvery) < now
  <1> DEFINE base == SlotBase(BeaconSlot)
             P == Round * BeaconEvery
  <1>1. Round \in Nat \ {0} /\ BeaconEvery \in Nat \ {0} /\ base \in Int /\ now \in Nat
    <2>1. anchor \in Int /\ now \in Nat
      BY DEF AirTyped
    <2>2. Round \in Nat \ {0} /\ BeaconEvery \in Nat \ {0} /\ Pitch \in Nat /\ BeaconSlot \in Nat
      BY GridAssumption
    <2> QED
      BY <2>1, <2>2 DEF SlotBase
  <1>2. P \in Nat \ {0}
    BY <1>1
  <1>3. \A k \in Int : BeaconMark(k * BeaconEvery) = base + k * P
    BY <1>1 DEF BeaconMark
  <1>4. \A k \in Nat : RoundForSlotT0(BeaconSlot, BeaconMark(k * BeaconEvery)) = k * BeaconEvery
    <2> TAKE k \in Nat
    <2> DEFINE r == k * BeaconEvery
    <2>1. r \in Nat /\ BeaconMark(r) = base + r * Round
      BY <1>1 DEF BeaconMark
    <2> HIDE DEF r
    <2>2. r * Round \in Nat /\ (r * Round) \div Round = r
      BY <1>1, <2>1
    <2>3. ~(BeaconMark(r) < base) /\ BeaconMark(r) - base = r * Round
      BY <1>1, <2>1, <2>2
    <2> QED
      BY <2>2, <2>3 DEF RoundForSlotT0, r
  <1>5. CASE now <= base
    <2>1. NextBeaconT0(now) = base
      BY <1>5 DEF NextBeaconT0
    <2>2. BeaconMark(0 * BeaconEvery) = base /\ 0 * BeaconEvery = 0
      BY <1>1 DEF BeaconMark
    <2> QED
      BY <1>1, <1>4, <1>5, <2>1, <2>2
  <1>6. CASE ~(now <= base)
    <2> DEFINE c == CeilDiv(now - base, P)
    <2>1. c \in Int /\ c * P >= now - base /\ (c - 1) * P < now - base
      BY <1>1, <1>2, CeilDivIs
    <2>2. NextBeaconT0(now) = base + c * Round * BeaconEvery
      BY <1>6 DEF NextBeaconT0
    <2> HIDE DEF c
    <2>3. c * Round * BeaconEvery = c * P
      BY <1>1, <2>1
    <2> HIDE DEF P
    <2>4. c > 0
      <3>1. c * P > 0
        BY <1>1, <1>2, <1>6, <2>1
      <3> QED
        BY <1>2, <2>1, <3>1
    <2>5. c \in Nat /\ c - 1 \in Int /\ c * P \in Int /\ (c - 1) * P \in Int
      BY <1>2, <2>1, <2>4
    <2>6. BeaconMark(c * BeaconEvery) = base + c * P /\ BeaconMark((c - 1) * BeaconEvery) = base + (c - 1) * P
      BY <1>3, <2>5
    <2> QED
      BY <1>1, <1>4, <2>1, <2>2, <2>3, <2>5, <2>6
  <1> QED
    BY <1>5, <1>6

-----------------------------------------------------------------------------
(* The frames that wait (Air) *)

\* What is left of a sequence keeps its order.
LEMMA RemovedIs ==
  ASSUME NEW S, NEW q \in Seq(S), NEW n \in 1 .. Len(q)
  PROVE  /\ RemoveAt(q, n) \in Seq(S)
         /\ Len(RemoveAt(q, n)) = Len(q) - 1
         /\ \A i \in 1 .. Len(q) - 1 : RemoveAt(q, n)[i] = IF i < n THEN q[i] ELSE q[i + 1]
  <1> DEFINE a == SubSeq(q, 1, n - 1)
             b == SubSeq(q, n + 1, Len(q))
  <1>1. Len(q) \in Nat /\ RemoveAt(q, n) = a \o b
    BY DEF RemoveAt
  <1>2. a \in Seq(S) /\ Len(a) = n - 1 /\ \A i \in 1 .. n - 1 : a[i] = q[i]
    BY <1>1
  <1>3. b \in Seq(S) /\ Len(b) = Len(q) - n /\ \A i \in 1 .. Len(q) - n : b[i] = q[i + n]
    BY <1>1
  <1> HIDE DEF a, b
  <1>4. a \o b \in Seq(S) /\ Len(a \o b) = Len(q) - 1
    <2>1. a \in Seq(S) /\ b \in Seq(S)
      BY <1>2, <1>3
    <2>2. a \o b \in Seq(S)
      BY <2>1
    <2>3. Len(a \o b) = Len(a) + Len(b)
      BY <2>1
    <2> QED
      BY <1>1, <1>2, <1>3, <2>2, <2>3
  <1>5. ASSUME NEW i \in 1 .. Len(q) - 1
        PROVE  (a \o b)[i] = IF i < n THEN q[i] ELSE q[i + 1]
    <2>1. CASE i < n
      BY <1>1, <1>2, <1>3, <2>1
    <2>2. CASE ~(i < n)
      <3>1. i - (n - 1) \in 1 .. Len(q) - n
        BY <1>1, <2>2
      <3>2. (a \o b)[i] = b[i - (n - 1)]
        BY <1>1, <1>2, <1>3, <2>2
      <3>3. b[i - (n - 1)] = q[i + 1]
        BY <1>1, <1>3, <3>1
      <3> QED
        BY <2>2, <3>2, <3>3
    <2> QED
      BY <2>1, <2>2
  <1> QED
    BY <1>1, <1>4, <1>5

\* popDue takes one of the frames that are due.
LEMMA Next1IsDue ==
  ASSUME AirTyped, Due # {}
  PROVE  Next1 \in Due /\ Next1 \in 1 .. Len(waiting) /\ waiting[Next1] \in Frames
  <1> DEFINE D == Due
             Better(i, j) == \/ waiting[i].priority < waiting[j].priority
                             \/ waiting[i].priority = waiting[j].priority /\ i < j
             Urgencies == {waiting[i].priority : i \in D}
  <1>1. /\ D \subseteq 1 .. Len(waiting) /\ Len(waiting) \in Nat
        /\ \A i \in 1 .. Len(waiting) : waiting[i] \in Frames
    BY DEF AirTyped, Due
  <1>2. \A i \in D : waiting[i].priority \in Nat /\ i \in Nat
    BY <1>1 DEF Frames
  <1> HIDE DEF D
  <1>3. PICK u \in Urgencies : \A v \in Urgencies : u <= v
    <2>1. D # {}
      BY DEF D
    <2> QED
      BY <1>2, <2>1, Least
  <1> DEFINE S == {i \in D : waiting[i].priority = u}
  <1>4. S # {} /\ S \subseteq Nat
    <2>1. PICK i \in D : waiting[i].priority = u
      BY <1>3
    <2>2. i \in S
      BY <2>1
    <2> QED
      BY <1>2, <2>2
  <1>5. PICK m \in S : \A k \in S : m <= k
    BY <1>4, Least
  <1>6. ASSUME NEW j \in D \ {m} PROVE Better(m, j)
    <2>1. u <= waiting[j].priority /\ u \in Nat /\ m \in Nat /\ j \in Nat
      BY <1>2, <1>3, <1>5
    <2>2. waiting[j].priority = u => m <= j
      BY <1>5
    <2> QED
      BY <1>2, <1>5, <2>1, <2>2
  <1>7. Next1 = CHOOSE i \in D : \A j \in D \ {i} : Better(i, j)
    BY DEF Next1, D
  <1> HIDE DEF Better
  <1>8. Next1 \in D
    BY <1>5, <1>6, <1>7
  <1> QED
    BY <1>1, <1>8 DEF D

\* A copy at least is sent, so that a burst is over after it began.
LEMMA FrameEndIs ==
  ASSUME NEW start \in Int, NEW f \in Frames
  PROVE  FrameEnd(start, f) \in Int /\ FrameEnd(start, f) > start
  <1>1. Stride \in Nat /\ FrameTime \in Nat \ {0} /\ ResponseWindow \in Nat
    BY GridAssumption
  <1>2. f.copies \in Nat \ {0} /\ f.reply \in BOOLEAN
    BY DEF Frames
  <1>3. (f.copies - 1) * Stride \in Nat
    BY <1>1, <1>2
  <1> QED
    BY <1>1, <1>2, <1>3 DEF FrameEnd, BurstEnd

\* The queue grows at its end, and the channel is not declared busy.
LEMMA AcceptedIs ==
  ASSUME AirTyped, NEW f \in Frames, Accept(f)
  PROVE  /\ waiting' = Append(waiting, f) /\ burstBusy' = burstBusy
         /\ waiting' \in Seq(Frames)
         /\ Len(waiting') = Len(waiting) + 1
         /\ \A i \in 1 .. Len(waiting) : waiting'[i] = waiting[i]
         /\ waiting'[Len(waiting) + 1] = f
  BY DEF Accept, AirTyped

\* The frames the senders make.
LEMMA BeaconIs ==
  ASSUME AirTyped, ServiceBeacon
  PROVE  \E f \in Frames : f.kind = "beacon" /\ f.node = BeaconSlot
                           /\ f.at = FireInstant(NextBeaconT0(now)) /\ Accept(f)
  <1> DEFINE f == [at |-> FireInstant(NextBeaconT0(now)), node |-> BeaconSlot, kind |-> "beacon",
                   copies |-> 1, reply |-> FALSE, priority |-> 0]
  <1>1. NextBeaconT0(now) \in Int
    BY NextBeaconIs DEF ServiceBeacon, BeaconDue
  <1>2. f \in Frames
    BY <1>1, GridAssumption DEF Frames, FireInstant
  <1> QED
    BY <1>2 DEF ServiceBeacon

LEMMA ReplyIs ==
  ASSUME AirTyped, SendTimeSync
  PROVE  \/ UNCHANGED <<waiting, planVars>>
         \/ \E f \in Frames : f.kind = "reply" /\ f.node = Waker /\ f.at >= now + Lead /\ Accept(f)
  <1>1. CASE Reachable # {} /\ HasBuffer
    <2>1. PICK w \in Reachable : Accept(Reply(w))
      BY <1>1 DEF SendTimeSync, FireClassA
    <2>2. w \in Int /\ FireInstant(uplink + w) >= now + Lead
      BY GridAssumption DEF Reachable
    <2>3. Reply(w) \in Frames
      <3>1. uplink \in Int
        BY DEF AirTyped
      <3>2. ToT0 \in Int /\ Waker \in Nat
        BY GridAssumption
      <3> QED
        BY <2>2, <3>1, <3>2 DEF Reply, Frames, FireInstant
    <2> QED
      BY <2>1, <2>2, <2>3 DEF Reply
  <1>2. CASE ~(Reachable # {} /\ HasBuffer)
    BY <1>2 DEF SendTimeSync, FireClassA
  <1> QED
    BY <1>1, <1>2

LEMMA UnplacedIs ==
  ASSUME AirTyped, SendUnplaced
  PROVE  \/ UNCHANGED <<waiting, planVars>>
         \/ \E f \in Frames : f.kind = "command" /\ f.at = 0 /\ Accept(f)
  <1>1. \A n \in Nodes : [at |-> 0, node |-> n, kind |-> "command", copies |-> BurstCopies,
                          reply |-> TRUE, priority |-> 1] \in Frames
    BY GridAssumption DEF Frames
  <1> QED
    BY <1>1 DEF SendUnplaced

LEMMA ShapesAre ==
  ASSUME NEW t, NEW s \in Shapes(t)
  PROVE  s.copies \in Nat \ {0} /\ s.reply \in BOOLEAN
  <1>1. \/ s = [copies |-> 1, reply |-> TRUE]
        \/ s = [copies |-> BurstCopies, reply |-> TRUE]
        \/ s = [copies |-> 1, reply |-> FALSE]
    BY Zenon DEF Shapes
  <1>2. BurstCopies \in Nat \ {0}
    BY GridAssumption
  <1>3. CASE s = [copies |-> 1, reply |-> TRUE]
    BY <1>3
  <1>4. CASE s = [copies |-> BurstCopies, reply |-> TRUE]
    BY <1>2, <1>4
  <1>5. CASE s = [copies |-> 1, reply |-> FALSE]
    BY <1>5
  <1> QED
    BY <1>1, <1>3, <1>4, <1>5

\* The mark a task has chosen, which is later than its last for that node.
LEMMA ChoiceIs ==
  ASSUME AirTyped, NEW t \in Placers, ChooseMark(t)
  PROVE  /\ pending' \in [Placers -> Frames \cup {None}]
         /\ \A s \in Placers \ {t} : pending'[s] = pending[s]
         /\ pending'[t] \in Frames /\ pending'[t].node \in Nodes
         /\ pending'[t].kind = IF t = "loop" THEN "command" ELSE "mark"
         /\ pending'[t].at + ToT0 > lastPlaced[t][pending'[t].node]
  <1>1. PICK n \in Nodes, s \in Shapes(t) :
          pending' = [pending EXCEPT ![t] =
             [at |-> FireInstant(PlacementT0(t, n, s.copies, s.reply)), node |-> n,
              kind |-> IF t = "loop" THEN "command" ELSE "mark",
              copies |-> s.copies, reply |-> s.reply, priority |-> 1]]
    BY DEF ChooseMark
  <1> DEFINE f == [at |-> FireInstant(PlacementT0(t, n, s.copies, s.reply)), node |-> n,
                   kind |-> IF t = "loop" THEN "command" ELSE "mark",
                   copies |-> s.copies, reply |-> s.reply, priority |-> 1]
             mark == PlacementT0(t, n, s.copies, s.reply)
  <1>2. mark \in Int /\ mark > lastPlaced[t][n]
    BY PlacementIs
  <1>3. s.copies \in Nat \ {0} /\ s.reply \in BOOLEAN
    BY ShapesAre
  <1>4. ToT0 \in Int /\ n \in Nat
    BY GridAssumption
  <1> HIDE DEF mark
  <1>5. f \in Frames /\ f.at = mark - ToT0 /\ f.node = n
    BY <1>2, <1>3, <1>4 DEF Frames, FireInstant, mark
  <1>6. pending \in [Placers -> Frames \cup {None}] /\ pending' = [pending EXCEPT ![t] = f]
    BY <1>1 DEF AirTyped
  <1>7. lastPlaced[t][n] \in Int
    <2>1. lastPlaced[t] \in [Nodes -> Int]
      BY DEF AirTyped
    <2> QED
      BY <2>1
  <1>8. f.kind = IF t = "loop" THEN "command" ELSE "mark"
    OBVIOUS
  <1> HIDE DEF f
  <1> QED
    BY <1>2, <1>4, <1>5, <1>6, <1>7, <1>8

LEMMA SendPlacedIs ==
  ASSUME AirTyped, NEW t \in Placers, SendPlaced(t)
  PROVE  /\ pending[t] \in Frames /\ pending[t].node \in Nodes
         /\ pending[t].kind = IF t = "loop" THEN "command" ELSE "mark"
         /\ pending' = [pending EXCEPT ![t] = None] /\ pending' \in [Placers -> Frames \cup {None}]
  <1>1. pending \in [Placers -> Frames \cup {None}] /\ pending[t] # None
    BY DEF AirTyped, SendPlaced
  <1>2. pending[t] \in Frames
    BY <1>1
  <1>3. pending[t].node \in Nodes /\ pending[t].kind = IF t = "loop" THEN "command" ELSE "mark"
    BY <1>1 DEF AirTyped
  <1>4. pending' = [pending EXCEPT ![t] = None]
    BY DEF SendPlaced
  <1>5. pending' \in [Placers -> Frames \cup {None}]
    BY <1>1, <1>4
  <1> QED
    BY <1>2, <1>3, <1>4, <1>5

\* Sent, or refused for want of a buffer.
LEMMA PlacedOrRefused ==
  ASSUME NEW t \in Placers, SendPlaced(t)
  PROVE  \/ UNCHANGED <<waiting, planVars>> /\ UNCHANGED lastPlaced
         \/ /\ Accept(pending[t])
            /\ lastPlaced' = [lastPlaced EXCEPT ![t][pending[t].node] = pending[t].at + ToT0]
  <1>1. CASE HasBuffer
    <2>1. /\ Accept(pending[t])
          /\ lastPlaced' = [lastPlaced EXCEPT ![t][pending[t].node] = pending[t].at + ToT0]
      BY Zenon, <1>1 DEF SendPlaced
    <2> QED
      BY <2>1
  <1>2. CASE ~HasBuffer
    <2>1. UNCHANGED <<waiting, planVars, lastPlaced>>
      BY Zenon, <1>2 DEF SendPlaced
    <2> QED
      BY <2>1
  <1> QED
    BY <1>1, <1>2

-----------------------------------------------------------------------------
(* Types (Air) *)

LEMMA AirTypedInit ==
  ASSUME AirInit
  PROVE  AirTyped
  <1>1. now = 0 /\ anchor = -1 /\ waiting = <<>> /\ burstBusy = 0 /\ beaconQueued = -1 /\ uplink = -1
    BY DEF AirInit
  <1>2. lastPlaced \in [Placers -> [Nodes -> Int]]
    BY DEF AirInit
  <1>3. pending \in [Placers -> Frames \cup {None}] /\ \A t \in Placers : pending[t] = None
    BY DEF AirInit
  <1>4. waiting \in Seq(Frames)
    BY <1>1
  <1> QED
    BY <1>1, <1>2, <1>3, <1>4 DEF AirTyped, GridStarted

\* Every step but TakeUp leaves the queue as it is or adds to its end.
LEMMA AirTypedNext ==
  ASSUME AirTyped, [AirNext]_airVars
  PROVE  AirTyped'
  <1> DEFINE Clock == /\ now \in Nat /\ anchor \in Int /\ (anchor >= 0 => anchor \in Nat)
                      /\ beaconQueued \in Int /\ uplink \in Int
             Queue == waiting \in Seq(Frames) /\ burstBusy \in Int
             Marks == lastPlaced \in [Placers -> [Nodes -> Int]]
             Choice == /\ pending \in [Placers -> Frames \cup {None}]
                        /\ \A t \in Placers : pending[t] # None =>
                              /\ pending[t].node \in Nodes
                              /\ pending[t].kind = IF t = "loop" THEN "command" ELSE "mark"
  <1>0. AirTyped <=> Clock /\ Queue /\ Marks /\ Choice
    BY DEF AirTyped, GridStarted
  <1>00. AirTyped' <=> Clock' /\ Queue' /\ Marks' /\ Choice'
    BY DEF AirTyped, GridStarted
  <1>a. ASSUME UNCHANGED <<now, anchor, beaconQueued, uplink>> PROVE Clock'
    BY <1>0, <1>a
  <1>b. ASSUME UNCHANGED <<waiting, planVars>> PROVE Queue'
    BY <1>0, <1>b DEF planVars
  <1>c. ASSUME NEW f \in Frames, Accept(f) PROVE Queue'
    BY <1>0, <1>c, AcceptedIs
  <1>d. ASSUME UNCHANGED lastPlaced PROVE Marks'
    BY <1>0, <1>d
  <1>e. ASSUME UNCHANGED pending PROVE Choice'
    BY <1>0, <1>e
  <1>1. CASE StartGrid
    <2>1. Clock'
      BY <1>0, <1>1 DEF StartGrid
    <2> QED
      BY <1>00, <1>1, <1>b, <1>d, <1>e, <2>1 DEF StartGrid
  <1>2. CASE SendUnplaced
    <2>1. Queue'
      BY <1>2, <1>b, <1>c, UnplacedIs
    <2>2. UNCHANGED <<now, anchor, beaconQueued, uplink>> /\ UNCHANGED lastPlaced /\ UNCHANGED pending
      BY <1>2 DEF SendUnplaced
    <2> QED
      BY <1>00, <1>a, <1>d, <1>e, <2>1, <2>2
  <1>3. CASE ServiceBeacon
    <2>1. Queue'
      BY <1>3, <1>c, BeaconIs
    <2>2. UNCHANGED <<now, anchor, uplink>> /\ UNCHANGED lastPlaced /\ UNCHANGED pending
      BY <1>3 DEF ServiceBeacon
    <2>3. beaconQueued' \in Int
      <3>1. GridStarted
        BY <1>3 DEF ServiceBeacon, BeaconDue
      <3>2. PICK k \in Nat : RoundForSlotT0(BeaconSlot, NextBeaconT0(now)) = k * BeaconEvery
        BY <3>1, NextBeaconIs
      <3>3. BeaconEvery \in Nat
        BY GridAssumption
      <3> QED
        BY <1>3, <3>2, <3>3 DEF ServiceBeacon
    <2>4. Clock'
      BY <1>0, <2>2, <2>3
    <2> QED
      BY <1>00, <1>d, <1>e, <2>1, <2>2, <2>4
  <1>4. CASE HearWaker
    <2>1. Clock'
      BY <1>0, <1>4 DEF HearWaker
    <2> QED
      BY <1>00, <1>4, <1>b, <1>d, <1>e, <2>1 DEF HearWaker
  <1>5. CASE SendTimeSync
    <2>1. Queue'
      BY <1>5, <1>b, <1>c, ReplyIs
    <2>2. UNCHANGED <<now, anchor, beaconQueued>> /\ uplink' = -1 /\ UNCHANGED lastPlaced /\ UNCHANGED pending
      BY <1>5 DEF SendTimeSync
    <2>3. Clock'
      BY <1>0, <2>2
    <2> QED
      BY <1>00, <1>d, <1>e, <2>1, <2>2, <2>3
  <1>6. ASSUME NEW t \in Placers, ChooseMark(t) PROVE AirTyped'
    <2>1. Choice'
      BY <1>0, <1>6, ChoiceIs
    <2> QED
      BY <1>00, <1>6, <1>a, <1>b, <1>d, <2>1 DEF ChooseMark
  <1>7. ASSUME NEW t \in Placers, SendPlaced(t) PROVE AirTyped'
    <2>1. Choice'
      BY <1>0, <1>7, SendPlacedIs
    <2>2. Queue'
      <3>1. pending[t] \in Frames
        BY <1>7, SendPlacedIs
      <3> QED
        BY <1>7, <1>b, <1>c, <3>1, PlacedOrRefused
    <2>3. Marks'
      <3>1. pending[t].at + ToT0 \in Int
        <4>1. ToT0 \in Int
          BY GridAssumption
        <4>2. pending[t] \in Frames
          BY <1>7, SendPlacedIs
        <4> QED
          BY <4>1, <4>2 DEF Frames
      <3>2. CASE lastPlaced' = [lastPlaced EXCEPT ![t][pending[t].node] = pending[t].at + ToT0]
        <4>1. pending[t].node \in Nodes
          BY <1>7, SendPlacedIs
        <4> QED
          BY <1>0, <3>1, <3>2, <4>1
      <3> QED
        BY <1>7, <1>d, <3>2, PlacedOrRefused
    <2>4. Clock'
      BY <1>7, <1>a DEF SendPlaced
    <2> QED
      BY <1>00, <2>1, <2>2, <2>3, <2>4
  <1>8. CASE TakeUp
    <2>1. Next1 \in 1 .. Len(waiting) /\ waiting[Next1] \in Frames
      BY <1>8, Next1IsDue DEF TakeUp
    <2>2. waiting' \in Seq(Frames)
      BY <1>0, <1>8, <2>1, RemovedIs DEF TakeUp
    <2>3. burstBusy' \in Int
      <3> DEFINE f == waiting[Next1]
                 start == Larger(f.at, now)
      <3>1. start \in Int
        <4>1. f.at \in Int
          BY <2>1 DEF Frames
        <4> HIDE DEF f
        <4> QED
          BY <1>0, <4>1 DEF Larger
      <3>2. burstBusy' = burstBusy \/ burstBusy' = FrameEnd(start, f)
        BY <1>8 DEF TakeUp
      <3> HIDE DEF start
      <3> QED
        BY <1>0, <2>1, <3>1, <3>2, FrameEndIs
    <2>4. UNCHANGED <<now, anchor, beaconQueued, uplink>> /\ UNCHANGED lastPlaced /\ UNCHANGED pending
      BY <1>8 DEF TakeUp
    <2> QED
      BY <1>00, <1>a, <1>d, <1>e, <2>2, <2>3, <2>4
  <1>9. CASE EndBurst
    BY <1>00, <1>9, <1>a, <1>b, <1>d, <1>e DEF EndBurst
  <1>10. CASE Tick
    <2>1. Clock'
      BY <1>0, <1>10 DEF Tick
    <2> QED
      BY <1>00, <1>10, <1>b, <1>d, <1>e, <2>1 DEF Tick
  <1>11. CASE UNCHANGED airVars
    BY <1>00, <1>11, <1>a, <1>b, <1>d, <1>e DEF airVars
  <1> QED
    BY <1>1, <1>2, <1>3, <1>4, <1>5, <1>6, <1>7, <1>8, <1>9, <1>10, <1>11 DEF AirNext

\* The types the model gives its variables, for any grid, any pool and any placing tasks.
THEOREM AirTypedHolds == AirSpec => []AirTyped
  <1> QED
    BY AirTypedInit, AirTypedNext, PTL DEF AirSpec

-----------------------------------------------------------------------------
(* Replies in their window (Air) *)

\* A reply that waits is not past its window, or the channel was busy at the window.
Punctual(f) == f.at > 0 /\ f.kind = "reply" /\ f.at < now => burstBusy > f.at

LEMMA PunctualIs ==
  ReplyOnTime <=> \A i \in DOMAIN waiting : Punctual(waiting[i])
  BY DEF ReplyOnTime, PlacedFrames, Punctual

\* The queue is extended, if at all, by a frame whose instant is not past.
LEMMA PunctualKept ==
  ASSUME AirTyped, ReplyOnTime, UNCHANGED <<now, burstBusy>>,
         \/ waiting' = waiting
         \/ \E f \in Frames : Accept(f) /\ (f.kind = "reply" => f.at >= now)
  PROVE  ReplyOnTime'
  <1>1. \A i \in DOMAIN waiting : Punctual(waiting[i])
    BY PunctualIs
  <1>2. CASE waiting' = waiting
    BY <1>2 DEF ReplyOnTime, PlacedFrames
  <1>3. ASSUME NEW f \in Frames, Accept(f), f.kind = "reply" => f.at >= now PROVE ReplyOnTime'
    <2>1. /\ \A i \in 1 .. Len(waiting) : waiting'[i] = waiting[i]
          /\ waiting'[Len(waiting) + 1] = f /\ DOMAIN waiting' = 1 .. Len(waiting) + 1
          /\ DOMAIN waiting = 1 .. Len(waiting) /\ Len(waiting) \in Nat
      <3>1. waiting \in Seq(Frames)
        BY DEF AirTyped
      <3>2. waiting' \in Seq(Frames) /\ Len(waiting') = Len(waiting) + 1
        BY <1>3, AcceptedIs
      <3>3. \A q \in Seq(Frames) : DOMAIN q = 1 .. Len(q) /\ Len(q) \in Nat
        OBVIOUS
      <3>4. DOMAIN waiting' = 1 .. Len(waiting) + 1 /\ DOMAIN waiting = 1 .. Len(waiting) /\ Len(waiting) \in Nat
        BY <3>1, <3>2, <3>3
      <3> QED
        BY <1>3, <3>4, AcceptedIs
    <2>2. f.at \in Int /\ now \in Int
      BY DEF Frames, AirTyped
    <2> SUFFICES ASSUME NEW i \in DOMAIN waiting', waiting'[i].at > 0, waiting'[i].kind = "reply",
                        waiting'[i].at < now'
                 PROVE  burstBusy' > waiting'[i].at
      BY DEF ReplyOnTime, PlacedFrames
    <2>3. waiting'[i].at < now
      OBVIOUS
    <2>4. CASE i \in 1 .. Len(waiting)
      <3>1. waiting'[i] = waiting[i]
        BY <2>1, <2>4
      <3>2. waiting[i].at > 0 /\ waiting[i].kind = "reply" /\ waiting[i].at < now /\ Punctual(waiting[i])
        BY <1>1, <2>1, <2>3, <2>4, <3>1
      <3> QED
        BY <3>1, <3>2 DEF Punctual
    <2>5. CASE i = Len(waiting) + 1
      BY <1>3, <2>1, <2>2, <2>3, <2>5
    <2> QED
      BY <2>1, <2>4, <2>5
  <1> QED
    BY <1>2, <1>3

\* A frame is taken up: the channel is busy from now on, if it was not free to be refused.
LEMMA PunctualTakeUp ==
  ASSUME AirTyped, ReplyOnTime, TakeUp
  PROVE  ReplyOnTime' /\ BusyWhileOnAir'
  <1> DEFINE f == waiting[Next1]
             start == Larger(f.at, now)
             n == Next1
  <1>1. n \in 1 .. Len(waiting) /\ f \in Frames /\ waiting \in Seq(Frames) /\ Len(waiting) \in Nat
    <2>1. waiting \in Seq(Frames)
      BY DEF AirTyped
    <2> QED
      BY <2>1, Next1IsDue DEF TakeUp
  <1>2. waiting' = RemoveAt(waiting, n) /\ now' = now /\ onAir = None
    BY DEF TakeUp
  <1>3. \/ UNCHANGED <<onAir, burstBusy>>
        \/ onAir' = [at |-> start, end |-> FrameEnd(start, f)] /\ burstBusy' = FrameEnd(start, f)
    BY DEF TakeUp
  <1>4. start \in Int /\ start >= now /\ now \in Int
    <2>1. f.at \in Int /\ now \in Int
      BY <1>1 DEF Frames, AirTyped
    <2> HIDE DEF f
    <2> QED
      BY <2>1 DEF Larger
  <1> HIDE DEF n, f, start
  <1>5. FrameEnd(start, f) \in Int /\ FrameEnd(start, f) > now
    <2>1. FrameEnd(start, f) \in Int /\ FrameEnd(start, f) > start
      BY <1>1, <1>4, FrameEndIs
    <2> QED
      BY <1>4, <2>1
  <1>6. BusyWhileOnAir'
    <2>1. CASE UNCHANGED <<onAir, burstBusy>>
      BY <1>2, <2>1 DEF BusyWhileOnAir
    <2>2. CASE onAir' = [at |-> start, end |-> FrameEnd(start, f)] /\ burstBusy' = FrameEnd(start, f)
      BY <2>2 DEF BusyWhileOnAir
    <2> QED
      BY <1>3, <2>1, <2>2
  <1>7. ReplyOnTime'
    <2> SUFFICES ASSUME NEW i \in DOMAIN waiting', waiting'[i].at > 0, waiting'[i].kind = "reply",
                        waiting'[i].at < now'
                 PROVE  burstBusy' > waiting'[i].at
      BY DEF ReplyOnTime, PlacedFrames
    <2>1. PICK j \in 1 .. Len(waiting) : waiting'[i] = waiting[j]
      <3>1. waiting' \in Seq(Frames) /\ Len(waiting') = Len(waiting) - 1
        BY <1>1, <1>2, RemovedIs
      <3>2. i \in 1 .. Len(waiting) - 1
        BY <3>1
      <3>3. waiting'[i] = IF i < n THEN waiting[i] ELSE waiting[i + 1]
        BY <1>1, <1>2, <3>2, RemovedIs
      <3>4. i \in 1 .. Len(waiting) /\ i + 1 \in 1 .. Len(waiting)
        BY <1>1, <3>2
      <3> QED
        BY <3>3, <3>4
    <2>2. waiting[j] \in Frames
      BY <1>1
    <2>3. waiting[j].at \in Int
      BY <2>2 DEF Frames
    <2>4. waiting[j].at > 0 /\ waiting[j].kind = "reply" /\ waiting[j].at < now
      BY <1>2, <2>1
    <2>5. burstBusy > waiting[j].at
      <3>1. DOMAIN waiting = 1 .. Len(waiting)
        BY <1>1
      <3> QED
        BY <2>4, <3>1 DEF ReplyOnTime, PlacedFrames
    <2>6. CASE burstBusy' = burstBusy
      BY <2>1, <2>5, <2>6
    <2>7. CASE burstBusy' = FrameEnd(start, f)
      BY <1>4, <1>5, <2>1, <2>3, <2>4, <2>7
    <2> QED
      BY <1>3, <2>6, <2>7
  <1> QED
    BY <1>6, <1>7

\* The clock passes a window only over a burst that is on the air.
LEMMA PunctualTick ==
  ASSUME RepliesInv, Tick
  PROVE  ReplyOnTime' /\ BusyWhileOnAir'
  <1>1. now' = now + 1 /\ UNCHANGED <<waiting, onAir, burstBusy>>
    BY DEF Tick, planVars
  <1>2. BusyWhileOnAir'
    BY <1>1 DEF BusyWhileOnAir, RepliesInv
  <1>3. now \in Nat /\ Lead \in Nat
    BY GridAssumption DEF RepliesInv, AirTyped
  <1>4. ReplyOnTime'
    <2> SUFFICES ASSUME NEW i \in DOMAIN waiting, waiting[i].at > 0, waiting[i].kind = "reply",
                        waiting[i].at < now + 1
                 PROVE  burstBusy > waiting[i].at
      BY <1>1 DEF ReplyOnTime, PlacedFrames
    <2>1. waiting[i].at \in Int
      <3>1. waiting \in Seq(Frames)
        BY DEF RepliesInv, AirTyped
      <3>2. waiting[i] \in Frames
        BY <3>1
      <3> QED
        BY <3>2 DEF Frames
    <2>2. CASE waiting[i].at < now
      BY <2>2 DEF ReplyOnTime, PlacedFrames, RepliesInv
    <2>3. CASE waiting[i].at = now
      <3>1. i \in Due
        BY <1>3, <2>3 DEF Due
      <3>2. onAir # None /\ now < onAir.end
        BY <3>1 DEF Tick
      <3>3. burstBusy = onAir.end
        BY <3>2 DEF RepliesInv, BusyWhileOnAir
      <3> QED
        BY <2>3, <3>2, <3>3
    <2> QED
      BY <1>3, <2>1, <2>2, <2>3
  <1> QED
    BY <1>2, <1>4

LEMMA RepliesInit ==
  ASSUME AirInit
  PROVE  RepliesInv
  <1>1. waiting = <<>> /\ onAir = None
    BY DEF AirInit
  <1>2. ReplyOnTime /\ BusyWhileOnAir
    BY <1>1 DEF ReplyOnTime, PlacedFrames, BusyWhileOnAir
  <1> QED
    BY <1>2, AirTypedInit DEF RepliesInv

LEMMA RepliesNext ==
  ASSUME RepliesInv, [AirNext]_airVars
  PROVE  RepliesInv'
  <1>1. AirTyped /\ AirTyped' /\ ReplyOnTime /\ BusyWhileOnAir
    BY AirTypedNext DEF RepliesInv
  <1>a. ASSUME UNCHANGED <<onAir, burstBusy>> PROVE BusyWhileOnAir'
    BY <1>1, <1>a DEF BusyWhileOnAir
  <1>b. ASSUME UNCHANGED <<waiting, planVars>>, now' = now PROVE ReplyOnTime'
    BY <1>1, <1>b, PunctualKept DEF planVars
  <1>c. ASSUME NEW f \in Frames, Accept(f), f.kind = "reply" => f.at >= now, now' = now
        PROVE  ReplyOnTime' /\ burstBusy' = burstBusy
    BY <1>1, <1>c, PunctualKept DEF Accept
  <1>d. ASSUME UNCHANGED <<waiting, planVars>>, now' = now, onAir' = onAir
        PROVE  ReplyOnTime' /\ BusyWhileOnAir'
    BY <1>a, <1>b, <1>d DEF planVars
  <1>e. ASSUME NEW f \in Frames, Accept(f), f.kind = "reply" => f.at >= now, now' = now, onAir' = onAir
        PROVE  ReplyOnTime' /\ BusyWhileOnAir'
    BY <1>a, <1>c, <1>e
  <1>2. CASE SendUnplaced
    <2>1. now' = now /\ onAir' = onAir
      BY <1>2 DEF SendUnplaced
    <2>2. \/ UNCHANGED <<waiting, planVars>>
          \/ \E f \in Frames : Accept(f) /\ f.kind # "reply"
      BY <1>1, <1>2, UnplacedIs
    <2> QED
      BY <1>1, <1>d, <1>e, <2>1, <2>2 DEF RepliesInv
  <1>3. CASE ServiceBeacon
    <2>1. now' = now /\ onAir' = onAir
      BY <1>3 DEF ServiceBeacon
    <2>2. \E f \in Frames : Accept(f) /\ f.kind # "reply"
      BY <1>1, <1>3, BeaconIs
    <2> QED
      BY <1>1, <1>e, <2>1, <2>2 DEF RepliesInv
  <1>4. CASE SendTimeSync
    <2>1. now' = now /\ onAir' = onAir /\ now \in Nat /\ Lead \in Nat
      BY <1>1, <1>4, GridAssumption DEF SendTimeSync, AirTyped
    <2>2. \/ UNCHANGED <<waiting, planVars>>
          \/ \E f \in Frames : Accept(f) /\ f.at >= now + Lead
      BY <1>1, <1>4, ReplyIs
    <2>3. \A f \in Frames : f.at \in Int
      BY DEF Frames
    <2>4. \A f \in Frames : f.at >= now + Lead => f.at >= now
      BY <2>1, <2>3
    <2> QED
      BY <1>1, <1>d, <1>e, <2>1, <2>2, <2>4 DEF RepliesInv
  <1>5. ASSUME NEW t \in Placers, SendPlaced(t) PROVE RepliesInv'
    <2>1. now' = now /\ onAir' = onAir
      BY <1>5 DEF SendPlaced
    <2>2. pending[t] \in Frames /\ pending[t].kind # "reply"
      BY <1>1, <1>5, SendPlacedIs
    <2>3. UNCHANGED <<waiting, planVars>> \/ Accept(pending[t])
      BY <1>5, PlacedOrRefused
    <2> QED
      BY <1>1, <1>d, <1>e, <2>1, <2>2, <2>3 DEF RepliesInv
  <1>6. CASE TakeUp
    BY <1>1, <1>6, PunctualTakeUp DEF RepliesInv
  <1>7. CASE Tick
    BY <1>1, <1>7, PunctualTick DEF RepliesInv
  <1>8. CASE EndBurst
    <2>1. UNCHANGED <<waiting, planVars>> /\ now' = now /\ onAir' = None
      BY <1>8 DEF EndBurst
    <2>2. BusyWhileOnAir'
      BY <2>1 DEF BusyWhileOnAir
    <2> QED
      BY <1>1, <1>b, <2>1, <2>2 DEF RepliesInv
  <1>9. CASE StartGrid \/ HearWaker \/ (\E t \in Placers : ChooseMark(t)) \/ UNCHANGED airVars
    <2>1. UNCHANGED <<waiting, planVars>> /\ now' = now /\ onAir' = onAir
      BY <1>9 DEF StartGrid, HearWaker, ChooseMark, airVars
    <2> QED
      BY <1>1, <1>d, <2>1 DEF RepliesInv
  <1> QED
    BY <1>2, <1>3, <1>4, <1>5, <1>6, <1>7, <1>8, <1>9 DEF AirNext

\* A reply leaves late only if a burst was on the air at the instant it was aimed at.
THEOREM ReplyOnTimeHolds == AirSpec => []ReplyOnTime
  <1>1. RepliesInv => ReplyOnTime
    BY DEF RepliesInv
  <1> QED
    BY <1>1, RepliesInit, RepliesNext, PTL DEF AirSpec

-----------------------------------------------------------------------------
(* One frame per mark (Air) *)

\* Two frames of one sender that wait do not share a mark.
Apart(f, g) == f.kind = g.kind /\ f.kind # "reply" => f.node # g.node \/ f.at # g.at

LEMMA ApartIs ==
  OneMarkPerSender <=> \A i, j \in PlacedFrames : i # j => Apart(waiting[i], waiting[j])
  BY DEF OneMarkPerSender, Apart

LEMMA ApartSymmetric ==
  ASSUME NEW f, NEW g, Apart(f, g)
  PROVE  Apart(g, f)
  BY DEF Apart

LEMMA PlacedAre ==
  ASSUME AirTyped, NEW i \in PlacedFrames
  PROVE  /\ waiting[i] \in Frames /\ waiting[i].at \in Int /\ waiting[i].at > 0
         /\ i \in 1 .. Len(waiting) /\ Len(waiting) \in Nat
  <1>1. waiting \in Seq(Frames)
    BY DEF AirTyped
  <1>2. i \in DOMAIN waiting /\ waiting[i].at > 0
    BY DEF PlacedFrames
  <1>3. waiting[i] \in Frames
    BY <1>1, <1>2
  <1> QED
    BY <1>1, <1>2, <1>3 DEF Frames

\* After a send the placed frames are those of before and, if it is placed, the new one.
LEMMA PlacedAfterSend ==
  ASSUME AirTyped, NEW f \in Frames, Accept(f), NEW i \in PlacedFrames'
  PROVE  \/ i \in PlacedFrames /\ waiting'[i] = waiting[i]
         \/ i = Len(waiting) + 1 /\ waiting'[i] = f /\ f.at > 0
  <1>1. waiting \in Seq(Frames) /\ waiting' \in Seq(Frames) /\ Len(waiting') = Len(waiting) + 1
    BY AcceptedIs DEF AirTyped
  <1>2. \A q \in Seq(Frames) : DOMAIN q = 1 .. Len(q) /\ Len(q) \in Nat
    OBVIOUS
  <1>3. /\ DOMAIN waiting = 1 .. Len(waiting) /\ DOMAIN waiting' = 1 .. Len(waiting) + 1
        /\ Len(waiting) \in Nat
    BY <1>1, <1>2
  <1>4. i \in DOMAIN waiting' /\ waiting'[i].at > 0
    BY DEF PlacedFrames
  <1>5. CASE i \in 1 .. Len(waiting)
    <2>1. waiting'[i] = waiting[i]
      BY <1>5, AcceptedIs
    <2> QED
      BY <1>3, <1>4, <1>5, <2>1 DEF PlacedFrames
  <1>6. CASE i = Len(waiting) + 1
    BY <1>4, <1>6, AcceptedIs
  <1> QED
    BY <1>3, <1>4, <1>5, <1>6

\* After a take-up they are among those of before, in their order.
LEMMA PlacedAfterTakeUp ==
  ASSUME AirTyped, TakeUp
  PROVE  \A i, j \in PlacedFrames' : \E k, m \in PlacedFrames :
            /\ waiting'[i] = waiting[k] /\ waiting'[j] = waiting[m]
            /\ i # j => k # m
  <1> DEFINE n == Next1
  <1>1. n \in 1 .. Len(waiting) /\ waiting \in Seq(Frames) /\ Len(waiting) \in Nat
        /\ waiting' = RemoveAt(waiting, n)
    <2>1. waiting \in Seq(Frames)
      BY DEF AirTyped
    <2> QED
      BY <2>1, Next1IsDue DEF TakeUp
  <1> HIDE DEF n
  <1>2. waiting' \in Seq(Frames) /\ Len(waiting') = Len(waiting) - 1
    BY <1>1, RemovedIs
  <1>3. \A q \in Seq(Frames) : DOMAIN q = 1 .. Len(q)
    OBVIOUS
  <1>4. DOMAIN waiting' = 1 .. Len(waiting) - 1 /\ DOMAIN waiting = 1 .. Len(waiting)
    BY <1>1, <1>2, <1>3
  <1> DEFINE Old(i) == IF i < n THEN i ELSE i + 1
  <1>5. ASSUME NEW i \in PlacedFrames'
        PROVE  Old(i) \in PlacedFrames /\ waiting'[i] = waiting[Old(i)] /\ i \in Int
    <2>1. i \in 1 .. Len(waiting) - 1 /\ waiting'[i].at > 0
      BY <1>4 DEF PlacedFrames
    <2>2. waiting'[i] = waiting[Old(i)]
      BY <1>1, <2>1, RemovedIs
    <2>3. Old(i) \in 1 .. Len(waiting)
      BY <1>1, <2>1
    <2> QED
      BY <1>4, <2>1, <2>2, <2>3 DEF PlacedFrames
  <1>6. \A i, j \in Int : i # j => Old(i) # Old(j)
    BY <1>1
  <1> HIDE DEF Old
  <1> QED
    BY <1>5, <1>6

LEMMA ApartAfterSend ==
  ASSUME AirTyped, OneMarkPerSender, NEW f \in Frames, Accept(f),
         f.at > 0 => \A i \in PlacedFrames : Apart(waiting[i], f)
  PROVE  OneMarkPerSender'
  <1>1. ASSUME NEW i \in PlacedFrames', NEW j \in PlacedFrames', i # j
        PROVE  Apart(waiting'[i], waiting'[j])
    <2>1. CASE waiting'[i] = waiting[i] /\ waiting'[j] = waiting[j] /\ i \in PlacedFrames /\ j \in PlacedFrames
      BY <1>1, <2>1, ApartIs
    <2>2. CASE waiting'[i] = waiting[i] /\ i \in PlacedFrames /\ waiting'[j] = f /\ f.at > 0
      BY <2>2
    <2>3. CASE waiting'[j] = waiting[j] /\ j \in PlacedFrames /\ waiting'[i] = f /\ f.at > 0
      BY <2>3, ApartSymmetric
    <2>4. ~(i = Len(waiting) + 1 /\ j = Len(waiting) + 1)
      BY <1>1
    <2>5. \/ i \in PlacedFrames /\ waiting'[i] = waiting[i]
          \/ i = Len(waiting) + 1 /\ waiting'[i] = f /\ f.at > 0
      BY PlacedAfterSend
    <2>6. \/ j \in PlacedFrames /\ waiting'[j] = waiting[j]
          \/ j = Len(waiting) + 1 /\ waiting'[j] = f /\ f.at > 0
      BY PlacedAfterSend
    <2> QED
      BY <2>1, <2>2, <2>3, <2>4, <2>5, <2>6
  <1> QED
    BY <1>1 DEF OneMarkPerSender, Apart

\* The mark of a waiting frame against the records as they are, or as they will be.
MarkOf(start, round) == start + BeaconSlot * Pitch + round * Round

KnownBy(f, marks, start, round) ==
  /\ f.kind \in {"command", "mark"} =>
        /\ Sender(f.kind) \in Placers /\ f.node \in Nodes
        /\ f.at + ToT0 <= marks[Sender(f.kind)][f.node]
  /\ f.kind = "beacon" => f.node = BeaconSlot /\ round >= 0 /\ f.at + ToT0 <= MarkOf(start, round)
  /\ f.kind = "reply" => f.node = Waker

LEMMA KnownIs ==
  ASSUME MarksInv
  PROVE  \A i \in PlacedFrames : KnownBy(waiting[i], lastPlaced, anchor, beaconQueued)
  BY DEF MarksInv, MarksGoUp, MarksKnown, KnownBy, MarkOf, BeaconMark, SlotBase

LEMMA KnownAfter ==
  ASSUME \A i \in PlacedFrames' : KnownBy(waiting'[i], lastPlaced', anchor', beaconQueued')
  PROVE  MarksKnown'
  BY DEF MarksKnown, KnownBy, MarkOf, BeaconMark, SlotBase

LEMMA MarksInit ==
  ASSUME AirInit
  PROVE  MarksInv
  <1>1. waiting = <<>> /\ beaconQueued = -1 /\ \A t \in Placers : pending[t] = None
    BY DEF AirInit
  <1>2. PlacedFrames = {}
    BY <1>1 DEF PlacedFrames
  <1>3. MarksGoUp /\ OneMarkPerSender
    BY <1>1, <1>2 DEF MarksGoUp, MarksKnown, BeaconIsNext, OneMarkPerSender
  <1> QED
    BY <1>3, AirTypedInit DEF MarksInv

\* Sums of equal steps: the greater number of them is the greater sum.
LEMMA MultiplesGrow ==
  ASSUME NEW a \in Int, NEW b \in Int, a <= b, NEW p \in Nat
  PROVE  a * p \in Int /\ b * p \in Int /\ a * p <= b * p
  <1>1. (b - a) * p \in Nat
    OBVIOUS
  <1>2. b * p = a * p + (b - a) * p /\ a * p \in Int /\ b * p \in Int
    OBVIOUS
  <1> QED
    BY <1>1, <1>2

LEMMA BeaconMarksGrow ==
  ASSUME AirTyped, NEW a \in Int, NEW b \in Int, a <= b
  PROVE  /\ BeaconMark(a * BeaconEvery) \in Int /\ BeaconMark(b * BeaconEvery) \in Int
         /\ BeaconMark(a * BeaconEvery) <= BeaconMark(b * BeaconEvery)
  <1>1. Round \in Nat /\ BeaconEvery \in Nat /\ SlotBase(BeaconSlot) \in Int
    <2>1. anchor \in Int
      BY DEF AirTyped
    <2>2. Round \in Nat /\ BeaconEvery \in Nat /\ Pitch \in Nat /\ BeaconSlot \in Nat
      BY GridAssumption
    <2> QED
      BY <2>1, <2>2 DEF SlotBase
  <1>2. a * BeaconEvery \in Int /\ b * BeaconEvery \in Int /\ a * BeaconEvery <= b * BeaconEvery
    BY <1>1, MultiplesGrow
  <1> DEFINE x == a * BeaconEvery
             y == b * BeaconEvery
  <1> HIDE DEF x, y
  <1>3. x * Round \in Int /\ y * Round \in Int /\ x * Round <= y * Round
    BY <1>1, <1>2, MultiplesGrow DEF x, y
  <1> QED
    BY <1>1, <1>3 DEF BeaconMark, x, y

\* The mark of the next beacon is past that of the last only in a later beacon round.
LEMMA NextBeaconIsLater ==
  ASSUME AirTyped, BeaconIsNext, BeaconDue, beaconQueued >= 0
  PROVE  BeaconMark(beaconQueued) < NextBeaconT0(now)
  <1>1. PICK k \in Nat : /\ NextBeaconT0(now) = BeaconMark(k * BeaconEvery)
                         /\ RoundForSlotT0(BeaconSlot, NextBeaconT0(now)) = k * BeaconEvery
                         /\ NextBeaconT0(now) >= now /\ NextBeaconT0(now) \in Int
    BY NextBeaconIs DEF BeaconDue
  <1>2. PICK j \in 0 .. beaconQueued : /\ beaconQueued = j * BeaconEvery
                                       /\ j > 0 => BeaconMark((j - 1) * BeaconEvery) < now
    BY DEF BeaconIsNext
  <1>3. j \in Nat /\ beaconQueued \in Int /\ now \in Int
    BY <1>2 DEF AirTyped
  <1>4. j # k
    BY <1>1, <1>2 DEF BeaconDue
  <1>5. ~(j > k)
    <2> SUFFICES ASSUME j > k PROVE FALSE
      OBVIOUS
    <2>1. j > 0 /\ k <= j - 1 /\ j - 1 \in Int /\ k \in Int
      BY <1>1, <1>3
    <2>2. /\ BeaconMark(k * BeaconEvery) <= BeaconMark((j - 1) * BeaconEvery)
          /\ BeaconMark((j - 1) * BeaconEvery) \in Int
      BY <2>1, BeaconMarksGrow
    <2>3. BeaconMark((j - 1) * BeaconEvery) < now
      BY <1>2, <2>1
    <2> QED
      BY <1>1, <1>3, <2>2, <2>3
  <1>6. j <= k - 1 /\ k - 1 \in Int
    BY <1>3, <1>4, <1>5
  <1>7. BeaconMark((k - 1) * BeaconEvery) < BeaconMark(k * BeaconEvery)
    <2>1. Round \in Nat \ {0} /\ BeaconEvery \in Nat \ {0} /\ SlotBase(BeaconSlot) \in Int
      <3>1. anchor \in Int
        BY DEF AirTyped
      <3>2. Round \in Nat \ {0} /\ BeaconEvery \in Nat \ {0} /\ Pitch \in Nat /\ BeaconSlot \in Nat
        BY GridAssumption
      <3> QED
        BY <3>1, <3>2 DEF SlotBase
    <2> DEFINE p == BeaconEvery * Round
    <2>2. p \in Nat \ {0}
      BY <2>1
    <2>3. /\ (k - 1) * BeaconEvery * Round = k * BeaconEvery * Round - p
          /\ k * BeaconEvery * Round \in Int
      BY <2>1
    <2> HIDE DEF p
    <2> QED
      BY <2>1, <2>2, <2>3 DEF BeaconMark
  <1>8. /\ BeaconMark(j * BeaconEvery) <= BeaconMark((k - 1) * BeaconEvery)
        /\ BeaconMark(j * BeaconEvery) \in Int /\ BeaconMark((k - 1) * BeaconEvery) \in Int
    BY <1>3, <1>6, BeaconMarksGrow
  <1> QED
    BY <1>1, <1>2, <1>7, <1>8

\* A step that adds no frame and changes no record of marks.
LEMMA MarksAsBefore ==
  ASSUME MarksInv, AirTyped', UNCHANGED <<anchor, waiting, lastPlaced, beaconQueued>>,
         now' >= now, \A t \in Placers : pending'[t] = pending[t] \/ pending'[t] = None
                                     \/ pending'[t].at + ToT0 > lastPlaced[t][pending'[t].node]
  PROVE  MarksInv'
  <1>1. OneMarkPerSender'
    BY DEF MarksInv, OneMarkPerSender, PlacedFrames
  <1>2. ASSUME NEW i \in PlacedFrames' PROVE KnownBy(waiting'[i], lastPlaced', anchor', beaconQueued')
    <2>1. i \in PlacedFrames /\ waiting'[i] = waiting[i]
      BY DEF PlacedFrames
    <2>2. KnownBy(waiting[i], lastPlaced, anchor, beaconQueued)
      BY <2>1, KnownIs
    <2>3. KnownBy(waiting[i], lastPlaced', anchor', beaconQueued')
      BY <2>2
    <2> QED
      BY <2>3
  <1>3. ASSUME NEW t \in Placers, pending'[t] # None
        PROVE  pending'[t].at + ToT0 > lastPlaced'[t][pending'[t].node]
    BY <1>3 DEF MarksInv, MarksGoUp
  <1>4. BeaconIsNext'
    <2>1. CASE beaconQueued >= 0
      <3>1. PICK k \in 0 .. beaconQueued : /\ beaconQueued = k * BeaconEvery
                                           /\ k > 0 => BeaconMark((k - 1) * BeaconEvery) < now
        BY <2>1 DEF MarksInv, MarksGoUp, BeaconIsNext
      <3>2. AirTyped /\ now \in Int /\ now' \in Int /\ k \in Int
        BY DEF MarksInv, AirTyped
      <3>3. BeaconMark((k - 1) * BeaconEvery) \in Int
        <4>1. k - 1 \in Int /\ k - 1 <= k - 1
          BY <3>2
        <4> QED
          BY <3>2, <4>1, BeaconMarksGrow
      <3>4. k > 0 => BeaconMark((k - 1) * BeaconEvery) < now'
        BY <3>1, <3>2, <3>3
      <3>5. BeaconMark((k - 1) * BeaconEvery)' = BeaconMark((k - 1) * BeaconEvery)
        BY DEF BeaconMark, SlotBase
      <3>6. GridStarted'
        BY <2>1 DEF MarksInv, MarksGoUp, BeaconIsNext, GridStarted
      <3> QED
        BY <3>1, <3>4, <3>5, <3>6 DEF BeaconIsNext
    <2>2. CASE ~(beaconQueued >= 0)
      BY <2>2 DEF BeaconIsNext
    <2> QED
      BY <2>1, <2>2
  <1> QED
    BY <1>1, <1>2, <1>3, <1>4, KnownAfter DEF MarksInv, MarksGoUp

\* A step of the send path or of a sender without a mark of its own.
LEMMA MarksQueued ==
  ASSUME MarksInv, AirTyped', UNCHANGED <<now, anchor, lastPlaced, beaconQueued, pending>>,
         NEW f \in Frames, Accept(f),
         f.at = 0 \/ (f.kind = "reply" /\ f.node = Waker)
  PROVE  MarksInv'
  <1>1. AirTyped /\ OneMarkPerSender /\ MarksGoUp
    BY DEF MarksInv
  <1>2. OneMarkPerSender'
    <2>1. f.at > 0 => \A i \in PlacedFrames : Apart(waiting[i], f)
      BY DEF Apart
    <2> QED
      BY <1>1, <2>1, ApartAfterSend
  <1>3. ASSUME NEW i \in PlacedFrames' PROVE KnownBy(waiting'[i], lastPlaced', anchor', beaconQueued')
    <2>1. \/ i \in PlacedFrames /\ waiting'[i] = waiting[i]
          \/ waiting'[i] = f /\ f.at > 0
      BY <1>1, PlacedAfterSend
    <2>2. CASE i \in PlacedFrames /\ waiting'[i] = waiting[i]
      <3>1. KnownBy(waiting[i], lastPlaced, anchor, beaconQueued)
        BY <1>1, <2>2, KnownIs
      <3>2. KnownBy(waiting[i], lastPlaced', anchor', beaconQueued')
        BY <3>1
      <3> QED
        BY <2>2, <3>2
    <2>3. CASE waiting'[i] = f /\ f.at > 0
      <3>1. f.kind = "reply" /\ f.node = Waker
        BY <2>3
      <3>2. KnownBy(f, lastPlaced', anchor', beaconQueued')
        BY <3>1 DEF KnownBy
      <3> QED
        BY <2>3, <3>2
    <2> QED
      BY <2>1, <2>2, <2>3
  <1>4. BeaconIsNext'
    BY <1>1 DEF MarksGoUp, BeaconIsNext, GridStarted, BeaconMark, SlotBase
  <1>5. \A t \in Placers : pending'[t] # None => pending'[t].at + ToT0 > lastPlaced'[t][pending'[t].node]
    BY <1>1 DEF MarksGoUp
  <1> QED
    BY <1>2, <1>3, <1>4, <1>5, KnownAfter DEF MarksInv, MarksGoUp

LEMMA MarksTakeUp ==
  ASSUME MarksInv, AirTyped', TakeUp
  PROVE  MarksInv'
  <1>1. AirTyped /\ OneMarkPerSender /\ MarksGoUp
    BY DEF MarksInv
  <1>2. UNCHANGED <<now, anchor, lastPlaced, beaconQueued, pending>>
    BY DEF TakeUp
  <1>3. OneMarkPerSender'
    <2>1. ASSUME NEW i \in PlacedFrames', NEW j \in PlacedFrames', i # j
          PROVE  Apart(waiting'[i], waiting'[j])
      <3>1. PICK k \in PlacedFrames, m \in PlacedFrames :
              waiting'[i] = waiting[k] /\ waiting'[j] = waiting[m] /\ (i # j => k # m)
        BY <1>1, PlacedAfterTakeUp
      <3>2. Apart(waiting[k], waiting[m])
        BY <1>1, <2>1, <3>1, ApartIs
      <3> QED
        BY <3>1, <3>2
    <2> QED
      BY <2>1 DEF OneMarkPerSender, Apart
  <1>4. ASSUME NEW i \in PlacedFrames' PROVE KnownBy(waiting'[i], lastPlaced', anchor', beaconQueued')
    <2>1. PICK k \in PlacedFrames : waiting'[i] = waiting[k]
      BY <1>1, PlacedAfterTakeUp
    <2>2. KnownBy(waiting[k], lastPlaced, anchor, beaconQueued)
      BY <1>1, KnownIs
    <2>3. KnownBy(waiting[k], lastPlaced', anchor', beaconQueued')
      BY <1>2, <2>2
    <2> QED
      BY <2>1, <2>3
  <1>5. BeaconIsNext'
    BY <1>1, <1>2 DEF MarksGoUp, BeaconIsNext, GridStarted, BeaconMark, SlotBase
  <1>6. \A t \in Placers : pending'[t] # None => pending'[t].at + ToT0 > lastPlaced'[t][pending'[t].node]
    BY <1>1, <1>2 DEF MarksGoUp
  <1> QED
    BY <1>3, <1>4, <1>5, <1>6, KnownAfter DEF MarksInv, MarksGoUp

\* A placed frame is sent: the task's record moves up to its mark.
LEMMA MarksPlaced ==
  ASSUME MarksInv, AirTyped', NEW t \in Placers, SendPlaced(t), Accept(pending[t]),
         lastPlaced' = [lastPlaced EXCEPT ![t][pending[t].node] = pending[t].at + ToT0]
  PROVE  MarksInv'
  <1> DEFINE f == pending[t]
  <1>1. AirTyped /\ OneMarkPerSender /\ MarksGoUp
    BY DEF MarksInv
  <1>2. UNCHANGED <<now, anchor, beaconQueued>>
    BY DEF SendPlaced
  <1>3. /\ f \in Frames /\ f.node \in Nodes /\ pending' = [pending EXCEPT ![t] = None]
        /\ f.kind = IF t = "loop" THEN "command" ELSE "mark"
    BY <1>1, SendPlacedIs
  <1>4. t \in {"loop", "timer"}
    BY GridAssumption
  <1>5. f.kind \in {"command", "mark"} /\ Sender(f.kind) = t
    <2>1. CASE t = "loop"
      BY <1>3, <2>1 DEF Sender
    <2>2. CASE t = "timer"
      BY <1>3, <2>2 DEF Sender
    <2> QED
      BY <1>4, <2>1, <2>2
  <1>6. f.at \in Int /\ ToT0 \in Int /\ pending \in [Placers -> Frames \cup {None}] /\ f # None
    <2>1. f.at \in Int
      BY <1>3 DEF Frames
    <2>2. ToT0 \in Int
      BY GridAssumption
    <2>3. pending \in [Placers -> Frames \cup {None}]
      BY <1>1 DEF AirTyped
    <2>4. f # None
      BY DEF SendPlaced
    <2> QED
      BY <2>1, <2>2, <2>3, <2>4
  <1>7. lastPlaced \in [Placers -> [Nodes -> Int]]
    BY <1>1 DEF AirTyped
  <1>8. f.at + ToT0 > lastPlaced[t][f.node]
    BY <1>1, <1>6 DEF MarksGoUp
  <1> HIDE DEF f
  <1>9. lastPlaced' = [lastPlaced EXCEPT ![t][f.node] = f.at + ToT0]
    BY DEF f
  <1>10. lastPlaced'[t][f.node] = f.at + ToT0
    BY <1>3, <1>7, <1>9
  <1>11. \A s \in Placers, m \in Nodes : lastPlaced[s][m] \in Int /\ lastPlaced'[s][m] \in Int
                                      /\ lastPlaced[s][m] <= lastPlaced'[s][m]
    <2> TAKE s \in Placers, m \in Nodes
    <2>1. lastPlaced[s] \in [Nodes -> Int]
      BY <1>7
    <2>2. lastPlaced[s][m] \in Int
      BY <2>1
    <2>3. CASE s = t /\ m = f.node
      BY <1>6, <1>8, <1>10, <2>2, <2>3
    <2>4. CASE ~(s = t /\ m = f.node)
      <3>1. lastPlaced'[s][m] = lastPlaced[s][m]
        BY <1>3, <1>7, <1>9, <2>1, <2>4
      <3> QED
        BY <2>2, <3>1
    <2> QED
      BY <2>3, <2>4
  <1>12. Accept(f)
    BY DEF f
  <1>13. OneMarkPerSender'
    <2>1. ASSUME NEW i \in PlacedFrames PROVE Apart(waiting[i], f)
      <3> SUFFICES ASSUME waiting[i].kind = f.kind, waiting[i].node = f.node, waiting[i].at = f.at
                   PROVE  FALSE
        BY DEF Apart
      <3>1. KnownBy(waiting[i], lastPlaced, anchor, beaconQueued)
        BY <1>1, KnownIs
      <3>2. waiting[i].at + ToT0 <= lastPlaced[t][f.node]
        BY <1>5, <3>1 DEF KnownBy
      <3>3. lastPlaced[t][f.node] \in Int
        BY <1>3, <1>11
      <3> QED
        BY <1>6, <1>8, <3>2, <3>3
    <2> QED
      BY <1>1, <1>3, <1>12, <2>1, ApartAfterSend
  <1>14. ASSUME NEW i \in PlacedFrames' PROVE KnownBy(waiting'[i], lastPlaced', anchor', beaconQueued')
    <2>1. \/ i \in PlacedFrames /\ waiting'[i] = waiting[i]
          \/ waiting'[i] = f
      BY <1>1, <1>3, <1>12, PlacedAfterSend
    <2>2. CASE i \in PlacedFrames /\ waiting'[i] = waiting[i]
      <3> DEFINE g == waiting[i]
      <3>1. KnownBy(g, lastPlaced, anchor, beaconQueued) /\ g.at + ToT0 \in Int
        BY <1>1, <1>6, <2>2, PlacedAre, KnownIs
      <3> HIDE DEF g
      <3>3. g.kind \in {"command", "mark"} => g.at + ToT0 <= lastPlaced'[Sender(g.kind)][g.node]
        BY <1>11, <3>1 DEF KnownBy
      <3>4. KnownBy(g, lastPlaced', anchor', beaconQueued')
        BY <1>2, <3>1, <3>3 DEF KnownBy
      <3> QED
        BY <2>2, <3>4 DEF g
    <2>3. CASE waiting'[i] = f
      <3>1. KnownBy(f, lastPlaced', anchor', beaconQueued')
        BY <1>3, <1>5, <1>6, <1>10 DEF KnownBy
      <3> QED
        BY <2>3, <3>1
    <2> QED
      BY <2>1, <2>2, <2>3
  <1>15. BeaconIsNext'
    BY <1>1, <1>2 DEF MarksGoUp, BeaconIsNext, GridStarted, BeaconMark, SlotBase
  <1>16. ASSUME NEW s \in Placers, pending'[s] # None
         PROVE  pending'[s].at + ToT0 > lastPlaced'[s][pending'[s].node]
    <2>1. s # t /\ pending'[s] = pending[s]
      BY <1>3, <1>6, <1>16
    <2>2. lastPlaced'[s] = lastPlaced[s]
      BY <1>7, <1>9, <2>1
    <2> QED
      BY <1>1, <1>16, <2>1, <2>2 DEF MarksGoUp
  <1> QED
    BY <1>13, <1>14, <1>15, <1>16, KnownAfter DEF MarksInv, MarksGoUp

LEMMA MarksBeacon ==
  ASSUME MarksInv, AirTyped', ServiceBeacon
  PROVE  MarksInv'
  <1>1. AirTyped /\ OneMarkPerSender /\ MarksGoUp /\ BeaconIsNext /\ BeaconDue
    BY DEF MarksInv, MarksGoUp, ServiceBeacon
  <1>2. UNCHANGED <<now, anchor, lastPlaced, pending>>
    BY DEF ServiceBeacon
  <1>3. PICK f \in Frames : f.kind = "beacon" /\ f.node = BeaconSlot
                           /\ f.at = FireInstant(NextBeaconT0(now)) /\ Accept(f)
    BY <1>1, BeaconIs
  <1>4. PICK k \in Nat : /\ NextBeaconT0(now) = BeaconMark(k * BeaconEvery)
                         /\ RoundForSlotT0(BeaconSlot, NextBeaconT0(now)) = k * BeaconEvery
                         /\ NextBeaconT0(now) \in Int
                         /\ k > 0 => BeaconMark((k - 1) * BeaconEvery) < now
    BY <1>1, NextBeaconIs DEF BeaconDue
  <1>5. beaconQueued' = k * BeaconEvery /\ k * BeaconEvery \in Nat /\ k <= k * BeaconEvery
    <2>1. BeaconEvery \in Nat \ {0}
      BY GridAssumption
    <2>2. k * BeaconEvery \in Nat /\ k <= k * BeaconEvery
      BY <2>1
    <2> QED
      BY <1>4, <2>2 DEF ServiceBeacon
  <1>6. f.at + ToT0 = NextBeaconT0(now)
    <2>1. ToT0 \in Int
      BY GridAssumption
    <2> QED
      BY <1>3, <1>4, <2>1 DEF FireInstant
  <1>7. \A r : BeaconMark(r)' = BeaconMark(r)
    BY <1>2 DEF BeaconMark, SlotBase
  <1>8. MarkOf(anchor', beaconQueued') = NextBeaconT0(now)
    BY <1>2, <1>4, <1>5 DEF MarkOf, BeaconMark, SlotBase
  <1>9. ASSUME NEW i \in PlacedFrames, waiting[i].kind = "beacon"
        PROVE  waiting[i].at + ToT0 < NextBeaconT0(now)
    <2>1. beaconQueued >= 0 /\ waiting[i].at + ToT0 <= BeaconMark(beaconQueued)
      BY <1>1, <1>9, KnownIs DEF KnownBy, MarkOf, BeaconMark, SlotBase
    <2>2. BeaconMark(beaconQueued) < NextBeaconT0(now)
      BY <1>1, <2>1, NextBeaconIsLater
    <2>3. waiting[i].at + ToT0 \in Int
      <3>1. ToT0 \in Int
        BY GridAssumption
      <3> QED
        BY <1>1, <3>1, PlacedAre
    <2>4. BeaconMark(beaconQueued) \in Int
      <3>1. anchor \in Int /\ beaconQueued \in Int
        BY <1>1 DEF AirTyped
      <3>2. Round \in Nat /\ Pitch \in Nat /\ BeaconSlot \in Nat
        BY GridAssumption
      <3> QED
        BY <3>1, <3>2 DEF BeaconMark, SlotBase
    <2> QED
      BY <1>4, <2>1, <2>2, <2>3, <2>4
  <1>10. OneMarkPerSender'
    <2>1. ASSUME NEW i \in PlacedFrames PROVE Apart(waiting[i], f)
      <3> SUFFICES ASSUME waiting[i].kind = "beacon", waiting[i].at = f.at PROVE FALSE
        BY <1>3 DEF Apart
      <3> QED
        BY <1>4, <1>6, <1>9
    <2> QED
      BY <1>1, <1>3, <2>1, ApartAfterSend
  <1>11. ASSUME NEW i \in PlacedFrames' PROVE KnownBy(waiting'[i], lastPlaced', anchor', beaconQueued')
    <2>1. \/ i \in PlacedFrames /\ waiting'[i] = waiting[i]
          \/ waiting'[i] = f
      BY <1>1, <1>3, PlacedAfterSend
    <2>2. CASE i \in PlacedFrames /\ waiting'[i] = waiting[i]
      <3> DEFINE g == waiting[i]
      <3>1. KnownBy(g, lastPlaced, anchor, beaconQueued)
        BY <2>2, KnownIs
      <3>2. g.kind = "beacon" => g.at + ToT0 < NextBeaconT0(now)
        BY <1>9, <2>2
      <3>3. g.at + ToT0 \in Int
        <4>1. ToT0 \in Int
          BY GridAssumption
        <4>2. g.at \in Int
          BY <1>1, <2>2, PlacedAre
        <4> QED
          BY <4>1, <4>2
      <3> HIDE DEF g
      <3>4. g.kind = "beacon" => g.at + ToT0 <= MarkOf(anchor', beaconQueued')
        BY <1>4, <1>8, <3>2, <3>3
      <3>5. KnownBy(g, lastPlaced', anchor', beaconQueued')
        BY <1>2, <1>5, <3>1, <3>4 DEF KnownBy
      <3> QED
        BY <2>2, <3>5 DEF g
    <2>3. CASE waiting'[i] = f
      <3>1. KnownBy(f, lastPlaced', anchor', beaconQueued')
        BY <1>3, <1>4, <1>5, <1>6, <1>8 DEF KnownBy
      <3> QED
        BY <2>3, <3>1
    <2> QED
      BY <2>1, <2>2, <2>3
  <1>12. BeaconIsNext'
    <2>1. GridStarted'
      BY <1>1, <1>2 DEF BeaconDue, GridStarted
    <2>2. k \in 0 .. beaconQueued'
      BY <1>5
    <2>3. k > 0 => BeaconMark((k - 1) * BeaconEvery)' < now'
      BY <1>2, <1>4, <1>7
    <2> QED
      BY <1>5, <2>1, <2>2, <2>3 DEF BeaconIsNext
  <1>13. \A t \in Placers : pending'[t] # None => pending'[t].at + ToT0 > lastPlaced'[t][pending'[t].node]
    BY <1>1, <1>2 DEF MarksGoUp
  <1> QED
    BY <1>10, <1>11, <1>12, <1>13, KnownAfter DEF MarksInv, MarksGoUp

LEMMA MarksNext ==
  ASSUME MarksInv, [AirNext]_airVars
  PROVE  MarksInv'
  <1>1. AirTyped /\ AirTyped' /\ MarksGoUp /\ OneMarkPerSender /\ now \in Nat
    BY AirTypedNext DEF MarksInv, AirTyped
  <1>a. ASSUME UNCHANGED <<anchor, waiting, lastPlaced, beaconQueued, pending>>, now' >= now
        PROVE  MarksInv'
    BY <1>1, <1>a, MarksAsBefore
  <1>2. CASE StartGrid
    <2>1. beaconQueued < 0 /\ UNCHANGED <<waiting, lastPlaced, beaconQueued, pending, now>>
      <3>1. ~(beaconQueued >= 0)
        BY <1>1, <1>2 DEF StartGrid, MarksGoUp, BeaconIsNext
      <3>2. beaconQueued \in Int
        BY <1>1 DEF AirTyped
      <3> QED
        BY <1>2, <3>1, <3>2 DEF StartGrid
    <2>2. OneMarkPerSender'
      BY <1>1, <2>1 DEF OneMarkPerSender, PlacedFrames
    <2>3. ASSUME NEW i \in PlacedFrames' PROVE KnownBy(waiting'[i], lastPlaced', anchor', beaconQueued')
      <3>1. i \in PlacedFrames /\ waiting'[i] = waiting[i]
        BY <2>1 DEF PlacedFrames
      <3>2. KnownBy(waiting[i], lastPlaced, anchor, beaconQueued)
        BY <1>1, <3>1, KnownIs
      <3>3. waiting[i].kind # "beacon"
        <4>1. beaconQueued \in Int
          BY <1>1 DEF AirTyped
        <4>2. ~(beaconQueued >= 0)
          BY <2>1, <4>1
        <4> QED
          BY <3>2, <4>2 DEF KnownBy
      <3>4. KnownBy(waiting[i], lastPlaced', anchor', beaconQueued')
        BY <2>1, <3>2, <3>3 DEF KnownBy
      <3> QED
        BY <3>1, <3>4
    <2>4. BeaconIsNext'
      <3>1. beaconQueued' = beaconQueued /\ beaconQueued \in Int
        BY <1>1, <2>1 DEF AirTyped
      <3>2. ~(beaconQueued' >= 0)
        BY <2>1, <3>1
      <3> QED
        BY <3>2 DEF BeaconIsNext
    <2>5. \A t \in Placers : pending'[t] # None => pending'[t].at + ToT0 > lastPlaced'[t][pending'[t].node]
      BY <1>1, <2>1 DEF MarksGoUp
    <2> QED
      BY <1>1, <2>2, <2>3, <2>4, <2>5, KnownAfter DEF MarksInv, MarksGoUp
  <1>3. CASE SendUnplaced
    <2>1. UNCHANGED <<now, anchor, lastPlaced, beaconQueued, pending>>
      BY <1>3 DEF SendUnplaced
    <2>2. waiting' = waiting \/ \E f \in Frames : f.at = 0 /\ Accept(f)
      BY <1>1, <1>3, UnplacedIs
    <2> QED
      BY <1>1, <1>a, <2>1, <2>2, MarksQueued
  <1>4. CASE ServiceBeacon
    BY <1>1, <1>4, MarksBeacon
  <1>5. CASE SendTimeSync
    <2>1. UNCHANGED <<now, anchor, lastPlaced, beaconQueued, pending>>
      BY <1>5 DEF SendTimeSync
    <2>2. waiting' = waiting \/ \E f \in Frames : f.kind = "reply" /\ f.node = Waker /\ Accept(f)
      BY <1>1, <1>5, ReplyIs
    <2> QED
      BY <1>1, <1>a, <2>1, <2>2, MarksQueued
  <1>6. ASSUME NEW t \in Placers, ChooseMark(t) PROVE MarksInv'
    <2>1. UNCHANGED <<now, anchor, waiting, lastPlaced, beaconQueued>>
      BY <1>6 DEF ChooseMark
    <2>2. \A s \in Placers : \/ pending'[s] = pending[s]
                           \/ pending'[s].at + ToT0 > lastPlaced[s][pending'[s].node]
      BY <1>1, <1>6, ChoiceIs
    <2> QED
      BY <1>1, <2>1, <2>2, MarksAsBefore
  <1>7. ASSUME NEW t \in Placers, SendPlaced(t) PROVE MarksInv'
    <2>1. CASE UNCHANGED <<waiting, planVars>> /\ UNCHANGED lastPlaced
      <3>1. UNCHANGED <<now, anchor, beaconQueued>> /\ pending' = [pending EXCEPT ![t] = None]
        BY <1>7 DEF SendPlaced
      <3>2. pending \in [Placers -> Frames \cup {None}]
        BY <1>1 DEF AirTyped
      <3>3. \A s \in Placers : pending'[s] = pending[s] \/ pending'[s] = None
        BY <3>1, <3>2
      <3> QED
        BY <1>1, <2>1, <3>1, <3>3, MarksAsBefore
    <2>2. CASE /\ Accept(pending[t])
               /\ lastPlaced' = [lastPlaced EXCEPT ![t][pending[t].node] = pending[t].at + ToT0]
      BY <1>1, <1>7, <2>2, MarksPlaced
    <2> QED
      BY <1>7, <2>1, <2>2, PlacedOrRefused
  <1>8. CASE TakeUp
    BY <1>1, <1>8, MarksTakeUp
  <1>9. CASE HearWaker \/ EndBurst \/ UNCHANGED airVars
    <2>1. UNCHANGED <<anchor, waiting, lastPlaced, beaconQueued, pending, now>>
      BY <1>9 DEF HearWaker, EndBurst, airVars
    <2> QED
      BY <1>1, <1>a, <2>1
  <1>10. CASE Tick
    <2>1. UNCHANGED <<anchor, waiting, lastPlaced, beaconQueued, pending>> /\ now' = now + 1
      BY <1>10 DEF Tick
    <2> QED
      BY <1>1, <1>a, <2>1
  <1> QED
    BY <1>2, <1>3, <1>4, <1>5, <1>6, <1>7, <1>8, <1>9, <1>10 DEF AirNext

\* The record each task keeps of its last mark for a node is enough for its own frames, whatever
\* else is placed meanwhile; a beacon goes out once a beacon round.
THEOREM OneMarkPerSenderHolds == AirSpec => []OneMarkPerSender
  <1>1. MarksInv => OneMarkPerSender
    BY DEF MarksInv
  <1> QED
    BY <1>1, MarksInit, MarksNext, PTL DEF AirSpec

\* With the loop placing alone no mark is given to two frames: what is broken by a measurement
\* timer is not broken without one.  No node has the beacon's slot, the last of the grid.
THEOREM OneFramePerMarkHolds ==
  ASSUME Placers = {"loop"}, BeaconSlot \notin Nodes
  PROVE  AirSpec => []OneFramePerMark
  <1>1. MarksInv => OneFramePerMark
    <2> SUFFICES ASSUME MarksInv, NEW i \in PlacedFrames, NEW j \in PlacedFrames, i # j,
                        waiting[i].node # Waker, waiting[i].node = waiting[j].node
                 PROVE  waiting[i].at # waiting[j].at
      BY DEF OneFramePerMark
    <2>1. /\ waiting[i].kind \in {"command", "mark", "beacon", "reply"}
          /\ waiting[j].kind \in {"command", "mark", "beacon", "reply"}
      BY PlacedAre DEF MarksInv, Frames
    <2>2. KnownBy(waiting[i], lastPlaced, anchor, beaconQueued) /\ KnownBy(waiting[j], lastPlaced, anchor, beaconQueued)
      BY KnownIs
    <2>3. waiting[i].kind \notin {"mark", "reply"} /\ waiting[j].kind \notin {"mark", "reply"}
      BY <2>2 DEF KnownBy, Sender
    <2>4. waiting[i].kind = waiting[j].kind
      BY <2>1, <2>2, <2>3 DEF KnownBy
    <2> QED
      BY <2>3, <2>4 DEF MarksInv, OneMarkPerSender
  <1> QED
    BY <1>1, MarksInit, MarksNext, PTL DEF AirSpec
=============================================================================
