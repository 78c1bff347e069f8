------------------------------- MODULE GridMath -------------------------------
(***************************************************************************)
(* The arithmetic the hub and the nodes share: the marks of the grid on a  *)
(* clock that runs at another rate (GridState.h), the windows opened for   *)
(* them, the quality of the phase samples (PhaseTracker.h), and how a node *)
(* reads the pending-data bitmap (PendingData.h).                          *)
(*                                                                         *)
(* Instants are integers on the node's clock.  Division truncates towards  *)
(* zero as in C.  A rate is in parts of RateDen.                           *)
(***************************************************************************)
EXTENDS Integers, FiniteSets, FiniteSetsExt

CONSTANTS
  SlotCount, Pitch,  \* kSlotCount, kSlotPitchUs
  Preamble, Guard,   \* kDownlinkPreambleToT0Us, kGuardUs
  RateDen, RateMax,  \* kRateDen, kRateMaxPpb
  MinSpan            \* kRateMinSpanUs

ASSUME GridAssumption ==
  /\ SlotCount \in Nat \ {0} /\ Pitch \in Nat \ {0} /\ Preamble \in Nat /\ Guard \in Nat
  /\ RateDen \in Nat \ {0} /\ RateMax \in Nat /\ MinSpan \in Nat \ {0}
\* The guard fits half a pitch: a re-anchor never reaches the neighbouring window.
ASSUME GuardAssumption == 2 * Guard < Pitch

Round == SlotCount * Pitch

\* A clock is off by less than a quarter, and a round is not too short to tell.
ASSUME RateAssumption == 4 * RateMax <= RateDen /\ Round >= 4

TruncDiv(a, b) == IF a >= 0 THEN a \div b ELSE -((-a) \div b)
AtLeast0(a) == IF a < 0 THEN 0 ELSE a
Magnitude(a) == IF a < 0 THEN -a ELSE a

-----------------------------------------------------------------------------
(* Spans and marks. *)

Stretch(rate, span) == span + TruncDiv(span * rate, RateDen)
Unstretch(rate, span) == span - TruncDiv(span * rate, RateDen)
HubInstant(round, offset) == round * Round + offset
SolveAnchor(t0, instant, rate) == t0 - Stretch(rate, instant)

\* g holds anchor, rate, slot, beaconSlot, every (beacon_every_rounds, 0: none) and ulOffset.
T0ForHubInstant(g, instant) == g.anchor + Stretch(g.rate, instant)
T0ForRound(g, round) == T0ForHubInstant(g, HubInstant(round, g.slot * Pitch))
BeaconT0ForRound(g, round) == T0ForHubInstant(g, HubInstant(round, g.beaconSlot * Pitch))
ArmInstant(t0) == t0 - (Preamble + Guard)

\* The two loops of every search: down from the guess while the one before still serves, then
\* up to the first that does.  short: how much the guess falls short, in instants, and so in
\* marks at most.
FirstFrom(guess, short, serving) ==
  LET low == Min({r \in 0..guess : r..(guess - 1) \subseteq serving})
  IN Min({r \in low..(guess + short) : r \in serving})

\* Of the marks at offset, stride + offset, 2 * stride + offset and so on, the number of the
\* first at `from` or later.  Guessed with the inverse of Stretch to first order.
FirstMark(g, stride, offset, from) ==
  LET Mark(n) == T0ForHubInstant(g, n * stride + offset)
      guess == AtLeast0(TruncDiv(Unstretch(g.rate, from - Mark(0)) + stride - 1, stride))
  IN IF from <= Mark(0) THEN 0
     ELSE FirstFrom(guess, AtLeast0(from - Mark(guess)), {n \in Nat : Mark(n) >= from})

NextT0(g, now) == T0ForRound(g, FirstMark(g, Round, g.slot * Pitch, now))

RoundForT0Guessed(g, t0) ==
  LET base == T0ForRound(g, 0)
  IN IF t0 < base THEN 0 ELSE AtLeast0(TruncDiv(Unstretch(g.rate, t0 - base), Round))
RoundForT0(g, t0) ==
  LET base == T0ForRound(g, 0)
      guess == AtLeast0(TruncDiv(Unstretch(g.rate, t0 - base), Round))
  IN IF t0 < base THEN 0
     ELSE FirstFrom(guess, AtLeast0(t0 - T0ForRound(g, guess)), {r \in Nat : T0ForRound(g, r + 1) > t0})

NextBeaconT0(g, now) ==
  IF g.every = 0 THEN 0
  ELSE BeaconT0ForRound(g, FirstMark(g, Round * g.every, g.beaconSlot * Pitch, now) * g.every)

-----------------------------------------------------------------------------
(* Windows. *)

\* A tie goes to the beacon, and a skip drops the private window only.
NextWindow(g, now, skip) ==
  LET own == NextT0(g, now)
      beacon == NextBeaconT0(g, now)
  IN IF beacon # 0 /\ (skip \/ beacon <= own)
     THEN [t0 |-> beacon, kind |-> "Beacon"]
     ELSE [t0 |-> own, kind |-> "Own"]

\* Mutant: the window that has opened is not passed over.
SearchFromNow(now, opened) == now

\* Half a pitch past the window that has already opened (0: none has).
NextWindowSearchFrom(now, opened) ==
  IF opened # 0 /\ opened + Pitch \div 2 > now THEN opened + Pitch \div 2 ELSE now

\* When to arm for the next window, and for which: never in the past.
NextWindowArm(g, now, lead, skip, opened) ==
  LET w == NextWindow(g, NextWindowSearchFrom(now, opened), skip)
      at == ArmInstant(w.t0) - lead
  IN [t0 |-> w.t0, kind |-> w.kind, at |-> IF at <= now THEN now + 1 ELSE at]

\* The first uplink mark whose carrier sense can still start, unless it is too far out.
AimUplink(g, now, lead, maxWait) ==
  LET offset == g.slot * Pitch + g.ulOffset
      t0 == T0ForHubInstant(g, HubInstant(FirstMark(g, Round, offset, now + lead), offset))
  IN IF g.ulOffset = 0 \/ t0 - lead - now > maxWait
     THEN [aimed |-> FALSE, t0 |-> 0]
     ELSE [aimed |-> TRUE, t0 |-> t0]

-----------------------------------------------------------------------------
(* Clock discipline. *)

ReanchorIsSane(err) == Magnitude(err) <= Guard
BeaconErrLearnable(err) == Magnitude(err) <= Pitch \div 2
NoResidual(err, span) == 0
ResidualRate(err, span) == IF span < MinSpan THEN 0 ELSE TruncDiv(err * RateDen, span)
ClampRate(rate) ==
  IF rate > RateMax THEN RateMax ELSE IF rate < -RateMax THEN -RateMax ELSE rate

\* phase::Stats; the mean is read by nobody but the log.
NoSamples == [n |-> 0, frames |-> 0, outside |-> 0, low |-> 0, high |-> 0]
Commit(s, err, newFrame) ==
  [n |-> s.n + 1,
   frames |-> IF newFrame THEN s.frames + 1 ELSE s.frames,
   outside |-> IF ReanchorIsSane(err) THEN s.outside ELSE s.outside + 1,
   low |-> IF s.n = 0 \/ err < s.low THEN err ELSE s.low,
   high |-> IF s.n = 0 \/ err > s.high THEN err ELSE s.high]
PhaseTrustworthy(s, minSamples, minFrames) ==
  s.n >= minSamples /\ s.frames >= minFrames /\ s.outside = 0 /\ s.high - s.low <= Guard

-----------------------------------------------------------------------------
(* The bitmap.  A mask holds bits (the slots whose bit is set), valid, beaconRound *)
(* and every.                                                                      *)

AllListening == 0..(SlotCount - 1)
NoMask == [bits |-> {}, valid |-> FALSE, beaconRound |-> 0, every |-> 0]
HasDataFor(m, slot) == slot >= SlotCount \/ slot \in m.bits
ExpiresLate(m) == m.beaconRound + 2 * m.every
ExpiresAtRound(m) == m.beaconRound + m.every
ShouldArmWindow(m, slot, round) ==
  \/ ~m.valid
  \/ slot >= SlotCount
  \/ round >= ExpiresAtRound(m)
  \/ round < m.beaconRound
  \/ HasDataFor(m, slot)

\* The hub's half, kept in shadow: a slot is cleared only when every node on it is known
\* and has no reason to listen.  nodes maps a node to its slot and its set of reasons.
ShadowMask(nodes) ==
  LET owned == {nodes[n].slot : n \in DOMAIN nodes} \cap AllListening
      listen == {nodes[n].slot : n \in {m \in DOMAIN nodes : nodes[m].reasons # {}}}
  IN AllListening \ (owned \ listen)
=============================================================================
