------------------------------ MODULE WaitLine ------------------------------
(***************************************************************************)
(* The fixed arrays that the hub's components keep their waiters in: the   *)
(* line of the onboarding gate (OnboardingGate.h), the requesters of the   *)
(* mode test token (ModeBSupervisor.h) and the entries of the transmit     *)
(* queue (TxQueue.h).  A newcomer goes to the back; when a place falls     *)
(* empty the later ones move up.  What each of these does to who waits,    *)
(* and that nobody comes to wait twice, is stated here once.               *)
(***************************************************************************)
EXTENDS Integers, Sequences, FiniteSets, TLAPS

Holds(q, x) == \E i \in 1 .. Len(q) : q[i] = x

\* Nobody waits in two places.
Distinct(q) == \A i, j \in 1 .. Len(q) : q[i] = q[j] => i = j

\* remove(i): the entries behind place i move up.
Without(q, i) == [j \in 1 .. Len(q) - 1 |-> IF j < i THEN q[j] ELSE q[j + 1]]

PlaceOf(q, x) == CHOOSE i \in 1 .. Len(q) : q[i] = x

\* forget() and remove(): x gives up its place, if it has one (it has no second, Distinct).
Leave(q, x) == IF Holds(q, x) THEN Without(q, PlaceOf(q, x)) ELSE q

-----------------------------------------------------------------------------

\* A removal leaves a queue, one shorter; who stood at that place is gone, the
\* others stay, each once.
LEMMA WithoutOne ==
  ASSUME NEW S, NEW q \in Seq(S), NEW i \in 1 .. Len(q)
  PROVE  /\ Without(q, i) \in Seq(S) /\ Len(Without(q, i)) = Len(q) - 1
         /\ \A j \in 1 .. Len(q) - 1 : Without(q, i)[j] = IF j < i THEN q[j] ELSE q[j + 1]
         /\ Distinct(q) => /\ Distinct(Without(q, i))
                           /\ \A x : Holds(Without(q, i), x) <=> Holds(q, x) /\ x # q[i]
  <1> DEFINE rest == Without(q, i)
  <1>1. Len(q) \in Nat /\ Len(q) - 1 \in Nat
    OBVIOUS
  <1>2. rest = [j \in 1 .. Len(q) - 1 |-> IF j < i THEN q[j] ELSE q[j + 1]]
    BY DEF Without
  <1>3. \A j \in 1 .. Len(q) - 1 : rest[j] = (IF j < i THEN q[j] ELSE q[j + 1]) /\ rest[j] \in S
    BY <1>1, <1>2
  <1>4. rest \in Seq(S) /\ Len(rest) = Len(q) - 1
    BY <1>1, <1>2, <1>3
  <1> HIDE DEF rest
  <1>5. ASSUME Distinct(q) PROVE Distinct(rest)
    BY <1>1, <1>3, <1>4, <1>5 DEF Distinct
  <1>6. ASSUME Distinct(q), NEW x PROVE Holds(rest, x) <=> Holds(q, x) /\ x # q[i]
    <2>1. ASSUME NEW j \in 1 .. Len(rest), rest[j] = x PROVE Holds(q, x) /\ x # q[i]
      <3>1. PICK k \in 1 .. Len(q) : q[k] = x /\ k # i
        BY <1>1, <1>3, <1>4, <2>1
      <3> QED
        BY <1>6, <3>1 DEF Distinct, Holds
    <2>2. ASSUME NEW k \in 1 .. Len(q), q[k] = x, x # q[i] PROVE Holds(rest, x)
      <3>1. CASE k < i
        <4>1. k \in 1 .. Len(rest) /\ rest[k] = x
          BY <1>1, <1>3, <1>4, <2>2, <3>1
        <4> QED
          BY <4>1 DEF Holds
      <3>2. CASE k > i
        <4>1. k - 1 \in 1 .. Len(rest) /\ rest[k - 1] = x
          BY <1>1, <1>3, <1>4, <2>2, <3>2
        <4> QED
          BY <4>1 DEF Holds
      <3> QED
        BY <1>1, <2>2, <3>1, <3>2
    <2> QED
      BY <2>1, <2>2 DEF Holds
  <1> QED
    BY <1>3, <1>4, <1>5, <1>6 DEF rest

\* Who leaves is gone, whoever else waited still does, each once.
LEMMA OthersStay ==
  ASSUME NEW S, NEW q \in Seq(S), Distinct(q), NEW x
  PROVE  /\ Leave(q, x) \in Seq(S) /\ Distinct(Leave(q, x))
         /\ \A y : Holds(Leave(q, x), y) <=> Holds(q, y) /\ y # x
  <1>1. CASE Holds(q, x)
    <2>1. PlaceOf(q, x) \in 1 .. Len(q) /\ q[PlaceOf(q, x)] = x
      BY <1>1 DEF Holds, PlaceOf
    <2> QED
      BY <1>1, <2>1, WithoutOne DEF Leave
  <1>2. CASE ~Holds(q, x)
    BY <1>2 DEF Leave
  <1> QED
    BY <1>1, <1>2

\* The head goes and nobody else.
LEMMA HeadLeaves ==
  ASSUME NEW S, NEW q \in Seq(S), Distinct(q), q # <<>>
  PROVE  /\ Tail(q) \in Seq(S) /\ Distinct(Tail(q)) /\ Head(q) \in S /\ Holds(q, Head(q))
         /\ Len(Tail(q)) = Len(q) - 1
         /\ \A x : Holds(Tail(q), x) <=> Holds(q, x) /\ x # Head(q)
  <1>1. /\ Tail(q) \in Seq(S) /\ Len(Tail(q)) = Len(q) - 1
        /\ \A i \in 1 .. Len(Tail(q)) : Tail(q)[i] = q[i + 1]
        /\ Len(q) \in Nat /\ 1 \in 1 .. Len(q) /\ Head(q) = q[1] /\ Head(q) \in S
    OBVIOUS
  <1>2. Distinct(Tail(q))
    BY <1>1 DEF Distinct
  <1>3. ASSUME NEW x PROVE Holds(Tail(q), x) <=> Holds(q, x) /\ x # Head(q)
    <2>1. ASSUME NEW i \in 1 .. Len(Tail(q)), Tail(q)[i] = x PROVE Holds(q, x) /\ x # Head(q)
      <3>1. i + 1 \in 1 .. Len(q) /\ q[i + 1] = x /\ i + 1 # 1
        BY <1>1, <2>1
      <3> QED
        BY <1>1, <3>1 DEF Holds, Distinct
    <2>2. ASSUME NEW i \in 1 .. Len(q), q[i] = x, x # Head(q) PROVE Holds(Tail(q), x)
      <3>1. i - 1 \in 1 .. Len(Tail(q)) /\ Tail(q)[i - 1] = x
        BY <1>1, <2>2
      <3> QED
        BY <3>1 DEF Holds
    <2> QED
      BY <2>1, <2>2 DEF Holds
  <1> QED
    BY <1>1, <1>2, <1>3 DEF Holds

\* A newcomer goes to the back.
LEMMA NewcomerJoins ==
  ASSUME NEW S, NEW q \in Seq(S), Distinct(q), NEW x \in S, ~Holds(q, x)
  PROVE  /\ Append(q, x) \in Seq(S) /\ Distinct(Append(q, x)) /\ Len(Append(q, x)) = Len(q) + 1
         /\ \A y : Holds(Append(q, x), y) <=> Holds(q, y) \/ y = x
  <1>1. /\ Append(q, x) \in Seq(S) /\ Len(Append(q, x)) = Len(q) + 1 /\ Len(q) \in Nat
        /\ \A i \in 1 .. Len(q) : Append(q, x)[i] = q[i]
        /\ Append(q, x)[Len(q) + 1] = x
    OBVIOUS
  <1>2. Distinct(Append(q, x))
    BY <1>1 DEF Distinct, Holds
  <1>3. ASSUME NEW y PROVE Holds(Append(q, x), y) <=> Holds(q, y) \/ y = x
    <2>1. ASSUME NEW i \in 1 .. Len(Append(q, x)), Append(q, x)[i] = y PROVE Holds(q, y) \/ y = x
      BY <1>1, <2>1 DEF Holds
    <2>2. ASSUME NEW i \in 1 .. Len(q), q[i] = y PROVE Holds(Append(q, x), y)
      <3>1. i \in 1 .. Len(Append(q, x)) /\ Append(q, x)[i] = y
        BY <1>1, <2>2
      <3> QED
        BY <3>1 DEF Holds
    <2>3. Len(q) + 1 \in 1 .. Len(Append(q, x))
      BY <1>1
    <2> QED
      BY <1>1, <2>1, <2>2, <2>3 DEF Holds
  <1> QED
    BY <1>1, <1>2, <1>3
=============================================================================
