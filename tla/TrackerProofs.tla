--------------------------- MODULE TrackerProofs ---------------------------
(***************************************************************************)
(* The transmit path loses no buffer, refuses nothing it has announced,    *)
(* keeps a prepared frame in the radio and implements DownlinkQueue, for   *)
(* any pool, any policies and any number of frames.  The inductive         *)
(* invariant is TrackerInv: every buffer is in one place, and each step of *)
(* a sender or of the send task moves at most one of them on.              *)
(***************************************************************************)
EXTENDS Tracker, FiniteSetTheorems, WellFoundedInduction

-----------------------------------------------------------------------------
(* Queues of buffers *)

LEMMA BufsOf ==
  ASSUME NEW q \in Seq(Entries)
  PROVE  /\ Bufs(q) \in Seq(Buffers) /\ Len(Bufs(q)) = Len(q)
         /\ \A i \in 1 .. Len(q) : Bufs(q)[i] = q[i].buf /\ q[i] \in Entries
  <1>1. Len(q) \in Nat /\ \A i \in 1 .. Len(q) : q[i] \in Entries
    OBVIOUS
  <1>2. \A e \in Entries : e.buf \in Buffers
    BY DEF Entries
  <1>3. Bufs(q) \in [1 .. Len(q) -> Buffers]
    BY <1>1, <1>2 DEF Bufs
  <1> QED
    BY <1>1, <1>3 DEF Bufs

LEMMA BufsAppend ==
  ASSUME NEW q \in Seq(Entries), NEW e \in Entries
  PROVE  Bufs(Append(q, e)) = Append(Bufs(q), e.buf)
  BY BufsOf DEF Bufs, Entries

LEMMA BufsWithout ==
  ASSUME NEW q \in Seq(Entries), NEW i \in 1 .. Len(q)
  PROVE  /\ Without(q, i) \in Seq(Entries)
         /\ Bufs(Without(q, i)) = Without(Bufs(q), i)
  <1>1. /\ Without(q, i) \in Seq(Entries) /\ Len(Without(q, i)) = Len(q) - 1
        /\ \A j \in 1 .. Len(q) - 1 : Without(q, i)[j] = IF j < i THEN q[j] ELSE q[j + 1]
    BY WithoutOne
  <1>2. Bufs(Without(q, i)) = [j \in 1 .. Len(q) - 1 |-> IF j < i THEN q[j].buf ELSE q[j + 1].buf]
    BY <1>1 DEF Bufs
  <1>3. Len(Bufs(q)) = Len(q) /\ \A j \in 1 .. Len(q) : Bufs(q)[j] = q[j].buf
    BY BufsOf
  <1>4. Without(Bufs(q), i) = [j \in 1 .. Len(q) - 1 |-> IF j < i THEN q[j].buf ELSE q[j + 1].buf]
    <2>1. \A j \in 1 .. Len(q) - 1 : j \in 1 .. Len(q) /\ j + 1 \in 1 .. Len(q)
      OBVIOUS
    <2> QED
      BY <1>3, <2>1 DEF Without
  <1> QED
    BY <1>1, <1>2, <1>4

-----------------------------------------------------------------------------
(* Every buffer in one place *)

\* What is where, place by place.
LEMMA AtPlaces ==
  ASSUME NEW b
  PROVE  /\ At(b, "free") <=> Holds(free, b)
         /\ \A t \in Producers : At(b, t) <=> Holding(t) /\ tbuf[t] = b
         /\ At(b, "handed") <=> Holds(handoff, b)
         /\ At(b, "scheduled") <=> Holds(Bufs(sched), b)
         /\ At(b, "sending") <=> Taken /\ sbuf = b
  BY DEF At, Producers

LEMMA AtPlacesNext ==
  ASSUME NEW b
  PROVE  /\ At(b, "free")' <=> Holds(free', b)
         /\ \A t \in Producers : At(b, t)' <=> Holding(t)' /\ tbuf'[t] = b
         /\ At(b, "handed")' <=> Holds(handoff', b)
         /\ At(b, "scheduled")' <=> Holds(Bufs(sched'), b)
         /\ At(b, "sending")' <=> Taken' /\ sbuf' = b
  BY DEF At, Producers

LEMMA Stay ==
  ASSUME Placed, UNCHANGED <<free, handoff, sched, tbuf>>,
         \A t \in Producers : Holding(t)' <=> Holding(t),
         Taken' <=> Taken, Taken => UNCHANGED sbuf
  PROVE  Placed'
  <1>1. ASSUME NEW b, NEW q \in Places PROVE At(b, q)' <=> At(b, q)
    BY <1>1, AtPlaces, AtPlacesNext DEF Places, Producers
  <1> QED
    BY <1>1 DEF Placed, InOnePlace

\* A buffer moves on from one place to another.
LEMMA Moves ==
  ASSUME InOnePlace,
         NEW x \in Buffers, NEW from \in Places, NEW to \in Places, from # to, At(x, from),
         \A b \in Buffers : At(b, from)' <=> At(b, from) /\ b # x,
         \A b \in Buffers : At(b, to)' <=> At(b, to) \/ b = x,
         \A b \in Buffers, q \in Places \ {from, to} : At(b, q)' <=> At(b, q)
  PROVE  InOnePlace'
  <1> SUFFICES ASSUME NEW b \in Buffers
               PROVE  \E p \in Places : \A q \in Places : At(b, q)' <=> q = p
    BY DEF InOnePlace
  <1>1. PICK p \in Places : \A q \in Places : At(b, q) <=> q = p
    BY DEF InOnePlace
  <1>2. CASE b = x
    <2>1. p = from
      BY <1>1, <1>2
    <2>2. \A q \in Places : At(b, q)' <=> q = to
      BY <1>1, <1>2, <2>1
    <2> QED
      BY <2>2
  <1>3. CASE b # x
    <2>1. \A q \in Places : At(b, q)' <=> q = p
      BY <1>1, <1>3
    <2> QED
      BY <2>1
  <1> QED
    BY <1>2, <1>3

LEMMA Elsewhere ==
  ASSUME InOnePlace, NEW b \in Buffers, NEW p \in Places, NEW q \in Places, p # q, At(b, p)
  PROVE  ~At(b, q)
  BY DEF InOnePlace

\* get_free_buffer: the head of the free list goes to the sender.
LEMMA TakePlaces ==
  ASSUME Typed, Placed, NEW t \in Producers, TakeBuffer(t)
  PROVE  Placed'
  <1> DEFINE x == Head(free)
  <1>1. /\ free # <<>> /\ ~Holding(t) /\ free' = Tail(free) /\ tbuf' = [tbuf EXCEPT ![t] = x]
        /\ tpc' = [tpc EXCEPT ![t] = "taken"] /\ UNCHANGED <<handoff, sched, spc, sbuf>>
    BY DEF TakeBuffer, sendVars, Holding, Typed
  <1>2. /\ Distinct(free') /\ x \in Buffers /\ Holds(free, x)
        /\ \A b : Holds(free', b) <=> Holds(free, b) /\ b # x
    BY <1>1, HeadLeaves DEF Typed, Placed
  <1>3. /\ Holding(t)' /\ tbuf'[t] = x
        /\ \A u \in Producers \ {t} : (Holding(u)' <=> Holding(u)) /\ tbuf'[u] = tbuf[u]
    BY <1>1 DEF Holding, Typed
  <1>4. (Taken' <=> Taken)
    BY <1>1 DEF Taken, Bursting
  <1> HIDE DEF x
  <1>5. \A b \in Buffers : At(b, "free")' <=> At(b, "free") /\ b # x
    BY <1>2, AtPlaces, AtPlacesNext
  <1>6. \A b \in Buffers : At(b, t)' <=> At(b, t) \/ b = x
    BY <1>1, <1>3, AtPlaces, AtPlacesNext
  <1>7. \A b \in Buffers, q \in Places \ {"free", t} : At(b, q)' <=> At(b, q)
    BY <1>1, <1>3, <1>4, AtPlaces, AtPlacesNext DEF Places, Producers
  <1>8. t \in Places /\ "free" \in Places /\ t # "free"
    BY DEF Places, Producers
  <1>9. At(x, "free")
    BY <1>2, AtPlaces
  <1>10. InOnePlace'
    BY <1>2, <1>5, <1>6, <1>7, <1>8, <1>9, Moves DEF Placed
  <1> QED
    BY <1>1, <1>2, <1>3, <1>4, <1>10 DEF Placed

\* The sender hands its buffer over, or back when the queue is full.
LEMMA HandOffPlaces ==
  ASSUME Typed, Placed, NEW t \in Producers, HandOff(t)
  PROVE  Placed'
  <1> DEFINE x == tbuf[t]
  <1>1. /\ Holding(t) /\ tbuf' = [tbuf EXCEPT ![t] = Nobody] /\ tpc' = [tpc EXCEPT ![t] = "idle"]
        /\ UNCHANGED <<sched, spc, sbuf>>
    BY DEF HandOff, sendVars, Holding
  <1>2. x \in Buffers /\ t \in Places /\ "handed" \in Places /\ "free" \in Places
        /\ t # "free" /\ t # "handed"
    BY <1>1 DEF Placed, Places, Producers
  <1>3. /\ ~Holding(t)'
        /\ \A u \in Producers \ {t} : (Holding(u)' <=> Holding(u)) /\ tbuf'[u] = tbuf[u]
    BY <1>1 DEF Holding, Typed
  <1>4. (Taken' <=> Taken)
    BY <1>1 DEF Taken, Bursting
  <1>5. At(x, t)
    BY <1>1, AtPlaces
  <1>6. \A b \in Buffers : At(b, t)' <=> At(b, t) /\ b # x
    BY <1>1, <1>3, AtPlaces, AtPlacesNext
  <1>7. ~Holds(handoff, x) /\ ~Holds(free, x)
    BY <1>2, <1>5, Elsewhere, AtPlaces DEF Placed
  <1> HIDE DEF x
  <1>8. CASE handoff' = Append(handoff, x) /\ UNCHANGED free
    <2>1. Distinct(handoff') /\ \A b : Holds(handoff', b) <=> Holds(handoff, b) \/ b = x
      BY <1>2, <1>7, <1>8, NewcomerJoins DEF Typed, Placed
    <2>2. \A b \in Buffers : At(b, "handed")' <=> At(b, "handed") \/ b = x
      BY <2>1, AtPlaces, AtPlacesNext
    <2>3. \A b \in Buffers, q \in Places \ {t, "handed"} : At(b, q)' <=> At(b, q)
      BY <1>1, <1>3, <1>4, <1>8, AtPlaces, AtPlacesNext DEF Places, Producers
    <2>4. InOnePlace'
      BY <1>2, <1>5, <1>6, <2>2, <2>3, Moves DEF Placed
    <2> QED
      BY <1>1, <1>3, <1>4, <1>8, <2>1, <2>4 DEF Placed
  <1>9. CASE free' = Append(free, x) /\ UNCHANGED handoff
    <2>1. Distinct(free') /\ \A b : Holds(free', b) <=> Holds(free, b) \/ b = x
      BY <1>2, <1>7, <1>9, NewcomerJoins DEF Typed, Placed
    <2>2. \A b \in Buffers : At(b, "free")' <=> At(b, "free") \/ b = x
      BY <2>1, AtPlaces, AtPlacesNext
    <2>3. \A b \in Buffers, q \in Places \ {t, "free"} : At(b, q)' <=> At(b, q)
      BY <1>1, <1>3, <1>4, <1>9, AtPlaces, AtPlacesNext DEF Places, Producers
    <2>4. InOnePlace'
      BY <1>2, <1>5, <1>6, <2>2, <2>3, Moves DEF Placed
    <2> QED
      BY <1>1, <1>3, <1>4, <1>9, <2>1, <2>4 DEF Placed
  <1> QED
    BY <1>8, <1>9 DEF HandOff, ReturnBuffer, poolVars, x

\* drainHandoffQueue_: the head goes to the scheduler, or back when that is full.
LEMMA DrainPlaces ==
  ASSUME Typed, Placed, \A b \in Buffers : Holds(handoff, b) => Entry(b) \in Entries, Drain
  PROVE  Placed'
  <1> DEFINE x == Head(handoff)
  <1>1. /\ handoff # <<>> /\ handoff' = Tail(handoff) /\ sched' = Push(sched, Entry(x))
        /\ IF Full(sched) THEN ReturnBuffer(x) ELSE UNCHANGED poolVars
        /\ UNCHANGED <<tpc, tbuf, spc, sbuf>>
    BY DEF Drain, sendVars, taskVars
  <1>2. /\ Distinct(handoff') /\ x \in Buffers /\ Holds(handoff, x)
        /\ \A b : Holds(handoff', b) <=> Holds(handoff, b) /\ b # x
    BY <1>1, HeadLeaves DEF Typed, Placed
  <1>3. (Taken' <=> Taken) /\ \A u \in Producers : (Holding(u)' <=> Holding(u)) /\ tbuf'[u] = tbuf[u]
    BY <1>1 DEF Taken, Bursting, Holding
  <1>4. At(x, "handed") /\ "handed" \in Places /\ "free" \in Places /\ "scheduled" \in Places
    BY <1>2, AtPlaces DEF Places
  <1>5. \A b \in Buffers : At(b, "handed")' <=> At(b, "handed") /\ b # x
    BY <1>2, AtPlaces, AtPlacesNext
  <1>6. ~Holds(Bufs(sched), x) /\ ~Holds(free, x)
    BY <1>2, <1>4, Elsewhere, AtPlaces DEF Placed
  <1>7. Entry(x) \in Entries /\ Entry(x).buf = x
    BY <1>2 DEF Entry
  <1> HIDE DEF x
  <1>8. CASE ~Full(sched)
    <2>1. sched' = Append(sched, Entry(x)) /\ UNCHANGED free
      BY <1>1, <1>8 DEF Push, poolVars
    <2>2. Bufs(sched') = Append(Bufs(sched), x) /\ Bufs(sched) \in Seq(Buffers)
      BY <1>7, <2>1, BufsAppend, BufsOf DEF Typed
    <2>3. Distinct(Bufs(sched')) /\ \A b : Holds(Bufs(sched'), b) <=> Holds(Bufs(sched), b) \/ b = x
      BY <1>2, <1>6, <2>2, NewcomerJoins DEF Placed
    <2>4. \A b \in Buffers : At(b, "scheduled")' <=> At(b, "scheduled") \/ b = x
      BY <2>3, AtPlaces, AtPlacesNext
    <2>5. \A b \in Buffers, q \in Places \ {"handed", "scheduled"} : At(b, q)' <=> At(b, q)
      BY <1>1, <1>3, <2>1, AtPlaces, AtPlacesNext DEF Places, Producers
    <2>6. InOnePlace'
      BY <1>2, <1>4, <1>5, <2>4, <2>5, Moves DEF Placed
    <2> QED
      BY <1>1, <1>2, <1>3, <2>1, <2>3, <2>6 DEF Placed
  <1>9. CASE Full(sched)
    <2>1. free' = Append(free, x) /\ UNCHANGED sched
      BY <1>1, <1>9 DEF Push, ReturnBuffer
    <2>2. Distinct(free') /\ \A b : Holds(free', b) <=> Holds(free, b) \/ b = x
      BY <1>2, <1>6, <2>1, NewcomerJoins DEF Typed, Placed
    <2>3. \A b \in Buffers : At(b, "free")' <=> At(b, "free") \/ b = x
      BY <2>2, AtPlaces, AtPlacesNext
    <2>4. \A b \in Buffers, q \in Places \ {"handed", "free"} : At(b, q)' <=> At(b, q)
      BY <1>1, <1>3, <2>1, AtPlaces, AtPlacesNext DEF Places, Producers
    <2>5. InOnePlace'
      BY <1>2, <1>4, <1>5, <2>3, <2>4, Moves DEF Placed
    <2> QED
      BY <1>1, <1>2, <1>3, <2>1, <2>2, <2>5 DEF Placed
  <1> QED
    BY <1>8, <1>9

\* serviceTxQueue: the entry that popDue releases goes to the send task.
LEMMA PopPlaces ==
  ASSUME Typed, Placed, NEW i \in 1 .. Len(sched), spc = "pop", sched' = Without(sched, i),
         sbuf' = sched[i].buf, spc' \in {"copy", "release"}, UNCHANGED <<free, handoff, tpc, tbuf>>
  PROVE  Placed'
  <1> DEFINE x == sched[i].buf
  <1>1. /\ Bufs(sched) \in Seq(Buffers) /\ Len(Bufs(sched)) = Len(sched) /\ Bufs(sched)[i] = x
        /\ Bufs(sched') = Without(Bufs(sched), i) /\ x \in Buffers
    BY BufsOf, BufsWithout DEF Typed, Entries
  <1>2. /\ Distinct(Bufs(sched')) /\ Holds(Bufs(sched), x)
        /\ \A b : Holds(Bufs(sched'), b) <=> Holds(Bufs(sched), b) /\ b # x
    <2>1. Holds(Bufs(sched), x)
      BY <1>1 DEF Holds
    <2> QED
      BY <1>1, <2>1, WithoutOne DEF Placed
  <1>3. ~Taken /\ Taken' /\ sbuf' = x
        /\ \A u \in Producers : (Holding(u)' <=> Holding(u)) /\ tbuf'[u] = tbuf[u]
    BY DEF Taken, Bursting, Holding
  <1> HIDE DEF x
  <1>4. At(x, "scheduled") /\ "scheduled" \in Places /\ "sending" \in Places
    BY <1>2, AtPlaces DEF Places
  <1>5. \A b \in Buffers : At(b, "scheduled")' <=> At(b, "scheduled") /\ b # x
    BY <1>2, AtPlaces, AtPlacesNext
  <1>6. \A b \in Buffers : At(b, "sending")' <=> At(b, "sending") \/ b = x
    BY <1>3, AtPlaces, AtPlacesNext
  <1>7. \A b \in Buffers, q \in Places \ {"scheduled", "sending"} : At(b, q)' <=> At(b, q)
    BY <1>3, AtPlaces, AtPlacesNext DEF Places, Producers
  <1>8. InOnePlace'
    BY <1>1, <1>4, <1>5, <1>6, <1>7, Moves DEF Placed
  <1> QED
    BY <1>1, <1>2, <1>3, <1>8 DEF Placed

\* The send task puts its buffer back.
LEMMA PutBackPlaces ==
  ASSUME Typed, Placed, PutBack
  PROVE  Placed'
  <1>1. /\ spc = "free" /\ free' = Append(free, sbuf) /\ spc' \in {"pop", "hold"}
        /\ UNCHANGED <<handoff, sched, tpc, tbuf>>
    BY DEF PutBack, queueVars, taskVars
  <1>2. /\ Taken /\ ~Taken' /\ sbuf \in Buffers
        /\ \A u \in Producers : (Holding(u)' <=> Holding(u)) /\ tbuf'[u] = tbuf[u]
    BY <1>1 DEF Taken, Bursting, Holding, Placed
  <1>3. At(sbuf, "sending") /\ "free" \in Places /\ "sending" \in Places
    BY <1>2, AtPlaces DEF Places
  <1>4. ~Holds(free, sbuf)
    BY <1>2, <1>3, Elsewhere, AtPlaces DEF Placed
  <1>5. Distinct(free') /\ \A b : Holds(free', b) <=> Holds(free, b) \/ b = sbuf
    BY <1>1, <1>2, <1>4, NewcomerJoins DEF Typed, Placed
  <1>6. \A b \in Buffers : At(b, "sending")' <=> At(b, "sending") /\ b # sbuf
    BY <1>2, AtPlaces, AtPlacesNext
  <1>7. \A b \in Buffers : At(b, "free")' <=> At(b, "free") \/ b = sbuf
    BY <1>5, AtPlaces, AtPlacesNext
  <1>8. \A b \in Buffers, q \in Places \ {"sending", "free"} : At(b, q)' <=> At(b, q)
    BY <1>1, <1>2, AtPlaces, AtPlacesNext DEF Places, Producers
  <1>9. InOnePlace'
    BY <1>2, <1>3, <1>6, <1>7, <1>8, Moves DEF Placed
  <1> QED
    BY <1>1, <1>2, <1>5, <1>9 DEF Placed

-----------------------------------------------------------------------------
(* Frames and the table *)

\* What a frame has been sent with stays, whatever is sent later.
LEMMA FrameSet ==
  ASSUME Typed, NEW b \in Buffers, content[b] # Nobody
  PROVE  content[b] \in 1 .. Len(frames) /\ Frame(b) \in FrameRecords
  BY DEF Typed, Frame, Nobody

LEMMA EntryTyped ==
  ASSUME Typed, NEW b \in Buffers, content[b] # Nobody
  PROVE  Entry(b) \in Entries
  BY FrameSet DEF Entry, Entries, FrameRecords

\* A command's own generation is at least 1, and so is the one it retries.
LEMMA GenerationsPositive ==
  ASSUME Typed, NEW key, NEW g \in Generations(key)
  PROVE  g \in Nat /\ (key # NoKey => g > 0)
  <1>1. NextGen(key) \in Nat /\ NextGen(key) > 0
    <2> DEFINE Q == {i \in DOMAIN frames : frames[i].key = key}
    <2>1. DOMAIN frames = 1 .. Len(frames) /\ Len(frames) \in Nat
      BY DEF Typed
    <2>2. IsFiniteSet(1 .. Len(frames))
      BY <2>1, FS_Interval
    <2>3. Q \subseteq 1 .. Len(frames)
      BY <2>1
    <2>4. IsFiniteSet(Q)
      BY <2>2, <2>3, FS_Subset
    <2>5. Cardinality(Q) \in Nat
      BY <2>4, FS_CardinalityType
    <2> QED
      BY <2>5 DEF NextGen
  <1>2. ASSUME NEW i \in DOMAIN frames, frames[i].key = key
        PROVE  frames[i].gen \in Nat /\ (key # NoKey => frames[i].gen > 0)
    <2>1. i \in 1 .. Len(frames) /\ frames[i] \in FrameRecords
      BY <1>2 DEF Typed
    <2> QED
      BY <1>2, <2>1 DEF Typed, FrameRecords
  <1> QED
    BY <1>1, <1>2 DEF Generations

\* SupersedeTable::note: the newest generation of a key only grows, the others stay.
Raised(D, tb, key, gen, new) ==
  \E E \in SUBSET CommandKeys :
     /\ D \subseteq E /\ E \subseteq D \cup {key} /\ new \in [E -> Nat]
     /\ \A k \in D : k # key => new[k] = tb[k]
     /\ key \in D => new[key] >= tb[key]
     /\ key \in E \ D => key # NoKey /\ new[key] = gen

LEMMA NoteRaises ==
  ASSUME NEW D \in SUBSET CommandKeys, NEW tb \in [D -> Nat],
         NEW key \in CommandKeys \cup {NoKey}, NEW gen \in Nat,
         NEW new, new = Note(tb, key, gen)
  PROVE  Raised(D, tb, key, gen, new)
  <1> USE DEF Raised
  <1>1. CASE key = NoKey
    BY <1>1 DEF Note
  <1>2. CASE key # NoKey /\ key \in D
    <2>1. new = [tb EXCEPT ![key] = IF gen > tb[key] THEN gen ELSE tb[key]]
      BY <1>2 DEF Note
    <2> QED
      BY <1>2, <2>1
  <1>3. CASE key # NoKey /\ key \notin D /\ Cardinality(D) < MaxKeys
    <2>1. new = [k \in D \cup {key} |-> IF k = key THEN gen ELSE tb[k]]
      BY <1>3 DEF Note
    <2>2. D \cup {key} \in SUBSET CommandKeys /\ new \in [D \cup {key} -> Nat]
      BY <1>3, <2>1
    <2> QED
      BY <1>3, <2>1, <2>2
  <1>4. CASE key # NoKey /\ key \notin D /\ ~(Cardinality(D) < MaxKeys)
    <2>1. new = tb
      BY <1>4 DEF Note
    <2> QED
      BY <1>4, <2>1
  <1> QED
    BY <1>1, <1>2, <1>3, <1>4

-----------------------------------------------------------------------------
(* popDue *)

LEMMA Least ==
  ASSUME NEW S, S \subseteq Nat, S # {}
  PROVE  \E m \in S : \A k \in S : m <= k
  <1> DEFINE R == OpToRel(<, Nat)
  <1>1. IsWellFoundedOn(R, Nat)
    BY NatLessThanWellFounded
  <1>2. \A x, y \in Nat : y < x => <<y, x>> \in R
    BY DEF OpToRel
  <1> HIDE DEF R
  <1>3. \E x \in S : \A y \in S : ~(<<y, x>> \in R)
    BY <1>1, WFMin
  <1>4. PICK m \in S : \A k \in S : ~(<<k, m>> \in R)
    BY <1>3
  <1>5. \A k \in S : ~(k < m)
    BY <1>2, <1>4
  <1> QED
    BY <1>5

\* Of the due entries the most urgent, and of these the oldest, is the one released.
LEMMA PopDueIn ==
  ASSUME NEW q \in Seq(Entries), NEW at \in Nat, PopDue(q, at, Lead) # 0
  PROVE  LET i == PopDue(q, at, Lead)
         IN  i \in Due(q, at, Lead) /\ i \in 1 .. Len(q)
             /\ \A j \in Due(q, at, Lead) \ {i} : Better(q, i, j)
  <1> DEFINE D == Due(q, at, Lead)
             Urgencies == {q[i].priority : i \in D}
  <1>1. /\ D \subseteq 1 .. Len(q) /\ Len(q) \in Nat /\ D # {}
        /\ \A i \in D : q[i].priority \in Nat
    <2>1. DOMAIN q = 1 .. Len(q) /\ Len(q) \in Nat /\ \A i \in 1 .. Len(q) : q[i] \in Entries
      OBVIOUS
    <2>2. D \subseteq 1 .. Len(q)
      BY <2>1 DEF Due
    <2>3. D # {}
      BY DEF PopDue
    <2>4. \A e \in Entries : e.priority \in Nat
      BY DEF Entries
    <2> QED
      BY <2>1, <2>2, <2>3, <2>4
  <1> HIDE DEF D
  <1>2. PICK u \in Urgencies : \A v \in Urgencies : u <= v
    BY <1>1, Least
  <1> DEFINE S == {i \in D : q[i].priority = u}
  <1>3. S # {} /\ S \subseteq Nat
    <2>1. PICK i \in D : q[i].priority = u
      BY <1>2
    <2>2. i \in S
      BY <2>1
    <2>3. S \subseteq D /\ 1 .. Len(q) \subseteq Nat
      BY <1>1
    <2> QED
      BY <1>1, <2>2, <2>3
  <1>4. PICK m \in S : \A k \in S : m <= k
    BY <1>3, Least
  <1>5. m \in D /\ q[m].priority = u
    BY <1>4
  <1>6. ASSUME NEW j \in D \ {m} PROVE Better(q, m, j)
    <2>1. u <= q[j].priority /\ u \in Nat /\ m \in Nat /\ j \in Nat
      BY <1>1, <1>2, <1>5
    <2>2. q[j].priority = u => m <= j
      BY <1>4
    <2> QED
      BY <1>1, <1>5, <2>1, <2>2 DEF Better
  <1>7. \E i \in D : \A j \in D \ {i} : Better(q, i, j)
    BY <1>5, <1>6
  <1>8. PopDue(q, at, Lead) = CHOOSE i \in D : \A j \in D \ {i} : Better(q, i, j)
    BY <1>1 DEF PopDue, D
  <1> QED
    BY <1>1, <1>7, <1>8 DEF D

-----------------------------------------------------------------------------
(* Types *)

LEMMA TypedInit ==
  ASSUME Init
  PROVE  Typed
  <1>1. free \in Seq(Buffers)
    BY PoolAssumption DEF Init, InitMemoryPool, Buffers
  <1>2. tpc \in [Producers -> {"idle", "taken", "marked", "noted", "poll", "check"}]
    BY DEF Init
  <1>3. /\ tbuf \in [Producers -> 0 .. PoolSize] /\ tid \in [Producers -> Nat]
        /\ spc \in SendStates /\ sbuf \in 0 .. PoolSize /\ scopy \in Nat /\ snow \in Nat /\ now \in Nat
    BY PoolAssumption DEF Init, SendStates, Nobody
  <1>4. /\ inUse \in [Buffers -> BOOLEAN] /\ content \in [Buffers -> 0 .. Len(frames)]
        /\ handoff \in Seq(Buffers) /\ sched \in Seq(Entries) /\ frames \in Seq(FrameRecords)
        /\ \A i \in 1 .. Len(frames) : frames[i].key # NoKey => frames[i].gen > 0
    BY DEF Init, InitMemoryPool, Nobody
  <1>5. DOMAIN table \subseteq CommandKeys /\ table \in [DOMAIN table -> Nat]
    BY DEF Init, EmptyTable
  <1> QED
    BY <1>1, <1>2, <1>3, <1>4, <1>5 DEF Typed

\* The policies sent with a frame make it a frame record.
LEMMA QueuedTyped ==
  ASSUME Typed, NEW p \in Policies, NEW g \in Generations(p.key)
  PROVE  /\ Queued(p, g) \in FrameRecords
         /\ Queued(p, g).key # NoKey => Queued(p, g).gen > 0
  BY TimeAssumption, GenerationsPositive DEF Queued, FrameRecords, CommandKeys

LEMMA ReturnTyped ==
  ASSUME Typed, NEW b \in Buffers, ReturnBuffer(b)
  PROVE  /\ free' \in Seq(Buffers) /\ inUse' \in [Buffers -> BOOLEAN]
         /\ content' \in [Buffers -> 0 .. Len(frames)]
  <1>1. free' \in Seq(Buffers)
    BY DEF Typed, ReturnBuffer
  <1>2. inUse' \in [Buffers -> BOOLEAN]
    BY DEF Typed, ReturnBuffer
  <1>3. Len(frames) \in Nat /\ content' \in [Buffers -> 0 .. Len(frames)]
    BY DEF Typed, ReturnBuffer, Nobody
  <1> QED
    BY <1>1, <1>2, <1>3

LEMMA TakeTyped ==
  ASSUME Typed, NEW t \in Producers, TakeBuffer(t)
  PROVE  Typed'
  <1>1. PICK p \in Policies : \E g \in Generations(p.key) : frames' = Append(frames, Queued(p, g))
    BY DEF TakeBuffer
  <1>a. PICK g \in Generations(p.key) : frames' = Append(frames, Queued(p, g))
    BY <1>1
  <1>2. /\ frames' \in Seq(FrameRecords) /\ Len(frames') = Len(frames) + 1 /\ Len(frames) \in Nat
        /\ \A i \in 1 .. Len(frames) : frames'[i] = frames[i]
        /\ frames'[Len(frames) + 1] = Queued(p, g)
    BY <1>a, QueuedTyped DEF Typed
  <1>3. \A i \in 1 .. Len(frames') : frames'[i].key # NoKey => frames'[i].gen > 0
    <2> SUFFICES ASSUME NEW i \in 1 .. Len(frames'), frames'[i].key # NoKey
                 PROVE  frames'[i].gen > 0
      OBVIOUS
    <2>1. CASE i \in 1 .. Len(frames)
      BY <1>2, <2>1 DEF Typed
    <2>2. CASE i = Len(frames) + 1
      BY <1>2, <2>2, QueuedTyped
    <2> QED
      BY <1>2, <2>1, <2>2
  <1>4. content' \in [Buffers -> 0 .. Len(frames')]
    BY <1>2 DEF Typed, TakeBuffer
  <1>5. free' \in Seq(Buffers) /\ Head(free) \in Buffers
    BY DEF Typed, TakeBuffer
  <1>6. /\ tbuf' \in [Producers -> 0 .. PoolSize] /\ tid' \in [Producers -> Nat]
        /\ tpc' \in [Producers -> {"idle", "taken", "marked", "noted", "poll", "check"}]
    <2>1. tbuf' \in [Producers -> 0 .. PoolSize]
      BY <1>5 DEF Typed, TakeBuffer, Buffers
    <2>2. tid' \in [Producers -> Nat]
      BY <1>2 DEF Typed, TakeBuffer
    <2>3. tpc' \in [Producers -> {"idle", "taken", "marked", "noted", "poll", "check"}]
      BY DEF Typed, TakeBuffer
    <2> QED
      BY <2>1, <2>2, <2>3
  <1>7. UNCHANGED <<inUse, handoff, sched, table, spc, sbuf, scopy, snow, now>>
    BY DEF TakeBuffer, sendVars
  <1> QED
    BY <1>2, <1>3, <1>4, <1>5, <1>6, <1>7 DEF Typed

\* Every step keeps the types: a buffer that waits holds a frame, so its entry is one.
LEMMA TypedNext ==
  ASSUME PoolInv, Next
  PROVE  Typed'
  <1> USE DEF PoolInv
  <1>1. ASSUME NEW t \in Producers, TakeBuffer(t) PROVE Typed'
    BY <1>1, TakeTyped
  <1>2. ASSUME NEW t \in Producers, MarkInUse(t) PROVE Typed'
    <2>1. tbuf[t] \in Buffers /\ tid[t] \in 0 .. Len(frames)
      BY <1>2 DEF MarkInUse, Placed, Marked, SenderMarked, Holding
    <2>2. inUse' \in [Buffers -> BOOLEAN] /\ content' \in [Buffers -> 0 .. Len(frames)]
      BY <1>2, <2>1 DEF MarkInUse, Typed
    <2>3. tpc' \in [Producers -> {"idle", "taken", "marked", "noted", "poll", "check"}]
      BY <1>2 DEF MarkInUse, Typed
    <2> QED
      BY <1>2, <2>2, <2>3 DEF Typed, MarkInUse, queueVars, sendVars
  <1>3. ASSUME NEW t \in Producers, AnnounceGen(t) PROVE Typed'
    <2>1. tid[t] \in 1 .. Len(frames)
      BY <1>3 DEF AnnounceGen, Marked, SenderMarked, Holding
    <2>2. frames[tid[t]] \in FrameRecords
      BY <2>1 DEF Typed
    <2>3. DOMAIN table' \subseteq CommandKeys /\ table' \in [DOMAIN table' -> Nat]
      <3>1. /\ DOMAIN table \subseteq CommandKeys /\ table \in [DOMAIN table -> Nat]
            /\ frames[tid[t]].key \in CommandKeys \cup {NoKey} /\ frames[tid[t]].gen \in Nat
            /\ table' = Note(table, frames[tid[t]].key, frames[tid[t]].gen)
        BY <1>3, <2>2 DEF AnnounceGen, Typed, FrameRecords
      <3>2. \E E \in SUBSET CommandKeys : table' \in [E -> Nat]
        BY <3>1, NoteRaises DEF Raised
      <3> QED
        BY <3>2
    <2>4. tpc' \in [Producers -> {"idle", "taken", "marked", "noted", "poll", "check"}]
      BY <1>3 DEF AnnounceGen, Typed
    <2> QED
      BY <1>3, <2>3, <2>4 DEF Typed, AnnounceGen, poolVars, sendVars
  <1>4. ASSUME NEW t \in Producers, HandOff(t) PROVE Typed'
    <2>1. tbuf[t] \in Buffers
      BY <1>4 DEF HandOff, Placed, Holding
    <2>2. /\ free' \in Seq(Buffers) /\ handoff' \in Seq(Buffers) /\ inUse' \in [Buffers -> BOOLEAN]
          /\ content' \in [Buffers -> 0 .. Len(frames)]
      <3>1. CASE Len(handoff) < HandoffSize
        <4>1. handoff' = Append(handoff, tbuf[t]) /\ UNCHANGED <<free, inUse, content>>
          BY <1>4, <3>1 DEF HandOff, poolVars
        <4> QED
          BY <2>1, <4>1 DEF Typed
      <3>2. CASE ~(Len(handoff) < HandoffSize)
        <4>1. ReturnBuffer(tbuf[t]) /\ UNCHANGED handoff
          BY <1>4, <3>2 DEF HandOff
        <4> QED
          BY <2>1, <4>1, ReturnTyped DEF Typed
      <3> QED
        BY <3>1, <3>2
    <2>3. /\ tpc' \in [Producers -> {"idle", "taken", "marked", "noted", "poll", "check"}]
          /\ tbuf' \in [Producers -> 0 .. PoolSize] /\ tid' \in [Producers -> Nat]
      BY <1>4, PoolAssumption DEF HandOff, Typed, Nobody
    <2> QED
      BY <1>4, <2>2, <2>3 DEF Typed, HandOff, sendVars
  <1>5. CASE Drain
    <2>1. Head(handoff) \in Buffers /\ Holds(handoff, Head(handoff)) /\ handoff' \in Seq(Buffers)
      BY <1>5, HeadLeaves DEF Drain, Typed, Placed
    <2>2. Entry(Head(handoff)) \in Entries
      BY <2>1, EntryTyped DEF Marked, QueuesMarked, Carries
    <2>3. /\ free' \in Seq(Buffers) /\ inUse' \in [Buffers -> BOOLEAN]
          /\ content' \in [Buffers -> 0 .. Len(frames)] /\ sched' \in Seq(Entries)
      <3>1. CASE Full(sched)
        <4>1. ReturnBuffer(Head(handoff)) /\ UNCHANGED sched
          BY <1>5, <3>1 DEF Drain, Push
        <4> QED
          BY <2>1, <4>1, ReturnTyped DEF Typed
      <3>2. CASE ~Full(sched)
        <4>1. sched' = Append(sched, Entry(Head(handoff))) /\ UNCHANGED <<free, inUse, content>>
          BY <1>5, <3>2 DEF Drain, poolVars, Push
        <4> QED
          BY <2>2, <4>1 DEF Typed
      <3> QED
        BY <3>1, <3>2
    <2> QED
      BY <1>5, <2>1, <2>3 DEF Typed, Drain, taskVars, sendVars
  <1>6. CASE Pop
    <2> DEFINE i == PopDue(sched, snow, Lead)
    <2>1. i \in 1 .. Len(sched)
      BY <1>6, PopDueIn DEF Pop, Typed
    <2> HIDE DEF i
    <2>2. sched' \in Seq(Entries) /\ sbuf' \in Buffers
      BY <1>6, <2>1, BufsWithout, BufsOf DEF Pop, Typed, Entries, i
    <2> QED
      BY <1>6, <2>2, SMTT(30) DEF Typed, Pop, poolVars, taskVars, SendStates, Buffers
  <1>7. CASE PutBack
    <2>1. sbuf \in Buffers
      BY <1>7 DEF PutBack, Placed, Taken
    <2> QED
      BY <1>7, <2>1, PoolAssumption DEF PutBack, Typed, queueVars, taskVars, SendStates, Nobody
  <1>8. CASE Release
    <2>1. sbuf \in Buffers
      BY <1>8 DEF Release, Placed, Taken
    <2>2. inUse' \in [Buffers -> BOOLEAN] /\ content' \in [Buffers -> 0 .. Len(frames)]
      BY <1>8, <2>1 DEF Release, Typed, Nobody
    <2> QED
      BY <1>8, <2>2 DEF Release, Typed, queueVars, taskVars, SendStates
  <1>9. CASE StartPass \/ Drained \/ NothingDue \/ Wake \/ Hold \/ SendPacketBurst
    BY <1>9 DEF StartPass, Drained, NothingDue, Wake, Hold, SendPacketBurst, BeginCopy,
                SendPacketAt, Prepare, Fire, TxDone, Gap, BurstDone, Typed, SendStates,
                poolVars, queueVars, taskVars
  <1>10. CASE Poll \/ Listen \/ ReadRadio \/ Arrive \/ Tick
    BY <1>10 DEF Poll, Listen, ReadRadio, Arrive, Tick, Typed, Producers,
                 poolVars, queueVars, taskVars, sendVars
  <1> QED
    BY <1>1, <1>2, <1>3, <1>4, <1>5, <1>6, <1>7, <1>8, <1>9, <1>10 DEF Next, Sending, SendTask

-----------------------------------------------------------------------------
(* Places, marks and frames in every step *)

LEMMA PlacedInit ==
  ASSUME Init
  PROVE  Placed
  <1>1. /\ free = [b \in Buffers |-> b] /\ handoff = <<>> /\ sched = <<>> /\ Len(free) = PoolSize
        /\ ~Taken /\ \A t \in Producers : ~Holding(t)
    BY PoolAssumption DEF Init, InitMemoryPool, Taken, Bursting, Holding, Buffers
  <1>2. \A i \in 1 .. Len(free) : free[i] = i
    BY <1>1 DEF Buffers
  <1>3. Distinct(free) /\ Distinct(handoff) /\ Bufs(sched) = <<>> /\ Distinct(Bufs(sched))
    BY <1>1, <1>2 DEF Distinct, Bufs
  <1>4. \A b \in Buffers : /\ Holds(free, b) /\ ~Holds(handoff, b)
                           /\ ~Holds(Bufs(sched), b)
    <2>1. \A b \in Buffers : b \in 1 .. Len(free) /\ free[b] = b
      BY <1>1, <1>2 DEF Buffers
    <2>2. Len(handoff) = 0 /\ Len(Bufs(sched)) = 0
      BY <1>1, <1>3
    <2> QED
      BY <2>1, <2>2 DEF Holds
  <1>5. ASSUME NEW b \in Buffers, NEW q \in Places PROVE At(b, q) <=> q = "free"
    BY <1>1, <1>4, AtPlaces DEF Places, Producers
  <1>6. InOnePlace
    BY <1>5 DEF InOnePlace, Places
  <1> QED
    BY <1>1, <1>3, <1>6 DEF Placed

\* A buffer that is in one place is in no other.
LEMMA SoleHolder ==
  ASSUME InOnePlace, NEW x \in Buffers, NEW p \in Places, At(x, p)
  PROVE  /\ p # "free" => ~Holds(free, x)
         /\ \A t \in Producers : p # t /\ Holding(t) => tbuf[t] # x
         /\ p # "handed" => ~Holds(handoff, x)
         /\ p # "scheduled" => ~Holds(Bufs(sched), x)
         /\ p # "sending" /\ Taken => sbuf # x
  <1>1. \A q \in Places : q # p => ~At(x, q)
    BY Elsewhere
  <1> QED
    BY <1>1, AtPlaces DEF Places, Producers

LEMMA PlacedNext ==
  ASSUME PoolInv, Next
  PROVE  Placed'
  <1> USE DEF PoolInv
  <1>1. ASSUME NEW t \in Producers, TakeBuffer(t) PROVE Placed'
    BY <1>1, TakePlaces
  <1>2. ASSUME NEW t \in Producers, MarkInUse(t) \/ AnnounceGen(t) PROVE Placed'
    <2>1. \A u \in Producers : Holding(u)' <=> Holding(u)
      BY <1>2 DEF MarkInUse, AnnounceGen, Marked, SenderMarked, Holding, Typed
    <2>2. UNCHANGED <<free, handoff, sched, tbuf, spc, sbuf>>
      BY <1>2 DEF MarkInUse, AnnounceGen, queueVars, poolVars, sendVars
    <2> QED
      BY <2>1, <2>2, Stay DEF Taken, Bursting
  <1>3. ASSUME NEW t \in Producers, HandOff(t) PROVE Placed'
    BY <1>3, HandOffPlaces
  <1>4. CASE Drain
    BY <1>4, EntryTyped, DrainPlaces DEF Marked, QueuesMarked, Carries
  <1>5. CASE Pop
    <2> DEFINE i == PopDue(sched, snow, Lead)
    <2>1. i \in 1 .. Len(sched)
      BY <1>5, PopDueIn DEF Pop, Typed
    <2>2. /\ spc = "pop" /\ sched' = Without(sched, i) /\ sbuf' = sched[i].buf
          /\ spc' \in {"copy", "release"} /\ UNCHANGED <<free, handoff, tpc, tbuf>>
      BY <1>5 DEF Pop, poolVars, taskVars
    <2> HIDE DEF i
    <2> QED
      BY <2>1, <2>2, PopPlaces
  <1>6. CASE PutBack
    BY <1>6, PutBackPlaces
  <1>7. CASE StartPass \/ Drained \/ NothingDue \/ Wake \/ Hold \/ SendPacketBurst \/ Release
    <2>1. UNCHANGED <<free, handoff, sched, tpc, tbuf, sbuf>>
      BY <1>7 DEF StartPass, Drained, NothingDue, Wake, Hold, SendPacketBurst, BeginCopy,
                  SendPacketAt, Prepare, Fire, TxDone, Gap, BurstDone, Release,
                  poolVars, queueVars, taskVars
    <2>2. Taken' <=> Taken
      BY <1>7 DEF StartPass, Drained, NothingDue, Wake, Hold, SendPacketBurst, BeginCopy,
                  SendPacketAt, Prepare, Fire, TxDone, Gap, BurstDone, Release, Taken, Bursting
    <2> QED
      BY <2>1, <2>2, Stay DEF Holding
  <1>8. CASE Poll \/ Listen \/ ReadRadio \/ Arrive \/ Tick
    <2>1. UNCHANGED <<free, handoff, sched, tbuf, spc, sbuf>>
      BY <1>8 DEF Poll, Listen, ReadRadio, Arrive, Tick, poolVars, queueVars, taskVars, sendVars
    <2>2. \A u \in Producers : Holding(u)' <=> Holding(u)
      BY <1>8 DEF Poll, Listen, ReadRadio, Arrive, Tick, Holding, Typed, taskVars
    <2> QED
      BY <2>1, <2>2, Stay DEF Taken, Bursting
  <1> QED
    BY <1>1, <1>2, <1>3, <1>4, <1>5, <1>6, <1>7, <1>8 DEF Next, Sending, SendTask

LEMMA MarkedInit ==
  ASSUME Init
  PROVE  Marked
  <1>1. /\ ~Bursting /\ spc = "top" /\ \A t \in Producers : ~Holding(t)
        /\ \A b \in Buffers : ~inUse[b]
        /\ handoff = <<>> /\ sched = <<>>
    BY DEF Init, InitMemoryPool, Bursting, Holding
  <1>2. \A b : ~Holds(handoff, b) /\ ~Holds(Bufs(sched), b)
    BY <1>1 DEF Holds, Bufs
  <1> QED
    BY <1>1, <1>2 DEF Marked, QueuesMarked, SendTaskMarked

\* While nothing moves and nothing is marked, the marks stay right.
LEMMA MarksStay ==
  ASSUME Marked, UNCHANGED <<inUse, content, handoff, sched, free, frames, tpc, tbuf, tid, sbuf>>,
         Bursting' \/ spc' = "release" => Bursting \/ spc = "release",
         spc' = "free" => spc = "free"
  PROVE  Marked'
  <1>1. \A b : Carries(b)' <=> Carries(b)
    BY DEF Carries
  <1>2. \A t \in Producers : Holding(t)' <=> Holding(t)
    BY DEF Holding
  <1>3. QueuesMarked'
    BY <1>1 DEF Marked, QueuesMarked
  <1>4. \A t \in Producers : Holding(t)' => SenderMarked(t)'
    BY <1>1, <1>2 DEF Marked, SenderMarked
  <1>5. SendTaskMarked'
    BY <1>1 DEF Marked, SendTaskMarked
  <1> QED
    BY <1>3, <1>4, <1>5 DEF Marked

LEMMA TakeMarks ==
  ASSUME PoolInv, NEW t \in Producers, TakeBuffer(t)
  PROVE  Marked'
  <1> USE DEF PoolInv
  <1> DEFINE x == Head(free)
  <1>1. /\ free # <<>> /\ free' = Tail(free) /\ UNCHANGED <<inUse, content, handoff, sched, spc, sbuf>>
        /\ tbuf' = [tbuf EXCEPT ![t] = x] /\ tid' = [tid EXCEPT ![t] = Len(frames')]
        /\ tpc' = [tpc EXCEPT ![t] = "taken"] /\ Len(frames') = Len(frames) + 1 /\ Len(frames) \in Nat
    <2>1. \E f : frames' = Append(frames, f)
      BY DEF TakeBuffer
    <2> QED
      BY <2>1 DEF TakeBuffer, sendVars, Typed
  <1>2. x \in Buffers /\ Holds(free, x) /\ \A b : Holds(free', b) => Holds(free, b)
    BY <1>1, HeadLeaves DEF Typed, Placed
  <1>3. /\ tbuf'[t] = x /\ tid'[t] = Len(frames) + 1 /\ tpc'[t] = "taken"
        /\ \A u \in Producers \ {t} : tbuf'[u] = tbuf[u] /\ tid'[u] = tid[u] /\ tpc'[u] = tpc[u]
    BY <1>1 DEF Typed
  <1> HIDE DEF x
  <1>4. \A b : Carries(b)' <=> Carries(b)
    BY <1>1 DEF Carries
  <1>5. ASSUME NEW u \in Producers, Holding(u)'
        PROVE  SenderMarked(u)'
    <2>1. CASE u = t
      BY <1>1, <1>2, <1>3, <2>1 DEF Marked, QueuesMarked, SenderMarked
    <2>2. CASE u # t
      BY <1>1, <1>3, <1>4, <1>5, <2>2 DEF Marked, SenderMarked, Holding, Carries
    <2> QED
      BY <2>1, <2>2
  <1>6. QueuesMarked'
    BY <1>1, <1>2, <1>4 DEF Marked, QueuesMarked
  <1>7. SendTaskMarked'
    BY <1>1 DEF Marked, SendTaskMarked, Bursting, Carries
  <1> QED
    BY <1>5, <1>6, <1>7 DEF Marked

LEMMA MarkMarks ==
  ASSUME PoolInv, NEW t \in Producers, MarkInUse(t)
  PROVE  Marked'
  <1> USE DEF PoolInv
  <1> DEFINE x == tbuf[t]
  <1>1. Holding(t) /\ tpc[t] = "taken" /\ x \in Buffers /\ ~inUse[x] /\ tid[t] \in 1 .. Len(frames)
    BY DEF MarkInUse, Holding, Placed, Marked, SenderMarked
  <1>2. /\ inUse' = [inUse EXCEPT ![x] = TRUE] /\ content' = [content EXCEPT ![x] = tid[t]]
        /\ tpc' = [tpc EXCEPT ![t] = "marked"]
        /\ UNCHANGED <<free, handoff, sched, frames, tbuf, tid, spc, sbuf>>
    BY <1>1 DEF MarkInUse, queueVars, sendVars
  <1>3. /\ At(x, t) /\ t \in Places /\ t # "free" /\ t # "handed" /\ t # "scheduled" /\ t # "sending"
    BY <1>1, AtPlaces DEF Places, Producers
  <1>4. /\ ~Holds(free, x) /\ \A u \in Producers \ {t} : Holding(u) => tbuf[u] # x
        /\ Taken => sbuf # x
    BY <1>1, <1>3, SoleHolder DEF Placed
  <1>5. inUse'[x] /\ content'[x] # Nobody /\ \A b \in Buffers \ {x} : inUse'[b] = inUse[b] /\ content'[b] = content[b]
    BY <1>1, <1>2 DEF Typed, Nobody
  <1>6. /\ tpc'[t] = "marked" /\ \A u \in Producers \ {t} : tpc'[u] = tpc[u]
    BY <1>2 DEF Typed
  <1> HIDE DEF x
  <1>7. ASSUME NEW u \in Producers, Holding(u)'
        PROVE  SenderMarked(u)'
    <2>1. CASE u = t
      BY <1>1, <1>2, <1>5, <1>6, <2>1 DEF SenderMarked, Carries, x
    <2>2. CASE u # t
      <3>1. Holding(u) /\ tbuf[u] \in Buffers \ {x} /\ tpc'[u] = tpc[u]
        BY <1>4, <1>6, <1>7, <2>2 DEF Holding, Placed
      <3> QED
        BY <1>2, <1>5, <3>1 DEF Marked, SenderMarked, Carries
    <2> QED
      BY <2>1, <2>2
  <1>8. QueuesMarked'
    BY <1>2, <1>4, <1>5 DEF Marked, QueuesMarked, Carries
  <1>9. SendTaskMarked'
    BY <1>2, <1>4, <1>5 DEF Marked, SendTaskMarked, Bursting, Carries, Taken, Placed
  <1> QED
    BY <1>7, <1>8, <1>9 DEF Marked

\* return_buffer_to_pool, with the buffer at the end of the free list.
LEMMA ReturnMarks ==
  ASSUME PoolInv, NEW x \in Buffers, NEW p \in Places \ {"free", "sending"}, At(x, p),
         ReturnBuffer(x), Placed', UNCHANGED <<frames, spc, sbuf>>,
         \A u \in Producers : Holding(u)' => /\ Holding(u) /\ u # p
                                            /\ tbuf'[u] = tbuf[u] /\ tid'[u] = tid[u] /\ tpc'[u] = tpc[u],
         \A b \in Buffers : Holds(handoff', b) => Holds(handoff, b),
         \A b \in Buffers : Holds(Bufs(sched'), b) => Holds(Bufs(sched), b)
  PROVE  Marked'
  <1> USE DEF PoolInv
  <1>1. ~inUse'[x] /\ \A b \in Buffers \ {x} : inUse'[b] = inUse[b] /\ content'[b] = content[b]
    BY DEF ReturnBuffer, Typed
  <1>2. \A b \in Buffers : Holds(free', b) <=> Holds(free, b) \/ b = x
    <2>1. ~Holds(free, x)
      BY SoleHolder DEF Placed
    <2> QED
      BY <2>1, NewcomerJoins DEF ReturnBuffer, Typed, Placed
  <1>3. At(x, "free")'
    BY <1>2, AtPlacesNext
  <1>4. ~Holds(handoff', x) /\ ~Holds(Bufs(sched'), x)
    BY <1>3, AtPlacesNext DEF Placed, InOnePlace, Places
  <1>5. /\ \A u \in Producers : Holding(u)' => tbuf[u] # x
        /\ Taken => sbuf # x
    BY SoleHolder DEF Placed
  <1>6. ASSUME NEW u \in Producers, Holding(u)'
        PROVE  SenderMarked(u)'
    <2>1. Holding(u) /\ tbuf[u] \in Buffers \ {x} /\ tbuf'[u] = tbuf[u] /\ tid'[u] = tid[u] /\ tpc'[u] = tpc[u]
      BY <1>5, <1>6 DEF Placed
    <2> QED
      BY <1>1, <2>1 DEF Marked, SenderMarked, Carries
  <1>7. QueuesMarked'
    BY <1>1, <1>2, <1>4 DEF Marked, QueuesMarked, Carries
  <1>8. SendTaskMarked'
    BY <1>1, <1>5 DEF Marked, SendTaskMarked, Bursting, Carries, Taken, Placed
  <1> QED
    BY <1>6, <1>7, <1>8 DEF Marked

LEMMA HandOffMarks ==
  ASSUME PoolInv, NEW t \in Producers, HandOff(t)
  PROVE  Marked'
  <1> USE DEF PoolInv
  <1> DEFINE x == tbuf[t]
  <1>1. /\ Holding(t) /\ x \in Buffers /\ Carries(x)
        /\ UNCHANGED <<frames, spc, sbuf, sched>>
    BY DEF HandOff, Holding, Placed, Marked, SenderMarked, sendVars
  <1>2. /\ ~Holding(t)'
        /\ \A u \in Producers \ {t} : /\ (Holding(u)' <=> Holding(u)) /\ tpc'[u] = tpc[u]
                                      /\ tbuf'[u] = tbuf[u] /\ tid'[u] = tid[u]
    BY DEF HandOff, Holding, Typed
  <1>3. At(x, t) /\ t \in Places \ {"free", "sending", "handed"} /\ Placed'
    BY <1>1, AtPlaces, HandOffPlaces DEF Places, Producers
  <1> HIDE DEF x
  <1>4. CASE handoff' = Append(handoff, x) /\ UNCHANGED <<free, inUse, content>>
    <2>1. \A b : Carries(b)' <=> Carries(b)
      BY <1>4 DEF Carries
    <2>2. \A b \in Buffers : Holds(handoff', b) <=> Holds(handoff, b) \/ b = x
      <3>1. ~Holds(handoff, x)
        BY <1>1, <1>3, SoleHolder DEF Placed
      <3> QED
        BY <1>1, <1>4, <3>1, NewcomerJoins DEF Typed, Placed
    <2>3. QueuesMarked'
      BY <1>1, <1>4, <2>1, <2>2 DEF Marked, QueuesMarked
    <2>4. ASSUME NEW u \in Producers, Holding(u)'
          PROVE  SenderMarked(u)'
      <3>1. u # t
        BY <1>2, <2>4
      <3> QED
        BY <1>1, <1>2, <1>4, <2>4, <3>1 DEF Marked, SenderMarked, Carries
    <2>5. SendTaskMarked'
      BY <1>1, <1>4 DEF Marked, SendTaskMarked, Bursting, Carries
    <2> QED
      BY <2>3, <2>4, <2>5 DEF Marked
  <1>5. CASE ReturnBuffer(x) /\ UNCHANGED handoff
    BY <1>1, <1>2, <1>3, <1>5, ReturnMarks
  <1> QED
    BY <1>4, <1>5 DEF HandOff, poolVars, x

LEMMA DrainMarks ==
  ASSUME PoolInv, Drain
  PROVE  Marked'
  <1> USE DEF PoolInv
  <1> DEFINE x == Head(handoff)
  <1>1. UNCHANGED <<frames, spc, sbuf, tpc, tbuf, tid>> /\ handoff # <<>> /\ handoff' = Tail(handoff)
    BY DEF Drain, taskVars, sendVars
  <1>2. x \in Buffers /\ Holds(handoff, x) /\ \A b : Holds(handoff', b) => Holds(handoff, b)
    BY <1>1, HeadLeaves DEF Typed, Placed
  <1>3. Carries(x) /\ Entry(x) \in Entries /\ Entry(x).buf = x
    BY <1>2, EntryTyped DEF Marked, QueuesMarked, Carries, Entry
  <1>4. At(x, "handed") /\ "handed" \in Places \ {"free", "sending"} /\ Placed'
    BY <1>2, AtPlaces, EntryTyped, DrainPlaces DEF Places, Marked, QueuesMarked, Carries
  <1>5. \A u \in Producers : Holding(u)' <=> Holding(u)
    BY <1>1 DEF Holding
  <1>6. CASE ~Full(sched)
    <2>1. sched' = Append(sched, Entry(x)) /\ UNCHANGED <<free, inUse, content>>
      BY <1>6 DEF Drain, Push, poolVars
    <2> HIDE DEF x
    <2>2. \A b : Carries(b)' <=> Carries(b)
      BY <2>1 DEF Carries
    <2>3. \A b \in Buffers : Holds(Bufs(sched'), b) <=> Holds(Bufs(sched), b) \/ b = x
      <3>1. ~Holds(Bufs(sched), x)
        BY <1>2, <1>4, SoleHolder DEF Placed
      <3>2. Bufs(sched') = Append(Bufs(sched), x) /\ Bufs(sched) \in Seq(Buffers)
        BY <1>3, <2>1, BufsAppend, BufsOf DEF Typed
      <3> QED
        BY <1>2, <3>1, <3>2, NewcomerJoins DEF Placed
    <2>4. QueuesMarked'
      BY <1>2, <1>3, <2>1, <2>2, <2>3 DEF Marked, QueuesMarked
    <2>5. ASSUME NEW u \in Producers, Holding(u)'
          PROVE  SenderMarked(u)'
      BY <1>1, <1>5, <2>1, <2>5 DEF Marked, SenderMarked, Carries
    <2>6. SendTaskMarked'
      BY <1>1, <2>1 DEF Marked, SendTaskMarked, Bursting, Carries
    <2> QED
      BY <2>4, <2>5, <2>6 DEF Marked
  <1>7. CASE Full(sched)
    <2>1. ReturnBuffer(x) /\ UNCHANGED sched
      BY <1>7 DEF Drain, Push
    <2> HIDE DEF x
    <2>2. \A u \in Producers : Holding(u)' => u # "handed"
      BY DEF Producers
    <2> QED
      BY <1>1, <1>2, <1>4, <1>5, <2>1, <2>2, ReturnMarks
  <1> QED
    BY <1>6, <1>7

LEMMA PopMarks ==
  ASSUME PoolInv, Pop
  PROVE  Marked'
  <1> USE DEF PoolInv
  <1> DEFINE i == PopDue(sched, snow, Lead)
             x == sched[i].buf
  <1>1. i \in 1 .. Len(sched)
    BY PopDueIn DEF Pop, Typed
  <1>2. /\ sched' = Without(sched, i) /\ sbuf' = x /\ spc' \in {"copy", "release"}
        /\ UNCHANGED <<free, inUse, content, handoff, frames, tpc, tbuf, tid>>
    BY DEF Pop, poolVars, taskVars
  <1> HIDE DEF i
  <1>3. /\ Bufs(sched) \in Seq(Buffers) /\ Len(Bufs(sched)) = Len(sched) /\ Bufs(sched)[i] = x
        /\ Bufs(sched') = Without(Bufs(sched), i)
    BY <1>1, <1>2, BufsOf, BufsWithout DEF Typed
  <1> HIDE DEF x
  <1>4. Holds(Bufs(sched), x) /\ x \in Buffers /\ \A b : Holds(Bufs(sched'), b) => Holds(Bufs(sched), b)
    <2>1. Holds(Bufs(sched), x) /\ x \in Buffers
      BY <1>1, <1>3 DEF Holds
    <2> QED
      BY <1>1, <1>3, <2>1, WithoutOne DEF Placed
  <1>5. \A b : Carries(b)' <=> Carries(b)
    BY <1>2 DEF Carries
  <1>6. QueuesMarked'
    BY <1>2, <1>4, <1>5 DEF Marked, QueuesMarked
  <1>7. \A t \in Producers : Holding(t)' => SenderMarked(t)'
    BY <1>2, <1>5 DEF Marked, SenderMarked, Holding
  <1>8. SendTaskMarked'
    BY <1>2, <1>4 DEF Marked, QueuesMarked, SendTaskMarked, Carries, Bursting
  <1> QED
    BY <1>6, <1>7, <1>8 DEF Marked

LEMMA ReleaseMarks ==
  ASSUME PoolInv, Release
  PROVE  Marked'
  <1> USE DEF PoolInv
  <1>1. /\ Taken /\ sbuf \in Buffers /\ At(sbuf, "sending") /\ "sending" \in Places
    BY AtPlaces DEF Release, Taken, Placed, Places
  <1>2. /\ inUse' = [inUse EXCEPT ![sbuf] = FALSE] /\ content' = [content EXCEPT ![sbuf] = Nobody]
        /\ spc' = "free" /\ UNCHANGED <<free, handoff, sched, frames, tpc, tbuf, tid, sbuf>>
    BY DEF Release, queueVars, taskVars
  <1>3. ~inUse'[sbuf] /\ \A b \in Buffers \ {sbuf} : inUse'[b] = inUse[b] /\ content'[b] = content[b]
    BY <1>1, <1>2 DEF Typed
  <1>4. /\ ~Holds(handoff, sbuf) /\ ~Holds(Bufs(sched), sbuf)
        /\ \A t \in Producers : Holding(t) => tbuf[t] # sbuf
    BY <1>1, SoleHolder DEF Placed, Producers
  <1>5. QueuesMarked'
    BY <1>2, <1>3, <1>4 DEF Marked, QueuesMarked, Carries
  <1>6. ASSUME NEW t \in Producers, Holding(t)' PROVE SenderMarked(t)'
    <2>1. Holding(t) /\ tbuf[t] \in Buffers \ {sbuf}
      BY <1>2, <1>4, <1>6 DEF Holding, Placed
    <2> QED
      BY <1>2, <1>3, <2>1 DEF Marked, SenderMarked, Carries
  <1>7. SendTaskMarked'
    BY <1>2, <1>3 DEF SendTaskMarked, Bursting
  <1> QED
    BY <1>5, <1>6, <1>7 DEF Marked

LEMMA PutBackMarks ==
  ASSUME PoolInv, PutBack
  PROVE  Marked'
  <1> USE DEF PoolInv
  <1>1. /\ spc = "free" /\ sbuf \in Buffers /\ ~inUse[sbuf]
        /\ free' = Append(free, sbuf) /\ spc' \in {"pop", "hold"}
        /\ UNCHANGED <<inUse, content, handoff, sched, frames, tpc, tbuf, tid>>
    BY DEF PutBack, queueVars, taskVars, Placed, Taken, Marked, SendTaskMarked
  <1>2. At(sbuf, "sending") /\ "sending" \in Places
    BY <1>1, AtPlaces DEF Taken, Places
  <1>3. ~Holds(free, sbuf)
    BY <1>1, <1>2, SoleHolder DEF Placed
  <1>4. \A b : Holds(free', b) <=> Holds(free, b) \/ b = sbuf
    BY <1>1, <1>3, NewcomerJoins DEF Typed, Placed
  <1>5. \A b : Carries(b)' <=> Carries(b)
    BY <1>1 DEF Carries
  <1>6. QueuesMarked'
    BY <1>1, <1>4, <1>5 DEF Marked, QueuesMarked
  <1>7. \A t \in Producers : Holding(t)' => SenderMarked(t)'
    BY <1>1, <1>5 DEF Marked, SenderMarked, Holding
  <1>8. SendTaskMarked'
    BY <1>1 DEF SendTaskMarked, Bursting
  <1> QED
    BY <1>6, <1>7, <1>8 DEF Marked

LEMMA MarkedNext ==
  ASSUME PoolInv, Next
  PROVE  Marked'
  <1>1. ASSUME NEW t \in Producers, AnnounceGen(t) PROVE Marked'
    <2>1. /\ UNCHANGED <<inUse, content, handoff, sched, free, frames, tbuf, tid, sbuf, spc>>
          /\ tpc[t] = "marked" /\ tpc' = [tpc EXCEPT ![t] = "noted"]
      BY <1>1 DEF AnnounceGen, poolVars, sendVars
    <2>2. \A u \in Producers : /\ Holding(u)' <=> Holding(u)
                               /\ tpc'[u] = "taken" <=> tpc[u] = "taken"
      BY <2>1 DEF Holding, PoolInv, Typed
    <2>3. \A b : Carries(b)' <=> Carries(b)
      BY <2>1 DEF Carries
    <2>4. QueuesMarked'
      BY <2>1, <2>3 DEF PoolInv, Marked, QueuesMarked
    <2>5. \A u \in Producers : Holding(u)' => SenderMarked(u)'
      BY <2>1, <2>2, <2>3 DEF PoolInv, Marked, SenderMarked
    <2>6. SendTaskMarked'
      BY <2>1, <2>3 DEF PoolInv, Marked, SendTaskMarked, Bursting
    <2> QED
      BY <2>4, <2>5, <2>6 DEF Marked
  <1>2. ASSUME NEW t \in Producers, TakeBuffer(t) \/ MarkInUse(t) \/ HandOff(t) PROVE Marked'
    BY <1>2, TakeMarks, MarkMarks, HandOffMarks
  <1>3. CASE Drain \/ Pop \/ Release \/ PutBack
    BY <1>3, DrainMarks, PopMarks, ReleaseMarks, PutBackMarks
  <1>4. CASE StartPass \/ Drained \/ NothingDue \/ Wake \/ Hold \/ SendPacketBurst
    <2>1. UNCHANGED <<inUse, content, handoff, sched, free, frames, tpc, tbuf, tid, sbuf>>
      BY <1>4 DEF StartPass, Drained, NothingDue, Wake, Hold, SendPacketBurst, BeginCopy,
                  SendPacketAt, Prepare, Fire, TxDone, Gap, BurstDone, poolVars, queueVars, taskVars
    <2>2. /\ Bursting' \/ spc' = "release" => Bursting \/ spc = "release"
          /\ spc' = "free" => spc = "free"
      BY <1>4 DEF StartPass, Drained, NothingDue, Wake, Hold, SendPacketBurst, BeginCopy,
                  SendPacketAt, Prepare, Fire, TxDone, Gap, BurstDone, Bursting
    <2> QED
      BY <2>1, <2>2, MarksStay DEF PoolInv
  <1>5. CASE Arrive \/ Tick
    BY <1>5, MarksStay DEF Arrive, Tick, poolVars, queueVars, taskVars, sendVars, PoolInv, Bursting
  <1>6. CASE Poll \/ Listen \/ ReadRadio
    <2>1. UNCHANGED <<inUse, content, handoff, sched, free, frames, tbuf, tid, sbuf, spc>>
      BY <1>6 DEF Poll, Listen, ReadRadio, poolVars, queueVars, sendVars
    <2>2. \A u \in Producers : /\ Holding(u)' => Holding(u)
                               /\ Holding(u)' => tpc'[u] = tpc[u]
      BY <1>6 DEF Poll, Listen, ReadRadio, Holding, PoolInv, Typed
    <2>3. \A b : Carries(b)' <=> Carries(b)
      BY <2>1 DEF Carries
    <2>4. QueuesMarked'
      BY <2>1, <2>3 DEF PoolInv, Marked, QueuesMarked
    <2>5. \A u \in Producers : Holding(u)' => SenderMarked(u)'
      BY <2>1, <2>2, <2>3 DEF PoolInv, Marked, SenderMarked
    <2>6. SendTaskMarked'
      BY <2>1, <2>3 DEF PoolInv, Marked, SendTaskMarked, Bursting
    <2> QED
      BY <2>4, <2>5, <2>6 DEF Marked
  <1> QED
    BY <1>1, <1>2, <1>3, <1>4, <1>5, <1>6 DEF Next, Sending, SendTask

LEMMA PoolInvNext ==
  ASSUME PoolInv, Next
  PROVE  PoolInv'
  BY TypedNext, PlacedNext, MarkedNext DEF PoolInv

-----------------------------------------------------------------------------
(* What a buffer carries *)

\* Frames are sent one after the other and none is changed.
LEMMA FramesGrow ==
  ASSUME Typed, Next
  PROVE  /\ Len(frames) \in Nat /\ Len(frames') \in Nat /\ Len(frames) <= Len(frames')
         /\ \A i \in 1 .. Len(frames) : frames'[i] = frames[i]
  <1>1. ASSUME NEW t \in Producers, TakeBuffer(t) PROVE \E f : frames' = Append(frames, f)
    BY <1>1 DEF TakeBuffer
  <1>2. (\E f : frames' = Append(frames, f)) \/ UNCHANGED frames
    <2>1. ASSUME NEW t \in Producers, MarkInUse(t) \/ AnnounceGen(t) \/ HandOff(t)
          PROVE  UNCHANGED frames
      BY <2>1 DEF MarkInUse, AnnounceGen, HandOff, queueVars
    <2>2. CASE SendTask
      BY <2>2 DEF SendTask, StartPass, Drain, Drained, Pop, NothingDue, Wake, Hold, Release, PutBack,
                  SendPacketBurst, BeginCopy, SendPacketAt, Prepare, Fire, TxDone, Gap, BurstDone,
                  queueVars
    <2>3. CASE Poll \/ Listen \/ ReadRadio \/ Arrive \/ Tick
      BY <2>3 DEF Poll, Listen, ReadRadio, Arrive, Tick, queueVars
    <2> QED
      BY <1>1, <2>1, <2>2, <2>3 DEF Next, Sending
  <1>3. CASE UNCHANGED frames
    BY <1>3 DEF Typed
  <1>4. CASE \E f : frames' = Append(frames, f)
    BY <1>4 DEF Typed
  <1> QED
    BY <1>2, <1>3, <1>4

\* A buffer that goes on carrying a frame carries the same one.
LEMMA SameContent ==
  ASSUME PoolInv, Next, NEW b \in Buffers, Carries(b), Carries(b)'
  PROVE  content'[b] = content[b] /\ Frame(b)' = Frame(b)
  <1>1. content'[b] = content[b]
    <2>1. ASSUME NEW t \in Producers, TakeBuffer(t) \/ AnnounceGen(t) PROVE UNCHANGED content
      BY <2>1 DEF TakeBuffer, AnnounceGen, poolVars
    <2>2. ASSUME NEW t \in Producers, MarkInUse(t) PROVE content'[b] = content[b]
      <3>1. tbuf[t] \in Buffers /\ ~inUse[tbuf[t]]
        BY <2>2 DEF MarkInUse, PoolInv, Placed, Marked, SenderMarked, Holding
      <3> QED
        BY <2>2, <3>1 DEF MarkInUse, PoolInv, Typed, Carries
    <2>3. ASSUME NEW x \in Buffers, ReturnBuffer(x) PROVE content'[b] = content[b]
      BY <2>3 DEF ReturnBuffer, PoolInv, Typed, Carries
    <2>4. ASSUME NEW t \in Producers, HandOff(t) PROVE content'[b] = content[b]
      BY <2>3, <2>4 DEF HandOff, poolVars, PoolInv, Placed, Holding
    <2>5. CASE Drain
      <3>1. Head(handoff) \in Buffers
        BY <2>5 DEF Drain, PoolInv, Typed
      <3> QED
        BY <2>3, <2>5, <3>1 DEF Drain, poolVars
    <2>6. CASE Release
      BY <2>6 DEF Release, PoolInv, Typed, Carries
    <2>7. CASE \/ StartPass \/ Drained \/ Pop \/ NothingDue \/ Wake \/ Hold \/ PutBack \/ SendPacketBurst
               \/ Poll \/ Listen \/ ReadRadio \/ Arrive \/ Tick
      BY <2>7 DEF StartPass, Drained, Pop, NothingDue, Wake, Hold, PutBack,
                  SendPacketBurst, BeginCopy, SendPacketAt, Prepare, Fire, TxDone, Gap, BurstDone,
                  Poll, Listen, ReadRadio, Arrive, Tick, poolVars
    <2> QED
      BY <2>1, <2>2, <2>4, <2>5, <2>6, <2>7 DEF Next, Sending, SendTask
  <1>2. content[b] \in 1 .. Len(frames)
    BY FrameSet DEF PoolInv, Carries
  <1> QED
    BY <1>1, <1>2, FramesGrow DEF Frame, PoolInv

\* The scheduler's entries come from the hand-off queue, and stay as they are.
LEMMA EntriesFrom ==
  ASSUME PoolInv, Next, NEW i \in 1 .. Len(sched')
  PROVE  \/ \E j \in 1 .. Len(sched) : sched'[i] = sched[j]
         \/ \E b \in Buffers : Holds(handoff, b) /\ sched'[i] = Entry(b)
  <1>1. CASE UNCHANGED sched
    BY <1>1
  <1>2. CASE Drain
    <2>1. Head(handoff) \in Buffers /\ Holds(handoff, Head(handoff)) /\ sched \in Seq(Entries)
      BY <1>2, HeadLeaves DEF Drain, PoolInv, Typed, Placed
    <2>2. UNCHANGED sched \/ sched' = Append(sched, Entry(Head(handoff)))
      BY <1>2 DEF Drain, Push
    <2>3. CASE sched' = Append(sched, Entry(Head(handoff)))
      <3>1. i \in 1 .. Len(sched) \/ i = Len(sched) + 1
        BY <2>1, <2>3
      <3>2. i \in 1 .. Len(sched) => sched'[i] = sched[i]
        BY <2>1, <2>3
      <3>3. i = Len(sched) + 1 => sched'[i] = Entry(Head(handoff))
        BY <2>1, <2>3
      <3> QED
        BY <2>1, <3>1, <3>2, <3>3
    <2> QED
      BY <1>1, <2>2, <2>3
  <1>3. CASE Pop
    <2> DEFINE k == PopDue(sched, snow, Lead)
    <2>1. k \in 1 .. Len(sched) /\ sched' = Without(sched, k) /\ sched \in Seq(Entries)
      BY <1>3, PopDueIn DEF Pop, PoolInv, Typed
    <2> HIDE DEF k
    <2>2. /\ Len(sched') = Len(sched) - 1 /\ Len(sched) \in Nat
          /\ \A j \in 1 .. Len(sched) - 1 : sched'[j] = IF j < k THEN sched[j] ELSE sched[j + 1]
      <3>1. /\ Len(Without(sched, k)) = Len(sched) - 1
            /\ \A j \in 1 .. Len(sched) - 1 :
                  Without(sched, k)[j] = IF j < k THEN sched[j] ELSE sched[j + 1]
        <4>1. sched \in Seq(Entries) /\ k \in 1 .. Len(sched)
          BY <2>1
        <4> QED
          BY <4>1, WithoutOne
      <3> QED
        BY <2>1, <3>1
    <2>3. i \in 1 .. Len(sched) /\ i + 1 \in 1 .. Len(sched) /\ sched'[i] \in {sched[i], sched[i + 1]}
      BY <2>2
    <2> QED
      BY <2>3
  <1>4. ASSUME NEW t \in Producers, Sending(t) PROVE UNCHANGED sched
    BY <1>4 DEF Sending, TakeBuffer, MarkInUse, AnnounceGen, HandOff, queueVars
  <1>5. CASE \/ StartPass \/ Drained \/ NothingDue \/ Wake \/ Hold \/ Release \/ PutBack \/ SendPacketBurst
             \/ Poll \/ Listen \/ ReadRadio \/ Arrive \/ Tick
    <2>1. UNCHANGED sched
      BY <1>5 DEF StartPass, Drained, NothingDue, Wake, Hold, Release, PutBack,
                  SendPacketBurst, BeginCopy, SendPacketAt, Prepare, Fire, TxDone, Gap, BurstDone,
                  Poll, Listen, ReadRadio, Arrive, Tick, queueVars
    <2> QED
      BY <1>1, <2>1
  <1> QED
    BY <1>1, <1>2, <1>3, <1>4, <1>5 DEF Next, SendTask

LEMMA EntriesMatchNext ==
  ASSUME TrackerInv, Next
  PROVE  EntriesMatch'
  <1> SUFFICES ASSUME NEW i \in 1 .. Len(sched'), NEW e, e = sched'[i]
               PROVE  EntryMatches(e)'
    BY DEF EntriesMatch
  <1>1. PoolInv /\ PoolInv'
    BY PoolInvNext DEF TrackerInv
  <1>2. e \in Entries /\ e.buf \in Buffers /\ Carries(e.buf)'
    <2>1. sched' \in Seq(Entries) /\ QueuesMarked'
      BY <1>1 DEF PoolInv, Typed, Marked
    <2>2. Len(Bufs(sched')) = Len(sched') /\ Bufs(sched')[i] = e.buf /\ e \in Entries
      BY <2>1, BufsOf
    <2>3. e.buf \in Buffers /\ Holds(Bufs(sched'), e.buf)
      BY <2>2 DEF Holds, Entries
    <2> QED
      BY <2>1, <2>2, <2>3 DEF QueuesMarked
  <1>3. ASSUME Holds(handoff, e.buf) \/ Holds(Bufs(sched), e.buf), EntryMatches(e)
        PROVE  EntryMatches(e)'
    <2>1. Carries(e.buf)
      BY <1>1, <1>2, <1>3 DEF PoolInv, Marked, QueuesMarked
    <2>2. Frame(e.buf)' = Frame(e.buf)
      BY <1>1, <1>2, <2>1, SameContent
    <2> QED
      BY <1>3, <2>2 DEF EntryMatches
  <1>4. CASE \E j \in 1 .. Len(sched) : e = sched[j]
    <2>1. PICK j \in 1 .. Len(sched) : e = sched[j]
      BY <1>4
    <2>2. Len(Bufs(sched)) = Len(sched) /\ Bufs(sched)[j] = e.buf
      BY <1>1, <2>1, BufsOf DEF PoolInv, Typed
    <2>3. Holds(Bufs(sched), e.buf) /\ EntryMatches(e)
      BY <2>1, <2>2 DEF Holds, TrackerInv, EntriesMatch
    <2> QED
      BY <1>3, <2>3
  <1>5. CASE \E b \in Buffers : Holds(handoff, b) /\ e = Entry(b)
    <2>1. PICK b \in Buffers : Holds(handoff, b) /\ e = Entry(b)
      BY <1>5
    <2>2. b = e.buf /\ EntryMatches(e)
      BY <2>1 DEF Entry, EntryMatches
    <2> QED
      BY <1>3, <2>1, <2>2
  <1> QED
    BY <1>1, <1>4, <1>5, EntriesFrom

-----------------------------------------------------------------------------
(* The radio *)

LEMMA ExclusiveNext ==
  ASSUME TrackerInv, Next
  PROVE  Exclusive'
  <1>1. PoolInv /\ PoolInv' /\ Exclusive
    BY PoolInvNext DEF TrackerInv
  <1>2. ASSUME spc \in {"fire", "onair"}, spc' \in {"fire", "onair"}, UNCHANGED sbuf
        PROVE  content'[sbuf] = content[sbuf]
    <2>1. PICK b \in Buffers : b = sbuf
      BY <1>1, <1>2 DEF PoolInv, Placed, Taken, Bursting
    <2>2. Carries(b) /\ Carries(b)'
      BY <1>1, <1>2, <2>1 DEF PoolInv, Bursting, Marked, SendTaskMarked, Carries
    <2> QED
      BY <1>1, <2>1, <2>2, SameContent
  <1>3. ASSUME UNCHANGED <<spc, sbuf, owner, mode, fifo, prepared>> PROVE Exclusive'
    BY <1>1, <1>2, <1>3 DEF Exclusive
  <1>4. ASSUME NEW t \in Producers, Sending(t) PROVE Exclusive'
    BY <1>3, <1>4 DEF Sending, TakeBuffer, MarkInUse, AnnounceGen, HandOff, sendVars, radioVars
  <1>5. ASSUME UNCHANGED radioVars, spc \notin {"fire", "onair"}, spc' \notin {"fire", "onair"}
        PROVE  Exclusive'
    BY <1>1, <1>5 DEF Exclusive, radioVars
  <1>6. CASE \/ StartPass \/ Drained \/ Pop \/ NothingDue \/ Wake \/ Release \/ PutBack
             \/ BeginCopy \/ BurstDone
    BY <1>5, <1>6 DEF StartPass, Drained, Pop, NothingDue, Wake, Release, PutBack, BeginCopy, BurstDone
  <1>7. CASE Drain \/ Tick
    BY <1>3, <1>7 DEF Drain, Tick, sendVars, radioVars
  <1>8. CASE Prepare
    BY <1>1, <1>8 DEF Prepare, Idle, WriteFifo, Exclusive, poolVars
  <1>9. CASE Fire
    BY <1>1, <1>9 DEF Fire, Transmit, Exclusive, poolVars
  <1>10. CASE TxDone \/ Gap \/ Hold
    BY <1>1, <1>10 DEF TxDone, WaitTxDone, Gap, Hold, Receive, Exclusive
  <1>11. CASE Poll
    BY <1>3, <1>11 DEF Poll, sendVars, radioVars
  <1>12. CASE Listen \/ ReadRadio
    BY <1>1, <1>12 DEF Listen, ReadRadio, Receive, ReceivePacket, Idle, Exclusive, sendVars
  <1>13. CASE Arrive
    BY <1>1, <1>13 DEF Arrive, Exclusive, sendVars
  <1> QED
    BY <1>4, <1>6, <1>7, <1>8, <1>9, <1>10, <1>11, <1>12, <1>13
       DEF Next, SendTask, SendPacketBurst, SendPacketAt

LEMMA TrackerInvInit ==
  ASSUME Init
  PROVE  TrackerInv
  <1>1. sched = <<>> /\ spc = "top" /\ owner = "none" /\ prepared = FALSE
    BY DEF Init
  <1>2. EntriesMatch /\ Exclusive
    BY <1>1 DEF EntriesMatch, Exclusive
  <1> QED
    BY <1>2, TypedInit, PlacedInit, MarkedInit DEF TrackerInv, PoolInv

LEMMA TrackerInvNext ==
  ASSUME TrackerInv, [Next]_vars
  PROVE  TrackerInv'
  <1>1. CASE Next
    BY <1>1, PoolInvNext, EntriesMatchNext, ExclusiveNext DEF TrackerInv
  <1>2. CASE UNCHANGED vars
    <2>1. UNCHANGED <<poolVars, queueVars, taskVars, sendVars, radioVars, now>>
      BY <1>2 DEF vars
    <2>2. Typed'
      BY <2>1 DEF poolVars, queueVars, taskVars, sendVars, TrackerInv, PoolInv, Typed
    <2>3. Placed'
      BY <2>1, Stay DEF poolVars, queueVars, taskVars, sendVars, TrackerInv, PoolInv,
                        Holding, Taken, Bursting
    <2>4. Marked'
      BY <2>1, MarksStay DEF poolVars, queueVars, taskVars, sendVars, TrackerInv, PoolInv, Bursting
    <2>5. EntriesMatch'
      BY <2>1 DEF poolVars, queueVars, TrackerInv, EntriesMatch, EntryMatches, Frame
    <2>6. Exclusive'
      BY <2>1 DEF poolVars, sendVars, radioVars, TrackerInv, Exclusive
    <2> QED
      BY <2>2, <2>3, <2>4, <2>5, <2>6 DEF TrackerInv, PoolInv
  <1> QED
    BY <1>1, <1>2

\* Every buffer is in one place, carries its frame while it waits or is sent, and the radio
\* is the send task's while a frame is prepared: the invariant behind what follows.
THEOREM TrackerInvHolds == Spec => []TrackerInv
  BY TrackerInvInit, TrackerInvNext, PTL DEF Spec

-----------------------------------------------------------------------------
(* Counting the buffers *)

\* While nobody is there twice, a queue has as many members as places.
LEMMA DistinctSize ==
  ASSUME NEW S, NEW q \in Seq(S), Distinct(q)
  PROVE  LET R == {q[i] : i \in DOMAIN q}
         IN  IsFiniteSet(R) /\ Cardinality(R) = Len(q) /\ \A x : x \in R <=> Holds(q, x)
  <1> DEFINE D == 1 .. Len(q)
             R == {q[i] : i \in D}
  <1>1. DOMAIN q = D /\ Len(q) \in Nat /\ q \in [D -> R]
    OBVIOUS
  <1>2. q \in Bijection(D, R)
    <2>1. \A i, j \in D : q[i] = q[j] => i = j
      BY DEF Distinct
    <2>2. \A x \in R : \E i \in D : q[i] = x
      OBVIOUS
    <2> QED
      BY <1>1, <2>1, <2>2 DEF Bijection, Injection, Surjection, IsInjective
  <1>3. IsFiniteSet(D) /\ Cardinality(D) = Len(q)
    BY <1>1, FS_Interval
  <1>4. IsFiniteSet(R) /\ Cardinality(R) = Cardinality(D)
    BY <1>2, <1>3, FS_Bijection DEF ExistsBijection
  <1>5. \A x : x \in R <=> Holds(q, x)
    BY DEF Holds
  <1> QED
    BY <1>1, <1>3, <1>4, <1>5

LEMMA DisjointSize ==
  ASSUME NEW S, NEW T, IsFiniteSet(S), IsFiniteSet(T), \A x : ~(x \in S /\ x \in T)
  PROVE  IsFiniteSet(S \cup T) /\ Cardinality(S \cup T) = Cardinality(S) + Cardinality(T)
  <1>1. S \cap T = {}
    OBVIOUS
  <1>2. Cardinality(S \cap T) = 0
    BY <1>1, FS_EmptySet
  <1>3. Cardinality(S) \in Nat /\ Cardinality(T) \in Nat
    BY FS_CardinalityType
  <1>4. /\ IsFiniteSet(S \cup T)
        /\ Cardinality(S \cup T) = Cardinality(S) + Cardinality(T) - Cardinality(S \cap T)
    BY FS_Union
  <1> QED
    BY <1>2, <1>3, <1>4

\* The five sets of buffers that PoolSound counts are the places of the invariant.
LEMMA Parts ==
  ASSUME PoolInv
  PROVE  /\ Free \subseteq Buffers /\ InHand \subseteq Buffers /\ HandedOver \subseteq Buffers
         /\ Scheduled \subseteq Buffers /\ OnSend \subseteq Buffers
         /\ \A b \in Buffers : /\ b \in Free <=> At(b, "free")
                               /\ b \in InHand <=> \E t \in Producers : At(b, t)
                               /\ b \in HandedOver <=> At(b, "handed")
                               /\ b \in Scheduled <=> At(b, "scheduled")
                               /\ b \in OnSend <=> At(b, "sending")
         /\ IsFiniteSet(Free) /\ Cardinality(Free) = Len(free)
         /\ IsFiniteSet(HandedOver) /\ Cardinality(HandedOver) = Len(handoff)
         /\ IsFiniteSet(Scheduled) /\ Cardinality(Scheduled) = Len(sched)
  <1> USE DEF PoolInv
  <1>1. /\ IsFiniteSet(Free) /\ Cardinality(Free) = Len(free) /\ \A x : x \in Free <=> Holds(free, x)
        /\ Free \subseteq Buffers
    <2>1. Free \subseteq Buffers
      BY DEF Typed, Free
    <2> QED
      BY <2>1, DistinctSize DEF Typed, Placed, Free
  <1>2. /\ IsFiniteSet(HandedOver) /\ Cardinality(HandedOver) = Len(handoff)
        /\ \A x : x \in HandedOver <=> Holds(handoff, x)
        /\ HandedOver \subseteq Buffers
    <2>1. HandedOver \subseteq Buffers
      BY DEF Typed, HandedOver
    <2> QED
      BY <2>1, DistinctSize DEF Typed, Placed, HandedOver
  <1>3. /\ IsFiniteSet(Scheduled) /\ Cardinality(Scheduled) = Len(sched)
        /\ \A x : x \in Scheduled <=> Holds(Bufs(sched), x)
        /\ Scheduled \subseteq Buffers
    <2> DEFINE q == Bufs(sched)
    <2>1. /\ q \in Seq(Buffers) /\ Len(q) = Len(sched) /\ DOMAIN sched = 1 .. Len(sched)
          /\ \A i \in 1 .. Len(sched) : q[i] = sched[i].buf
      BY BufsOf DEF Typed
    <2>2. Distinct(q)
      BY DEF Placed
    <2> HIDE DEF q
    <2>3. Scheduled = {q[i] : i \in DOMAIN q}
      BY <2>1 DEF Scheduled
    <2>4. Scheduled \subseteq Buffers
      BY <2>1, <2>3
    <2>5. /\ IsFiniteSet(Scheduled) /\ Cardinality(Scheduled) = Len(sched)
          /\ \A x : x \in Scheduled <=> Holds(q, x)
      BY <2>1, <2>2, <2>3, DistinctSize
    <2> QED
      BY <2>4, <2>5 DEF q
  <1>4. InHand \subseteq Buffers /\ \A b : b \in InHand <=> \E t \in Producers : Holding(t) /\ tbuf[t] = b
    BY DEF InHand, Placed
  <1>5. OnSend \subseteq Buffers /\ \A b : b \in OnSend <=> Taken /\ sbuf = b
    BY DEF OnSend, Taken, Placed
  <1> QED
    BY <1>1, <1>2, <1>3, <1>4, <1>5, AtPlaces

LEMMA PoolCounted ==
  ASSUME PoolInv
  PROVE  PoolSound /\ Len(sched) + Len(handoff) <= PoolSize
  <1>1. IsFiniteSet(Buffers) /\ Cardinality(Buffers) = PoolSize
    BY PoolAssumption, FS_Interval DEF Buffers
  <1>2. /\ IsFiniteSet(Free) /\ IsFiniteSet(InHand) /\ IsFiniteSet(HandedOver)
        /\ IsFiniteSet(Scheduled) /\ IsFiniteSet(OnSend)
    BY <1>1, Parts, FS_Subset
  <1>3. \A b \in Buffers : \E p \in Places : \A q \in Places : At(b, q) <=> q = p
    BY DEF PoolInv, Placed, InOnePlace
  <1>4. Free \cup InHand \cup HandedOver \cup Scheduled \cup OnSend = Buffers
    <2>1. ASSUME NEW b \in Buffers PROVE b \in Free \cup InHand \cup HandedOver \cup Scheduled \cup OnSend
      <3>1. PICK p \in Places : At(b, p)
        BY <1>3
      <3> QED
        BY <3>1, Parts DEF Places, Producers
    <2> QED
      BY <2>1, Parts
  <1>5. \A b : /\ ~(b \in Free /\ b \in InHand)
               /\ ~(b \in Free \cup InHand /\ b \in HandedOver)
               /\ ~(b \in Free \cup InHand \cup HandedOver /\ b \in Scheduled)
               /\ ~(b \in Free \cup InHand \cup HandedOver \cup Scheduled /\ b \in OnSend)
    <2> SUFFICES ASSUME NEW b \in Buffers
                 PROVE  /\ ~(b \in Free /\ b \in InHand)
                        /\ ~(b \in Free \cup InHand /\ b \in HandedOver)
                        /\ ~(b \in Free \cup InHand \cup HandedOver /\ b \in Scheduled)
                        /\ ~(b \in Free \cup InHand \cup HandedOver \cup Scheduled /\ b \in OnSend)
      BY Parts
    <2>1. PICK p \in Places : \A q \in Places : At(b, q) <=> q = p
      BY <1>3
    <2> QED
      BY <2>1, Parts DEF Places, Producers
  <1>6. Cardinality(Free) + Cardinality(InHand) + Cardinality(HandedOver) + Cardinality(Scheduled)
           + Cardinality(OnSend) = PoolSize
    <2>1. /\ IsFiniteSet(Free \cup InHand)
          /\ Cardinality(Free \cup InHand) = Cardinality(Free) + Cardinality(InHand)
      BY <1>2, <1>5, DisjointSize
    <2>2. /\ IsFiniteSet(Free \cup InHand \cup HandedOver)
          /\ Cardinality(Free \cup InHand \cup HandedOver) = Cardinality(Free \cup InHand) + Cardinality(HandedOver)
      BY <1>2, <1>5, <2>1, DisjointSize
    <2>3. /\ IsFiniteSet(Free \cup InHand \cup HandedOver \cup Scheduled)
          /\ Cardinality(Free \cup InHand \cup HandedOver \cup Scheduled)
                = Cardinality(Free \cup InHand \cup HandedOver) + Cardinality(Scheduled)
      BY <1>2, <1>5, <2>2, DisjointSize
    <2>4. Cardinality(Free \cup InHand \cup HandedOver \cup Scheduled \cup OnSend)
             = Cardinality(Free \cup InHand \cup HandedOver \cup Scheduled) + Cardinality(OnSend)
      BY <1>2, <1>5, <2>3, DisjointSize
    <2> QED
      BY <1>1, <1>4, <2>1, <2>2, <2>3, <2>4
  <1>7. /\ Cardinality(Free) \in Nat /\ Cardinality(InHand) \in Nat /\ Cardinality(HandedOver) \in Nat
        /\ Cardinality(Scheduled) \in Nat /\ Cardinality(OnSend) \in Nat
    BY <1>2, FS_CardinalityType
  <1>8. /\ Cardinality(Free) = Len(free)
        /\ Cardinality(Free) + Cardinality(InHand) + Len(handoff) + Len(sched)
              + Cardinality(OnSend) = PoolSize
        /\ Len(sched) + Len(handoff) <= PoolSize
    BY <1>6, <1>7, Parts, PoolAssumption
  <1>9. /\ \A b \in Free : ~inUse[b]
        /\ \A b \in HandedOver \cup Scheduled : inUse[b]
    BY Parts, AtPlaces DEF PoolInv, Marked, QueuesMarked, Carries
  <1>10. \A t \in Producers : Holding(t) => (inUse[tbuf[t]] <=> tpc[t] # "taken")
    BY DEF PoolInv, Marked, SenderMarked, Carries
  <1>11. Bursting => inUse[sbuf]
    BY DEF PoolInv, Marked, SendTaskMarked, Carries
  <1> QED
    BY <1>4, <1>8, <1>9, <1>10, <1>11 DEF PoolSound

\* A sender that still has its buffer leaves a place in the hand-off queue.
LEMMA RoomToHandOff ==
  ASSUME PoolInv, NEW t \in Producers, Holding(t)
  PROVE  Len(handoff) < HandoffSize
  <1>1. tbuf[t] \in Buffers /\ At(tbuf[t], t) /\ t \in Places /\ t # "handed"
    BY AtPlaces DEF PoolInv, Placed, Places, Producers
  <1>2. tbuf[t] \notin HandedOver
    BY <1>1, Parts, Elsewhere DEF PoolInv, Placed, Places
  <1>3. IsFiniteSet(Buffers) /\ Cardinality(Buffers) = PoolSize
    BY PoolAssumption, FS_Interval DEF Buffers
  <1>4. IsFiniteSet(Buffers \ {tbuf[t]}) /\ Cardinality(Buffers \ {tbuf[t]}) = PoolSize - 1
    BY <1>1, <1>3, FS_RemoveElement
  <1>5. HandedOver \in SUBSET (Buffers \ {tbuf[t]})
    BY <1>2, Parts
  <1>6. Cardinality(HandedOver) <= PoolSize - 1
    BY <1>4, <1>5, FS_Subset
  <1>7. Len(handoff) <= PoolSize - 1 /\ Len(handoff) \in Nat
    BY <1>6, Parts DEF PoolInv, Typed
  <1> QED
    BY <1>7, PoolAssumption

LEMMA NothingIsLost ==
  ASSUME PoolInv
  PROVE  NothingLost
  <1>1. PoolSound /\ Len(sched) + Len(handoff) <= PoolSize
    BY PoolCounted
  <1>2. \A t \in Producers : tpc[t] = "noted" => Len(handoff) < HandoffSize
    BY RoomToHandOff DEF Holding
  <1>3. Len(sched) \in Nat /\ Len(handoff) \in Nat
    BY DEF PoolInv, Typed
  <1> QED
    BY <1>1, <1>2, <1>3, PoolAssumption, SizesAssumption DEF NothingLost, NothingRefused

\* The pool's buffers are each in one place and counted, and neither "queue full" branch is
\* ever taken for a frame whose generation was announced.
THEOREM NothingLostHolds == Spec => []NothingLost
  BY TrackerInvHolds, NothingIsLost, PTL DEF TrackerInv

\* The frame in the radio's FIFO is the send task's until its copy has left.
THEOREM FifoHoldsFrameHolds == Spec => []FifoHoldsFrame
  <1>1. TrackerInv => FifoHoldsFrame
    BY DEF TrackerInv, Exclusive, FifoHoldsFrame
  <1> QED
    BY <1>1, TrackerInvHolds, PTL

-----------------------------------------------------------------------------
(* The tracker implements DownlinkQueue *)

LEMMA QueueInit ==
  ASSUME Init
  PROVE  Queue!Init
  <1>1. handoff = <<>> /\ sched = <<>> /\ table = EmptyTable /\ ~Bursting
    BY DEF Init, InitMemoryPool, Bursting
  <1>2. Waiting = <<>>
    BY <1>1 DEF Waiting
  <1>3. Latest = [k \in CommandKeys |-> 0]
    BY <1>1 DEF Latest, EmptyTable
  <1> QED
    BY <1>1, <1>2, <1>3 DEF Queue!Init, OnAir

\* Who waits has a buffer, and the buffer carries its frame.
WaitersSet ==
  \A i \in 1 .. Len(sched) + Len(handoff) :
     /\ Waiter(i) \in Buffers /\ Carries(Waiter(i))
     /\ Waiting[i] = Frame(Waiter(i)) /\ Waiting[i] \in FrameRecords

LEMMA WaitersCarry ==
  ASSUME PoolInv
  PROVE  WaitersSet
  <1> SUFFICES ASSUME NEW i \in 1 .. Len(sched) + Len(handoff)
               PROVE  /\ Waiter(i) \in Buffers /\ Carries(Waiter(i))
                      /\ Waiting[i] = Frame(Waiter(i)) /\ Waiting[i] \in FrameRecords
    BY DEF WaitersSet
  <1>1. /\ Len(sched) \in Nat /\ Len(handoff) \in Nat
        /\ Bufs(sched) \in Seq(Buffers) /\ Len(Bufs(sched)) = Len(sched)
        /\ \A j \in 1 .. Len(sched) : Bufs(sched)[j] = sched[j].buf
    BY BufsOf DEF PoolInv, Typed
  <1>2. Waiter(i) \in Buffers /\ (Holds(handoff, Waiter(i)) \/ Holds(Bufs(sched), Waiter(i)))
    <2>1. CASE i <= Len(sched)
      <3>1. Waiter(i) = Bufs(sched)[i] /\ i \in 1 .. Len(Bufs(sched))
        BY <1>1, <2>1 DEF Waiter
      <3>2. Waiter(i) \in Buffers
        BY <1>1, <3>1
      <3> QED
        BY <3>1, <3>2 DEF Holds
    <2>2. CASE ~(i <= Len(sched))
      <3>1. Waiter(i) = handoff[i - Len(sched)] /\ i - Len(sched) \in 1 .. Len(handoff)
        BY <1>1, <2>2 DEF Waiter
      <3>2. Waiter(i) \in Buffers
        BY <3>1 DEF PoolInv, Typed
      <3> QED
        BY <3>1, <3>2 DEF Holds
    <2> QED
      BY <2>1, <2>2
  <1>3. Carries(Waiter(i))
    BY <1>2 DEF PoolInv, Marked, QueuesMarked
  <1>4. Frame(Waiter(i)) \in FrameRecords
    BY <1>2, <1>3, FrameSet DEF PoolInv, Carries
  <1> QED
    BY <1>2, <1>3, <1>4 DEF Waiting

\* A frame keeps waiting as what it was accepted as.
LEMMA SameWaiter ==
  ASSUME PoolInv, Next, NEW i \in 1 .. Len(sched) + Len(handoff),
         NEW j \in 1 .. Len(sched') + Len(handoff'), Waiter(j)' = Waiter(i)
  PROVE  Waiting'[j] = Waiting[i]
  <1>1. PoolInv'
    BY PoolInvNext
  <1>2. PICK b : b = Waiter(i)
    OBVIOUS
  <1>3. b \in Buffers /\ Carries(b) /\ Waiting[i] = Frame(b)
    BY <1>2, WaitersCarry DEF WaitersSet
  <1>4. Carries(b)' /\ Waiting'[j] = Frame(b)'
    <2>1. Waiter(j)' = b
      BY <1>2
    <2>2. WaitersSet'
      BY <1>1, WaitersCarry, PTL
    <2> QED
      BY <2>1, <2>2 DEF WaitersSet, Carries, Frame
  <1> QED
    BY <1>3, <1>4, SameContent

LEMMA SameWaiting ==
  ASSUME PoolInv, Next, Len(sched') + Len(handoff') = Len(sched) + Len(handoff),
         \A i \in 1 .. Len(sched) + Len(handoff) : Waiter(i)' = Waiter(i)
  PROVE  UNCHANGED Waiting
  <1>1. \A i \in 1 .. Len(sched) + Len(handoff) : Waiting'[i] = Waiting[i]
    BY SameWaiter
  <1> QED
    BY <1>1 DEF Waiting

LEMMA SameOnAir ==
  ASSUME PoolInv, Next, Bursting' <=> Bursting, Bursting => UNCHANGED sbuf
  PROVE  UNCHANGED OnAir
  <1>1. CASE Bursting
    <2>1. PICK b \in Buffers : b = sbuf
      BY <1>1 DEF PoolInv, Placed, Taken
    <2>2. Carries(b) /\ Carries(b)'
      BY <1>1, <2>1, PoolInvNext DEF PoolInv, Marked, SendTaskMarked, Carries
    <2>3. Frame(b)' = Frame(b)
      BY <2>2, SameContent
    <2> QED
      BY <1>1, <2>1, <2>3 DEF OnAir, Frame
  <1>2. CASE ~Bursting
    BY <1>2 DEF OnAir, NoFrame
  <1> QED
    BY <1>1, <1>2

\* Accepting a frame: xQueueSend at the end of send().
LEMMA HandOffAccepts ==
  ASSUME PoolInv, NEW t \in Producers, HandOff(t)
  PROVE  Queue!Accept
  <1>1. Next
    BY DEF Next, Sending
  <1>2. /\ handoff' = Append(handoff, tbuf[t]) /\ UNCHANGED <<sched, table, spc, sbuf>>
        /\ Len(handoff) \in Nat /\ Len(sched) \in Nat
    BY RoomToHandOff DEF HandOff, Holding, sendVars, PoolInv, Typed
  <1>3. /\ Len(handoff') = Len(handoff) + 1
        /\ \A i \in 1 .. Len(sched) + Len(handoff) : Waiter(i)' = Waiter(i)
    BY <1>2 DEF Waiter, PoolInv, Typed
  <1>4. \A i \in 1 .. Len(sched) + Len(handoff) : Waiting'[i] = Waiting[i]
    BY <1>1, <1>2, <1>3, SameWaiter
  <1>5. Len(Waiting') = Len(Waiting) + 1 /\ Waiting' = Append(Waiting, Waiting'[Len(Waiting')])
    <2> DEFINE n == Len(sched) + Len(handoff)
    <2>1. n \in Nat /\ DOMAIN Waiting = 1 .. n /\ Len(Waiting) = n /\ Waiting = [i \in 1 .. n |-> Waiting[i]]
      BY <1>2 DEF Waiting
    <2>2. /\ DOMAIN Waiting' = 1 .. n + 1 /\ Len(Waiting') = n + 1
          /\ Waiting' = [i \in 1 .. n + 1 |-> Waiting'[i]]
      BY <1>2, <1>3 DEF Waiting
    <2>3. \A i \in 1 .. n : Waiting'[i] = Waiting[i]
      BY <1>4
    <2> HIDE DEF n
    <2>4. Append(Waiting, Waiting'[n + 1])
             = [i \in 1 .. n + 1 |-> IF i = n + 1 THEN Waiting'[n + 1] ELSE Waiting[i]]
      BY <2>1
    <2> QED
      BY <2>1, <2>2, <2>3, <2>4
  <1>6. UNCHANGED <<Latest, OnAir>>
    BY <1>1, <1>2, SameOnAir DEF Latest, Bursting
  <1> QED
    BY <1>5, <1>6 DEF Queue!Accept

\* Announcing a generation: SupersedeTable::note.
LEMMA AnnounceRaises ==
  ASSUME PoolInv, NEW t \in Producers, AnnounceGen(t)
  PROVE  Queue!Announce \/ UNCHANGED <<Waiting, Latest, OnAir>>
  <1>1. Next
    BY DEF Next, Sending
  <1>2. UNCHANGED <<handoff, sched, spc, sbuf>>
    BY DEF AnnounceGen, sendVars
  <1>3. UNCHANGED <<Waiting, OnAir>>
    <2>1. \A i : Waiter(i)' = Waiter(i)
      BY <1>2 DEF Waiter
    <2> QED
      BY <1>1, <1>2, <2>1, SameWaiting, SameOnAir DEF Bursting
  <1>4. PICK f \in FrameRecords : f = frames[tid[t]] /\ (f.key # NoKey => f.gen > 0)
    BY DEF AnnounceGen, PoolInv, Typed, Marked, SenderMarked, Holding
  <1>5. PICK key \in CommandKeys \cup {NoKey}, gen \in Nat :
            key = f.key /\ gen = f.gen /\ table' = Note(table, key, gen)
    BY <1>4 DEF FrameRecords, AnnounceGen
  <1>a. PICK D \in SUBSET CommandKeys : D = DOMAIN table /\ table \in [D -> Nat]
    BY DEF PoolInv, Typed
  <1>b. PICK tb \in [D -> Nat] : tb = table
    BY <1>a
  <1>c. PICK new : new = table'
    OBVIOUS
  <1>d. new = Note(tb, key, gen)
    BY <1>5, <1>b, <1>c
  <1>6. PICK E \in SUBSET CommandKeys :
            /\ D \subseteq E /\ E \subseteq D \cup {key} /\ new \in [E -> Nat]
            /\ \A k \in D : k # key => new[k] = tb[k]
            /\ key \in D => new[key] >= tb[key]
            /\ key \in E \ D => key # NoKey /\ new[key] = gen
    <2>1. Raised(D, tb, key, gen, new)
      BY <1>d, NoteRaises
    <2> QED
      BY <2>1 DEF Raised
  <1>7. /\ Latest \in [CommandKeys -> Nat] /\ Latest' \in [CommandKeys -> Nat]
        /\ \A k \in CommandKeys : k # key => Latest'[k] = Latest[k]
    BY <1>5, <1>a, <1>b, <1>c, <1>6 DEF Latest
  <1>8. key \in CommandKeys => Latest'[key] >= Latest[key]
    BY <1>4, <1>5, <1>a, <1>b, <1>c, <1>6 DEF Latest
  <1>9. CASE key \in CommandKeys /\ Latest'[key] > Latest[key]
    <2>1. Latest' = [Latest EXCEPT ![key] = Latest'[key]]
      BY <1>7, <1>9
    <2> QED
      BY <1>3, <1>9, <2>1 DEF Queue!Announce
  <1>10. CASE ~(key \in CommandKeys /\ Latest'[key] > Latest[key])
    <2>1. \A k \in CommandKeys : Latest'[k] = Latest[k]
      BY <1>7, <1>8, <1>10
    <2> QED
      BY <1>3, <1>7, <2>1
  <1> QED
    BY <1>9, <1>10

\* drainHandoffQueue_ only passes a frame on: there is room in the scheduler.
LEMMA DrainPassesOn ==
  ASSUME PoolInv, Drain
  PROVE  UNCHANGED <<Waiting, Latest, OnAir>>
  <1>1. Next
    BY DEF Next, SendTask
  <1>2. /\ Len(sched) \in Nat /\ Len(handoff) \in Nat /\ Len(handoff) # 0 /\ Len(sched) < MaxEntries
    <2>1. Len(sched) + Len(handoff) <= MaxEntries
      BY NothingIsLost DEF NothingLost, NothingRefused
    <2>2. Len(sched) \in Nat /\ Len(handoff) \in Nat /\ Len(handoff) # 0
      BY DEF Drain, PoolInv, Typed
    <2> QED
      BY <2>1, <2>2, SizesAssumption
  <1>3. /\ sched' = Append(sched, Entry(Head(handoff))) /\ handoff' = Tail(handoff)
        /\ UNCHANGED <<table, spc, sbuf>>
    BY <1>2, SizesAssumption DEF Drain, Push, Full, sendVars
  <1>4. /\ Len(sched') = Len(sched) + 1 /\ Len(handoff') = Len(handoff) - 1
        /\ \A i \in 1 .. Len(sched) : sched'[i] = sched[i]
        /\ sched'[Len(sched) + 1] = Entry(handoff[1])
        /\ \A i \in 1 .. Len(handoff) - 1 : handoff'[i] = handoff[i + 1]
    BY <1>2, <1>3 DEF PoolInv, Typed
  <1>5. ASSUME NEW i \in 1 .. Len(sched) + Len(handoff) PROVE Waiter(i)' = Waiter(i)
    <2>1. CASE i <= Len(sched)
      BY <1>2, <1>4, <2>1 DEF Waiter
    <2>2. CASE i = Len(sched) + 1
      BY <1>2, <1>4, <2>2 DEF Waiter, Entry
    <2>3. CASE i > Len(sched) + 1
      <3>1. /\ i - (Len(sched) + 1) \in 1 .. Len(handoff) - 1
            /\ i - (Len(sched) + 1) + 1 = i - Len(sched)
        BY <1>2, <2>3
      <3> QED
        <4>1. Waiter(i)' = handoff'[i - (Len(sched) + 1)]
          BY <1>2, <1>4, <2>3 DEF Waiter
        <4>2. handoff'[i - (Len(sched) + 1)] = handoff[i - Len(sched)]
          BY <1>4, <3>1
        <4> QED
          BY <1>2, <2>3, <4>1, <4>2 DEF Waiter
    <2> QED
      BY <1>2, <2>1, <2>2, <2>3
  <1>6. UNCHANGED Waiting
    BY <1>1, <1>2, <1>4, <1>5, SameWaiting
  <1> QED
    BY <1>1, <1>3, <1>6, SameOnAir DEF Latest, Bursting

\* serviceTxQueue: the frame that popDue releases leaves the queue, and no frame that had to
\* go before it is left behind.
LEMMA PopServes ==
  ASSUME TrackerInv, Pop
  PROVE  \E i \in DOMAIN Waiting : Queue!Transmit(i) \/ Queue!Drop(i)
  <1> DEFINE i == PopDue(sched, snow, Lead)
             n == Len(sched) + Len(handoff)
  <1>1. PoolInv /\ EntriesMatch /\ Next /\ snow \in Nat /\ Lead \in Nat
    BY TimeAssumption DEF TrackerInv, PoolInv, Typed, Next, SendTask
  <1>2. /\ i \in Due(sched, snow, Lead) /\ i \in 1 .. Len(sched)
        /\ \A j \in Due(sched, snow, Lead) \ {i} : Better(sched, i, j)
    BY <1>1, PopDueIn DEF Pop, PoolInv, Typed
  <1>3. /\ sched' = Without(sched, i) /\ sbuf' = sched[i].buf
        /\ UNCHANGED <<handoff, table, frames, inUse, content>>
        /\ spc = "pop" /\ spc' = IF IsCurrent(table, Frame(sched[i].buf).key, Frame(sched[i].buf).gen)
                                 THEN "copy" ELSE "release"
    BY DEF Pop, poolVars
  <1> HIDE DEF i
  <1>4. /\ Len(sched) \in Nat /\ Len(handoff) \in Nat /\ n \in Nat /\ i \in 1 .. n
        /\ Len(sched') = Len(sched) - 1
        /\ \A j \in 1 .. Len(sched) - 1 : sched'[j] = IF j < i THEN sched[j] ELSE sched[j + 1]
    <2>1. sched \in Seq(Entries)
      BY <1>1 DEF PoolInv, Typed
    <2>2. /\ Len(Without(sched, i)) = Len(sched) - 1
          /\ \A j \in 1 .. Len(sched) - 1 :
                Without(sched, i)[j] = IF j < i THEN sched[j] ELSE sched[j + 1]
      BY <1>2, <2>1, WithoutOne
    <2> QED
      BY <1>1, <1>2, <1>3, <2>2 DEF PoolInv, Typed
  <1>5. \A j \in 1 .. Len(sched) : Waiting[j] = Frame(sched[j].buf) /\ Waiting[j] \in FrameRecords
    BY <1>1, <1>4, WaitersCarry DEF WaitersSet, Waiter
  <1>6. Waiting' = [j \in 1 .. n - 1 |-> IF j < i THEN Waiting[j] ELSE Waiting[j + 1]]
    <2>1. ASSUME NEW j \in 1 .. n - 1 PROVE Waiting'[j] = IF j < i THEN Waiting[j] ELSE Waiting[j + 1]
      <3>1. j \in 1 .. n /\ j + 1 \in 1 .. n /\ j \in 1 .. Len(sched') + Len(handoff')
        BY <1>3, <1>4
      <3>2. CASE j < i
        <4>1. Waiter(j)' = Waiter(j)
          BY <1>2, <1>4, <3>1, <3>2 DEF Waiter
        <4> QED
          BY <1>1, <3>1, <3>2, <4>1, SameWaiter
      <3>3. CASE ~(j < i)
        <4>1. Waiter(j)' = Waiter(j + 1)
          <5>1. CASE j <= Len(sched) - 1
            BY <1>2, <1>4, <3>1, <3>3, <5>1 DEF Waiter
          <5>2. CASE ~(j <= Len(sched) - 1)
            <6>1. j - (Len(sched) - 1) = j + 1 - Len(sched)
              BY <1>4
            <6> QED
              BY <1>3, <1>4, <5>2, <6>1 DEF Waiter
          <5> QED
            BY <5>1, <5>2
        <4> QED
          BY <1>1, <3>1, <3>3, <4>1, SameWaiter
      <3> QED
        BY <3>2, <3>3
    <2>2. Len(sched') + Len(handoff') = n - 1
      BY <1>3, <1>4
    <2>3. DOMAIN Waiting' = 1 .. n - 1 /\ Waiting' = [j \in 1 .. n - 1 |-> Waiting'[j]]
      BY <2>2 DEF Waiting
    <2> HIDE DEF n
    <2> QED
      BY <2>1, <2>3
  <1>7. Waiting' = Queue!Rest(i)
    <2>1. Len(Waiting) = n
      BY <1>4 DEF Waiting
    <2> QED
      BY <1>6, <2>1 DEF Queue!Rest
  <1>8. UNCHANGED Latest /\ OnAir = NoFrame /\ i \in DOMAIN Waiting
    BY <1>3, <1>4 DEF Latest, OnAir, Bursting, Waiting
  <1>9. Queue!Newest(Waiting[i]) <=> IsCurrent(table, Waiting[i].key, Waiting[i].gen)
    BY <1>1, <1>2, <1>5 DEF Queue!Newest, IsCurrent, Latest, FrameRecords, PoolInv, Typed
  <1>10. ASSUME NEW j \in DOMAIN Waiting PROVE ~Queue!Precedes(j, i)
    <2> SUFFICES ASSUME j < i, Waiting[j].priority <= Waiting[i].priority,
                        Waiting[j].earliest <= Waiting[i].earliest
                 PROVE  FALSE
      BY DEF Queue!Precedes
    <2>1. j \in 1 .. Len(sched) /\ j # i
      BY <1>2, <1>4 DEF Waiting
    <2>2. /\ sched[j].earliest = Waiting[j].earliest /\ sched[j].priority = Waiting[j].priority
          /\ sched[i].earliest = Waiting[i].earliest /\ sched[i].priority = Waiting[i].priority
      BY <1>1, <1>2, <1>5, <2>1 DEF EntriesMatch, EntryMatches
    <2>3. /\ Waiting[j].earliest \in Nat /\ Waiting[i].earliest \in Nat
          /\ Waiting[j].priority \in Nat /\ Waiting[i].priority \in Nat
      BY <1>2, <1>5, <2>1 DEF FrameRecords
    <2>4. j \in Due(sched, snow, Lead)
      BY <1>1, <1>2, <2>1, <2>2, <2>3 DEF Due
    <2>5. Better(sched, i, j)
      BY <1>2, <2>1, <2>4
    <2> QED
      BY <1>2, <2>1, <2>2, <2>3, <2>5 DEF Better
  <1>11. CASE spc' = "copy"
    <2>1. Queue!Newest(Waiting[i])
      BY <1>2, <1>3, <1>5, <1>9, <1>11
    <2>2. OnAir' = Waiting[i]
      BY <1>2, <1>3, <1>5, <1>11 DEF OnAir, Bursting, Frame
    <2>3. Queue!Transmit(i)
      BY <1>7, <1>8, <1>10, <2>1, <2>2 DEF Queue!Transmit
    <2> QED
      BY <1>8, <2>3
  <1>12. CASE spc' = "release"
    <2>1. ~Queue!Newest(Waiting[i])
      BY <1>2, <1>3, <1>5, <1>9, <1>12
    <2>2. OnAir' = OnAir
      BY <1>8, <1>12 DEF OnAir, Bursting, NoFrame
    <2>3. Queue!Drop(i)
      BY <1>7, <1>8, <2>1, <2>2 DEF Queue!Drop
    <2> QED
      BY <1>8, <2>3
  <1> QED
    BY <1>3, <1>11, <1>12

LEMMA ElseNothing ==
  ASSUME PoolInv, Next, UNCHANGED <<handoff, sched, table>>,
         Bursting' <=> Bursting, Bursting => UNCHANGED sbuf
  PROVE  UNCHANGED <<Waiting, Latest, OnAir>>
  <1>1. \A i : Waiter(i)' = Waiter(i)
    BY DEF Waiter
  <1> QED
    BY <1>1, SameWaiting, SameOnAir DEF Latest

LEMMA QueueNext ==
  ASSUME TrackerInv, [Next]_vars
  PROVE  [Queue!Next]_(Queue!qvars)
  <1> SUFFICES Queue!Next \/ UNCHANGED <<Waiting, Latest, OnAir>>
    BY DEF Queue!qvars
  <1>1. PoolInv
    BY DEF TrackerInv
  <1>2. ASSUME NEW t \in Producers, Sending(t)
        PROVE  Queue!Next \/ UNCHANGED <<Waiting, Latest, OnAir>>
    <2>1. CASE HandOff(t)
      BY <1>1, <2>1, HandOffAccepts DEF Queue!Next
    <2>2. CASE AnnounceGen(t)
      BY <1>1, <2>2, AnnounceRaises DEF Queue!Next
    <2>3. CASE TakeBuffer(t) \/ MarkInUse(t)
      <3>1. Next
        BY <1>2 DEF Next
      <3>2. UNCHANGED <<handoff, sched, table, spc, sbuf>>
        BY <2>3 DEF TakeBuffer, MarkInUse, queueVars, sendVars
      <3> QED
        BY <1>1, <3>1, <3>2, ElseNothing DEF Bursting
    <2> QED
      BY <1>2, <2>1, <2>2, <2>3 DEF Sending
  <1>3. CASE Drain
    BY <1>1, <1>3, DrainPassesOn
  <1>4. CASE Pop
    BY <1>4, PopServes DEF Queue!Next
  <1>5. CASE BurstDone
    <2>1. Next /\ UNCHANGED <<handoff, sched, table, sbuf>> /\ spc' = "release"
      BY <1>5 DEF BurstDone, Next, SendTask, SendPacketBurst, queueVars
    <2>2. \A i : Waiter(i)' = Waiter(i)
      BY <2>1 DEF Waiter
    <2>3. UNCHANGED <<Waiting, Latest>>
      BY <1>1, <2>1, <2>2, SameWaiting DEF Latest
    <2>4. OnAir' = NoFrame
      BY <2>1 DEF OnAir, Bursting, NoFrame
    <2> QED
      BY <2>3, <2>4 DEF Queue!Sent, Queue!Next
  <1>6. CASE \/ StartPass \/ Drained \/ NothingDue \/ Wake \/ Release \/ PutBack \/ Hold
             \/ BeginCopy \/ SendPacketAt \/ Gap \/ Poll \/ Listen \/ ReadRadio \/ Arrive \/ Tick
    <2>1. Next
      BY <1>6 DEF Next, SendTask, SendPacketBurst
    <2>2. UNCHANGED <<handoff, sched, table>>
      BY <1>6 DEF StartPass, Drained, NothingDue, Wake, Release, PutBack, Hold, BeginCopy, SendPacketAt,
                  Prepare, Fire, TxDone, Gap, Poll, Listen, ReadRadio, Arrive, Tick, queueVars
    <2>3. (Bursting' <=> Bursting) /\ (Bursting => UNCHANGED sbuf)
      BY <1>6 DEF StartPass, Drained, NothingDue, Wake, Release, PutBack, Hold, BeginCopy, SendPacketAt,
                  Prepare, Fire, TxDone, Gap, Poll, Listen, ReadRadio, Arrive, Tick, Bursting, sendVars
    <2> QED
      BY <1>1, <2>1, <2>2, <2>3, ElseNothing
  <1>7. CASE UNCHANGED vars
    <2>1. UNCHANGED <<poolVars, queueVars, sendVars>>
      BY <1>7 DEF vars
    <2> QED
      BY <2>1 DEF poolVars, queueVars, sendVars, Waiting, Waiter, Latest, OnAir, Bursting, Frame
  <1> QED
    BY <1>2, <1>3, <1>4, <1>5, <1>6, <1>7 DEF Next, SendTask, SendPacketBurst

\* The tracker implements DownlinkQueue: a frame leaves once and in the promised order, and
\* a superseded one never goes on the air.
THEOREM ContractHolds == Spec => Contract
  BY QueueInit, QueueNext, TrackerInvHolds, PTL DEF Spec, Contract, Queue!Spec
=============================================================================
