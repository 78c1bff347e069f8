---------------------------- MODULE DeliveryProofs ----------------------------
(***************************************************************************)
(* Theorems about Delivery: what the Control channel reports is what the   *)
(* node did, a command runs no more often than its policy says, nothing    *)
(* goes to a node asleep, and the channel implements CommandLine - for any *)
(* ladder, line, ack record, replay window and number of commands, faults  *)
(* and uplinks.                                                            *)
(*                                                                         *)
(* A handler is a composition of functions from hub to hub.  Each has its  *)
(* lemma: what it makes of the parts of DeliveryInv, node, air and history *)
(* being what they are; a handler then takes one line per function.        *)
(***************************************************************************)
EXTENDS Delivery, FiniteSetTheorems

Envs == [ok : BOOLEAN, opt : {FALSE, Optimistic}, gate : BOOLEAN]

\* The world the hub's functions do not touch.
World == node \in NodeStates /\ ran \subseteq Executions /\ asked \in Seq(Kinds)

\* What is said of frames, keys and the node's memory, with uplinks q on their way.
AirKept(h, q) == FramesKept(h) /\ KeysKept(h, q) /\ MemoryKept(h) /\ RecognitionKept(h)

LEMMA FrameFields == \A f \in Frames : f.key \in Nat /\ f.fcnt \in Nat /\ f.cmd \in Nat
  BY DEF Frames

LEMMA PackedAreFrames ==
  ASSUME World, NEW h \in HubStates
  PROVE  Packed(h) \subseteq Frames
  <1>1. {f \in h.sent : f.cmd # 0} \subseteq Frames /\ {h.frame} \subseteq Frames
    BY DEF HubStates
  <1>2. ASSUME NEW x \in ran PROVE [key |-> x[2], fcnt |-> x[3], cmd |-> x[1]] \in Frames
    BY DEF World, Executions, Frames
  <1> QED
    BY <1>1, <1>2 DEF Packed

LEMMA CacheEntriesTyped ==
  ASSUME World
  PROVE  \A c \in Cache : c.fcnt \in Nat /\ c.ok \in BOOLEAN
  <1> DEFINE Entries == [fcnt : Nat, ok : BOOLEAN, reacks : Nat]
  <1>1. node.cache \in Seq(Entries)
    BY DEF World, NodeStates
  <1> HIDE DEF Entries
  <1>2. \A i \in 1..Len(node.cache) : node.cache[i] \in Entries
    BY <1>1
  <1> QED
    BY <1>2 DEF Cache, Entries

LEMMA EnvIsTyped == Env \subseteq Envs
  BY DEF Env, Envs

LEMMA UplinkFields ==
  ASSUME NEW q \in Seq(Uplinks)
  PROVE  \A i \in 1..Len(q) : /\ q[i] \in Uplinks /\ q[i].sess \in Nat /\ q[i].key \in Nat
                              /\ q[i].ack \in Nat /\ q[i].ok \in BOOLEAN
  <1>1. \A i \in 1..Len(q) : q[i] \in Uplinks
    OBVIOUS
  <1> QED
    BY <1>1 DEF Uplinks

LEMMA NoFrameIsFrame == NoFrame \in Frames
  BY DEF NoFrame, Frames

\* An id joins the record; at most the oldest leaves it.
LEMMA IdJoins ==
  ASSUME NEW acks \in Seq(Nat), NEW id \in Nat
  PROVE  /\ AddId(acks, id) \in Seq(Nat)
         /\ \A n : (\E i \in DOMAIN AddId(acks, id) : AddId(acks, id)[i] = n)
                     => n = id \/ \E i \in DOMAIN acks : acks[i] = n
  <1>1. CASE Len(acks) < AckCap
    BY <1>1 DEF AddId
  <1>2. CASE ~(Len(acks) < AckCap)
    <2>1. acks # <<>>
      BY <1>2, PolicyAssumption
    <2> DEFINE rest == Tail(acks)
    <2>2. /\ rest \in Seq(Nat) /\ Len(rest) = Len(acks) - 1 /\ Len(acks) \in Nat
          /\ \A i \in 1..Len(rest) : rest[i] = acks[i + 1]
      BY <2>1
    <2> HIDE DEF rest
    <2>3. Append(rest, id) \in Seq(Nat) /\ Len(Append(rest, id)) = Len(rest) + 1
          /\ \A i \in 1..Len(rest) + 1 : Append(rest, id)[i] = IF i = Len(rest) + 1 THEN id ELSE rest[i]
      BY <2>2
    <2>4. AddId(acks, id) = Append(rest, id)
      BY <1>2 DEF AddId, rest
    <2>5. ASSUME NEW n, NEW i \in DOMAIN Append(rest, id), Append(rest, id)[i] = n, n # id
          PROVE  \E j \in DOMAIN acks : acks[j] = n
      <3>0. DOMAIN Append(rest, id) = 1..Len(rest) + 1
        BY <2>2, <2>3
      <3>1. i \in 1..Len(rest) /\ rest[i] = n
        <4>1. i \in 1..Len(rest) + 1 /\ n = IF i = Len(rest) + 1 THEN id ELSE rest[i]
          BY <2>3, <2>5, <3>0
        <4> QED
          BY <2>2, <2>5, <4>1
      <3>2. acks[i + 1] = n
        BY <2>2, <3>1, ZenonT(20)
      <3> DEFINE l == Len(acks)
      <3>3. l \in Nat /\ i \in 1..l-1
        <4>1. Len(rest) = l - 1 /\ l \in Nat
          BY <2>2
        <4> QED
          BY <3>1, <4>1
      <3> HIDE DEF l
      <3>4. i + 1 \in 1..l
        BY <3>3
      <3>5. DOMAIN acks = 1..l
        BY DEF l
      <3> QED
        BY <3>2, <3>4, <3>5
    <2> QED
      BY <2>3, <2>4, <2>5
  <1> QED
    BY <1>1, <1>2

\* A part of the record acknowledges no more than the whole.
LEMMA NoIdNoAck ==
  ASSUME NEW h, h.acks = <<>>, NEW n
  PROVE  ~Acknowledges(h, n)
  BY DEF Acknowledges

-----------------------------------------------------------------------------
(* The hub's functions, for frames, keys and memory *)

\* A function that sends nothing, learns no key and takes on no command keeps what is said
\* of frames, keys and memory.
LEMMA Shrinks ==
  ASSUME World, NEW q \in Seq(Uplinks), NEW h \in HubStates, NEW r \in HubStates, AirKept(h, q),
         r.sent \subseteq h.sent, r.tx = h.tx, r.key = h.key, r.sess = h.sess,
         r.frame = h.frame \/ (r.frame = NoFrame /\ ~r.awaiting),
         \A i : Holds(r.line, i) => Holds(h.line, i),
         \A n : Acknowledges(r, n) => Acknowledges(h, n),
         \/ /\ r.cmd = h.cmd /\ (r.awaiting => h.awaiting) /\ (r.deferred => h.deferred)
            /\ h.deferred /\ ~r.deferred => h.key = 0 \/ \A n : ~Acknowledges(r, n)
         \/ /\ \A f \in Packed(h) : f.cmd # r.cmd
            /\ r.deferred \/ \A n : ~Acknowledges(r, n)
            /\ \A f \in r.sent : f.cmd = 0
  PROVE  AirKept(r, q)
  <1>1. Packed(r) \subseteq Packed(h)
    BY DEF Packed
  <1>2. FramesKept(r)
    <2>1. \A f \in Packed(r) : Live(f, r) => Live(f, h) /\ h.key # 0
      BY DEF Live
    <2> QED
      BY <1>1, <2>1 DEF FramesKept, AirKept
  <1>3. KeysKept(r, q)
    BY <1>1 DEF KeysKept, AirKept
  <1>4. MemoryKept(r)
    BY <1>1 DEF MemoryKept, AirKept
  <1>5. RecognitionKept(r)
    <2>1. Unfinished(r) \subseteq Unfinished(h)
      BY DEF Unfinished
    <2>2. OneCommand(r)
      BY <2>1 DEF AirKept, RecognitionKept, OneCommand
    <2>3. WindowKept(r)
      BY DEF AirKept, RecognitionKept, WindowKept
    <2> QED
      BY <2>1, <2>2, <2>3 DEF AirKept, RecognitionKept
  <1> QED
    BY <1>2, <1>3, <1>4, <1>5 DEF AirKept

\* What an attempt does to the slot: it repeats the stored bytes, or counts a frame of its own,
\* which is queued and kept if it could be built.
Repeats(h, r) ==
    /\ h.frame # NoFrame
    /\ r.frame = h.frame /\ r.tx = h.tx /\ r.sent = h.sent \cup {h.frame}
    /\ r.acks = AddId(h.acks, h.frame.fcnt)

Packs(h, r) ==
    LET f == [key |-> IF h.confirmed THEN h.key ELSE 0, fcnt |-> h.tx + 1, cmd |-> h.cmd]
    IN  /\ r.tx = h.tx + 1 /\ r.acks = AddId(h.acks, h.tx + 1)
        /\ \/ r.frame = f /\ r.sent = h.sent \cup {f}
           \/ r.frame = h.frame /\ r.sent = h.sent

\* The rest of the hub is as it was.
Still(h, r) ==
    /\ r.line = h.line /\ r.ended = h.ended /\ r.hold = h.hold /\ r.asleep = h.asleep
    /\ r.relogin = h.relogin /\ r.pending = h.pending /\ r.key = h.key /\ r.sess = h.sess

Unmoved(h, r) == Still(h, r) /\ r.cmd = h.cmd /\ r.deferred = h.deferred

LEMMA Attempts ==
  ASSUME NEW h \in HubStates, NEW retry \in BOOLEAN, NEW e \in Envs
  PROVE  LET r == Transmit(h, retry, e)
         IN  /\ r \in HubStates /\ r.awaiting /\ r.timer # "off"
             /\ (retry /\ Repeats(h, r)) \/ ((~retry \/ h.frame = NoFrame) /\ Packs(h, r))
             /\ Unmoved(h, r)
             /\ ~Optimistic /\ ~h.opt => ~r.opt /\ r.timer # "short"
  <1> DEFINE r == Transmit(h, retry, e)
             same == retry /\ h.frame # NoFrame
             framed == same \/ CanBuild(h, e)
             f == IF same THEN h.frame ELSE Built(h, e)
             opt == IF framed THEN e.opt ELSE h.opt
             timer == IF opt /\ h.retries = 0 /\ ~h.shortSpent THEN "short" ELSE "long"
             tx == IF same THEN h.tx ELSE f.fcnt
             frame == IF framed THEN f ELSE h.frame
             sent == IF framed THEN h.sent \cup {f} ELSE h.sent
             acks == AddId(h.acks, f.fcnt)
             full == [h EXCEPT !.tx = tx, !.frame = frame, !.sent = sent, !.acks = acks,
                               !.opt = opt, !.awaiting = TRUE, !.timer = timer]
  <1>1. r = full
    BY DEF Transmit, HubStates
  <1>2. f \in Frames /\ f.fcnt \in Nat /\ opt \in BOOLEAN /\ timer \in {"short", "long"}
    <2>1. Built(h, e) \in Frames
      BY DEF HubStates, Frames, Built
    <2>2. h.frame \in Frames /\ h.opt \in BOOLEAN /\ e.opt \in BOOLEAN
      BY ShotAssumption DEF HubStates, Envs
    <2>3. f \in Frames
      BY <2>1, <2>2
    <2> QED
      BY <2>2, <2>3 DEF Frames
  <1>3. ~same => f = [key |-> IF h.confirmed THEN h.key ELSE 0, fcnt |-> h.tx + 1, cmd |-> h.cmd]
                 /\ f.fcnt = h.tx + 1
    BY DEF Built
  <1>4. acks \in Seq(Nat) /\ tx \in Nat /\ frame \in Frames /\ sent \in SUBSET Frames
    BY <1>2, IdJoins DEF HubStates
  <1>5. ~Optimistic /\ ~h.opt => ~opt /\ timer # "short"
    BY DEF Envs
  <1> HIDE DEF f, opt, timer, framed, tx, frame, sent, acks
  <1>6. full \in HubStates
    BY <1>2, <1>4 DEF HubStates
  <1>7. /\ full.tx = tx /\ full.frame = frame /\ full.sent = sent /\ full.acks = acks
        /\ full.opt = opt /\ full.awaiting = TRUE /\ full.timer = timer
    BY DEF HubStates
  <1>8. Unmoved(h, full)
    BY DEF HubStates, Unmoved, Still
  <1> HIDE DEF full
  <1>9. same => retry /\ Repeats(h, full)
    BY <1>7 DEF Repeats, f, framed, tx, frame, sent, acks
  <1>10. ~same => (~retry \/ h.frame = NoFrame) /\ Packs(h, full)
    BY <1>3, <1>7 DEF Packs, tx, frame, sent, acks
  <1> QED
    BY <1>1, <1>2, <1>5, <1>6, <1>7, <1>8, <1>9, <1>10

\* The command in hand goes out: a retry by its bytes, else a command that has no frame yet.
LEMMA Sends ==
  ASSUME World, NEW q \in Seq(Uplinks), NEW h \in HubStates, NEW retry \in BOOLEAN, NEW e \in Envs,
         AirKept(h, q), SlotKept(h), ~h.relogin, ~h.deferred,
         h.cmd \in 1..Len(asked), ~Holds(h.line, h.cmd),
         h.frame # NoFrame => retry /\ h.awaiting,
         h.frame = NoFrame => \A f \in Packed(h) : f.cmd = h.cmd =>
                                ~Live(f, h) /\ ~(KindOf(f.cmd) = "ota" /\ ~Optimistic)
  PROVE  LET r == Transmit(h, retry, e)
         IN  r \in HubStates /\ r.awaiting /\ Unmoved(h, r) /\ SlotKept(r) /\ AirKept(r, q)
  <1> DEFINE r == Transmit(h, retry, e)
  <1>1. /\ r \in HubStates /\ r.awaiting
        /\ (retry /\ Repeats(h, r)) \/ ((~retry \/ h.frame = NoFrame) /\ Packs(h, r))
        /\ Unmoved(h, r)
        /\ ~Optimistic /\ ~h.opt => ~r.opt /\ r.timer # "short"
    BY Attempts
  <1> HIDE DEF r
  <1>2. ASSUME NEW id \in Nat, r.acks = AddId(h.acks, id)
        PROVE  \A n : Acknowledges(r, n) => Acknowledges(h, n) \/ n = id
    <2>1. h.acks \in Seq(Nat)
      BY DEF HubStates
    <2>2. \A n : (\E i \in DOMAIN AddId(h.acks, id) : AddId(h.acks, id)[i] = n)
                   => n = id \/ \E i \in DOMAIN h.acks : h.acks[i] = n
      BY <2>1, IdJoins
    <2> QED
      BY <1>2, <2>2 DEF Acknowledges
  <1>3. CASE Repeats(h, r)
    <2>1. h.frame.cmd = h.cmd /\ h.cmd # 0 /\ h.awaiting /\ h.frame \in Packed(h)
      BY <1>3 DEF Repeats, SlotKept, Packed
    <2>2. Packed(r) = Packed(h)
      BY <1>3, <2>1 DEF Repeats, Packed
    <2>3. FramesKept(r)
      <3>0. \A n : Acknowledges(r, n) => Acknowledges(h, n) \/ n = h.frame.fcnt
        BY <1>2, <1>3, FrameFields DEF Repeats, HubStates
      <3>1. \A f \in Packed(h) : Live(f, r) => Live(f, h) /\ (Acknowledges(r, f.fcnt) => f.cmd = h.cmd)
        BY <1>1, <1>3, <2>1, <3>0 DEF Unmoved, Still, Live, AirKept, FramesKept, Repeats
      <3> QED
        BY <1>1, <1>3, <2>1, <2>2, <3>1, SMTT(20) DEF Unmoved, Still, AirKept, FramesKept, Repeats
    <2>4. KeysKept(r, q)
      BY <1>1, <1>3, <2>1, <2>2, SMTT(20) DEF Unmoved, Still, AirKept, KeysKept, Repeats
    <2>5. MemoryKept(r)
      BY <1>1, <1>3, <2>2 DEF Unmoved, Still, AirKept, MemoryKept, Repeats
    <2>6. SlotKept(r)
      BY <1>1, <1>3, <2>1 DEF Unmoved, Still, SlotKept, Repeats
    <2>7. RecognitionKept(r)
      <3>1. Unfinished(r) = Unfinished(h)
        BY <1>3, <2>1 DEF Repeats, Unfinished
      <3>2. OneCommand(r)
        BY <1>1, <1>3, <2>1, <3>1 DEF Unmoved, Repeats, AirKept, RecognitionKept, OneCommand
      <3>3. WindowKept(r)
        BY <1>1, <1>3 DEF Unmoved, Still, Repeats, AirKept, RecognitionKept, WindowKept
      <3> QED
        BY <3>1, <3>2, <3>3 DEF AirKept, RecognitionKept
    <2> QED
      BY <1>1, <2>3, <2>4, <2>5, <2>6, <2>7 DEF AirKept, r
  <1>4. CASE h.frame = NoFrame /\ Packs(h, r)
    <2> DEFINE f == [key |-> IF h.confirmed THEN h.key ELSE 0, fcnt |-> h.tx + 1, cmd |-> h.cmd]
    <2>1. f.cmd = h.cmd /\ f.fcnt = h.tx + 1 /\ f.key \in {0, h.key} /\ f # NoFrame /\ h.cmd # 0
      BY DEF HubStates, NoFrame
    <2>2. \/ r.frame = f /\ r.sent = h.sent \cup {f} /\ Packed(r) = Packed(h) \cup {f}
          \/ r.frame = h.frame /\ r.sent = h.sent /\ Packed(r) = Packed(h)
      BY <1>4, <2>1 DEF Packs, Packed
    <2>3. r.tx = h.tx + 1 /\ h.tx \in Nat /\ h.key \in Nat /\ h.sess \in Nat
      BY <1>4 DEF Packs, HubStates
    <2> HIDE DEF f
    <2>4. FramesKept(r)
      <3>0. \A g \in Packed(h) : g.fcnt \in Nat /\ g.key \in Nat
        BY PackedAreFrames, FrameFields
      <3>a. \A n : Acknowledges(r, n) => Acknowledges(h, n) \/ n = h.tx + 1
        BY <1>2, <1>4, <2>3 DEF Packs
      <3>1. ASSUME NEW g \in Packed(r)
            PROVE  /\ g.cmd \in 1..Len(asked) /\ ~Holds(r.line, g.cmd) /\ (r.deferred => g.cmd # r.cmd)
                   /\ Live(g, r) =>
                        /\ g.fcnt <= r.tx
                        /\ ~r.deferred /\ Acknowledges(r, g.fcnt) => g.cmd = r.cmd
                        /\ r.frame # NoFrame /\ g.fcnt = r.frame.fcnt => g.cmd = r.frame.cmd
                        /\ r.awaiting /\ g.cmd = r.cmd => g = r.frame
        <4>1. CASE g = f /\ r.frame = f
          BY <1>1, <2>1, <2>3, <4>1 DEF Unmoved, Still
        <4>2. CASE g \in Packed(h)
          <5>1. Live(g, r) => Live(g, h) /\ g.fcnt <= h.tx /\ g.cmd # h.cmd
            BY <1>1, <1>4, <4>2 DEF Live, Unmoved, Still, AirKept, FramesKept
          <5>2. Live(g, r) => ~Acknowledges(r, g.fcnt)
            BY <1>1, <1>4, <2>3, <3>0, <3>a, <4>2, <5>1 DEF AirKept, FramesKept
          <5>3. Live(g, r) => g.fcnt <= r.tx /\ g.fcnt # f.fcnt
            BY <2>1, <2>3, <3>0, <4>2, <5>1
          <5> QED
            BY <1>1, <1>4, <2>2, <4>2, <5>1, <5>2, <5>3 DEF Unmoved, Still, AirKept, FramesKept
        <4> QED
          BY <2>2, <4>1, <4>2
      <3>2. ASSUME NEW g \in Packed(r), NEW k \in Packed(r), g.cmd = k.cmd,
                   (g.key = k.key /\ g.key # 0) \/ (KindOf(g.cmd) = "ota" /\ ~Optimistic)
            PROVE  g = k
        <4>1. CASE g \in Packed(h) /\ k \in Packed(h)
          BY <3>2, <4>1 DEF AirKept, FramesKept
        <4>2. ASSUME NEW x \in Packed(h), x.cmd = f.cmd
              PROVE  ~(x.key = f.key /\ f.key # 0) /\ ~(KindOf(f.cmd) = "ota" /\ ~Optimistic)
          BY <1>4, <2>1, <4>2 DEF Live
        <4> QED
          BY <2>2, <3>2, <4>1, <4>2
      <3> QED
        BY <3>1, <3>2 DEF FramesKept
    <2>5. KeysKept(r, q)
      <3>1. \A g \in r.sent : g.cmd = 0 => g \in h.sent
        BY <2>1, <2>2
      <3>2. \A g \in Packed(r) : g \in Packed(h) \/ g.key \in {0, h.key}
        BY <2>1, <2>2
      <3>3. 0 <= node.nonces
        BY DEF World, NodeStates
      <3> QED
        BY <1>1, <3>1, <3>2, <3>3 DEF Unmoved, Still, AirKept, KeysKept
    <2>6. MemoryKept(r)
      <3>0. \A c \in Cache : c.fcnt \in Nat
        BY CacheEntriesTyped
      <3>1. h.key = node.key /\ node.key # 0 => \A c \in Cache : c.fcnt <= r.tx /\ c.fcnt # f.fcnt
        BY <2>1, <2>3, <3>0 DEF AirKept, MemoryKept
      <3>2. \A g \in Packed(r) : g \in Packed(h) \/ (g = f /\ g.key \in {0, h.key})
        BY <2>1, <2>2
      <3> QED
        BY <1>1, <3>1, <3>2 DEF Unmoved, Still, AirKept, MemoryKept
    <2>7. SlotKept(r)
      BY <1>1, <1>4, <2>1, <2>2 DEF Unmoved, Still, SlotKept
    <2>8. RecognitionKept(r)
      <3>1. Unfinished(r) \subseteq Unfinished(h) \cup {f}
        BY <1>4, <2>1, <2>2 DEF Unfinished
      <3>2. OneCommand(r)
        <4>1. \A g \in Unfinished(h) : g.cmd = h.cmd
          BY <1>4 DEF AirKept, RecognitionKept, OneCommand, Unfinished
        <4>2. \A g \in r.sent : g.cmd \in {0, r.cmd}
          BY <1>1, <2>1, <2>2 DEF Unmoved, AirKept, RecognitionKept, OneCommand
        <4> QED
          BY <2>1, <3>1, <4>1, <4>2 DEF OneCommand
      <3>3. node.win.mark \in Nat
        BY DEF World, NodeStates
      <3>4. WindowKept(r)
        BY <1>1, <2>3, <3>3 DEF Unmoved, Still, AirKept, RecognitionKept, WindowKept
      <3>5. f.key = node.key /\ f.key # 0 => Recognised(f)
        <4>1. f.key = node.key /\ f.key # 0 => f.fcnt > node.win.mark
          BY <2>1, <2>3, <3>3 DEF AirKept, RecognitionKept, WindowKept
        <4> QED
          BY <4>1 DEF Recognised, New, Admissible
      <3> QED
        BY <3>1, <3>2, <3>4, <3>5 DEF AirKept, RecognitionKept
    <2> QED
      BY <1>1, <2>4, <2>5, <2>6, <2>7, <2>8 DEF AirKept, r
  <1> QED
    BY <1>1, <1>3, <1>4 DEF r

\* A command that was never sent goes out: with it in hand the slot starts afresh.
GoesOut(b, e, q) ==
    LET r == SendInHand(b, e)
    IN  /\ r \in HubStates /\ r.awaiting /\ ~r.deferred /\ r.cmd = b.cmd /\ Still(b, r)
        /\ SlotKept(r) /\ AirKept(r, q)

LEMMA InHandGoesOut ==
  ASSUME World, NEW q \in Seq(Uplinks), NEW g \in HubStates, NEW b \in HubStates, NEW e \in Envs,
         AirKept(g, q), SlotKept(g), ~g.relogin,
         Still(g, b), b.tx = g.tx, b.opt = g.opt, b.timer = g.timer, b.sent \subseteq g.sent,
         b.cmd \in 1..Len(asked), ~Holds(g.line, b.cmd), \A f \in Packed(g) : f.cmd # b.cmd,
         \A f \in b.sent : f.cmd = 0
  PROVE  GoesOut(b, e, q)
  <1> DEFINE none == <<>>
             p == [b EXCEPT !.deferred = FALSE, !.shortSpent = FALSE, !.acks = none,
                            !.retries = 0, !.awaiting = FALSE, !.frame = NoFrame]
  <1>1. SendInHand(b, e) = Transmit(p, FALSE, e)
    BY DEF SendInHand, Deliver, HubStates
  <1>2. p \in HubStates
    <2>1. none \in Seq(Nat)
      OBVIOUS
    <2> HIDE DEF none
    <2> QED
      BY <2>1, NoFrameIsFrame DEF HubStates
  <1>3. /\ p.cmd = b.cmd /\ p.sent = b.sent /\ p.acks = <<>> /\ ~p.deferred /\ ~p.awaiting
        /\ p.frame = NoFrame /\ p.tx = b.tx /\ p.opt = b.opt /\ p.timer = b.timer /\ Still(b, p)
    BY DEF HubStates, Still
  <1>s. Still(g, p)
    BY <1>3 DEF Still
  <1> HIDE DEF p
  <1>4. AirKept(p, q) /\ Packed(p) \subseteq Packed(g)
    <2>1. \A n : ~Acknowledges(p, n)
      BY <1>3 DEF Acknowledges
    <2>2. Packed(p) \subseteq Packed(g)
      BY <1>3 DEF Packed
    <2> QED
      BY <1>2, <1>3, <1>s, <2>1, <2>2, Shrinks DEF Still
  <1>5. SlotKept(p)
    BY <1>3, <1>s DEF SlotKept, Still
  <1>6. ~Holds(p.line, p.cmd) /\ ~p.relogin
    BY <1>3, <1>s DEF Still
  <1>7. LET r == Transmit(p, FALSE, e)
        IN  r \in HubStates /\ r.awaiting /\ Unmoved(p, r) /\ SlotKept(r) /\ AirKept(r, q)
    <2>1. \A f \in Packed(p) : f.cmd # p.cmd
      BY <1>3, <1>4
    <2> QED
      BY <1>2, <1>3, <1>4, <1>5, <1>6, <2>1, Sends
  <1> QED
    BY <1>1, <1>3, <1>7 DEF Unmoved, Still, GoesOut

\* A command is taken on: it goes out, or waits for the session or the wake.
Takes(h, id, hold, e, q) ==
    LET r == Begin(h, id, hold, e)
    IN  /\ r \in HubStates /\ Busy(r) /\ r.cmd = id /\ Still(h, r) /\ SlotKept(r) /\ AirKept(r, q)
        /\ r.awaiting => h.awaiting \/ ~(h.relogin \/ hold)

BeginsWell ==
  \A q \in Seq(Uplinks), h \in HubStates, e \in Envs, hold \in BOOLEAN, id \in 1..Len(asked) :
    /\ World /\ AirKept(h, q) /\ SlotKept(h)
    /\ ~Holds(h.line, id) /\ \A f \in Packed(h) : f.cmd # id
    /\ hold /\ ~h.relogin => h.hold /\ ~h.awaiting /\ h.acks = <<>>
    => Takes(h, id, hold, e, q)

LEMMA Begins == BeginsWell
  <1> SUFFICES ASSUME NEW q \in Seq(Uplinks), NEW h \in HubStates, NEW e \in Envs,
                      NEW hold \in BOOLEAN, NEW id \in 1..Len(asked),
                      World, AirKept(h, q), SlotKept(h),
                      ~Holds(h.line, id), \A f \in Packed(h) : f.cmd # id,
                      hold /\ ~h.relogin => h.hold /\ ~h.awaiting /\ h.acks = <<>>
               PROVE  Takes(h, id, hold, e, q)
    BY DEF BeginsWell
  <1> DEFINE s == {f \in h.sent : f.cmd = 0}
             b == [h EXCEPT !.cmd = id, !.sent = s]
  <1>1. b.relogin = h.relogin /\ s \in SUBSET h.sent
    BY DEF HubStates
  <1>2. Begin(h, id, hold, e) = IF h.relogin \/ hold THEN [b EXCEPT !.deferred = TRUE] ELSE SendInHand(b, e)
    BY <1>1 DEF Begin, HubStates
  <1>3. CASE h.relogin \/ hold
    <2> DEFINE r == [b EXCEPT !.deferred = TRUE]
    <2>1. r \in HubStates
      <3>1. id \in Nat /\ s \in SUBSET Frames
        BY DEF World, HubStates
      <3>2. b \in HubStates
        BY <3>1 DEF HubStates
      <3> HIDE DEF b
      <3> QED
        BY <3>2 DEF HubStates
    <2>2. /\ r.cmd = id /\ r.sent = s /\ r.deferred /\ r.awaiting = h.awaiting /\ r.acks = h.acks
          /\ r.frame = h.frame /\ r.tx = h.tx /\ r.opt = h.opt /\ r.timer = h.timer /\ Still(h, r)
      BY DEF HubStates, Still
    <2> HIDE DEF r
    <2>3. AirKept(r, q)
      BY <1>1, <2>1, <2>2, Shrinks DEF Still, Acknowledges
    <2>4. SlotKept(r)
      BY <1>3, <2>2 DEF SlotKept, Still
    <2>5. Begin(h, id, hold, e) = r
      BY <1>2, <1>3 DEF r
    <2> QED
      BY <1>3, <2>1, <2>2, <2>3, <2>4, <2>5 DEF Takes, Busy
  <1>4. CASE ~(h.relogin \/ hold)
    <2> DEFINE r == SendInHand(b, e)
    <2>0. /\ b \in HubStates /\ Still(h, b) /\ b.tx = h.tx /\ b.opt = h.opt /\ b.timer = h.timer
          /\ b.sent \subseteq h.sent /\ b.cmd = id /\ ~h.relogin /\ \A f \in b.sent : f.cmd = 0
      <3>1. id \in Nat /\ s \in SUBSET Frames
        BY DEF World, HubStates
      <3> QED
        BY <1>1, <1>4, <3>1 DEF HubStates, Still
    <2>1. r \in HubStates /\ r.awaiting /\ r.cmd = id /\ Still(h, r) /\ SlotKept(r) /\ AirKept(r, q)
      <3> HIDE DEF b
      <3>1. GoesOut(b, e, q)
        BY <2>0, InHandGoesOut
      <3> QED
        BY <2>0, <3>1 DEF GoesOut, Still
    <2>2. Begin(h, id, hold, e) = r
      BY <1>2, <1>4
    <2> HIDE DEF r, b
    <2> QED
      BY <1>4, <2>1, <2>2 DEF Takes, Busy
  <1> QED
    BY <1>3, <1>4

-----------------------------------------------------------------------------
(* The line: what a function makes of the hub as a whole *)

\* Those who wait: open, each once, none of them in hand.
Queued(h) ==
    /\ Len(h.ended) = Len(asked) /\ Distinct(h.line) /\ Len(h.line) <= QueueDepth
    /\ \A n \in 1..Len(h.line) :
         h.line[n] \in 1..Len(asked) /\ h.line[n] # h.cmd /\ h.ended[h.line[n]] = "open"

HubInv(h, q) ==
    /\ h \in HubStates /\ LineKept(h) /\ LineOnce(h) /\ SlotKept(h) /\ SleepKept(h)
    /\ AirKept(h, q) /\ DeliveredRan(h)

\* CommandLine's view of the hub, left as it is or moved on by an end.
Hand(h) == IF Busy(h) THEN h.cmd ELSE 0

Keeps(h, r) == r.line = h.line /\ r.ended = h.ended /\ Hand(r) = Hand(h)

MovedOn(m, r) ==
    /\ r.line = IF m.line = <<>> THEN <<>> ELSE Tail(m.line)
    /\ Hand(r) = IF m.line = <<>> THEN 0 ELSE Head(m.line)

Ends1(h, r) ==
    /\ Hand(h) # 0 /\ MovedOn(h, r)
    /\ \E o \in {"delivered", "failed"} : r.ended = [h.ended EXCEPT ![Hand(h)] = o]

Kept(h, r, q) == HubInv(r, q) /\ (Keeps(h, r) \/ Ends1(h, r))

\* The hub between the end of a command and the start of the next.
Idle(m, q) ==
    /\ m \in HubStates /\ AirKept(m, q) /\ SlotKept(m) /\ DeliveredRan(m)
    /\ ~Busy(m) /\ (m.acks = <<>> \/ m.relogin \/ m.line = <<>>)
    /\ m.cmd \in 0..Len(asked) /\ (m.cmd # 0 => m.ended[m.cmd] # "open")
    /\ Queued(m) /\ LineOnce(m) /\ (m.asleep => m.hold)

LEMMA NextTakesOver ==
  ASSUME World, NEW q \in Seq(Uplinks), NEW m \in HubStates, NEW e \in Envs, Idle(m, q)
  PROVE  LET r == NextInLine(m, e) IN HubInv(r, q) /\ r.ended = m.ended /\ MovedOn(m, r)
  <1>1. CASE m.line = <<>>
    <2>1. NextInLine(m, e) = m
      BY <1>1 DEF NextInLine
    <2>2. LineKept(m) /\ SleepKept(m)
      BY <1>1 DEF Idle, LineKept, SleepKept, Busy, Queued
    <2> QED
      BY <1>1, <2>1, <2>2 DEF Idle, HubInv, MovedOn, Hand
  <1>2. CASE m.line # <<>>
    <2> DEFINE id == Head(m.line)
               h == [m EXCEPT !.line = Tail(@)]
               r == NextInLine(m, e)
    <2>1. /\ Tail(m.line) \in Seq(Nat) /\ Distinct(Tail(m.line)) /\ Holds(m.line, id)
          /\ Len(Tail(m.line)) = Len(m.line) - 1
          /\ \A x : Holds(Tail(m.line), x) <=> Holds(m.line, x) /\ x # id
      BY <1>2, HeadLeaves DEF Idle, Queued, HubStates
    <2>2. \A n \in 1..Len(m.line) - 1 : Tail(m.line)[n] = m.line[n + 1] /\ n + 1 \in 1..Len(m.line)
      BY <1>2 DEF HubStates
    <2>3. /\ h \in HubStates /\ h.line = Tail(m.line) /\ h.cmd = m.cmd /\ h.awaiting = m.awaiting
          /\ h.deferred = m.deferred /\ h.acks = m.acks /\ h.frame = m.frame /\ h.hold = m.hold
          /\ h.asleep = m.asleep /\ h.relogin = m.relogin /\ h.pending = m.pending /\ h.key = m.key
          /\ h.sess = m.sess /\ h.tx = m.tx /\ h.sent = m.sent /\ h.ended = m.ended /\ h.opt = m.opt
          /\ h.timer = m.timer
      BY <2>1 DEF HubStates
    <2>4. r = Begin(h, id, m.hold, e)
      BY <1>2 DEF NextInLine, HubStates
    <2> HIDE DEF h, r
    <2>5. id \in 1..Len(asked) /\ m.ended[id] = "open"
      BY <2>1 DEF Holds, Idle, Queued
    <2>6. AirKept(h, q)
      BY <2>1, <2>3, Shrinks DEF Idle, Acknowledges
    <2>7. SlotKept(h)
      BY <2>3 DEF Idle, SlotKept
    <2>8. Packed(h) = Packed(m)
      BY <2>3 DEF Packed
    <2>9. \A f \in Packed(h) : f.cmd # id
      BY <2>1, <2>8 DEF Idle, AirKept, FramesKept
    <2>10. ~h.awaiting /\ ~Holds(h.line, id) /\ h.hold \in BOOLEAN /\ m.hold = h.hold
      BY <2>1, <2>3 DEF Idle, Busy, HubStates
    <2>11. h.acks = <<>> \/ h.relogin
      BY <1>2, <2>3 DEF Idle
    <2>12. Takes(h, id, m.hold, e, q)
      BY <2>3, <2>5, <2>6, <2>7, <2>9, <2>10, <2>11, Begins DEF BeginsWell
    <2>13. /\ r \in HubStates /\ Busy(r) /\ r.cmd = id /\ Still(h, r) /\ SlotKept(r) /\ AirKept(r, q)
           /\ (r.awaiting => ~(h.relogin \/ m.hold))
      BY <2>4, <2>10, <2>12 DEF Takes
    <2>14. r.line = Tail(m.line) /\ r.ended = m.ended /\ r.hold = m.hold /\ r.asleep = m.asleep
      BY <2>3, <2>13 DEF Still
    <2>15. LineKept(r)
      <3>1. \A n \in 1..Len(r.line) :
              r.line[n] \in 1..Len(asked) /\ r.line[n] # id /\ r.ended[r.line[n]] = "open"
        <4> SUFFICES ASSUME NEW n \in 1..Len(r.line)
                     PROVE  r.line[n] \in 1..Len(asked) /\ r.line[n] # id /\ r.ended[r.line[n]] = "open"
          OBVIOUS
        <4>1. n \in 1..Len(m.line) - 1 /\ r.line[n] = m.line[n + 1] /\ n + 1 \in 1..Len(m.line)
          BY <2>1, <2>2, <2>14
        <4>2. Holds(Tail(m.line), r.line[n])
          BY <2>14 DEF Holds
        <4> QED
          BY <2>1, <2>14, <4>1, <4>2 DEF Idle, Queued
      <3>2. Len(r.line) <= QueueDepth
        <4>1. Len(m.line) \in Nat /\ Len(m.line) <= QueueDepth /\ QueueDepth \in Nat
          BY PolicyAssumption DEF Idle, Queued, HubStates
        <4> QED
          BY <2>1, <2>14, <4>1
      <3> QED
        BY <2>1, <2>5, <2>13, <2>14, <3>1, <3>2 DEF LineKept, Idle, Queued
    <2>16. LineOnce(r)
      <3>1. \A n \in 1..Len(r.line) : n \in Nat /\ r.line[n] = m.line[n + 1] /\ n + 1 \in 1..Len(m.line)
        BY <2>1, <2>2, <2>14
      <3> SUFFICES ASSUME NEW n \in 1..Len(r.line), NEW k \in 1..Len(r.line),
                          KindOf(r.line[n]) = KindOf(r.line[k]), KindOf(r.line[n]) \in {"cover", "sleep"}
                   PROVE  n = k
        BY DEF LineOnce
      <3>2. n + 1 = k + 1
        <4>1. LineOnce(m)
          BY DEF Idle
        <4> QED
          BY <3>1, <4>1 DEF LineOnce
      <3> QED
        BY <3>1, <3>2
    <2>17. SleepKept(r) /\ DeliveredRan(r)
      BY <2>13, <2>14 DEF SleepKept, Idle, DeliveredRan
    <2>18. HubInv(r, q)
      BY <2>13, <2>15, <2>16, <2>17 DEF HubInv
    <2>19. MovedOn(m, r)
      BY <1>2, <2>13, <2>14 DEF MovedOn, Hand
    <2> QED
      BY <2>14, <2>18, <2>19 DEF r
  <1> QED
    BY <1>1, <1>2

\* What of the hub the invariant looks at is as it was.
Alike(h, r) ==
    /\ r.cmd = h.cmd /\ r.awaiting = h.awaiting /\ r.acks = h.acks /\ r.deferred = h.deferred
    /\ r.frame = h.frame /\ r.line = h.line /\ r.hold = h.hold /\ r.relogin = h.relogin
    /\ r.pending = h.pending /\ r.key = h.key /\ r.sess = h.sess /\ r.tx = h.tx /\ r.sent = h.sent
    /\ r.ended = h.ended /\ r.opt = h.opt /\ r.timer \in {h.timer, "off"} /\ (r.asleep => h.asleep)

LEMMA AlikeKeeps ==
  ASSUME World, NEW q \in Seq(Uplinks), NEW h \in HubStates, NEW r \in HubStates,
         HubInv(h, q), Alike(h, r)
  PROVE  Kept(h, r, q)
  <1>1. LineKept(r) /\ LineOnce(r) /\ DeliveredRan(r)
    BY DEF HubInv, Alike, LineKept, LineOnce, Busy, DeliveredRan
  <1>2. SlotKept(r) /\ SleepKept(r)
    BY DEF HubInv, Alike, SlotKept, SleepKept
  <1>3. AirKept(r, q)
    <2>1. /\ r.cmd = h.cmd /\ r.awaiting = h.awaiting /\ r.deferred = h.deferred
          /\ r.frame = h.frame /\ r.line = h.line /\ r.acks = h.acks
          /\ r.key = h.key /\ r.sess = h.sess /\ r.tx = h.tx /\ r.sent = h.sent
      BY DEF Alike
    <2>2. \A n : Acknowledges(r, n) => Acknowledges(h, n)
      BY <2>1 DEF Acknowledges
    <2> QED
      BY <2>1, <2>2, Shrinks DEF HubInv
  <1>4. Keeps(h, r)
    BY DEF Alike, Keeps, Hand, Busy
  <1> QED
    BY <1>1, <1>2, <1>3, <1>4 DEF Kept, HubInv

-----------------------------------------------------------------------------
(* The end of a command *)

\* How the commands end when the one in hand ends as o.
Closed(h, o) == [i \in DOMAIN h.ended |-> IF i = h.cmd /\ h.ended[i] = "open" THEN o ELSE h.ended[i]]

LEMMA ClosedOne ==
  ASSUME World, NEW h \in HubStates, LineKept(h), NEW o \in {"delivered", "failed"}
  PROVE  /\ Closed(h, o) \in Seq(Ends) /\ Len(Closed(h, o)) = Len(asked)
         /\ \A i \in 1..Len(asked) : Closed(h, o)[i] =
              IF i = h.cmd /\ h.ended[i] = "open" THEN o ELSE h.ended[i]
         /\ Busy(h) => Closed(h, o) = [h.ended EXCEPT ![h.cmd] = o]
         /\ ~Busy(h) => Closed(h, o) = h.ended
  <1>1. /\ h.ended \in Seq(Ends) /\ Len(h.ended) = Len(asked) /\ Len(asked) \in Nat
        /\ DOMAIN h.ended = 1..Len(asked)
        /\ \A i \in 1..Len(asked) : h.ended[i] \in Ends
    BY DEF World, HubStates, LineKept
  <1>2. o \in Ends
    BY DEF Ends, Line!Endings
  <1>3. Closed(h, o) = [i \in 1..Len(asked) |-> IF i = h.cmd /\ h.ended[i] = "open" THEN o ELSE h.ended[i]]
    BY <1>1 DEF Closed
  <1>4. Closed(h, o) \in Seq(Ends) /\ Len(Closed(h, o)) = Len(asked)
    BY <1>1, <1>2, <1>3
  <1>5. Busy(h) => h.cmd \in 1..Len(asked) /\ h.ended[h.cmd] = "open"
    BY <1>1 DEF LineKept
  <1>6. ~Busy(h) => \A i \in 1..Len(asked) : ~(i = h.cmd /\ h.ended[i] = "open")
    BY <1>1 DEF LineKept
  <1>7. h.ended = [i \in 1..Len(asked) |-> h.ended[i]]
    BY <1>1
  <1>8. Busy(h) => Closed(h, o) = [h.ended EXCEPT ![h.cmd] = o]
    BY <1>1, <1>3, <1>5
  <1>9. ~Busy(h) => Closed(h, o) = h.ended
    BY <1>3, <1>6, <1>7
  <1> QED
    BY <1>3, <1>4, <1>8, <1>9

LEMMA Finishes ==
  ASSUME World, NEW q \in Seq(Uplinks), NEW h \in HubStates, NEW m \in HubStates, NEW e \in Envs,
         NEW o \in {"delivered", "failed"}, HubInv(h, q),
         o = "delivered" /\ Busy(h) => \E x \in ran : x[1] = h.cmd,
         m.ended = Closed(h, o), m.line = h.line, m.cmd = h.cmd, ~Busy(m),
         m.acks = <<>> \/ m.relogin, AirKept(m, q), SlotKept(m), m.asleep => m.hold
  PROVE  Kept(h, NextInLine(m, e), q)
  <1>1. /\ LineKept(h) /\ LineOnce(h) /\ DeliveredRan(h)
    BY DEF HubInv
  <1>2. /\ Len(m.ended) = Len(asked)
        /\ \A i \in 1..Len(asked) : m.ended[i] =
              IF i = h.cmd /\ h.ended[i] = "open" THEN o ELSE h.ended[i]
        /\ Busy(h) => m.ended = [h.ended EXCEPT ![h.cmd] = o]
        /\ ~Busy(h) => m.ended = h.ended
    BY <1>1, ClosedOne
  <1>3. Queued(m) /\ LineOnce(m)
    BY <1>1, <1>2 DEF Queued, LineKept, LineOnce
  <1>4. DeliveredRan(m)
    <2>1. ASSUME NEW i \in 1..Len(m.ended), m.ended[i] = "delivered"
          PROVE  \E x \in ran : x[1] = i
      <3>1. CASE i = h.cmd /\ h.ended[i] = "open"
        BY <1>1, <1>2, <2>1, <3>1 DEF LineKept
      <3>2. CASE ~(i = h.cmd /\ h.ended[i] = "open")
        BY <1>1, <1>2, <2>1, <3>2 DEF DeliveredRan, LineKept
      <3> QED
        BY <3>1, <3>2
    <2> QED
      BY <2>1 DEF DeliveredRan
  <1>5. m.cmd \in 0..Len(asked) /\ (m.cmd # 0 => m.ended[m.cmd] # "open")
    <2>1. h.cmd \in 0..Len(asked) /\ Len(asked) \in Nat
      BY <1>1 DEF LineKept, World
    <2> QED
      BY <1>2, <2>1
  <1>6. Idle(m, q)
    BY <1>3, <1>4, <1>5 DEF Idle
  <1>7. LET r == NextInLine(m, e) IN HubInv(r, q) /\ r.ended = m.ended /\ MovedOn(m, r)
    BY <1>6, NextTakesOver
  <1>8. CASE Busy(h)
    <2>1. Hand(h) = h.cmd /\ h.cmd # 0
      BY <1>1, <1>8 DEF Hand, LineKept
    <2> QED
      BY <1>2, <1>7, <1>8, <2>1 DEF Kept, Ends1, MovedOn
  <1>9. CASE ~Busy(h)
    <2>1. h.line = <<>> /\ Hand(h) = 0
      BY <1>1, <1>9 DEF LineKept, Hand
    <2> QED
      BY <1>2, <1>7, <1>9, <2>1 DEF Kept, Keeps, MovedOn
  <1> QED
    BY <1>8, <1>9

\* The fields that a function which ends a command may leave as they are.
SameAir(h, m) ==
    /\ m.sent = h.sent /\ m.tx = h.tx /\ m.key = h.key /\ m.sess = h.sess /\ m.frame = h.frame
    /\ m.line = h.line /\ m.cmd = h.cmd

\* Whatever ends the command in hand forgets its ids and its wait, and moves on.
LEMMA QuietEnds ==
  ASSUME World, NEW q \in Seq(Uplinks), NEW h \in HubStates, NEW m \in HubStates, NEW e \in Envs,
         NEW o \in {"delivered", "failed"}, HubInv(h, q),
         o = "delivered" /\ Busy(h) => \E x \in ran : x[1] = h.cmd,
         m.ended = Closed(h, o), SameAir(h, m), m.acks = <<>>, ~m.awaiting, ~m.deferred,
         m.pending => h.pending, m.relogin = h.relogin, m.opt = h.opt, m.timer = "off",
         m.asleep => m.hold
  PROVE  AirKept(m, q) /\ SlotKept(m) /\ Kept(h, NextInLine(m, e), q)
  <1>0. LineKept(h) /\ SlotKept(h) /\ AirKept(h, q)
    BY DEF HubInv
  <1>1. \A n : ~Acknowledges(m, n)
    BY DEF Acknowledges
  <1>2. AirKept(m, q)
    BY <1>0, <1>1, Shrinks DEF SameAir
  <1>3. SlotKept(m)
    BY <1>0 DEF SlotKept, SameAir
  <1>4. m.line = h.line /\ m.cmd = h.cmd /\ ~Busy(m)
    BY DEF SameAir, Busy
  <1> QED
    BY <1>2, <1>3, <1>4, Finishes

\* dlv_ack_ of a command that was run, and dlv_refused_.
LEMMA AckEnds ==
  ASSUME World, NEW q \in Seq(Uplinks), NEW h \in HubStates, NEW e \in Envs, HubInv(h, q),
         ~h.deferred, ~h.relogin
  PROVE  /\ (Busy(h) => \E x \in ran : x[1] = h.cmd) => Kept(h, Acked(h, e), q)
         /\ Kept(h, Refused(h, e), q)
  <1> DEFINE c(o) == [h EXCEPT !.ended = Closed(h, o), !.timer = "off", !.awaiting = FALSE,
                               !.retries = 0, !.acks = <<>>]
             z == [c("delivered") EXCEPT !.unconfirmed = FALSE, !.hold = TRUE, !.asleep = TRUE,
                                         !.pending = FALSE, !.login = "fallback"]
  <1>0. LineKept(h) /\ SleepKept(h)
    BY DEF HubInv
  <1>1. Refused(h, e) = NextInLine(c("failed"), e)
    BY DEF Refused, Close, Closed, Cancel, HubStates
  <1>2. Acked(h, e) = NextInLine(IF KindOf(h.cmd) = "sleep" THEN z ELSE c("delivered"), e)
    BY DEF Acked, Close, Closed, Cancel, SleepAcknowledged, HubStates
  <1>3. ASSUME NEW o \in {"delivered", "failed"}
        PROVE  /\ c(o) \in HubStates /\ SameAir(h, c(o)) /\ c(o).acks = <<>>
               /\ ~c(o).awaiting /\ ~c(o).deferred
               /\ c(o).ended = Closed(h, o) /\ (c(o).asleep => c(o).hold)
               /\ c(o).pending = h.pending /\ c(o).relogin = h.relogin /\ c(o).opt = h.opt
               /\ c(o).timer = "off"
    <2> DEFINE ends == Closed(h, o)
               none == <<>>
    <2>1. ends \in Seq(Ends) /\ none \in Seq(Nat)
      BY <1>0, ClosedOne
    <2> HIDE DEF ends, none
    <2>2. LET x == [h EXCEPT !.ended = ends, !.timer = "off", !.awaiting = FALSE,
                             !.retries = 0, !.acks = none]
          IN  /\ x \in HubStates /\ SameAir(h, x) /\ x.acks = none
              /\ ~x.awaiting /\ ~x.deferred
              /\ x.ended = ends /\ (x.asleep => x.hold)
              /\ x.pending = h.pending /\ x.relogin = h.relogin /\ x.opt = h.opt
              /\ x.timer = "off"
      BY <1>0, <2>1 DEF HubStates, SameAir, SleepKept
    <2> QED
      BY <2>2 DEF ends, none
  <1>4. /\ z \in HubStates /\ SameAir(h, z) /\ z.acks = <<>> /\ ~z.awaiting /\ ~z.deferred
        /\ z.ended = Closed(h, "delivered") /\ z.hold /\ ~z.pending /\ z.relogin = h.relogin
        /\ z.opt = h.opt /\ z.timer = "off"
    <2> HIDE DEF c
    <2>1. z \in HubStates
      BY <1>3 DEF HubStates
    <2>2. SameAir(h, z)
      BY <1>3 DEF HubStates, SameAir
    <2> QED
      BY <1>3, <2>1, <2>2 DEF HubStates
  <1> HIDE DEF c, z
  <1>5. Kept(h, NextInLine(c("failed"), e), q)
    BY <1>3, QuietEnds
  <1>6. ASSUME Busy(h) => \E x \in ran : x[1] = h.cmd
        PROVE  Kept(h, NextInLine(c("delivered"), e), q) /\ Kept(h, NextInLine(z, e), q)
    <2>1. Kept(h, NextInLine(c("delivered"), e), q)
      BY <1>3, <1>6, QuietEnds
    <2>2. Kept(h, NextInLine(z, e), q)
      BY <1>4, <1>6, QuietEnds
    <2> QED
      BY <2>1, <2>2
  <1> QED
    BY <1>1, <1>2, <1>5, <1>6

\* send_login: whatever session it opens, no key is of it yet.
LoginKept(g, r) ==
    /\ r \in HubStates /\ r.cmd = g.cmd /\ r.awaiting = g.awaiting /\ r.deferred = g.deferred
    /\ r.line = g.line /\ r.hold = g.hold /\ r.asleep = g.asleep /\ r.ended = g.ended
    /\ r.relogin /\ r.opt = g.opt /\ r.timer = g.timer

LEMMA LoginOpens ==
  ASSUME World, NEW q \in Seq(Uplinks), NEW g \in HubStates, AirKept(g, q), SlotKept(g)
  PROVE  LET r == SendLogin(g) IN LoginKept(g, r) /\ AirKept(r, q) /\ SlotKept(r)
  <1> DEFINE s == IF g.pending THEN g.sess ELSE g.sess + 1
             login == [key |-> s, fcnt |-> 1, cmd |-> 0]
             none == <<>>
             frame == IF g.pending THEN g.frame ELSE NoFrame
             key == IF g.pending THEN g.key ELSE 0
             sent == g.sent \cup {login}
             k == IF g.pending THEN g ELSE [g EXCEPT !.key = 0, !.frame = NoFrame]
             r == [k EXCEPT !.sess = s, !.pending = TRUE, !.tx = 1,
                            !.acks = none, !.confirmed = FALSE, !.relogin = TRUE, !.login = "sent",
                            !.sent = k.sent \cup {login}]
  <1>1. SendLogin(g) = r
    BY DEF SendLogin
  <1>0. /\ k \in HubStates /\ k.key = key /\ k.frame = frame /\ k.cmd = g.cmd /\ k.awaiting = g.awaiting
        /\ k.deferred = g.deferred /\ k.line = g.line /\ k.hold = g.hold /\ k.asleep = g.asleep
        /\ k.ended = g.ended /\ k.opt = g.opt /\ k.timer = g.timer /\ k.sent = g.sent
    <2>1. CASE g.pending
      BY <2>1
    <2>2. CASE ~g.pending
      <3>1. k = [g EXCEPT !.key = 0, !.frame = NoFrame]
        BY <2>2
      <3> HIDE DEF k
      <3>2. [g EXCEPT !.key = 0, !.frame = NoFrame] \in HubStates
        BY NoFrameIsFrame, ZenonT(30) DEF HubStates
      <3>3. k \in HubStates
        BY <3>1, <3>2
      <3> QED
        BY <2>2, <3>1, <3>3 DEF HubStates, key, frame
    <2> QED
      BY <2>1, <2>2
  <1>2. s \in Nat /\ s >= g.sess /\ (~g.pending => s > g.sess) /\ g.sess \in Nat
        /\ frame = NoFrame /\ key = 0
    BY DEF HubStates, SlotKept
  <1>3. /\ none \in Seq(Nat) /\ frame \in Frames /\ sent \in SUBSET Frames
        /\ \A f \in sent : f \in g.sent \/ (f.cmd = 0 /\ f.key = s)
    <2> HIDE DEF s, frame
    <2>1. login \in Frames /\ login.cmd = 0 /\ login.key = s
      BY <1>2 DEF Frames
    <2> HIDE DEF login
    <2>2. g.sent \in SUBSET Frames
      BY DEF HubStates
    <2> QED
      BY <1>2, <2>1, <2>2, NoFrameIsFrame
  <1> HIDE DEF s, frame, key, sent, none, k
  <1>4. r \in HubStates /\ r.key = key /\ r.frame = frame /\ r.sess = s /\ r.pending /\ r.acks = none
        /\ r.relogin /\ r.sent = sent /\ LoginKept(g, r)
    <2>1. k.sent \cup {login} = sent
      BY <1>0 DEF sent
    <2> HIDE DEF login
    <2>2. r \in HubStates
      BY <1>0, <1>2, <1>3, <2>1 DEF HubStates
    <2>3. /\ r.key = key /\ r.frame = frame /\ r.sess = s /\ r.pending /\ r.acks = none
          /\ r.relogin /\ r.sent = sent
      BY <1>0, <2>1 DEF HubStates
    <2>4. LoginKept(g, r)
      BY <1>0, <2>2 DEF HubStates, LoginKept
    <2> QED
      BY <2>2, <2>3, <2>4
  <1> HIDE DEF r
  <1>5. Packed(r) \subseteq Packed(g) /\ r.frame = NoFrame /\ r.key = 0
    BY <1>2, <1>3, <1>4 DEF Packed
  <1>6. FramesKept(r)
    BY <1>4, <1>5 DEF AirKept, FramesKept, Live, LoginKept
  <1>7. KeysKept(r, q)
    <2>0. /\ node.sess \in Nat /\ node.nonces \in Nat
          /\ \A i \in 1..Len(q) : q[i].sess \in Nat
      BY UplinkFields DEF World, NodeStates
    <2>1. node.sess <= s /\ \A i \in 1..Len(q) : q[i].sess <= s
      BY <1>2, <2>0 DEF AirKept, KeysKept
    <2>2. g.pending => g.key = 0
      BY DEF SlotKept
    <2>3. ~g.pending => node.sess # s /\ \A i \in 1..Len(q) : q[i].sess # s
      BY <1>2, <2>0 DEF AirKept, KeysKept
    <2>4. g.pending => s = g.sess
      BY DEF s
    <2>5. \A f \in Packed(r) : f.key # 0 =>
            /\ ~(node.key = f.key /\ node.sess = s)
            /\ \A i \in 1..Len(q) : ~(q[i].key = f.key /\ q[i].sess = s)
      BY <1>5, <2>2, <2>3, <2>4 DEF AirKept, KeysKept
    <2>6. \A f \in r.sent : f.cmd = 0 => f.key <= s
      <3>1. \A f \in g.sent : f.key \in Nat
        BY FrameFields DEF HubStates
      <3> QED
        BY <1>2, <1>3, <1>4, <3>1 DEF AirKept, KeysKept
    <2> QED
      BY <1>4, <1>5, <2>0, <2>1, <2>5, <2>6 DEF AirKept, KeysKept
  <1>8. MemoryKept(r)
    <2>1. node.sess = s => g.pending /\ s = g.sess /\ g.key = 0
      BY <1>2 DEF AirKept, KeysKept, World, NodeStates, s, SlotKept
    <2> QED
      BY <1>4, <1>5, <2>1 DEF AirKept, MemoryKept
  <1>9. SlotKept(r)
    BY <1>4, <1>5 DEF SlotKept, LoginKept
  <1>10. RecognitionKept(r)
    <2>1. Unfinished(r) \subseteq Unfinished(g)
      BY <1>3, <1>4, <1>5 DEF Unfinished
    <2>2. OneCommand(r)
      BY <1>3, <1>4, <2>1 DEF AirKept, RecognitionKept, OneCommand, LoginKept
    <2>3. node.sess = s => s = g.sess /\ g.key = 0
      BY <1>2 DEF AirKept, KeysKept, World, NodeStates, s, SlotKept
    <2>4. WindowKept(r)
      BY <1>4, <1>5, <2>3 DEF AirKept, RecognitionKept, WindowKept
    <2> QED
      BY <2>1, <2>2, <2>4 DEF AirKept, RecognitionKept
  <1> QED
    BY <1>1, <1>4, <1>6, <1>7, <1>8, <1>9, <1>10 DEF AirKept

LEMMA LoginKeeps ==
  ASSUME World, NEW q \in Seq(Uplinks), NEW h \in HubStates, HubInv(h, q)
  PROVE  Kept(h, SendLogin(h), q)
  <1> DEFINE r == SendLogin(h)
  <1>1. LoginKept(h, r) /\ AirKept(r, q) /\ SlotKept(r)
    BY LoginOpens DEF HubInv
  <1> HIDE DEF r
  <1>2. LineKept(r) /\ LineOnce(r) /\ SleepKept(r) /\ DeliveredRan(r)
    BY <1>1 DEF HubInv, LoginKept, LineKept, LineOnce, SleepKept, DeliveredRan, Busy
  <1>3. Keeps(h, r)
    BY <1>1 DEF LoginKept, Keeps, Hand, Busy
  <1> QED
    BY <1>1, <1>2, <1>3 DEF Kept, HubInv, LoginKept, r

-----------------------------------------------------------------------------
(* The ladder *)

LEMMA KeptAlso ==
  ASSUME NEW h, NEW g, NEW r, NEW q, Keeps(h, g), Kept(g, r, q)
  PROVE  Kept(h, r, q)
  <1>1. g.line = h.line /\ g.ended = h.ended /\ Hand(g) = Hand(h)
    BY DEF Keeps
  <1> QED
    BY <1>1 DEF Kept, Keeps, Ends1, MovedOn

LEMMA CommandInHand ==
  ASSUME World, NEW q, NEW h \in HubStates, HubInv(h, q), Busy(h)
  PROVE  h.cmd \in 1..Len(asked) /\ ~Holds(h.line, h.cmd)
  BY DEF HubInv, LineKept, Holds, World, HubStates

\* An attempt repeats the bytes of the command in hand, or packs it anew where that is allowed.
LEMMA Retries ==
  ASSUME World, NEW q \in Seq(Uplinks), NEW h \in HubStates, NEW e \in Envs, HubInv(h, q),
         h.awaiting, ~h.relogin, h.frame = NoFrame => Optimistic \/ KindOf(h.cmd) # "ota"
  PROVE  Kept(h, Transmit(h, TRUE, e), q)
  <1> DEFINE r == Transmit(h, TRUE, e)
  <1>1. LineKept(h) /\ LineOnce(h) /\ SlotKept(h) /\ SleepKept(h) /\ AirKept(h, q) /\ DeliveredRan(h)
    BY DEF HubInv
  <1>2. ~h.deferred /\ Busy(h)
    BY <1>1 DEF SlotKept, Busy
  <1>3. h.cmd \in 1..Len(asked) /\ ~Holds(h.line, h.cmd)
    BY <1>2, CommandInHand
  <1>4. ASSUME h.frame = NoFrame, NEW f \in Packed(h), f.cmd = h.cmd PROVE ~Live(f, h)
    BY <1>1, <1>4 DEF AirKept, FramesKept, Live, NoFrame
  <1>5. r \in HubStates /\ r.awaiting /\ Unmoved(h, r) /\ SlotKept(r) /\ AirKept(r, q)
    BY <1>1, <1>2, <1>3, <1>4, Sends
  <1> HIDE DEF r
  <1>6. LineKept(r) /\ LineOnce(r) /\ SleepKept(r) /\ DeliveredRan(r)
    <2>1. /\ r.line = h.line /\ r.ended = h.ended /\ r.cmd = h.cmd /\ Busy(r) /\ r.asleep = h.asleep
          /\ r.hold = h.hold
      BY <1>5 DEF Unmoved, Still, Busy
    <2>2. LineKept(r)
      BY <1>1, <1>2, <2>1 DEF LineKept
    <2> QED
      BY <1>1, <2>1, <2>2 DEF LineOnce, SleepKept, DeliveredRan
  <1>7. Keeps(h, r)
    BY <1>5 DEF Keeps, Hand, Busy, Unmoved, Still
  <1> QED
    BY <1>5, <1>6, <1>7 DEF Kept, HubInv, r

\* dlv_give_up_ and dlv_abandon_
LEMMA LadderEnds ==
  ASSUME World, NEW q \in Seq(Uplinks), NEW h \in HubStates, NEW e \in Envs, HubInv(h, q),
         ~h.deferred, ~h.relogin
  PROVE  Kept(h, GiveUp(h, e), q) /\ Kept(h, Abandon(h, e), q)
  <1> DEFINE a == [h EXCEPT !.ended = Closed(h, "failed"), !.awaiting = FALSE, !.timer = "off",
                            !.acks = <<>>]
             z == [a EXCEPT !.unconfirmed = TRUE]
             f == [a EXCEPT !.confirmed = FALSE]
             d == [f EXCEPT !.login = "due"]
  <1>0. LineKept(h) /\ SleepKept(h)
    BY DEF HubInv
  <1>1. Abandon(h, e) = NextInLine(a, e)
    BY DEF Abandon, Abandoned, Close, Closed, HubStates
  <1>2. GiveUp(h, e) = NextInLine(IF KindOf(h.cmd) = "sleep" THEN z
                                  ELSE IF e.gate THEN SendLogin(f) ELSE d, e)
    <2>1. KindOf(h.cmd) = "sleep" => Failed([h EXCEPT !.awaiting = FALSE, !.timer = "off"]) = z
      BY DEF Failed, SleepUnconfirmed, Close, Closed, HubStates
    <2>2. KindOf(h.cmd) # "sleep" => Failed([h EXCEPT !.awaiting = FALSE, !.timer = "off"]) = a
      BY DEF Failed, Close, Closed, HubStates
    <2> HIDE DEF a
    <2> QED
      BY <2>1, <2>2 DEF GiveUp, Login
  <1>3. \A m \in {a, z, f, d} :
          /\ m \in HubStates /\ SameAir(h, m) /\ m.acks = <<>> /\ ~m.awaiting /\ ~m.deferred
          /\ m.ended = Closed(h, "failed") /\ (m.asleep => m.hold)
          /\ m.pending = h.pending /\ m.relogin = h.relogin /\ m.opt = h.opt /\ m.timer = "off"
    <2> DEFINE ends == Closed(h, "failed")
               none == <<>>
               x == [h EXCEPT !.ended = ends, !.awaiting = FALSE, !.timer = "off", !.acks = none]
               Good(m) ==
                 /\ m \in HubStates /\ SameAir(h, m) /\ m.acks = none /\ ~m.awaiting /\ ~m.deferred
                 /\ m.ended = ends /\ (m.asleep => m.hold)
                 /\ m.pending = h.pending /\ m.relogin = h.relogin /\ m.opt = h.opt /\ m.timer = "off"
    <2>1. ends \in Seq(Ends) /\ none \in Seq(Nat) /\ a = x
      BY <1>0, ClosedOne
    <2> HIDE DEF ends, none, a
    <2>2. Good(x)
      BY <1>0, <2>1 DEF HubStates, SameAir, SleepKept
    <2> HIDE DEF x
    <2>3. Good(z) /\ Good(f)
      BY <2>1, <2>2 DEF HubStates, SameAir
    <2> HIDE DEF f
    <2>4. Good(d)
      BY <2>3 DEF HubStates, SameAir
    <2> HIDE DEF z, d
    <2> QED
      BY <2>1, <2>2, <2>3, <2>4 DEF ends, none
  <1> HIDE DEF a, z, f, d
  <1>4. \A m \in {a, z, f, d} : AirKept(m, q) /\ SlotKept(m) /\ Kept(h, NextInLine(m, e), q)
    BY <1>3, QuietEnds
  <1>5. Kept(h, NextInLine(SendLogin(f), e), q)
    <2> DEFINE m == SendLogin(f)
    <2>1. LoginKept(f, m) /\ AirKept(m, q) /\ SlotKept(m)
      BY <1>3, <1>4, LoginOpens
    <2> HIDE DEF m
    <2>2. /\ m \in HubStates /\ m.ended = Closed(h, "failed") /\ m.line = h.line /\ m.cmd = h.cmd
          /\ ~Busy(m) /\ m.relogin /\ (m.asleep => m.hold)
      BY <1>3, <2>1 DEF LoginKept, SameAir, Busy
    <2> QED
      BY <2>1, <2>2, Finishes DEF m
  <1> QED
    BY <1>1, <1>2, <1>4, <1>5

\* on_dlv_timeout_
LEMMA TimeoutKeeps ==
  ASSUME World, NEW q \in Seq(Uplinks), NEW h \in HubStates, NEW e \in Envs, HubInv(h, q)
  PROVE  Kept(h, TimedOut(h, e), q)
  <1> DEFINE off == [h EXCEPT !.timer = "off"]
             spent == [h EXCEPT !.shortSpent = TRUE]
             more == [h EXCEPT !.retries = @ + 1]
  <1>1. \A x \in {h, off, spent, more} : x \in HubStates /\ Alike(h, x)
    <2>1. off \in HubStates /\ Alike(h, off)
      BY DEF HubStates, Alike
    <2>2. spent \in HubStates /\ Alike(h, spent)
      BY DEF HubStates, Alike
    <2>3. more \in HubStates /\ Alike(h, more)
      <3> DEFINE n == h.retries + 1
      <3>1. n \in Nat /\ more = [h EXCEPT !.retries = n]
        BY DEF HubStates
      <3> HIDE DEF n, more
      <3> QED
        BY <3>1 DEF HubStates, Alike
    <2> HIDE DEF off, spent, more
    <2> QED
      BY <2>1, <2>2, <2>3 DEF Alike
  <1>2. TimedOut(h, e) =
          IF ~h.awaiting THEN off ELSE IF h.relogin THEN h
          ELSE IF h.timer = "short" THEN Transmit(spent, TRUE, e)
          ELSE IF h.retries + 1 > MaxRetries THEN GiveUp(more, e)
          ELSE IF Resendable(more) THEN Transmit(more, TRUE, e) ELSE Abandon(more, e)
    BY DEF TimedOut, Resend
  <1> HIDE DEF off, spent, more
  <1>3. \A x \in {h, off, spent, more} : Kept(h, x, q) /\ Keeps(h, x) /\ HubInv(x, q)
    <2>1. \A x \in {h, off, spent, more} : Kept(h, x, q) /\ Keeps(h, x)
      BY <1>1, AlikeKeeps DEF Alike, Keeps, Hand, Busy
    <2> QED
      BY <2>1 DEF Kept
  <1>4. h.awaiting /\ ~h.relogin => ~h.deferred
    BY DEF HubInv, SlotKept
  <1>5. ASSUME h.awaiting, ~h.relogin, NEW x \in {spent, more}
        PROVE  x.awaiting /\ ~x.relogin /\ ~x.deferred /\ x.frame = h.frame /\ x.cmd = h.cmd
    BY <1>1, <1>4, <1>5 DEF Alike
  <1>6. ASSUME h.awaiting, ~h.relogin, h.timer = "short"
        PROVE  Kept(h, Transmit(spent, TRUE, e), q)
    <2>1. Optimistic
      BY <1>6 DEF HubInv, SlotKept
    <2>2. Kept(spent, Transmit(spent, TRUE, e), q)
      BY <1>1, <1>3, <1>5, <1>6, <2>1, Retries
    <2> QED
      BY <1>3, <2>2, KeptAlso
  <1>7. ASSUME h.awaiting, ~h.relogin
        PROVE  Kept(h, GiveUp(more, e), q) /\ Kept(h, Abandon(more, e), q)
    BY <1>1, <1>3, <1>5, <1>7, LadderEnds, KeptAlso
  <1>8. ASSUME h.awaiting, ~h.relogin, Resendable(more)
        PROVE  Kept(h, Transmit(more, TRUE, e), q)
    <2>1. Kept(more, Transmit(more, TRUE, e), q)
      BY <1>1, <1>3, <1>5, <1>8, Retries DEF Resendable
    <2> QED
      BY <1>3, <2>1, KeptAlso
  <1> QED
    BY <1>2, <1>3, <1>6, <1>7, <1>8

-----------------------------------------------------------------------------
(* The nightly sleep's expiry *)

\* One who waits is taken out of the line.
LEMMA LineThins ==
  ASSUME World, NEW h \in HubStates, LineKept(h), LineOnce(h), NEW n \in 1..Len(h.line)
  PROVE  LET rest == Without(h.line, n)
         IN  /\ rest \in Seq(Nat) /\ Distinct(rest) /\ Len(rest) = Len(h.line) - 1
             /\ \A x : Holds(rest, x) <=> Holds(h.line, x) /\ x # h.line[n]
             /\ \A m \in 1..Len(rest) :
                  /\ rest[m] \in 1..Len(asked) /\ rest[m] # h.cmd /\ rest[m] # h.line[n]
                  /\ h.ended[rest[m]] = "open"
             /\ \A m, k \in 1..Len(rest) :
                  KindOf(rest[m]) = KindOf(rest[k]) /\ KindOf(rest[m]) \in {"cover", "sleep"} => m = k
             /\ \A m \in 1..Len(rest) :
                  KindOf(h.line[n]) \in {"cover", "sleep"} => KindOf(rest[m]) # KindOf(h.line[n])
  <1> DEFINE rest == Without(h.line, n)
  <1>1. /\ rest \in Seq(Nat) /\ Len(rest) = Len(h.line) - 1 /\ Distinct(rest)
        /\ \A j \in 1 .. Len(h.line) - 1 : rest[j] = IF j < n THEN h.line[j] ELSE h.line[j + 1]
        /\ \A x : Holds(rest, x) <=> Holds(h.line, x) /\ x # h.line[n]
    <2> DEFINE line == h.line
    <2>1. line \in Seq(Nat) /\ Distinct(line) /\ n \in 1..Len(line)
      BY DEF LineKept, HubStates
    <2> HIDE DEF line
    <2>2. /\ Without(line, n) \in Seq(Nat) /\ Len(Without(line, n)) = Len(line) - 1
          /\ Distinct(Without(line, n))
          /\ \A j \in 1 .. Len(line) - 1 : Without(line, n)[j] = IF j < n THEN line[j] ELSE line[j + 1]
          /\ \A x : Holds(Without(line, n), x) <=> Holds(line, x) /\ x # line[n]
      BY <2>1, WithoutOne
    <2> QED
      BY <2>2 DEF line
  <1> HIDE DEF rest
  <1>2. Len(h.line) \in Nat /\ n \in Nat
    BY DEF HubStates
  <1>3. \A m \in 1..Len(rest) :
          \E k \in 1..Len(h.line) : rest[m] = h.line[k] /\ k # n /\ k = IF m < n THEN m ELSE m + 1
    <2> SUFFICES ASSUME NEW m \in 1..Len(rest)
                 PROVE  \E k \in 1..Len(h.line) :
                          rest[m] = h.line[k] /\ k # n /\ k = IF m < n THEN m ELSE m + 1
      OBVIOUS
    <2>1. PICK k : k = IF m < n THEN m ELSE m + 1
      OBVIOUS
    <2>2. k \in 1..Len(h.line) /\ k # n /\ m \in 1 .. Len(h.line) - 1
      BY <1>1, <1>2, <2>1
    <2>3. rest[m] = h.line[k]
      BY <1>1, <2>1, <2>2
    <2> QED
      BY <2>1, <2>2, <2>3
  <1>4. \A m \in 1..Len(rest) :
          /\ rest[m] \in 1..Len(asked) /\ rest[m] # h.cmd /\ rest[m] # h.line[n]
          /\ h.ended[rest[m]] = "open"
    <2> SUFFICES ASSUME NEW m \in 1..Len(rest)
                 PROVE  /\ rest[m] \in 1..Len(asked) /\ rest[m] # h.cmd /\ rest[m] # h.line[n]
                        /\ h.ended[rest[m]] = "open"
      OBVIOUS
    <2>1. PICK k \in 1..Len(h.line) : rest[m] = h.line[k] /\ k # n
      BY <1>3
    <2> QED
      BY <2>1 DEF LineKept, Distinct
  <1>5. \A m, k \in 1..Len(rest) :
          KindOf(rest[m]) = KindOf(rest[k]) /\ KindOf(rest[m]) \in {"cover", "sleep"} => m = k
    <2>1. ASSUME NEW m \in 1..Len(rest), NEW k \in 1..Len(rest),
                 KindOf(rest[m]) = KindOf(rest[k]), KindOf(rest[m]) \in {"cover", "sleep"}
          PROVE  m = k
      <3>1. PICK a \in 1..Len(h.line) : rest[m] = h.line[a] /\ a = IF m < n THEN m ELSE m + 1
        BY <1>3
      <3>2. PICK b \in 1..Len(h.line) : rest[k] = h.line[b] /\ b = IF k < n THEN k ELSE k + 1
        BY <1>3
      <3>3. a = b
        BY <2>1, <3>1, <3>2 DEF LineOnce
      <3> QED
        BY <1>2, <3>1, <3>2, <3>3
    <2> QED
      BY <2>1
  <1>6. \A m \in 1..Len(rest) :
          KindOf(h.line[n]) \in {"cover", "sleep"} => KindOf(rest[m]) # KindOf(h.line[n])
    BY <1>3 DEF LineOnce
  <1> QED
    BY <1>1, <1>4, <1>5, <1>6 DEF rest

LEMMA FoundThere ==
  ASSUME NEW line, NEW k, Places(line, k) # {}
  PROVE  Found(line, k) \in 1..Len(line) /\ KindOf(line[Found(line, k)]) = k
  BY DEF Found, Places

\* A sleep that waits is withdrawn.
Withdraws(h, r) ==
    /\ Hand(r) = Hand(h)
    /\ \E n \in Places(h.line, "sleep") :
         r.line = Without(h.line, n) /\ r.ended = [h.ended EXCEPT ![h.line[n]] = "dropped"]

LEMMA SleepExpires ==
  ASSUME World, NEW q \in Seq(Uplinks), NEW h \in HubStates, NEW e \in Envs, HubInv(h, q)
  PROVE  LET r == SleepExpired(h, e) IN Kept(h, r, q) \/ (HubInv(r, q) /\ Withdraws(h, r))
  <1> DEFINE x == [h EXCEPT !.expiry = FALSE]
  <1>0. LineKept(h) /\ LineOnce(h) /\ SlotKept(h) /\ SleepKept(h) /\ AirKept(h, q) /\ DeliveredRan(h)
    BY DEF HubInv
  <1>1. Kept(h, x, q)
    <2>1. x \in HubStates /\ Alike(h, x)
      BY DEF HubStates, Alike
    <2> QED
      BY <2>1, AlikeKeeps
  <1>2. CASE ~h.relogin
    BY <1>1, <1>2 DEF SleepExpired
  <1>3. CASE h.relogin /\ SleepInHand(h)
    <2> DEFINE ends == Closed(h, "failed")
               m == [h EXCEPT !.expiry = FALSE, !.deferred = FALSE, !.timer = "off",
                              !.awaiting = FALSE, !.unconfirmed = TRUE, !.ended = ends]
    <2>1. SleepExpired(h, e) = NextInLine(m, e)
      BY <1>3 DEF SleepExpired, SleepUnconfirmed, Close, Closed, HubStates
    <2>2. ends \in Seq(Ends)
      BY <1>0, ClosedOne
    <2> HIDE DEF ends
    <2>3. /\ m \in HubStates /\ SameAir(h, m) /\ ~m.awaiting /\ ~m.deferred /\ m.acks = h.acks
          /\ m.relogin /\ m.asleep = h.asleep /\ m.hold = h.hold /\ m.ended = ends
          /\ m.pending = h.pending /\ m.opt = h.opt /\ m.timer = "off"
      BY <1>3, <2>2 DEF HubStates, SameAir
    <2> HIDE DEF m
    <2>4. AirKept(m, q)
      BY <1>0, <1>3, <2>3, Shrinks DEF SameAir, SlotKept, Acknowledges
    <2>5. SlotKept(m) /\ (m.asleep => m.hold) /\ ~Busy(m)
      BY <1>0, <1>3, <2>3 DEF SlotKept, SameAir, SleepKept, Busy
    <2> QED
      BY <2>1, <2>3, <2>4, <2>5, Finishes DEF ends, SameAir
  <1>4. CASE h.relogin /\ ~SleepInHand(h) /\ Places(h.line, "sleep") = {}
    <2>1. h.ended = [i \in DOMAIN h.ended |-> h.ended[i]]
      BY DEF HubStates
    <2>2. SleepExpired(h, e) = [x EXCEPT !.line = h.line, !.ended = h.ended]
      BY <1>4, <2>1 DEF SleepExpired, Removed, Gone, HubStates
    <2>3. [x EXCEPT !.line = h.line, !.ended = h.ended] \in HubStates
          /\ Alike(h, [x EXCEPT !.line = h.line, !.ended = h.ended])
      BY DEF HubStates, Alike
    <2> QED
      BY <2>2, <2>3, AlikeKeeps
  <1>5. CASE h.relogin /\ ~SleepInHand(h) /\ Places(h.line, "sleep") # {}
    <2> DEFINE n == Found(h.line, "sleep")
               rest == Without(h.line, n)
               ends == [i \in DOMAIN h.ended |-> IF i = h.line[n] THEN "dropped" ELSE h.ended[i]]
               r == [h EXCEPT !.expiry = FALSE, !.line = rest, !.ended = ends]
    <2>1. n \in 1..Len(h.line) /\ KindOf(h.line[n]) = "sleep"
      BY <1>5, FoundThere
    <2>2. SleepExpired(h, e) = r
      BY <1>5 DEF SleepExpired, Removed, Gone, HubStates
    <2>3. /\ rest \in Seq(Nat) /\ Distinct(rest) /\ Len(rest) = Len(h.line) - 1
          /\ \A y : Holds(rest, y) <=> Holds(h.line, y) /\ y # h.line[n]
          /\ \A m \in 1..Len(rest) :
               /\ rest[m] \in 1..Len(asked) /\ rest[m] # h.cmd /\ rest[m] # h.line[n]
               /\ h.ended[rest[m]] = "open"
          /\ \A m, k \in 1..Len(rest) :
               KindOf(rest[m]) = KindOf(rest[k]) /\ KindOf(rest[m]) \in {"cover", "sleep"} => m = k
      BY <1>0, <2>1, LineThins
    <2>4. h.line[n] \in 1..Len(asked) /\ h.line[n] # h.cmd /\ DOMAIN h.ended = 1..Len(asked)
          /\ Len(asked) \in Nat /\ h.ended \in Seq(Ends)
      BY <1>0, <2>1 DEF LineKept, HubStates, World
    <2>5. ends \in Seq(Ends) /\ Len(ends) = Len(asked) /\ ends = [h.ended EXCEPT ![h.line[n]] = "dropped"]
          /\ \A i \in 1..Len(asked) : ends[i] = IF i = h.line[n] THEN "dropped" ELSE h.ended[i]
      <3>1. "dropped" \in Ends
        BY DEF Ends, Line!Endings
      <3>2. ends = [i \in 1..Len(asked) |-> IF i = h.line[n] THEN "dropped" ELSE h.ended[i]]
        BY <2>4
      <3>3. \A i \in 1..Len(asked) : h.ended[i] \in Ends
        BY <2>4
      <3> QED
        BY <2>4, <3>1, <3>2, <3>3
    <2> HIDE DEF n, rest, ends
    <2>6. /\ r \in HubStates /\ r.line = rest /\ r.ended = ends
          /\ r.cmd = h.cmd /\ r.awaiting = h.awaiting /\ r.deferred = h.deferred /\ r.acks = h.acks
          /\ r.frame = h.frame /\ r.hold = h.hold /\ r.asleep = h.asleep /\ r.relogin = h.relogin
          /\ r.pending = h.pending /\ r.key = h.key /\ r.sess = h.sess /\ r.tx = h.tx /\ r.sent = h.sent
          /\ r.opt = h.opt /\ r.timer = h.timer
      BY <2>3, <2>5 DEF HubStates, SameAir
    <2> HIDE DEF r
    <2>7. AirKept(r, q)
      <3>1. \A i : Holds(r.line, i) => Holds(h.line, i)
        BY <2>3, <2>6
      <3>2. \A i : Acknowledges(r, i) => Acknowledges(h, i)
        BY <2>6 DEF Acknowledges
      <3> QED
        BY <1>0, <2>6, <3>1, <3>2, Shrinks
    <2>8. SlotKept(r) /\ SleepKept(r)
      BY <1>0, <2>6 DEF SlotKept, SleepKept
    <2>9. LineKept(r)
      <3>1. h.cmd \in 1..Len(asked) => r.ended[h.cmd] = h.ended[h.cmd]
        BY <2>4, <2>5, <2>6
      <3>2. ~Busy(r) => r.line = <<>>
        <4>1. ~Busy(r) => h.line = <<>>
          BY <1>0, <2>6 DEF Busy, LineKept
        <4> QED
          BY <2>1, <4>1
      <3>3. Len(r.line) <= QueueDepth
        <4>1. Len(h.line) \in Nat /\ Len(h.line) <= QueueDepth /\ QueueDepth \in Nat
          BY <1>0, PolicyAssumption DEF LineKept, HubStates
        <4> QED
          BY <2>3, <2>6, <4>1
      <3> QED
        BY <1>0, <2>3, <2>4, <2>5, <2>6, <3>1, <3>2, <3>3, SMTT(30) DEF LineKept, Busy
    <2>10. LineOnce(r)
      BY <2>3, <2>6 DEF LineOnce
    <2>11. DeliveredRan(r)
      BY <1>0, <2>4, <2>5, <2>6 DEF DeliveredRan, LineKept
    <2>12. Withdraws(h, r)
      <3>1. n \in Places(h.line, "sleep")
        BY <2>1 DEF Places
      <3> QED
        BY <2>5, <2>6, <3>1 DEF Withdraws, Hand, Busy, rest
    <2> QED
      BY <2>2, <2>6, <2>7, <2>8, <2>9, <2>10, <2>11, <2>12 DEF HubInv
  <1> QED
    BY <1>2, <1>3, <1>4, <1>5

-----------------------------------------------------------------------------
(* What the hub hears *)

LEMMA TailPlaces ==
  ASSUME NEW S, NEW q \in Seq(S), q # <<>>
  PROVE  /\ Tail(q) \in Seq(S) /\ Len(q) \in Nat /\ 1 \in 1..Len(q) /\ Head(q) = q[1]
         /\ Len(Tail(q)) = Len(q) - 1
         /\ \A i \in 1..Len(Tail(q)) : i \in Nat /\ Tail(q)[i] = q[i + 1] /\ i + 1 \in 1..Len(q)
  OBVIOUS

LEMMA HeardOfLess ==
  ASSUME World, NEW q \in Seq(Uplinks), q # <<>>, NEW h \in HubStates, HubInv(h, q)
  PROVE  HubInv(h, Tail(q)) /\ (AcksKept(q) => AcksKept(Tail(q)))
  <1> DEFINE t == Tail(q)
  <1>1. /\ t \in Seq(Uplinks) /\ Len(q) \in Nat /\ Len(t) = Len(q) - 1
        /\ \A i \in 1..Len(t) : i \in Nat /\ t[i] = q[i + 1] /\ i + 1 \in 1..Len(q)
    BY TailPlaces
  <1> HIDE DEF t
  <1>2. KeysKept(h, q)
    BY DEF HubInv, AirKept
  <1>3. KeysKept(h, t)
    <2>1. ASSUME NEW i \in 1..Len(t), IsRegister(t[i]), h.key # 0
          PROVE  node.key # h.key /\ \A j \in i+1..Len(t) : t[j].key # h.key
      <3>1. node.key # h.key /\ \A j \in (i + 1)+1..Len(q) : q[j].key # h.key
        BY <1>1, <1>2, <2>1 DEF KeysKept
      <3>2. \A j \in i+1..Len(t) : t[j] = q[j + 1] /\ j + 1 \in (i + 1)+1..Len(q)
        BY <1>1
      <3> QED
        BY <3>1, <3>2
    <2>2. ASSUME NEW i \in 1..Len(t), NEW j \in 1..Len(t), i < j, IsRegister(t[j]), t[i].key # 0
          PROVE  node.key # t[i].key /\ \A l \in j+1..Len(t) : t[l].key # t[i].key
      <3>1. i + 1 < j + 1
        BY <1>1, <2>2
      <3>2. node.key # q[i + 1].key /\ \A l \in (j + 1)+1..Len(q) : q[l].key # q[i + 1].key
        BY <1>1, <1>2, <2>2, <3>1 DEF KeysKept
      <3>3. \A l \in j+1..Len(t) : t[l] = q[l + 1] /\ l + 1 \in (j + 1)+1..Len(q)
        BY <1>1
      <3> QED
        BY <1>1, <3>2, <3>3
    <2> QED
      BY <1>1, <1>2, <2>1, <2>2 DEF KeysKept
  <1>4. AcksKept(q) => AcksKept(t)
    BY <1>1 DEF AcksKept
  <1> QED
    BY <1>3, <1>4 DEF HubInv, AirKept, t

\* handle_register_
LEMMA Registers ==
  ASSUME World, NEW q \in Seq(Uplinks), q # <<>>, IsRegister(q[1]),
         NEW h \in HubStates, HubInv(h, q)
  PROVE  Kept(h, Registered(h), q)
  <1> DEFINE r == Registered(h)
  <1>0. LineKept(h) /\ LineOnce(h) /\ SlotKept(h) /\ SleepKept(h) /\ AirKept(h, q) /\ DeliveredRan(h)
    BY DEF HubInv
  <1>1. /\ r \in HubStates /\ r.cmd = h.cmd /\ r.awaiting = h.awaiting /\ r.deferred = h.deferred
        /\ r.acks = h.acks /\ r.frame = NoFrame /\ r.line = h.line /\ r.relogin /\ ~r.pending
        /\ r.key = 0 /\ r.sess = h.sess /\ r.tx = h.tx /\ r.sent = h.sent /\ r.ended = h.ended
        /\ r.opt = h.opt /\ r.timer = h.timer /\ ~r.asleep
    BY NoFrameIsFrame DEF Registered, Heard, HubStates
  <1> HIDE DEF r
  <1>2. Packed(r) \subseteq Packed(h)
    BY <1>1 DEF Packed
  <1>3. FramesKept(r)
    BY <1>0, <1>1, <1>2 DEF AirKept, FramesKept, Live
  <1>4. h.key # 0 => node.key # h.key /\ \A i \in 1..Len(q) : q[i].key # h.key
    <2>1. \A i \in 1..Len(q) : i = 1 \/ i \in 1+1..Len(q)
      OBVIOUS
    <2>2. 1 \in 1..Len(q)
      BY TailPlaces
    <2> QED
      BY <1>0, <2>1, <2>2 DEF AirKept, KeysKept, IsRegister
  <1>5. KeysKept(r, q)
    <2>1. 0 <= node.nonces
      BY DEF World, NodeStates
    <2> QED
      BY <1>0, <1>1, <1>2, <1>4, <2>1 DEF AirKept, KeysKept
  <1>6. MemoryKept(r)
    BY <1>0, <1>1, <1>2, <1>4 DEF AirKept, MemoryKept
  <1>7. SlotKept(r) /\ SleepKept(r) /\ LineKept(r) /\ LineOnce(r) /\ DeliveredRan(r)
    <2>1. SlotKept(r)
      BY <1>0, <1>1 DEF SlotKept
    <2>2. SleepKept(r) /\ DeliveredRan(r)
      BY <1>0, <1>1 DEF SleepKept, DeliveredRan
    <2>3. LineKept(r)
      BY <1>0, <1>1 DEF LineKept, Busy
    <2>4. LineOnce(r)
      BY <1>0, <1>1 DEF LineOnce
    <2> QED
      BY <2>1, <2>2, <2>3, <2>4
  <1>8. Keeps(h, r)
    BY <1>1 DEF Keeps, Hand, Busy
  <1>9. RecognitionKept(r)
    <2>1. Unfinished(r) \subseteq Unfinished(h)
      BY <1>1 DEF Unfinished
    <2>2. OneCommand(r)
      BY <1>0, <1>1, <2>1 DEF AirKept, RecognitionKept, OneCommand
    <2>3. WindowKept(r)
      BY <1>0, <1>1, <1>4 DEF AirKept, RecognitionKept, WindowKept
    <2> QED
      BY <1>0, <2>1, <2>2, <2>3 DEF AirKept, RecognitionKept
  <1> QED
    BY <1>1, <1>3, <1>5, <1>6, <1>7, <1>8, <1>9 DEF Kept, HubInv, AirKept, r

\* confirm_session_: the key it learns has sealed nothing yet.
LEMMA Confirms ==
  ASSUME World, NEW q \in Seq(Uplinks), q # <<>>, NEW h \in HubStates, NEW e \in Envs, HubInv(h, q),
         NEW k, k = q[1].key, k # 0, q[1].sess = h.sess, k = h.key \/ h.key = 0, ~h.asleep
  PROVE  LET r == Confirm(h, k, e)
         IN  HubInv(r, q) /\ Keeps(h, r) /\ ~r.deferred /\ ~r.relogin /\ r.key = k
  <1> DEFINE login == IF h.login = "sent" THEN "off" ELSE h.login
             c == [h EXCEPT !.confirmed = TRUE, !.relogin = FALSE, !.pending = FALSE, !.key = k,
                            !.hold = FALSE, !.login = login]
             g == [c EXCEPT !.deferred = FALSE]
  <1>0. LineKept(h) /\ LineOnce(h) /\ SlotKept(h) /\ AirKept(h, q) /\ DeliveredRan(h)
    BY DEF HubInv
  <1>1. 1 \in 1..Len(q) /\ k \in Nat
    BY TailPlaces, UplinkFields
  <1>2. /\ c \in HubStates /\ c.cmd = h.cmd /\ c.awaiting = h.awaiting /\ c.deferred = h.deferred
        /\ c.acks = h.acks /\ c.frame = h.frame /\ c.line = h.line /\ ~c.relogin /\ ~c.pending
        /\ c.key = k /\ c.sess = h.sess /\ c.tx = h.tx /\ c.sent = h.sent /\ c.ended = h.ended
        /\ c.opt = h.opt /\ c.timer = h.timer /\ ~c.asleep /\ ~c.hold
    <2>1. login \in {"due", "sent", "fallback", "off"}
      BY DEF HubStates
    <2> HIDE DEF login
    <2>2. c \in HubStates
      BY <1>1, <2>1, ZenonT(30) DEF HubStates
    <2>3. /\ c.cmd = h.cmd /\ c.awaiting = h.awaiting /\ c.deferred = h.deferred
          /\ c.acks = h.acks /\ c.frame = h.frame /\ c.line = h.line /\ ~c.relogin /\ ~c.pending
          /\ c.key = k /\ c.sess = h.sess
      BY <1>1, <2>1 DEF HubStates
    <2>4. /\ c.tx = h.tx /\ c.sent = h.sent /\ c.ended = h.ended
          /\ c.opt = h.opt /\ c.timer = h.timer /\ ~c.asleep /\ ~c.hold
      BY <1>1, <2>1 DEF HubStates
    <2> QED
      BY <2>2, <2>3, <2>4
  <1>3. Confirm(h, k, e) = IF h.deferred THEN SendInHand(c, e) ELSE c
    BY DEF Confirm, HubStates
  <1> HIDE DEF c
  <1>4. /\ g \in HubStates /\ g.cmd = h.cmd /\ g.awaiting = h.awaiting /\ ~g.deferred
        /\ g.acks = h.acks /\ g.frame = h.frame /\ g.line = h.line /\ ~g.relogin /\ ~g.pending
        /\ g.key = k /\ g.sess = h.sess /\ g.tx = h.tx /\ g.sent = h.sent /\ g.ended = h.ended
        /\ g.opt = h.opt /\ g.timer = h.timer /\ Still(g, c) /\ (~c.deferred => g = c)
    <2>1. g \in HubStates
      BY <1>2 DEF HubStates
    <2>2. /\ g.cmd = c.cmd /\ g.awaiting = c.awaiting /\ ~g.deferred
          /\ g.acks = c.acks /\ g.frame = c.frame /\ g.line = c.line /\ g.relogin = c.relogin
          /\ g.pending = c.pending /\ g.key = c.key /\ g.sess = c.sess /\ g.tx = c.tx
          /\ g.sent = c.sent /\ g.ended = c.ended /\ g.opt = c.opt /\ g.timer = c.timer
      BY <1>2, SMTT(20) DEF HubStates
    <2>3. Still(g, c) /\ (~c.deferred => g = c)
      BY <1>2 DEF HubStates, Still
    <2> QED
      BY <1>2, <2>1, <2>2, <2>3
  <1> HIDE DEF g
  <1>5. Packed(g) = Packed(h) /\ \A n : Acknowledges(g, n) => Acknowledges(h, n)
    BY <1>4 DEF Packed, Acknowledges
  <1>6. AirKept(g, q)
    <2>1. CASE k = h.key
      <3>1. h.deferred => \A n : ~Acknowledges(g, n)
        BY <1>0, <1>4, <2>1 DEF SlotKept, Acknowledges
      <3> QED
        BY <1>0, <1>4, <1>5, <2>1, <3>1, Shrinks
    <2>2. CASE h.key = 0
      <3>1. \A f \in Packed(h) : f.key # k
        BY <1>0, <1>1, <2>2 DEF AirKept, KeysKept
      <3>2. FramesKept(g)
        <4>1. \A f \in Packed(g) : ~Live(f, g)
          BY <1>4, <1>5, <3>1 DEF Live
        <4> QED
          BY <1>0, <1>4, <1>5, <4>1 DEF AirKept, FramesKept
      <3>3. KeysKept(g, q)
        <4>1. ASSUME NEW i \in 1..Len(q), IsRegister(q[i])
              PROVE  node.key # k /\ \A j \in i+1..Len(q) : q[j].key # k
          <5>1. 1 < i
            BY <1>1, <4>1 DEF IsRegister
          <5> QED
            BY <1>0, <1>1, <4>1, <5>1 DEF AirKept, KeysKept
        <4>2. k <= node.nonces
          BY <1>0, <1>1 DEF AirKept, KeysKept
        <4> QED
          BY <1>0, <1>4, <1>5, <2>2, <4>1, <4>2 DEF AirKept, KeysKept
      <3>4. MemoryKept(g)
        <4>1. node.key = k => node.cache = <<>>
          BY <1>0, <1>1, <2>2 DEF AirKept, KeysKept, MemoryKept
        <4>2. node.cache = <<>> => Cache = {}
          BY DEF Cache
        <4> QED
          BY <1>0, <1>4, <1>5, <2>2, <4>1, <4>2 DEF AirKept, MemoryKept
      <3>5. RecognitionKept(g)
        <4>1. Unfinished(g) = Unfinished(h)
          BY <1>4 DEF Unfinished
        <4>2. OneCommand(g)
          BY <1>0, <1>4, <4>1 DEF AirKept, RecognitionKept, OneCommand
        <4>3. node.key = k => node.win.mark = 0 /\ 0 <= h.tx
          BY <1>0, <1>1, <2>2 DEF AirKept, KeysKept, RecognitionKept, WindowKept, HubStates
        <4>4. WindowKept(g)
          BY <1>0, <1>4, <2>2, <4>3 DEF AirKept, RecognitionKept, WindowKept
        <4> QED
          BY <1>0, <4>1, <4>2, <4>4 DEF AirKept, RecognitionKept
      <3> QED
        BY <3>2, <3>3, <3>4, <3>5 DEF AirKept
    <2> QED
      BY <2>1, <2>2
  <1>7. SlotKept(g)
    BY <1>0, <1>4 DEF SlotKept
  <1>8. CASE h.deferred
    <2> DEFINE r == SendInHand(c, e)
    <2>1. h.cmd \in 1..Len(asked) /\ ~Holds(h.line, h.cmd)
      BY <1>8, CommandInHand DEF Busy
    <2>2. \A f \in Packed(g) : f.cmd # c.cmd
      BY <1>0, <1>2, <1>5, <1>8 DEF AirKept, FramesKept
    <2>a. \A f \in c.sent : f.cmd = 0
      BY <1>0, <1>2, <1>8 DEF AirKept, FramesKept, Packed, RecognitionKept, OneCommand
    <2>3. GoesOut(c, e, q)
      BY <1>2, <1>4, <1>6, <1>7, <2>1, <2>2, <2>a, InHandGoesOut
    <2>4. /\ r \in HubStates /\ r.awaiting /\ ~r.deferred /\ r.cmd = h.cmd /\ SlotKept(r) /\ AirKept(r, q)
          /\ r.line = h.line /\ r.ended = h.ended /\ ~r.asleep /\ ~r.relogin /\ r.key = k
      BY <1>2, <2>3 DEF GoesOut, Still
    <2> HIDE DEF r
    <2>5. LineKept(r) /\ LineOnce(r) /\ SleepKept(r) /\ DeliveredRan(r)
      BY <1>0, <1>8, <2>4 DEF LineKept, LineOnce, SleepKept, DeliveredRan, Busy
    <2>6. Keeps(h, r)
      BY <1>8, <2>4 DEF Keeps, Hand, Busy
    <2> QED
      BY <1>3, <1>8, <2>4, <2>5, <2>6 DEF HubInv, r
  <1>9. CASE ~h.deferred
    <2>1. c = g
      BY <1>2, <1>4, <1>9
    <2>2. LineKept(g) /\ LineOnce(g) /\ SleepKept(g) /\ DeliveredRan(g)
      BY <1>0, <1>2, <1>4, <1>9, <2>1 DEF LineKept, LineOnce, SleepKept, DeliveredRan, Busy
    <2>3. Keeps(h, g)
      BY <1>4, <1>9 DEF Keeps, Hand, Busy
    <2> QED
      BY <1>3, <1>4, <1>6, <1>7, <1>9, <2>1, <2>2, <2>3 DEF HubInv
  <1> QED
    BY <1>8, <1>9

\* handle_encrypted_, uplink_accept_: an ack on record is of the command in hand, which ran.
LEMMA Answers ==
  ASSUME World, NEW q \in Seq(Uplinks), q # <<>>, NEW h \in HubStates, NEW e \in Envs, HubInv(h, q),
         AcksKept(q), NEW u, u = q[1], ~IsRegister(u), Decrypts(h, u)
  PROVE  Kept(h, Answered(h, u, e), q)
  <1> DEFINE d == Heard(h)
             r == Confirm(d, u.key, e)
  <1>1. Kept(h, d, q) /\ HubInv(d, q) /\ Keeps(h, d) /\ d \in HubStates
    <2>1. d \in HubStates /\ Alike(h, d)
      BY DEF Heard, HubStates, Alike
    <2>2. Kept(h, d, q)
      BY <2>1, AlikeKeeps
    <2> QED
      BY <2>1, <2>2 DEF Kept, Alike, Keeps, Hand, Busy
  <1>2. d.key = h.key /\ d.sess = h.sess /\ ~d.asleep
    BY DEF Heard, HubStates
  <1> HIDE DEF d
  <1>3. u.key # 0 /\ u.sess = h.sess /\ (u.key = h.key \/ h.key = 0)
    BY DEF IsRegister, Decrypts
  <1>4. HubInv(r, q) /\ Keeps(d, r) /\ ~r.deferred /\ ~r.relogin /\ r.key = u.key
    BY <1>1, <1>2, <1>3, Confirms
  <1>5. r \in HubStates
    BY <1>4 DEF HubInv
  <1> HIDE DEF r
  <1>6. Keeps(h, r)
    BY <1>1, <1>4 DEF Keeps
  <1>7. ASSUME u.ack # 0, u.ok, Acknowledges(r, u.ack)
        PROVE  \E x \in ran : x[1] = r.cmd
    <2>1. PICK x \in ran : x[2] = u.key /\ x[3] = u.ack
      <3>1. 1 \in 1..Len(q)
        BY TailPlaces
      <3> QED
        BY <1>3, <1>7, <3>1 DEF AcksKept
    <2> DEFINE f == [key |-> x[2], fcnt |-> x[3], cmd |-> x[1]]
    <2>2. f \in Packed(r) /\ f.key = u.key /\ f.fcnt = u.ack /\ f.cmd = x[1]
      BY <2>1 DEF Packed
    <2> HIDE DEF f
    <2>3. Live(f, r)
      BY <1>3, <1>4, <2>2 DEF Live
    <2>4. f.cmd = r.cmd
      BY <1>4, <1>7, <2>2, <2>3 DEF HubInv, AirKept, FramesKept
    <2> QED
      BY <2>2, <2>4
  <1>8. Kept(r, r, q)
    BY <1>4 DEF Kept, Keeps
  <1>9. Kept(r, Dispatched(r, u, e), q)
    <2>1. Kept(r, Refused(r, e), q)
      BY <1>4, <1>5, AckEnds
    <2>2. u.ack # 0 /\ u.ok /\ Acknowledges(r, u.ack) => Kept(r, Acked(r, e), q)
      BY <1>4, <1>5, <1>7, AckEnds
    <2> QED
      BY <1>8, <2>1, <2>2 DEF Dispatched, CommandAck
  <1>10. Answered(h, u, e) = Dispatched(r, u, e)
    BY DEF Answered, r, d
  <1> QED
    BY <1>6, <1>9, <1>10, KeptAlso

-----------------------------------------------------------------------------
(* The hub's handlers *)

LEMMA InvIs ==
  DeliveryInv <=> Typed /\ HubInv(hub, up) /\ AcksKept(up) /\ RunsKept
  BY DEF DeliveryInv, HubInv, AirKept, Typed

LEMMA WorldIs == Typed => World
  BY DEF Typed, World

\* What holds of the hub's new state and the old world holds of it in a world unchanged.
LEMMA WorldStays ==
  ASSUME UNCHANGED <<asked, node, ran>>, HubInv(hub', up')
  PROVE  HubInv(hub, up)'
  <1>1. (LineKept(hub) /\ LineOnce(hub) /\ SlotKept(hub) /\ SleepKept(hub) /\ DeliveredRan(hub))'
    BY DEF HubInv, LineKept, LineOnce, SlotKept, SleepKept, DeliveredRan, KindOf, Busy, Distinct
  <1>2. FramesKept(hub)'
    BY DEF HubInv, AirKept, FramesKept, Packed, Live, Acknowledges, KindOf, Holds
  <1>3. KeysKept(hub, up)'
    BY DEF HubInv, AirKept, KeysKept, Packed, IsRegister
  <1>4. MemoryKept(hub)'
    BY DEF HubInv, AirKept, MemoryKept, Packed, Cache
  <1>5. (hub \in HubStates)'
    BY DEF HubInv, HubStates
  <1>6. RecognitionKept(hub)'
    BY DEF HubInv, AirKept, RecognitionKept, OneCommand, WindowKept, Unfinished, Recognised, New,
           Overtook, Cache
  <1> QED
    BY <1>1, <1>2, <1>3, <1>4, <1>5, <1>6 DEF HubInv, AirKept

\* The line as CommandLine sees it, in one step.
LineStep == [Line!LineNext]_(Line!lineVars)

LEMMA LineMoves ==
  ASSUME UNCHANGED asked, Keeps(hub, hub') \/ Ends1(hub, hub')
  PROVE  LineStep
  <1>1. CASE Keeps(hub, hub')
    BY <1>1 DEF Keeps, LineStep, Line!lineVars, Hand, Busy
  <1>2. CASE Ends1(hub, hub')
    <2>1. PICK o \in {"delivered", "failed"} : hub'.ended = [hub.ended EXCEPT ![Hand(hub)] = o]
      BY <1>2 DEF Ends1
    <2>2. Line!End(o)
      BY <1>2, <2>1 DEF Ends1, MovedOn, Line!End, Hand, Busy
    <2> QED
      BY <2>2 DEF LineStep, Line!LineNext
  <1> QED
    BY <1>1, <1>2

Step == DeliveryInv' /\ LineStep

LEMMA HandlerKeeps ==
  ASSUME DeliveryInv, UNCHANGED <<asked, node, ran>>, up' \in Seq(Uplinks), AcksKept(up'),
         faults' \in Nat, HubInv(hub', up')
  PROVE  DeliveryInv'
  <1>1. Typed /\ RunsKept
    BY InvIs
  <1>2. HubInv(hub, up)'
    BY WorldStays
  <1>3. Typed'
    BY <1>1, <1>2 DEF Typed, HubInv
  <1>4. AcksKept(up)' /\ RunsKept'
    BY <1>1 DEF AcksKept, RunsKept, Sealed
  <1> QED
    BY <1>2, <1>3, <1>4 DEF DeliveryInv, HubInv, AirKept

LEMMA HandlerMoves ==
  ASSUME DeliveryInv, UNCHANGED <<asked, node, ran>>, UNCHANGED up, faults' \in Nat, Kept(hub, hub', up)
  PROVE  Step
  <1>1. up \in Seq(Uplinks) /\ AcksKept(up)
    BY InvIs DEF Typed
  <1>2. HubInv(hub', up')
    BY DEF Kept
  <1>3. DeliveryInv'
    BY <1>1, <1>2, HandlerKeeps
  <1>4. LineStep
    BY LineMoves DEF Kept
  <1> QED
    BY <1>3, <1>4 DEF Step

LEMMA FaultsCounted ==
  ASSUME Typed, NEW e \in Env, faults' = IF e.ok THEN faults ELSE faults + 1
  PROVE  e \in Envs /\ faults' \in Nat
  BY EnvIsTyped DEF Typed

LEMMA TimeoutStep == DeliveryInv /\ Timeout => Step
  <1> SUFFICES ASSUME DeliveryInv, Timeout PROVE Step
    OBVIOUS
  <1>1. PICK e \in Env : hub' = TimedOut(hub, e) /\ faults' = IF e.ok THEN faults ELSE faults + 1
    BY DEF Timeout, Handle
  <1>2. Typed /\ World /\ hub \in HubStates /\ up \in Seq(Uplinks) /\ HubInv(hub, up)
    BY InvIs, WorldIs DEF Typed
  <1>3. e \in Envs /\ faults' \in Nat
    BY <1>1, <1>2, FaultsCounted
  <1>4. Kept(hub, hub', up)
    BY <1>1, <1>2, <1>3, TimeoutKeeps
  <1> QED
    BY <1>3, <1>4, HandlerMoves DEF Timeout

LEMMA TimerSteps == DeliveryInv /\ (LoginTimer \/ FallbackSkipped \/ WakeTime) => Step
  <1> SUFFICES ASSUME DeliveryInv, LoginTimer \/ FallbackSkipped \/ WakeTime PROVE Step
    OBVIOUS
  <1>1. Typed /\ World /\ hub \in HubStates /\ up \in Seq(Uplinks) /\ HubInv(hub, up) /\ faults \in Nat
    BY InvIs, WorldIs DEF Typed
  <1>2. ASSUME LoginTimer PROVE Kept(hub, hub', up)
    BY <1>1, <1>2, LoginKeeps DEF LoginTimer
  <1>3. ASSUME FallbackSkipped PROVE Kept(hub, hub', up)
    <2>1. hub' \in HubStates /\ Alike(hub, hub')
      BY <1>1, <1>3 DEF FallbackSkipped, HubStates, Alike
    <2> QED
      BY <1>1, <2>1, AlikeKeeps
  <1>4. ASSUME WakeTime PROVE Kept(hub, hub', up)
    <2>1. hub' \in HubStates /\ Alike(hub, hub')
      BY <1>1, <1>4 DEF WakeTime, HubStates, Alike
    <2> QED
      BY <1>1, <2>1, AlikeKeeps
  <1>5. UNCHANGED <<asked, node, ran>> /\ UNCHANGED up /\ faults' = faults
    BY DEF LoginTimer, FallbackSkipped, WakeTime
  <1> QED
    BY <1>1, <1>2, <1>3, <1>4, <1>5, HandlerMoves

LEMMA ExpiryStep == DeliveryInv /\ SleepExpiry => Step
  <1> SUFFICES ASSUME DeliveryInv, SleepExpiry PROVE Step
    OBVIOUS
  <1>1. PICK e \in Env : hub' = SleepExpired(hub, e) /\ faults' = IF e.ok THEN faults ELSE faults + 1
    BY DEF SleepExpiry, Handle
  <1>2. Typed /\ World /\ hub \in HubStates /\ up \in Seq(Uplinks) /\ HubInv(hub, up) /\ AcksKept(up)
    BY InvIs, WorldIs DEF Typed
  <1>3. e \in Envs /\ faults' \in Nat
    BY <1>1, <1>2, FaultsCounted
  <1>4. UNCHANGED <<asked, node, ran>> /\ UNCHANGED up
    BY DEF SleepExpiry
  <1>5. Kept(hub, hub', up) \/ (HubInv(hub', up) /\ Withdraws(hub, hub'))
    BY <1>1, <1>2, <1>3, SleepExpires
  <1>6. CASE Kept(hub, hub', up)
    BY <1>3, <1>4, <1>6, HandlerMoves
  <1>7. CASE HubInv(hub', up) /\ Withdraws(hub, hub')
    <2>1. DeliveryInv'
      BY <1>2, <1>3, <1>4, <1>7, HandlerKeeps
    <2>2. Line!DropSleep
      BY <1>4, <1>7 DEF Withdraws, Places, KindOf, Hand, Busy, Line!DropSleep, Line!Waiting, Line!Without, Without
    <2> QED
      BY <2>1, <2>2 DEF Step, LineStep, Line!LineNext
  <1> QED
    BY <1>5, <1>6, <1>7

LEMMA ReceiveStep == DeliveryInv /\ Receive => Step
  <1> SUFFICES ASSUME DeliveryInv, Receive PROVE Step
    OBVIOUS
  <1>1. Typed /\ World /\ hub \in HubStates /\ up \in Seq(Uplinks) /\ HubInv(hub, up) /\ AcksKept(up)
        /\ faults \in Nat
    BY InvIs, WorldIs DEF Typed
  <1>2. /\ up # <<>> /\ Head(up) = up[1] /\ up' = Tail(up) /\ up' \in Seq(Uplinks)
        /\ UNCHANGED <<asked, node, ran>>
    BY <1>1, TailPlaces DEF Receive
  <1>3. Kept(hub, hub', up) /\ faults' \in Nat
    <2>1. CASE IsRegister(up[1])
      <3>1. PICK e \in Env : hub' = Registered(hub) /\ faults' = IF e.ok THEN faults ELSE faults + 1
        BY <1>2, <2>1 DEF Receive, Handle
      <3>2. faults' \in Nat
        BY <1>1, <3>1, FaultsCounted
      <3> QED
        BY <1>1, <1>2, <2>1, <3>1, <3>2, Registers
    <2>2. CASE ~IsRegister(up[1]) /\ Decrypts(hub, up[1])
      <3>1. PICK e \in Env : hub' = Answered(hub, up[1], e) /\ faults' = IF e.ok THEN faults ELSE faults + 1
        BY <1>2, <2>2 DEF Receive, HandleEncrypted, Handle
      <3>2. e \in Envs /\ faults' \in Nat
        BY <1>1, <3>1, FaultsCounted
      <3> QED
        BY <1>1, <1>2, <2>2, <3>1, <3>2, Answers
    <2>3. CASE ~IsRegister(up[1]) /\ ~Decrypts(hub, up[1])
      <3>1. hub' = hub /\ faults' = faults
        BY <1>2, <2>3 DEF Receive, HandleEncrypted
      <3> QED
        BY <1>1, <3>1 DEF Kept, Keeps
    <2> QED
      BY <2>1, <2>2, <2>3
  <1>4. HubInv(hub', up') /\ AcksKept(up')
    <2>1. HubInv(hub', up) /\ hub' \in HubStates
      BY <1>3 DEF Kept, HubInv
    <2> QED
      BY <1>1, <1>2, <2>1, HeardOfLess
  <1>5. DeliveryInv'
    BY <1>2, <1>3, <1>4, HandlerKeeps
  <1>6. LineStep
    BY <1>2, <1>3, LineMoves DEF Kept
  <1> QED
    BY <1>5, <1>6 DEF Step

-----------------------------------------------------------------------------
(* A new command *)

\* A command of kind k is given.
Grows(k) == k \in Kinds /\ asked' = Append(asked, k) /\ UNCHANGED <<node, ran>>

LEMMA Grown ==
  ASSUME World, NEW k, Grows(k)
  PROVE  /\ World' /\ Len(asked) \in Nat /\ Len(asked') = Len(asked) + 1
         /\ asked'[Len(asked) + 1] = k
         /\ \A i \in 1..Len(asked) : asked'[i] = asked[i] /\ i \in 1..Len(asked') /\ i # Len(asked) + 1
         /\ \A i \in 1..Len(asked') : i \in 1..Len(asked) \/ i = Len(asked) + 1
  BY DEF World, Grows

\* How the commands end when a new one ends as o and makes those of Old superseded.
Added(h, o, Old) ==
    [i \in 1..Len(h.ended) + 1 |->
        IF i = Len(h.ended) + 1 THEN o ELSE IF i \in Old THEN "superseded" ELSE h.ended[i]]

LEMMA AddedOne ==
  ASSUME World, NEW h \in HubStates, Len(h.ended) = Len(asked), NEW o \in Ends, NEW Old
  PROVE  /\ Added(h, o, Old) \in Seq(Ends) /\ Len(Added(h, o, Old)) = Len(asked) + 1
         /\ Added(h, o, Old)[Len(asked) + 1] = o
         /\ \A i \in 1..Len(asked) : Added(h, o, Old)[i] = IF i \in Old THEN "superseded" ELSE h.ended[i]
  <1>1. /\ \A i \in 1..Len(asked) : h.ended[i] \in Ends
        /\ Len(asked) \in Nat
    BY DEF World, HubStates
  <1>2. "superseded" \in Ends
    BY DEF Ends, Line!Endings
  <1>3. Added(h, o, Old) = [i \in 1..Len(asked) + 1 |->
          IF i = Len(asked) + 1 THEN o ELSE IF i \in Old THEN "superseded" ELSE h.ended[i]]
    BY DEF Added
  <1> QED
    BY <1>1, <1>2, <1>3

\* The hub's state but for the line, the ends and the expiry timer.
SameSlot(h, r) ==
    /\ r.cmd = h.cmd /\ r.awaiting = h.awaiting /\ r.acks = h.acks /\ r.deferred = h.deferred
    /\ r.frame = h.frame /\ r.hold = h.hold /\ r.relogin = h.relogin /\ r.pending = h.pending
    /\ r.key = h.key /\ r.sess = h.sess /\ r.tx = h.tx /\ r.sent = h.sent /\ r.opt = h.opt
    /\ r.timer = h.timer /\ r.asleep = h.asleep

LEMMA AirGrows ==
  ASSUME World, NEW k, Grows(k), NEW q \in Seq(Uplinks), NEW h \in HubStates, NEW r, AirKept(h, q),
         SameSlot(h, r), \A i : Holds(r.line, i) => Holds(h.line, i) \/ i = Len(asked) + 1
  PROVE  AirKept(r, q)' /\ \A f \in Packed(r)' : f.cmd \in 1..Len(asked)
  <1>1. node' = node /\ ran' = ran
    BY DEF Grows
  <1>2. /\ Len(asked) \in Nat /\ Len(asked') = Len(asked) + 1
        /\ \A i \in 1..Len(asked) : asked'[i] = asked[i] /\ i \in 1..Len(asked') /\ i # Len(asked) + 1
    BY Grown
  <1>3. Packed(r)' = Packed(h)
    BY <1>1 DEF Packed, SameSlot
  <1>4. \A f \in Packed(h) : f.cmd \in 1..Len(asked) /\ ~Holds(r.line, f.cmd)
    BY <1>2 DEF AirKept, FramesKept
  <1>5. FramesKept(r)'
    <2>1. \A i \in 1..Len(asked) : KindOf(i)' = KindOf(i)
      BY <1>2 DEF KindOf
    <2>2. \A n : Acknowledges(r, n)' <=> Acknowledges(h, n)
      BY DEF Acknowledges, SameSlot
    <2>3. \A f : Live(f, r)' <=> Live(f, h)
      BY DEF Live, SameSlot
    <2>4. \A f \in Packed(h) :
           /\ f.cmd \in 1..Len(asked') /\ ~Holds(r.line, f.cmd) /\ (r.deferred => f.cmd # r.cmd)
           /\ Live(f, h) =>
                /\ f.fcnt <= r.tx
                /\ ~r.deferred /\ Acknowledges(h, f.fcnt) => f.cmd = r.cmd
                /\ r.frame # NoFrame /\ f.fcnt = r.frame.fcnt => f.cmd = r.frame.cmd
                /\ r.awaiting /\ f.cmd = r.cmd => f = r.frame
      BY <1>2, <1>4 DEF AirKept, FramesKept, SameSlot
    <2>5. \A f, g \in Packed(h) :
           /\ f.cmd = g.cmd
           /\ (f.key = g.key /\ f.key # 0) \/ (KindOf(f.cmd)' = "ota" /\ ~Optimistic)
           => f = g
      BY <1>4, <2>1 DEF AirKept, FramesKept
    <2> QED
      BY <1>3, <2>2, <2>3, <2>4, <2>5 DEF FramesKept, Holds
  <1>6. KeysKept(r, q)'
    BY <1>1, <1>3 DEF AirKept, KeysKept, SameSlot, IsRegister
  <1>7. MemoryKept(r)'
    <2>1. Cache' = Cache
      BY <1>1 DEF Cache
    <2> QED
      BY <1>1, <1>3, <2>1 DEF AirKept, MemoryKept, SameSlot
  <1>8. RecognitionKept(r)'
    <2>1. /\ Unfinished(r) = Unfinished(h) /\ Cache' = Cache
          /\ \A f : Recognised(f)' <=> Recognised(f)
      BY <1>1 DEF Unfinished, SameSlot, Cache, Recognised, New, Overtook
    <2>2. OneCommand(r)
      BY <2>1 DEF AirKept, RecognitionKept, OneCommand, SameSlot
    <2>3. WindowKept(r)'
      BY <1>1, <2>1 DEF AirKept, RecognitionKept, WindowKept, SameSlot
    <2> QED
      BY <1>1, <2>1, <2>2, <2>3 DEF AirKept, RecognitionKept, OneCommand, Unfinished
  <1> QED
    BY <1>3, <1>4, <1>5, <1>6, <1>7, <1>8 DEF AirKept

\* A new command that does not start: it is ignored, or is refused, or waits.
LEMMA WaitsOrNot ==
  ASSUME World, NEW k, Grows(k), NEW q \in Seq(Uplinks), NEW h \in HubStates, HubInv(h, q),
         NEW r \in HubStates, SameSlot(h, r), NEW o \in {"open", "full", "ignored"}, NEW Old,
         r.ended = Added(h, o, Old),
         \A i \in Old : Holds(h.line, i) /\ ~Holds(r.line, i),
         Distinct(r.line), Len(r.line) <= QueueDepth, Busy(h) \/ r.line = <<>>,
         \A n \in 1..Len(r.line) : Holds(h.line, r.line[n]) \/ r.line[n] = Len(asked) + 1,
         o = "open" \/ \A n \in 1..Len(r.line) : Holds(h.line, r.line[n]),
         LineOnce(r)'
  PROVE  HubInv(r, q)'
  <1>0. LineKept(h) /\ SlotKept(h) /\ SleepKept(h) /\ AirKept(h, q) /\ DeliveredRan(h)
    BY DEF HubInv
  <1>1. /\ Len(asked) \in Nat /\ Len(asked') = Len(asked) + 1
        /\ \A i \in 1..Len(asked) : asked'[i] = asked[i] /\ i \in 1..Len(asked') /\ i # Len(asked) + 1
        /\ \A i \in 1..Len(asked') : i \in 1..Len(asked) \/ i = Len(asked) + 1
        /\ Len(asked) + 1 \in 1..Len(asked')
    BY Grown
  <1>2. /\ Len(r.ended) = Len(asked) + 1 /\ r.ended[Len(asked) + 1] = o
        /\ \A i \in 1..Len(asked) : r.ended[i] = IF i \in Old THEN "superseded" ELSE h.ended[i]
    <2>1. o \in Ends
      BY DEF Ends, Line!Endings
    <2> QED
      BY <1>0, <2>1, AddedOne DEF LineKept
  <1>3. AirKept(r, q)'
    <2>1. \A i : Holds(r.line, i) => Holds(h.line, i) \/ i = Len(asked) + 1
      BY DEF Holds
    <2> QED
      BY <1>0, <2>1, AirGrows
  <1>4. SlotKept(r)'
    BY <1>0 DEF SlotKept, SameSlot
  <1>5. h.cmd \in 0..Len(asked) /\ ~Holds(h.line, h.cmd)
    BY <1>0, <1>1 DEF LineKept, Holds, HubStates
  <1>6. SleepKept(r)'
    <2>1. h.awaiting => h.cmd \in 1..Len(asked)
      BY <1>0, <1>1, <1>5 DEF LineKept, Busy
    <2> QED
      BY <1>0, <1>1, <2>1 DEF SleepKept, SameSlot, KindOf
  <1>7. LineKept(r)'
    <2>1. r.cmd = h.cmd /\ (Busy(r)' <=> Busy(h))
      BY DEF SameSlot, Busy
    <2>2. h.cmd # 0 => r.ended[h.cmd] = h.ended[h.cmd]
      BY <1>1, <1>2, <1>5
    <2>3. ASSUME NEW n \in 1..Len(r.line)
          PROVE  r.line[n] \in 1..Len(asked') /\ r.line[n] # h.cmd /\ r.ended[r.line[n]] = "open"
      <3>1. CASE Holds(h.line, r.line[n])
        <4>1. r.line[n] \in 1..Len(asked) /\ r.line[n] # h.cmd /\ h.ended[r.line[n]] = "open"
          BY <1>0, <3>1 DEF LineKept, Holds
        <4>2. r.line[n] \notin Old
          BY <2>3 DEF Holds
        <4> QED
          BY <1>1, <1>2, <4>1, <4>2
      <3>2. CASE r.line[n] = Len(asked) + 1 /\ o = "open"
        BY <1>1, <1>2, <1>5, <3>2
      <3> QED
        BY <3>1, <3>2
    <2>4. ~Busy(h) => r.line = <<>>
      OBVIOUS
    <2> QED
      BY <1>0, <1>1, <1>2, <1>5, <2>1, <2>2, <2>3, <2>4 DEF LineKept, Distinct
  <1>8. DeliveredRan(r)'
    <2>1. ran' = ran
      BY DEF Grows
    <2>2. \A i \in 1..Len(r.ended) : r.ended[i] = "delivered" => i \in 1..Len(h.ended) /\ h.ended[i] = "delivered"
      <3>1. o # "delivered" /\ Len(h.ended) = Len(asked)
        BY <1>0 DEF LineKept
      <3> QED
        BY <1>1, <1>2, <3>1
    <2> QED
      BY <1>0, <2>1, <2>2 DEF DeliveredRan
  <1> QED
    BY <1>3, <1>4, <1>6, <1>7, <1>8 DEF HubInv

BeginNow(h, id, e) == Begin(h, id, FALSE, e)

\* A new command that starts: nothing is in hand, or what is in hand gives way to it.
LEMMA StartsNow ==
  ASSUME World, NEW k, Grows(k), NEW q \in Seq(Uplinks), NEW h \in HubStates, HubInv(h, q),
         NEW e \in Envs, NEW b \in HubStates, SameSlot(h, b), b.line = h.line,
         NEW Old, b.ended = Added(h, "open", Old), Old \subseteq {h.cmd},
         ~Busy(h) \/ h.cmd \in Old, k = "sleep" \/ ~h.asleep,
         NEW id, id = Len(asked) + 1, NEW r, r = BeginNow(b, id, e)
  PROVE  HubInv(r, q)' /\ Hand(r) = id /\ r.line = h.line /\ r.ended = b.ended
  <1>0. LineKept(h) /\ LineOnce(h) /\ SlotKept(h) /\ SleepKept(h) /\ AirKept(h, q) /\ DeliveredRan(h)
    BY DEF HubInv
  <1>1. /\ World' /\ Len(asked) \in Nat /\ Len(asked') = Len(asked) + 1 /\ asked'[id] = k
        /\ \A i \in 1..Len(asked) : asked'[i] = asked[i] /\ i \in 1..Len(asked') /\ i # id
        /\ \A i \in 1..Len(asked') : i \in 1..Len(asked) \/ i = id
        /\ id \in 1..Len(asked') /\ id # 0
    BY Grown
  <1>2. /\ Len(b.ended) = id /\ b.ended[id] = "open"
        /\ \A i \in 1..Len(asked) : b.ended[i] = IF i \in Old THEN "superseded" ELSE h.ended[i]
    <2>1. "open" \in Ends
      BY DEF Ends
    <2> QED
      BY <1>0, <2>1, AddedOne DEF LineKept
  <1>3. \A n \in 1..Len(h.line) : h.line[n] \in 1..Len(asked) /\ h.line[n] # h.cmd /\ h.ended[h.line[n]] = "open"
    BY <1>0 DEF LineKept
  <1>4. AirKept(b, q)' /\ \A f \in Packed(b)' : f.cmd \in 1..Len(asked)
    BY <1>0, AirGrows
  <1>5. SlotKept(b)' /\ ~Holds(b.line, id)
    BY <1>0, <1>1, <1>3 DEF SlotKept, SameSlot, Holds
  <1>6. Takes(b, id, FALSE, e, q)'
    <2>1. BeginsWell'
      BY Begins, PTL
    <2>2. /\ id \in 1..Len(asked') /\ \A f \in Packed(b)' : f.cmd # id
      BY <1>1, <1>4
    <2> QED
      BY <1>1, <1>4, <1>5, <2>1, <2>2 DEF BeginsWell, Holds
  <1>7. /\ r \in HubStates /\ Busy(r) /\ r.cmd = id /\ Still(b, r) /\ SlotKept(r)' /\ AirKept(r, q)'
    BY <1>6 DEF Takes, BeginNow, Begin, SendInHand, Busy
  <1>8. /\ r.line = h.line /\ r.ended = b.ended /\ r.hold = h.hold /\ r.asleep = h.asleep
    BY <1>7 DEF Still, SameSlot
  <1>9. LineKept(r)'
    <2>1. \A n \in 1..Len(h.line) :
            h.line[n] \in 1..Len(asked') /\ h.line[n] # id /\ b.ended[h.line[n]] = "open"
      <3> SUFFICES ASSUME NEW n \in 1..Len(h.line)
                   PROVE  h.line[n] \in 1..Len(asked') /\ h.line[n] # id /\ b.ended[h.line[n]] = "open"
        OBVIOUS
      <3>1. h.line[n] \in 1..Len(asked) /\ h.line[n] \notin Old /\ h.ended[h.line[n]] = "open"
        BY <1>3
      <3> QED
        BY <1>1, <1>2, <3>1
    <2>2. r.cmd = id /\ id \in 0..Len(asked') /\ id # 0 /\ Busy(r)' /\ Len(r.ended) = Len(asked')
          /\ r.ended[id] = "open"
      BY <1>1, <1>2, <1>7, <1>8 DEF Busy
    <2>3. Distinct(h.line) /\ Len(h.line) <= QueueDepth
      BY <1>0 DEF LineKept
    <2>4. Distinct(r.line)'
      BY <1>8, <2>3 DEF Distinct
    <2> QED
      BY <1>8, <2>1, <2>2, <2>3, <2>4 DEF LineKept
  <1>10. LineOnce(r)'
    <2>1. \A n \in 1..Len(h.line) : asked'[h.line[n]] = asked[h.line[n]]
      BY <1>1, <1>3
    <2> QED
      BY <1>0, <1>8, <2>1 DEF LineOnce, KindOf
  <1>11. SleepKept(r)'
    BY <1>0, <1>1, <1>7, <1>8 DEF SleepKept, KindOf
  <1>12. DeliveredRan(r)'
    <2>1. ran' = ran
      BY DEF Grows
    <2>2. \A i \in 1..Len(r.ended) : r.ended[i] = "delivered" => i \in 1..Len(h.ended) /\ h.ended[i] = "delivered"
      <3>1. Len(h.ended) = Len(asked)
        BY <1>0 DEF LineKept
      <3>2. ASSUME NEW i \in 1..Len(r.ended), r.ended[i] = "delivered"
            PROVE  i \in 1..Len(asked) /\ h.ended[i] = "delivered"
        <4>1. i \in 1..Len(asked')
          BY <1>1, <1>2, <1>8
        <4>2. i # id
          BY <1>2, <1>8, <3>2
        <4> QED
          BY <1>1, <1>2, <1>8, <3>2, <4>1, <4>2
      <3> QED
        BY <3>1, <3>2
    <2> QED
      BY <1>0, <2>1, <2>2 DEF DeliveredRan
  <1> QED
    BY <1>7, <1>8, <1>9, <1>10, <1>11, <1>12 DEF HubInv, Hand

\* The line a new command of kind k joins, and who gave up its place for it.
Room(h, k)  == IF k = "cover" THEN Removed(h.line, k) ELSE h.line
Given(h, k) == IF k = "cover" THEN Gone(h.line, k) ELSE {}

LEMMA RoomMade ==
  ASSUME World, NEW k \in Kinds, NEW h \in HubStates, LineKept(h), LineOnce(h)
  PROVE  LET rest == Room(h, k)
         IN  /\ rest \in Seq(Nat) /\ Distinct(rest) /\ Len(rest) <= QueueDepth
             /\ \A i : Holds(rest, i) => Holds(h.line, i)
             /\ \A i \in Given(h, k) : Holds(h.line, i) /\ ~Holds(rest, i)
             /\ \A m, n \in 1..Len(rest) :
                  KindOf(rest[m]) = KindOf(rest[n]) /\ KindOf(rest[m]) \in {"cover", "sleep"} => m = n
             /\ k = "cover" => \A m \in 1..Len(rest) : KindOf(rest[m]) # k
             /\ \/ k = "cover" /\ \E n \in Places(h.line, k) :
                     rest = Without(h.line, n) /\ Given(h, k) = {h.line[n]}
                \/ ~(k = "cover" /\ Places(h.line, k) # {}) /\ rest = h.line /\ Given(h, k) = {}
  <1>1. CASE k = "cover" /\ Places(h.line, k) # {}
    <2> DEFINE n == Found(h.line, k)
    <2>1. n \in 1..Len(h.line) /\ KindOf(h.line[n]) = k /\ n \in Places(h.line, k)
      BY <1>1, FoundThere DEF Places
    <2>2. Room(h, k) = Without(h.line, n) /\ Given(h, k) = {h.line[n]}
      BY <1>1 DEF Room, Given, Removed, Gone
    <2> HIDE DEF n
    <2>3. LET rest == Without(h.line, n)
          IN  /\ rest \in Seq(Nat) /\ Distinct(rest) /\ Len(rest) = Len(h.line) - 1
              /\ \A x : Holds(rest, x) <=> Holds(h.line, x) /\ x # h.line[n]
              /\ \A m, j \in 1..Len(rest) :
                   KindOf(rest[m]) = KindOf(rest[j]) /\ KindOf(rest[m]) \in {"cover", "sleep"} => m = j
              /\ \A m \in 1..Len(rest) :
                   KindOf(h.line[n]) \in {"cover", "sleep"} => KindOf(rest[m]) # KindOf(h.line[n])
      BY <2>1, LineThins
    <2>4. Len(h.line) \in Nat /\ Len(h.line) <= QueueDepth /\ QueueDepth \in Nat
      BY PolicyAssumption DEF LineKept, HubStates
    <2>5. Len(Without(h.line, n)) <= QueueDepth
      BY <2>3, <2>4
    <2>6. Holds(h.line, h.line[n])
      BY <2>1 DEF Holds
    <2> QED
      BY <1>1, <2>1, <2>2, <2>3, <2>5, <2>6
  <1>2. CASE ~(k = "cover" /\ Places(h.line, k) # {})
    <2>1. Room(h, k) = h.line /\ Given(h, k) = {}
      BY <1>2 DEF Room, Given, Removed, Gone
    <2>2. k = "cover" => \A m \in 1..Len(h.line) : KindOf(h.line[m]) # k
      BY <1>2 DEF Places
    <2> QED
      BY <1>2, <2>1, <2>2 DEF LineKept, LineOnce, HubStates
  <1> QED
    BY <1>1, <1>2

\* ctl_submit_, and what it makes of the line.
SubmitMoves(h, r, k) ==
    \/ Hand(r) = Hand(h) /\ r.line = h.line /\ r.ended = Added(h, "ignored", {})
    \/ /\ r.line = h.line /\ Hand(r) = Len(asked) + 1
       /\ \/ Hand(h) = 0 /\ r.ended = Added(h, "open", {})
          \/ /\ k = "cover" /\ Hand(h) # 0 /\ KindOf(Hand(h)) = "cover"
             /\ r.ended = Added(h, "open", {Hand(h)})
    \/ /\ Hand(h) # 0 /\ Hand(r) = Hand(h) /\ ~(k = "cover" /\ KindOf(Hand(h)) = "cover")
       /\ IF Len(Room(h, k)) < QueueDepth
            THEN r.line = Append(Room(h, k), Len(asked) + 1) /\ r.ended = Added(h, "open", Given(h, k))
            ELSE r.line = Room(h, k) /\ r.ended = Added(h, "full", Given(h, k))

LEMMA Submits ==
  ASSUME World, NEW k \in Kinds, Grows(k), NEW q \in Seq(Uplinks), NEW h \in HubStates, HubInv(h, q),
         NEW e \in Envs, NEW r, r = Submitted(h, k, e)
  PROVE  HubInv(r, q)' /\ SubmitMoves(h, r, k)
  <1>0. LineKept(h) /\ LineOnce(h)
    BY DEF HubInv
  <1>1. PICK id, rest, gone : id = Len(asked) + 1 /\ rest = Room(h, k) /\ gone = Given(h, k)
    OBVIOUS
  <1>2. /\ id \in Nat /\ id = Len(h.ended) + 1 /\ asked'[id] = k
        /\ \A i \in 1..Len(asked) : asked'[i] = asked[i] /\ i # id
    <2>1. Len(asked) \in Nat /\ asked'[id] = k /\ \A i \in 1..Len(asked) : asked'[i] = asked[i]
      BY <1>1, Grown
    <2> QED
      BY <1>0, <1>1, <2>1 DEF LineKept
  <1> DEFINE s == IF k = "sleep" THEN [h EXCEPT !.expiry = TRUE] ELSE h
             Y(x, ends) == [x EXCEPT !.ended = ends]
             Z(line, ends) == [s EXCEPT !.line = line, !.ended = ends]
  <1>4. SameSlot(h, h)
    BY DEF SameSlot
  <1>3. s \in HubStates /\ SameSlot(h, s) /\ s.line = h.line
    <2> DEFINE x == [h EXCEPT !.expiry = TRUE]
    <2>1. x \in HubStates /\ SameSlot(h, x) /\ x.line = h.line
      BY DEF HubStates, SameSlot
    <2>2. s = IF k = "sleep" THEN x ELSE h
      OBVIOUS
    <2> HIDE DEF x, s
    <2> QED
      BY <1>4, <2>1, <2>2
  <1>5. ASSUME NEW o \in {"open", "full", "ignored"}, NEW Old PROVE Added(h, o, Old) \in Seq(Ends)
    <2>1. o \in Ends
      BY DEF Ends, Line!Endings
    <2> QED
      BY <1>0, <2>1, AddedOne DEF LineKept
  <1>6. ASSUME NEW x \in HubStates, SameSlot(h, x), x.line = h.line, NEW ends \in Seq(Ends)
        PROVE  /\ Y(x, ends) \in HubStates /\ SameSlot(h, Y(x, ends)) /\ Y(x, ends).line = h.line
               /\ Y(x, ends).ended = ends
    BY <1>6 DEF HubStates, SameSlot
  <1>7. ASSUME NEW line \in Seq(Nat), NEW ends \in Seq(Ends)
        PROVE  /\ Z(line, ends) \in HubStates /\ SameSlot(h, Z(line, ends)) /\ Z(line, ends).line = line
               /\ Z(line, ends).ended = ends
    <2> HIDE DEF s
    <2> QED
      BY <1>3, <1>7 DEF HubStates, SameSlot
  <1>8. \A x : SameSlot(h, x) => Hand(x) = Hand(h)
    BY DEF SameSlot, Hand, Busy
  <1>9. /\ rest \in Seq(Nat) /\ Distinct(rest) /\ Len(rest) <= QueueDepth
        /\ \A i : Holds(rest, i) => Holds(h.line, i)
        /\ \A i \in gone : Holds(h.line, i) /\ ~Holds(rest, i)
        /\ \A m, n \in 1..Len(rest) :
             KindOf(rest[m]) = KindOf(rest[n]) /\ KindOf(rest[m]) \in {"cover", "sleep"} => m = n
        /\ k = "cover" => \A m \in 1..Len(rest) : KindOf(rest[m]) # k
    BY <1>0, <1>1, RoomMade
  <1>10. \A n \in 1..Len(rest) : rest[n] \in 1..Len(asked)
    <2>1. \A n \in 1..Len(rest) : Holds(h.line, rest[n])
      BY <1>9 DEF Holds
    <2> QED
      BY <1>0, <2>1 DEF LineKept, Holds
  <1> DEFINE ignored == (k = "sleep" /\ (SleepInHand(h) \/ SleepWaits(h))) \/ (k # "sleep" /\ h.asleep)
  <1>11. /\ ignored => r = Y(h, Added(h, "ignored", {}))
         /\ ~ignored /\ ~Busy(h) => r = BeginNow(Y(s, Added(h, "open", {})), id, e)
         /\ ~ignored /\ Busy(h) /\ Replaces(h, k) => r = BeginNow(Y(s, Added(h, "open", {h.cmd})), id, e)
         /\ ~ignored /\ Busy(h) /\ ~Replaces(h, k) =>
              r = IF Len(rest) = QueueDepth THEN Z(rest, Added(h, "full", gone))
                  ELSE Z(Append(rest, id), Added(h, "open", gone))
    BY <1>1, <1>2 DEF Submitted, Added, BeginNow, Room, Given
  <1> HIDE DEF s, Y, Z
  <1>12. \A n \in 1..Len(h.line) : h.line[n] \in 1..Len(asked) /\ h.line[n] \in Nat
    BY <1>0 DEF LineKept, HubStates
  <1>13. CASE ignored
    <2>1. r \in HubStates /\ SameSlot(h, r) /\ r.line = h.line /\ r.ended = Added(h, "ignored", {})
      BY <1>4, <1>5, <1>6, <1>11, <1>13
    <2>2. LineOnce(r)'
      <3>1. \A n \in 1..Len(h.line) : asked'[h.line[n]] = asked[h.line[n]]
        BY <1>2, <1>12
      <3> QED
        BY <1>0, <2>1, <3>1 DEF LineOnce, KindOf
    <2>3. /\ Distinct(r.line) /\ Len(r.line) <= QueueDepth /\ (Busy(h) \/ r.line = <<>>)
          /\ \A n \in 1..Len(r.line) : Holds(h.line, r.line[n])
      BY <1>0, <2>1 DEF LineKept, Holds
    <2>4. HubInv(r, q)'
      <3>1. \A i \in {} : Holds(h.line, i) /\ ~Holds(r.line, i)
        OBVIOUS
      <3>2. PICK o, Old :
              /\ o \in {"open", "full", "ignored"}
              /\ r.ended = Added(h, o, Old) /\ \A i \in Old : Holds(h.line, i) /\ ~Holds(r.line, i)
        BY <2>1, <3>1
      <3> QED
        BY <2>1, <2>2, <2>3, <3>2, WaitsOrNot
    <2> QED
      BY <1>8, <2>1, <2>4 DEF SubmitMoves
  <1>14. CASE ~ignored /\ ~Busy(h)
    <2> DEFINE b == Y(s, Added(h, "open", {}))
    <2>1. b \in HubStates /\ SameSlot(h, b) /\ b.line = h.line /\ b.ended = Added(h, "open", {})
      BY <1>3, <1>5, <1>6
    <2>2. r = BeginNow(b, id, e) /\ (k = "sleep" \/ ~h.asleep)
      BY <1>11, <1>14
    <2> HIDE DEF b
    <2>3. HubInv(r, q)' /\ Hand(r) = id /\ r.line = h.line /\ r.ended = b.ended
      BY <1>1, <1>14, <2>1, <2>2, StartsNow
    <2> QED
      BY <1>1, <1>14, <2>1, <2>3 DEF SubmitMoves, Hand
  <1>15. CASE ~ignored /\ Busy(h) /\ Replaces(h, k)
    <2> DEFINE b == Y(s, Added(h, "open", {h.cmd}))
    <2>1. b \in HubStates /\ SameSlot(h, b) /\ b.line = h.line /\ b.ended = Added(h, "open", {h.cmd})
      BY <1>3, <1>5, <1>6
    <2>2. r = BeginNow(b, id, e) /\ (k = "sleep" \/ ~h.asleep)
      BY <1>11, <1>15
    <2> HIDE DEF b
    <2>3. HubInv(r, q)' /\ Hand(r) = id /\ r.line = h.line /\ r.ended = b.ended
      BY <1>1, <1>15, <2>1, <2>2, StartsNow
    <2>4. Hand(h) = h.cmd /\ h.cmd # 0
      BY <1>0, <1>15 DEF Hand, LineKept
    <2> QED
      BY <1>1, <1>15, <2>1, <2>3, <2>4 DEF SubmitMoves, Replaces
  <1>16. CASE ~ignored /\ Busy(h) /\ ~Replaces(h, k)
    <2>1. \A n \in 1..Len(rest) : Holds(h.line, rest[n]) /\ asked'[rest[n]] = asked[rest[n]] /\ rest[n] # id
      BY <1>2, <1>9, <1>10 DEF Holds
    <2>2. k \in {"cover", "sleep"} => \A n \in 1..Len(rest) : KindOf(rest[n]) # k
      <3>1. k = "sleep" => \A n \in 1..Len(h.line) : KindOf(h.line[n]) # k
        BY <1>16 DEF SleepWaits, Places
      <3> QED
        BY <1>9, <2>1, <3>1 DEF Holds
    <2>3. Hand(h) = h.cmd /\ h.cmd # 0 /\ ~(k = "cover" /\ KindOf(Hand(h)) = "cover")
      BY <1>0, <1>16 DEF Hand, LineKept, Replaces
    <2>4. Len(rest) \in Nat /\ QueueDepth \in Nat
      BY <1>9, PolicyAssumption
    <2>5. CASE Len(rest) = QueueDepth
      <3>1. r \in HubStates /\ SameSlot(h, r) /\ r.line = rest /\ r.ended = Added(h, "full", gone)
        BY <1>5, <1>7, <1>9, <1>11, <1>16, <2>5
      <3>2. LineOnce(r)'
        BY <1>9, <2>1, <3>1 DEF LineOnce, KindOf
      <3>3. HubInv(r, q)'
        <4>1. /\ Distinct(r.line) /\ Len(r.line) <= QueueDepth
              /\ \A n \in 1..Len(r.line) : Holds(h.line, r.line[n])
          BY <1>9, <2>1, <3>1
        <4>2. PICK o, Old :
                /\ o \in {"open", "full", "ignored"}
                /\ r.ended = Added(h, o, Old) /\ \A i \in Old : Holds(h.line, i) /\ ~Holds(r.line, i)
          BY <1>9, <3>1
        <4> QED
          BY <1>16, <3>1, <3>2, <4>1, <4>2, WaitsOrNot
      <3> QED
        BY <1>1, <1>8, <2>3, <2>4, <2>5, <3>1, <3>3 DEF SubmitMoves
    <2>6. CASE Len(rest) # QueueDepth
      <3> DEFINE line == Append(rest, id)
      <3>1. /\ line \in Seq(Nat) /\ Distinct(line) /\ Len(line) = Len(rest) + 1
            /\ \A y : Holds(line, y) <=> Holds(rest, y) \/ y = id
        <4>1. ~Holds(rest, id)
          BY <2>1 DEF Holds
        <4> QED
          BY <1>2, <1>9, <4>1, NewcomerJoins
      <3>2. \A n \in 1..Len(line) : IF n = Len(rest) + 1 THEN line[n] = id ELSE n \in 1..Len(rest) /\ line[n] = rest[n]
        BY <1>9, <2>4, <3>1
      <3>a. r = Z(line, Added(h, "open", gone))
        BY <1>11, <1>16, <2>6
      <3> HIDE DEF line
      <3>3. r \in HubStates /\ SameSlot(h, r) /\ r.line = line /\ r.ended = Added(h, "open", gone)
        BY <1>5, <1>7, <3>1, <3>a
      <3>4. LineOnce(r)'
        <4>1. ASSUME NEW n \in 1..Len(line), NEW m \in 1..Len(line), asked'[line[n]] = asked'[line[m]],
                     asked'[line[n]] \in {"cover", "sleep"}
              PROVE  n = m
          <5>1. \A i \in 1..Len(rest) : asked'[rest[i]] = KindOf(rest[i])
            BY <2>1 DEF KindOf
          <5>2. CASE n \in 1..Len(rest) /\ m \in 1..Len(rest)
            <6>1. line[n] = rest[n] /\ line[m] = rest[m]
              BY <2>4, <3>2, <5>2
            <6>2. KindOf(rest[n]) = KindOf(rest[m]) /\ KindOf(rest[n]) \in {"cover", "sleep"}
              BY <4>1, <5>1, <5>2, <6>1
            <6> QED
              BY <1>9, <5>2, <6>2
          <5>3. CASE n = Len(rest) + 1 /\ m \in 1..Len(rest)
            BY <1>2, <2>2, <2>4, <3>2, <4>1, <5>1, <5>3
          <5>4. CASE n \in 1..Len(rest) /\ m = Len(rest) + 1
            BY <1>2, <2>2, <2>4, <3>2, <4>1, <5>1, <5>4
          <5> QED
            BY <3>2, <5>2, <5>3, <5>4
        <4> QED
          BY <3>3, <4>1 DEF LineOnce, KindOf
      <3>5. \A n \in 1..Len(line) : Holds(h.line, line[n]) \/ line[n] = Len(asked) + 1
        BY <1>1, <2>1, <3>2
      <3>6. Len(line) <= QueueDepth /\ Len(rest) < QueueDepth
        BY <1>9, <2>4, <2>6, <3>1
      <3>7. \A i \in gone : Holds(h.line, i) /\ ~Holds(line, i)
        <4>1. \A i : Holds(h.line, i) => i # id
          BY <1>2, <1>12 DEF Holds
        <4> QED
          BY <1>9, <3>1, <4>1
      <3>8. HubInv(r, q)'
        BY <1>16, <3>1, <3>3, <3>4, <3>5, <3>6, <3>7, WaitsOrNot
      <3> QED
        BY <1>1, <1>8, <2>3, <3>3, <3>6, <3>8 DEF SubmitMoves, line
    <2> QED
      BY <2>5, <2>6
  <1> QED
    BY <1>13, <1>14, <1>15, <1>16

LEMMA NextStateKept ==
  ASSUME NEW r, NEW q, r = hub', q = up', HubInv(r, q)'
  PROVE  HubInv(hub, up)'
  <1>1. (LineKept(hub) /\ LineOnce(hub) /\ SlotKept(hub) /\ SleepKept(hub) /\ DeliveredRan(hub))'
    BY DEF HubInv, LineKept, LineOnce, SlotKept, SleepKept, DeliveredRan, KindOf, Busy, Distinct
  <1>2. FramesKept(hub)'
    BY DEF HubInv, AirKept, FramesKept, Packed, Live, Acknowledges, KindOf, Holds
  <1>3. KeysKept(hub, up)'
    BY DEF HubInv, AirKept, KeysKept, Packed, IsRegister
  <1>4. MemoryKept(hub)'
    BY DEF HubInv, AirKept, MemoryKept, Packed, Cache
  <1>5. (hub \in HubStates)'
    BY DEF HubInv, HubStates
  <1>6. RecognitionKept(hub)'
    BY DEF HubInv, AirKept, RecognitionKept, OneCommand, WindowKept, Unfinished, Recognised, New,
           Overtook, Cache
  <1> QED
    BY <1>1, <1>2, <1>3, <1>4, <1>5, <1>6 DEF HubInv, AirKept

\* What a new command makes of the line is a step of CommandLine.
LEMMA SubmitIsLineStep ==
  ASSUME Typed, LineKept(hub), NEW k \in Kinds, asked' = Append(asked, k),
         NEW h, NEW r, h = hub, r = hub', SubmitMoves(h, r, k)
  PROVE  LineStep
  <1>1. /\ Len(hub.ended) = Len(asked) /\ Len(asked) \in Nat
        /\ DOMAIN asked \cup {Len(asked) + 1} = 1..Len(asked) + 1
    BY DEF Typed, LineKept
  <1>2. ASSUME NEW o, NEW Old PROVE Line!EndedWith(o, Old) = Added(hub, o, Old)
    BY <1>1 DEF Line!EndedWith, Line!Asked, Line!NewId, Added
  <1>3. Line!NewId = Len(asked) + 1
    BY DEF Line!NewId
  <1>4. CASE Hand(r) = Hand(h) /\ r.line = h.line /\ r.ended = Added(h, "ignored", {})
    <2>1. Line!Ignore(k)
      BY <1>2, <1>4 DEF Line!Ignore, Hand, Busy
    <2> QED
      BY <2>1 DEF LineStep, Line!LineNext
  <1>5. CASE r.line = h.line /\ Hand(r) = Len(asked) + 1 /\ Hand(h) = 0 /\ r.ended = Added(h, "open", {})
    <2>1. Line!Start(k)
      BY <1>2, <1>3, <1>5 DEF Line!Start, Hand, Busy
    <2> QED
      BY <2>1 DEF LineStep, Line!LineNext
  <1>6. CASE /\ r.line = h.line /\ Hand(r) = Len(asked) + 1
             /\ k = "cover" /\ Hand(h) # 0 /\ KindOf(Hand(h)) = "cover"
             /\ r.ended = Added(h, "open", {Hand(h)})
    <2>1. Line!Supersede
      BY <1>2, <1>3, <1>6 DEF Line!Supersede, Line!IsCover, KindOf, Hand, Busy
    <2> QED
      BY <2>1 DEF LineStep, Line!LineNext
  <1>7. CASE /\ Hand(h) # 0 /\ Hand(r) = Hand(h) /\ ~(k = "cover" /\ KindOf(Hand(h)) = "cover")
             /\ IF Len(Room(h, k)) < QueueDepth
                  THEN r.line = Append(Room(h, k), Len(asked) + 1) /\ r.ended = Added(h, "open", Given(h, k))
                  ELSE r.line = Room(h, k) /\ r.ended = Added(h, "full", Given(h, k))
    <2>1. Line!Queue(Room(hub, k), Given(hub, k))
      BY <1>2, <1>3, <1>7 DEF Line!Queue
    <2>2. Line!Waiting(k) = Places(hub.line, k)
      BY DEF Line!Waiting, Places, KindOf
    <2>3. Line!Wait(k)
      <3>1. CASE k = "cover" /\ Places(hub.line, k) # {}
        <4>1. Found(hub.line, k) \in Places(hub.line, k)
          BY <3>1 DEF Found
        <4>2. /\ Room(hub, k) = Line!Without(hub.line, Found(hub.line, k))
              /\ Given(hub, k) = {hub.line[Found(hub.line, k)]}
          BY <3>1 DEF Room, Given, Removed, Gone, Without, Line!Without
        <4> QED
          BY <1>7, <2>1, <2>2, <3>1, <4>1, <4>2 DEF Line!Wait, Line!IsCover, KindOf, Hand, Busy
      <3>2. CASE ~(k = "cover" /\ Places(hub.line, k) # {})
        <4>1. Room(hub, k) = hub.line /\ Given(hub, k) = {}
          BY <3>2 DEF Room, Given, Removed, Gone
        <4> QED
          BY <1>7, <2>1, <2>2, <3>2, <4>1 DEF Line!Wait, Line!IsCover, KindOf, Hand, Busy
      <3> QED
        BY <3>1, <3>2
    <2> QED
      BY <2>3 DEF LineStep, Line!LineNext
  <1> QED
    BY <1>4, <1>5, <1>6, <1>7 DEF SubmitMoves

LEMMA SubmitStep == \A k \in UserKinds : DeliveryInv /\ Submit(k) => Step
  <1> SUFFICES ASSUME NEW k \in UserKinds, DeliveryInv, Submit(k) PROVE Step
    OBVIOUS
  <1>1. PICK e \in Env : hub' = Submitted(hub, k, e) /\ faults' = IF e.ok THEN faults ELSE faults + 1
    BY DEF Submit, Handle
  <1>2. /\ Typed /\ World /\ hub \in HubStates /\ up \in Seq(Uplinks) /\ HubInv(hub, up) /\ AcksKept(up)
        /\ RunsKept
    BY InvIs, WorldIs DEF Typed
  <1>3. e \in Envs /\ faults' \in Nat
    BY <1>1, <1>2, FaultsCounted
  <1>4. k \in Kinds /\ Grows(k) /\ node' = node /\ ran' = ran /\ up' = up /\ asked' = Append(asked, k)
    BY KindsAssumption DEF Submit, Grows
  <1>5. PICK h, r, q : h = hub /\ r = hub' /\ q = up
    OBVIOUS
  <1>6. HubInv(r, q)' /\ SubmitMoves(h, r, k)
    <2>1. r = Submitted(h, k, e)
      BY <1>1, <1>5
    <2> QED
      BY <1>2, <1>3, <1>4, <1>5, <2>1, Submits
  <1>7. HubInv(hub, up)'
    BY <1>4, <1>5, <1>6, NextStateKept
  <1>8. DeliveryInv'
    <2>1. Typed'
      BY <1>2, <1>3, <1>4, <1>7 DEF Typed, HubInv
    <2>2. AcksKept(up)' /\ RunsKept'
      BY <1>2, <1>4 DEF AcksKept, RunsKept, Sealed
    <2> QED
      BY <1>7, <2>1, <2>2 DEF DeliveryInv, HubInv, AirKept
  <1>9. LineStep
    BY <1>2, <1>4, <1>5, <1>6, SubmitIsLineStep DEF HubInv
  <1> QED
    BY <1>8, <1>9 DEF Step

-----------------------------------------------------------------------------
(* The node and the radio *)

\* The replay filter never takes a frame it has taken before: an admission keeps refused what
\* was refused, and refuses what it admitted.
LEMMA WindowShuts ==
  ASSUME NEW w \in [mark : Nat, seen : SUBSET Nat], NEW a \in Nat
  PROVE  /\ Admitted(w, a, ReplayWindow) \in [mark : Nat, seen : SUBSET Nat]
         /\ ~Admissible(Admitted(w, a, ReplayWindow), a, ReplayWindow)
         /\ \A n \in Nat : ~Admissible(w, n, ReplayWindow)
                             => ~Admissible(Admitted(w, a, ReplayWindow), n, ReplayWindow)
  <1> DEFINE mark == IF a > w.mark THEN a ELSE w.mark
             seen == {n \in w.seen \cup {a} : mark - n < ReplayWindow}
  <1>1. w.mark \in Nat /\ w.seen \subseteq Nat /\ mark \in Nat /\ mark >= a /\ mark >= w.mark
    OBVIOUS
  <1>2. Admitted(w, a, ReplayWindow) = [mark |-> mark, seen |-> seen]
    BY DEF Admitted
  <1>3. seen \subseteq Nat
    BY <1>1
  <1>4. \A n : n \in seen <=> (n \in w.seen \/ n = a) /\ mark - n < ReplayWindow
    OBVIOUS
  <1>5. ReplayWindow \in Nat
    BY NodeAssumption
  <1> HIDE DEF mark, seen
  <1>6. \A n \in Nat : Admissible([mark |-> mark, seen |-> seen], n, ReplayWindow)
                         <=> n > mark \/ (mark - n < ReplayWindow /\ n \notin seen)
    BY DEF Admissible
  <1>7. ASSUME NEW n \in Nat, ~Admissible(w, n, ReplayWindow)
        PROVE  ~Admissible([mark |-> mark, seen |-> seen], n, ReplayWindow)
    <2>1. n <= w.mark /\ (w.mark - n >= ReplayWindow \/ n \in w.seen)
      BY <1>1, <1>5, <1>7 DEF Admissible
    <2> QED
      BY <1>1, <1>4, <1>5, <1>6, <2>1
  <1>8. ~Admissible([mark |-> mark, seen |-> seen], a, ReplayWindow)
    BY <1>1, <1>4, <1>5, <1>6
  <1> QED
    BY <1>1, <1>2, <1>3, <1>7, <1>8

\* Answers that are the node's own, and the one to frame a.
Gains(answers, a, ok) ==
    \A i \in 1..Len(answers) : answers[i] \in Cache \/ (answers[i].fcnt = a /\ answers[i].ok = ok)

\* The cache gains the answer to one frame, if any; at most the oldest is forgotten.
LEMMA AnswerNoted ==
  ASSUME World, NEW a \in Nat, NEW ok, ok \in BOOLEAN
  PROVE  /\ Noted(node.cache, a, ok, CacheEntries) \in Seq([fcnt : Nat, ok : BOOLEAN, reacks : Nat])
         /\ Gains(Noted(node.cache, a, ok, CacheEntries), a, ok)
  <1> DEFINE Entries == [fcnt : Nat, ok : BOOLEAN, reacks : Nat]
             c == node.cache
             room == IF Len(c) = CacheEntries THEN Tail(c) ELSE c
             new == Append(room, [fcnt |-> a, ok |-> ok, reacks |-> 0])
  <1>1. c \in Seq(Entries) /\ CacheEntries \in Nat \ {0} /\ [fcnt |-> a, ok |-> ok, reacks |-> 0] \in Entries
    BY NodeAssumption DEF World, NodeStates
  <1>2. Cache = {c[i] : i \in 1..Len(c)}
    BY DEF Cache
  <1>3. Noted(c, a, ok, CacheEntries) = IF Cached(c, a) THEN c ELSE new
    BY DEF Noted
  <1> HIDE DEF Entries, c
  <1>4. room \in Seq(Entries) /\ \A i \in 1..Len(room) : room[i] \in Cache
    <2>1. CASE Len(c) = CacheEntries
      <3>1. c # <<>>
        BY <1>1, <2>1
      <3>2. /\ Tail(c) \in Seq(Entries) /\ \A i \in 1..Len(Tail(c)) : Tail(c)[i] = c[i + 1] /\ i + 1 \in 1..Len(c)
        BY <1>1, <3>1, TailPlaces
      <3> QED
        BY <1>2, <2>1, <3>2
    <2>2. CASE Len(c) # CacheEntries
      BY <1>1, <1>2, <2>2
    <2> QED
      BY <2>1, <2>2
  <1> HIDE DEF room
  <1>5. new \in Seq(Entries) /\ Len(new) = Len(room) + 1 /\ Len(room) \in Nat
        /\ \A i \in 1..Len(new) : new[i] = IF i = Len(room) + 1 THEN [fcnt |-> a, ok |-> ok, reacks |-> 0] ELSE room[i]
    BY <1>1, <1>4
  <1> HIDE DEF new
  <1>6. \A i \in 1..Len(new) : new[i] \in Cache \/ (new[i].fcnt = a /\ new[i].ok = ok)
    <2> SUFFICES ASSUME NEW i \in 1..Len(new) PROVE new[i] \in Cache \/ (new[i].fcnt = a /\ new[i].ok = ok)
      OBVIOUS
    <2>1. CASE i = Len(room) + 1
      BY <1>5, <2>1
    <2>2. CASE i # Len(room) + 1
      <3>1. i \in 1..Len(room)
        BY <1>5, <2>2
      <3> QED
        BY <1>4, <1>5, <2>2, <3>1
    <2> QED
      BY <2>1, <2>2
  <1> QED
    BY <1>1, <1>2, <1>3, <1>5, <1>6 DEF c, Entries, Gains

\* A repeated answer changes a count, no answer.
LEMMA AnswerRepeated ==
  ASSUME World, NEW a \in Nat
  PROVE  LET new == ReAcked(node.cache, a)
         IN  /\ new \in Seq([fcnt : Nat, ok : BOOLEAN, reacks : Nat])
             /\ Len(new) = Len(node.cache)
             /\ \A i \in 1..Len(new) : new[i].fcnt = node.cache[i].fcnt /\ new[i].ok = node.cache[i].ok
  <1> DEFINE Entries == [fcnt : Nat, ok : BOOLEAN, reacks : Nat]
             c == node.cache
             Counted(n) == IF c[n].fcnt = a THEN [c[n] EXCEPT !.reacks = @ + 1] ELSE c[n]
  <1>1. c \in Seq(Entries)
    BY DEF World, NodeStates
  <1>2. ReAcked(c, a) = [n \in DOMAIN c |-> Counted(n)]
    BY DEF ReAcked
  <1> HIDE DEF c, Entries
  <1>3. DOMAIN c = 1..Len(c) /\ Len(c) \in Nat /\ \A n \in 1..Len(c) : c[n] \in Entries
    BY <1>1
  <1>4. ASSUME NEW n \in 1..Len(c)
        PROVE  Counted(n) \in Entries /\ Counted(n).fcnt = c[n].fcnt /\ Counted(n).ok = c[n].ok
    BY <1>3 DEF Entries
  <1> HIDE DEF Counted
  <1>5. ReAcked(c, a) \in Seq(Entries) /\ Len(ReAcked(c, a)) = Len(c)
        /\ \A n \in 1..Len(c) : ReAcked(c, a)[n] = Counted(n)
    BY <1>2, <1>3, <1>4
  <1> QED
    BY <1>4, <1>5 DEF c, Entries

\* The counters above n that the window has seen: what Overtook counts.
Later(w, n) == {id \in w.seen : id > n}

\* A window that has seen nothing above its mark.
Windows == {w \in [mark : Nat, seen : SUBSET Nat] : \A id \in w.seen : id <= w.mark}

LEMMA LaterCounted ==
  ASSUME NEW w \in Windows, NEW n
  PROVE  IsFiniteSet(Later(w, n)) /\ Cardinality(Later(w, n)) \in Nat
  <1>1. w.mark \in Nat /\ w.seen \subseteq Nat /\ \A id \in w.seen : id <= w.mark
    BY DEF Windows
  <1>2. Later(w, n) \in SUBSET (0..w.mark)
    BY <1>1 DEF Later
  <1>3. IsFiniteSet(0..w.mark)
    BY <1>1, FS_Interval
  <1> QED
    BY <1>2, <1>3, FS_Subset, FS_CardinalityType

\* A frame above the mark moves it there; what was above n, if n is still within the window,
\* and the frame itself are above n now.
OneMore(w, v, a) ==
    \A n \in Nat : a > w.mark /\ n < a /\ a - n < ReplayWindow =>
        Later(v, n) = Later(w, n) \cup {a} /\ a \notin Later(w, n)

LEMMA WindowMoves ==
  ASSUME NEW w \in Windows, NEW a \in Nat
  PROVE  LET v == Admitted(w, a, ReplayWindow)
         IN  /\ v \in Windows
             /\ v.mark = IF a > w.mark THEN a ELSE w.mark
             /\ \A n \in v.seen : n \in w.seen \/ n = a
             /\ OneMore(w, v, a)
  <1> DEFINE mark == IF a > w.mark THEN a ELSE w.mark
             seen == {n \in w.seen \cup {a} : mark - n < ReplayWindow}
             v == [mark |-> mark, seen |-> seen]
  <1>1. /\ w.mark \in Nat /\ w.seen \subseteq Nat /\ \A id \in w.seen : id <= w.mark
        /\ mark \in Nat /\ mark >= a /\ mark >= w.mark
    BY DEF Windows
  <1>2. Admitted(w, a, ReplayWindow) = v
    BY DEF Admitted
  <1>3. \A n : n \in seen <=> (n \in w.seen \/ n = a) /\ mark - n < ReplayWindow
    OBVIOUS
  <1>4. ReplayWindow \in Nat
    BY NodeAssumption
  <1>5. a > w.mark => mark = a
    OBVIOUS
  <1>6. v \in Windows
    <2>1. seen \subseteq Nat /\ \A id \in seen : id <= mark
      BY <1>1, <1>3
    <2> QED
      BY <1>1, <2>1 DEF Windows
  <1> HIDE DEF mark, seen
  <1>7. ASSUME NEW n \in Nat, a > w.mark, n < a, a - n < ReplayWindow
        PROVE  Later(v, n) = Later(w, n) \cup {a} /\ a \notin Later(w, n)
    <2>1. \A id \in w.seen : id > n => id \in seen
      BY <1>1, <1>3, <1>4, <1>5, <1>7
    <2>2. a \in seen
      BY <1>1, <1>3, <1>4, <1>5, <1>7
    <2>3. \A id \in seen : id \in w.seen \/ id = a
      BY <1>3
    <2>4. a \notin w.seen
      BY <1>1, <1>7
    <2> QED
      BY <1>7, <2>1, <2>2, <2>3, <2>4 DEF Later
  <1>8. v.mark = mark /\ \A n \in v.seen : n \in w.seen \/ n = a
    BY <1>3
  <1>9. OneMore(w, v, a)
    BY <1>7 DEF OneMore
  <1> QED
    BY <1>2, <1>6, <1>8, <1>9 DEF mark

\* Where the answers of the cache are once one more is noted: one place further from the end,
\* but for the oldest of a full cache.
MovedUp(c, new) ==
    \A p \in 1..Len(c) :
        \/ Len(c) - p + 1 >= CacheEntries
        \/ \E m \in 1..Len(new) : new[m].fcnt = c[p].fcnt /\ Len(new) - m = Len(c) - p + 1

LEMMA AnswerPlaces ==
  ASSUME World, NEW a \in Nat, NEW ok \in BOOLEAN, ~Cached(node.cache, a),
         NEW new, new = Noted(node.cache, a, ok, CacheEntries)
  PROVE  /\ Len(new) \in Nat /\ Len(new) >= 1 /\ new[Len(new)].fcnt = a
         /\ MovedUp(node.cache, new)
  <1> DEFINE Entries == [fcnt : Nat, ok : BOOLEAN, reacks : Nat]
             c == node.cache
             x == [fcnt |-> a, ok |-> ok, reacks |-> 0]
             room == IF Len(c) = CacheEntries THEN Tail(c) ELSE c
  <1>1. c \in Seq(Entries) /\ CacheEntries \in Nat \ {0} /\ x \in Entries /\ x.fcnt = a
    BY NodeAssumption DEF World, NodeStates
  <1>2. new = Append(room, x)
    BY DEF Noted
  <1> HIDE DEF Entries, x, c
  <1>3. CASE Len(c) = CacheEntries
    <2>1. c # <<>>
      BY <1>1, <1>3
    <2>2. /\ Tail(c) \in Seq(Entries) /\ Len(Tail(c)) = Len(c) - 1 /\ Len(c) \in Nat
          /\ \A i \in 1..Len(Tail(c)) : Tail(c)[i] = c[i + 1]
      BY <1>1, <2>1, TailPlaces
    <2>3. room = Tail(c)
      BY <1>3
    <2> HIDE DEF room
    <2>4. /\ Len(new) = Len(c) /\ Len(c) >= 1 /\ new[Len(c)] = x
          /\ \A i \in 1..Len(c) - 1 : new[i] = c[i + 1]
      BY <1>1, <1>2, <1>3, <2>2, <2>3
    <2>5. ASSUME NEW p \in 1..Len(c), Len(c) - p + 1 < CacheEntries
          PROVE  \E m \in 1..Len(new) : new[m].fcnt = c[p].fcnt /\ Len(new) - m = Len(c) - p + 1
      <3>1. p - 1 \in 1..Len(c) - 1 /\ (p - 1) + 1 = p /\ Len(new) - (p - 1) = Len(c) - p + 1
        BY <1>1, <1>3, <2>2, <2>4, <2>5
      <3>2. new[p - 1] = c[p]
        BY <2>4, <3>1
      <3>3. p - 1 \in 1..Len(new)
        BY <2>2, <2>4, <3>1
      <3> QED
        BY <3>1, <3>2, <3>3
    <2>6. MovedUp(c, new)
      BY <1>1, <2>2, <2>5 DEF MovedUp
    <2>7. Len(new) \in Nat /\ Len(new) >= 1 /\ new[Len(new)].fcnt = a
      BY <1>1, <2>2, <2>4
    <2> QED
      BY <2>6, <2>7 DEF c
  <1>4. CASE Len(c) # CacheEntries
    <2>1. /\ Len(c) \in Nat /\ Len(new) = Len(c) + 1 /\ new[Len(c) + 1] = x
          /\ \A i \in 1..Len(c) : new[i] = c[i]
      BY <1>1, <1>2, <1>4
    <2>2. ASSUME NEW p \in 1..Len(c)
          PROVE  \E m \in 1..Len(new) : new[m].fcnt = c[p].fcnt /\ Len(new) - m = Len(c) - p + 1
      <3>1. p \in 1..Len(new) /\ new[p] = c[p] /\ Len(new) - p = Len(c) - p + 1
        BY <2>1, <2>2
      <3> QED
        BY <3>1
    <2>3. MovedUp(c, new)
      BY <2>2 DEF MovedUp
    <2> QED
      BY <1>1, <2>1, <2>3 DEF c
  <1> QED
    BY <1>3, <1>4

\* The hub while the node acts: frames leave it, counters may pass.
Thins(h, r) ==
    /\ r.cmd = h.cmd /\ r.awaiting = h.awaiting /\ r.acks = h.acks /\ r.timer = h.timer
    /\ r.deferred = h.deferred /\ r.opt = h.opt /\ r.frame = h.frame /\ r.line = h.line
    /\ r.hold = h.hold /\ r.asleep = h.asleep /\ r.relogin = h.relogin /\ r.pending = h.pending
    /\ r.key = h.key /\ r.sess = h.sess /\ r.ended = h.ended
    /\ r.sent \subseteq h.sent /\ r.tx >= h.tx

LEMMA FewerUnfinished ==
  ASSUME hub \in HubStates, hub' \in HubStates, Thins(hub, hub'), OneCommand(hub)
  PROVE  Unfinished(hub)' \subseteq Unfinished(hub) /\ OneCommand(hub)'
  <1>1. Unfinished(hub)' \subseteq Unfinished(hub)
    BY DEF Unfinished, Thins
  <1> QED
    BY <1>1 DEF OneCommand, Thins

\* Frames leave the air; the window and the places of the answers are as they were.
LEMMA RecognitionStays ==
  ASSUME RecognitionKept(hub), hub \in HubStates, hub' \in HubStates, Thins(hub, hub'),
         node \in NodeStates, node' \in NodeStates,
         node'.sess = node.sess, node'.key = node.key, node'.win = node.win,
         Len(node'.cache) = Len(node.cache),
         \A i \in 1..Len(node.cache) : node'.cache[i].fcnt = node.cache[i].fcnt
  PROVE  RecognitionKept(hub)'
  <1>1. Unfinished(hub)' \subseteq Unfinished(hub) /\ OneCommand(hub)'
    BY FewerUnfinished DEF RecognitionKept
  <1>2. WindowKept(hub)'
    <2>1. \A c \in Cache' : \E d \in Cache : c.fcnt = d.fcnt
      BY DEF Cache
    <2>2. node.win.mark \in Nat /\ hub.tx \in Nat /\ hub'.tx \in Nat
      BY DEF NodeStates, HubStates
    <2> QED
      BY <2>1, <2>2 DEF RecognitionKept, WindowKept, Thins
  <1>3. \A f : Recognised(f) => Recognised(f)'
    BY DEF Recognised, New, Overtook
  <1> QED
    BY <1>1, <1>2, <1>3 DEF RecognitionKept

\* Nothing is remembered and nothing seen, and no frame is sealed under the node's key.
LEMMA NothingToRecognise ==
  ASSUME RecognitionKept(hub), hub \in HubStates, hub' \in HubStates, Thins(hub, hub'),
         node'.win = FreshWindow, node'.cache = <<>>,
         \A f \in Unfinished(hub) : f.key = node'.key => f.key = 0
  PROVE  RecognitionKept(hub)'
  <1>1. Unfinished(hub)' \subseteq Unfinished(hub) /\ OneCommand(hub)'
    BY FewerUnfinished DEF RecognitionKept
  <1>2. WindowKept(hub)'
    BY DEF WindowKept, FreshWindow, Cache, HubStates
  <1> QED
    BY <1>1, <1>2 DEF RecognitionKept

LEMMA NodeActs ==
  ASSUME DeliveryInv, UNCHANGED asked, Typed', NEW h, h = hub, NEW r, r = hub', Thins(h, r),
         Packed(hub)' \subseteq Packed(hub), ran \subseteq ran',
         KeysKept(hub, up)', MemoryKept(hub)', RecognitionKept(hub)', AcksKept(up)', RunsKept'
  PROVE  Step
  <1>1. /\ hub \in HubStates /\ hub' \in HubStates /\ LineKept(h) /\ LineOnce(h) /\ SlotKept(h) /\ SleepKept(h)
        /\ FramesKept(h) /\ DeliveredRan(h) /\ World
    BY WorldIs DEF DeliveryInv, Typed
  <1>2. (LineKept(hub) /\ LineOnce(hub) /\ SlotKept(hub) /\ SleepKept(hub))'
    BY <1>1 DEF Thins, LineKept, LineOnce, SlotKept, SleepKept, KindOf, Busy, Distinct
  <1>3. DeliveredRan(hub)'
    BY <1>1 DEF Thins, DeliveredRan
  <1>4. FramesKept(hub)'
    <2>1. ASSUME NEW f \in Packed(hub)'
          PROVE  /\ f.cmd \in 1..Len(asked') /\ ~Holds(hub'.line, f.cmd) /\ (hub'.deferred => f.cmd # hub'.cmd)
                 /\ Live(f, hub') =>
                      /\ f.fcnt <= hub'.tx
                      /\ ~hub'.deferred /\ Acknowledges(hub', f.fcnt) => f.cmd = hub'.cmd
                      /\ hub'.frame # NoFrame /\ f.fcnt = hub'.frame.fcnt => f.cmd = hub'.frame.cmd
                      /\ hub'.awaiting /\ f.cmd = hub'.cmd => f = hub'.frame
      <3>1. f \in Packed(h) /\ f \in Frames /\ f.fcnt \in Nat
        BY <1>1, <2>1, PackedAreFrames, FrameFields
      <3>2. h.tx \in Nat /\ r.tx \in Nat
        BY <1>1 DEF HubStates
      <3> QED
        BY <1>1, <3>1, <3>2 DEF Thins, FramesKept, Live, Acknowledges, Holds
    <2>2. ASSUME NEW f \in Packed(hub)', NEW g \in Packed(hub)', f.cmd = g.cmd,
                 (f.key = g.key /\ f.key # 0) \/ (asked'[f.cmd] = "ota" /\ ~Optimistic)
          PROVE  f = g
      BY <1>1, <2>2 DEF FramesKept, KindOf
    <2> QED
      BY <2>1, <2>2 DEF FramesKept, KindOf, Live, Acknowledges
  <1>5. LineStep
    BY DEF LineStep, Line!lineVars, Thins, Busy
  <1> QED
    BY <1>2, <1>3, <1>4, <1>5 DEF Step, DeliveryInv

\* The node's word goes out, or is lost: under its session and key.
LEMMA UplinkGoes ==
  ASSUME World', hub' \in HubStates, NEW q \in Seq(Uplinks), KeysKept(hub, q)', AcksKept(q)',
         NEW ack \in Nat, NEW ok \in BOOLEAN, NEW opening \in BOOLEAN,
         NEW u, u = Uplink(ack, ok, opening), up' = q \/ up' = Append(q, u),
         u.key # 0 /\ u.ack # 0 /\ u.ok => \E x \in ran' : x[2] = u.key /\ x[3] = u.ack
  PROVE  up' \in Seq(Uplinks) /\ KeysKept(hub, up)' /\ AcksKept(up)'
  <1>1. u \in Uplinks /\ u.sess = node'.sess /\ u.key = node'.key /\ u.ack = ack /\ u.ok = ok
    BY DEF Uplink, Uplinks, World, NodeStates
  <1>2. CASE up' = q
    BY <1>2 DEF KeysKept, AcksKept
  <1>3. CASE up' = Append(q, u)
    <2>1. /\ up' \in Seq(Uplinks) /\ Len(q) \in Nat /\ Len(up') = Len(q) + 1
          /\ \A i \in 1..Len(q) : up'[i] = q[i] /\ up'[Len(q) + 1] = u
      BY <1>1, <1>3
    <2>2. up'[Len(q) + 1] = u
      BY <1>1, <1>3
    <2>3. \A i \in 1..Len(up') : (i \in 1..Len(q) /\ up'[i] = q[i]) \/ (i = Len(q) + 1 /\ up'[i] = u)
      BY <2>1, <2>2
    <2>4. AcksKept(up)'
      BY <1>1, <2>3 DEF AcksKept
    <2>5. \A f \in Packed(hub)' : f.key # 0 /\ f.key # hub'.key => ~(u.key = f.key /\ u.sess = hub'.sess)
      BY <1>1 DEF KeysKept
    <2>6. ASSUME NEW i \in 1..Len(up'), IsRegister(up'[i]), hub'.key # 0
          PROVE  node'.key # hub'.key /\ \A j \in i+1..Len(up') : up'[j].key # hub'.key
      <3>1. node'.key # hub'.key
        BY <1>1, <2>3, <2>6 DEF KeysKept, IsRegister
      <3>2. ASSUME NEW j \in i+1..Len(up') PROVE up'[j].key # hub'.key
        <4>1. j \in 1..Len(up')
          BY <2>1
        <4>2. CASE j \in 1..Len(q)
          <5>1. i \in 1..Len(q) /\ j \in i+1..Len(q) /\ up'[i] = q[i] /\ up'[j] = q[j]
            BY <2>1, <4>2
          <5> QED
            BY <2>6, <5>1 DEF KeysKept, IsRegister
        <4>3. CASE j = Len(q) + 1
          BY <1>1, <2>2, <3>1, <4>3
        <4> QED
          BY <2>3, <4>1, <4>2, <4>3
      <3> QED
        BY <3>1, <3>2
    <2>7. ASSUME NEW i \in 1..Len(up'), NEW j \in 1..Len(up'), i < j, IsRegister(up'[j]), up'[i].key # 0
          PROVE  node'.key # up'[i].key /\ \A l \in j+1..Len(up') : up'[l].key # up'[i].key
      <3>0. i \in 1..Len(q) /\ up'[i] = q[i]
        BY <2>1, <2>7
      <3>1. node'.key # up'[i].key
        <4>1. CASE j \in 1..Len(q)
          BY <2>1, <2>7, <3>0, <4>1 DEF KeysKept, IsRegister
        <4>2. CASE j = Len(q) + 1
          BY <1>1, <2>2, <2>7, <4>2 DEF IsRegister
        <4> QED
          BY <2>3, <4>1, <4>2
      <3>2. ASSUME NEW l \in j+1..Len(up') PROVE up'[l].key # up'[i].key
        <4>1. l \in 1..Len(up')
          BY <2>1
        <4>2. CASE l \in 1..Len(q)
          <5>1. j \in 1..Len(q) /\ l \in j+1..Len(q) /\ up'[j] = q[j] /\ up'[l] = q[l]
            BY <2>1, <4>2
          <5> QED
            BY <2>7, <3>0, <5>1 DEF KeysKept, IsRegister
        <4>3. CASE l = Len(q) + 1
          BY <1>1, <2>2, <3>1, <4>3
        <4> QED
          BY <2>3, <4>1, <4>2, <4>3
      <3> QED
        BY <3>1, <3>2
    <2>8. \A i \in 1..Len(up') : up'[i].sess <= hub'.sess /\ up'[i].key <= node'.nonces
      BY <1>1, <2>3 DEF KeysKept
    <2>9. \A i \in 1..Len(up') : up'[i].key = node'.key /\ node'.key # 0 => up'[i].sess = node'.sess
      BY <1>1, <2>3 DEF KeysKept
    <2>10. \A f \in Packed(hub)' : f.key # 0 /\ f.key # hub'.key =>
             \A i \in 1..Len(up') : ~(up'[i].key = f.key /\ up'[i].sess = hub'.sess)
      BY <1>1, <2>3, <2>5 DEF KeysKept
    <2> QED
      BY <2>1, <2>4, <2>6, <2>7, <2>8, <2>9, <2>10 DEF KeysKept
  <1> QED
    BY <1>2, <1>3

\* The node keeps its session and keys; frames leave the air.
LEMMA KeysStay ==
  ASSUME NEW q, KeysKept(hub, q), Typed, Thins(hub, hub'), Packed(hub)' \subseteq Packed(hub),
         node'.sess = node.sess, node'.key = node.key, node'.nonces = node.nonces
  PROVE  KeysKept(hub, q)'
  BY DEF KeysKept, Thins, IsRegister

LEMMA LoseUplinkStep == DeliveryInv /\ LoseUplink => Step
  <1> SUFFICES ASSUME DeliveryInv, LoseUplink PROVE Step
    OBVIOUS
  <1>1. Typed /\ World /\ hub \in HubStates /\ up \in Seq(Uplinks) /\ HubInv(hub, up) /\ AcksKept(up)
        /\ faults \in Nat
    BY InvIs, WorldIs DEF Typed
  <1>2. up # <<>> /\ up' = Tail(up) /\ up' \in Seq(Uplinks) /\ hub' = hub /\ faults' = faults
        /\ UNCHANGED <<asked, node, ran>>
    BY <1>1, TailPlaces DEF LoseUplink
  <1>3. HubInv(hub', up') /\ AcksKept(up')
    BY <1>1, <1>2, HeardOfLess
  <1>4. DeliveryInv'
    BY <1>1, <1>2, <1>3, HandlerKeeps
  <1>5. LineStep
    BY <1>2, LineMoves DEF Keeps
  <1> QED
    BY <1>4, <1>5 DEF Step

\* What the node's actions start from.
LEMMA BeforeNode ==
  ASSUME DeliveryInv
  PROVE  /\ Typed /\ World /\ hub \in HubStates /\ node \in NodeStates /\ up \in Seq(Uplinks)
         /\ FramesKept(hub) /\ KeysKept(hub, up) /\ MemoryKept(hub) /\ RecognitionKept(hub)
         /\ AcksKept(up) /\ RunsKept /\ faults \in Nat /\ asked \in Seq(Kinds) /\ ran \subseteq Executions /\ hub.sent \subseteq Frames
         /\ Packed(hub) \subseteq Frames
  <1>1. Typed /\ World /\ hub \in HubStates
    BY WorldIs DEF DeliveryInv, Typed
  <1>2. hub.sent \subseteq Frames
    BY <1>1 DEF HubStates
  <1> QED
    BY <1>1, <1>2, PackedAreFrames DEF DeliveryInv, Typed

\* Frames leave the air and the hub does nothing else.
LEMMA FewerFrames ==
  ASSUME hub \in HubStates, NEW F, F \subseteq hub.sent, hub' = [hub EXCEPT !.sent = F]
  PROVE  hub' \in HubStates /\ Thins(hub, hub') /\ hub'.frame = hub.frame /\ hub'.sent \subseteq hub.sent
  <1>1. F \in SUBSET Frames /\ hub.tx \in Nat
    BY DEF HubStates
  <1>2. hub' \in HubStates
    BY <1>1 DEF HubStates
  <1>3. hub'.sent = F /\ hub'.tx = hub.tx
    BY DEF HubStates
  <1>4. Thins(hub, hub') /\ hub'.frame = hub.frame
    BY <1>1, <1>3 DEF Thins, HubStates
  <1> QED
    BY <1>2, <1>3, <1>4

LEMMA AirEmpties ==
  ASSUME hub \in HubStates, NEW F, F \subseteq hub.sent, hub' = [hub EXCEPT !.sent = F],
         ran' = ran
  PROVE  hub' \in HubStates /\ Thins(hub, hub') /\ Packed(hub)' \subseteq Packed(hub)
  BY FewerFrames DEF Packed

LEMMA NothingThins ==
  ASSUME hub \in HubStates, hub' = hub, ran' = ran
  PROVE  hub' \in HubStates /\ Thins(hub, hub') /\ Packed(hub)' \subseteq Packed(hub)
  BY DEF HubStates, Thins, Packed

\* The node's memory as it was.
LEMMA MemoryStays ==
  ASSUME MemoryKept(hub), Thins(hub, hub'), Packed(hub)' \subseteq Packed(hub), Typed, hub' \in HubStates,
         node'.sess = node.sess, node'.key = node.key,
         \A c \in Cache' : \E d \in Cache : c.fcnt = d.fcnt /\ c.ok = d.ok,
         node.cache = <<>> => node'.cache = <<>>, ran \subseteq ran'
  PROVE  MemoryKept(hub)'
  <1>1. node.cache \in Seq([fcnt : Nat, ok : BOOLEAN, reacks : Nat]) /\ hub.tx \in Nat /\ hub'.tx \in Nat
        /\ World
    BY WorldIs DEF Typed, NodeStates, HubStates
  <1>2. \A c \in Cache' : \E d \in Cache : c.fcnt = d.fcnt /\ c.ok = d.ok /\ d.fcnt \in Nat
    BY <1>1, CacheEntriesTyped
  <1>3. ASSUME NEW c \in Cache', hub'.key = node'.key, node'.key # 0 PROVE c.fcnt <= hub'.tx
    <2>1. PICK d \in Cache : c.fcnt = d.fcnt /\ d.fcnt \in Nat
      BY <1>2
    <2>2. d.fcnt <= hub.tx /\ hub.tx <= hub'.tx
      BY <1>1, <1>3 DEF MemoryKept, Thins
    <2> QED
      BY <1>1, <2>1, <2>2
  <1>4. ASSUME NEW f \in Packed(hub)', NEW c \in Cache', f.key = node'.key, node'.key # 0,
               c.fcnt = f.fcnt, c.ok
        PROVE  \E x \in ran' : x[2] = node'.key /\ x[3] = c.fcnt
    <2>1. PICK d \in Cache : c.fcnt = d.fcnt /\ c.ok = d.ok
      BY <1>2
    <2>2. \E x \in ran : x[2] = node.key /\ x[3] = d.fcnt
      <3>1. f \in Packed(hub) /\ f.key = node.key /\ node.key # 0 /\ d.fcnt = f.fcnt /\ d.ok
        BY <1>4, <2>1
      <3>2. \A g \in Packed(hub), b \in Cache :
              g.key = node.key /\ node.key # 0 /\ b.fcnt = g.fcnt /\ b.ok
                => \E x \in ran : x[2] = node.key /\ x[3] = b.fcnt
        BY DEF MemoryKept
      <3> QED
        BY <2>1, <3>1, <3>2
    <2> QED
      BY <2>1, <2>2
  <1>5. node'.sess = hub'.sess /\ node'.key # 0 /\ node'.key # hub'.key => node'.cache = <<>>
    BY DEF MemoryKept, Thins
  <1> QED
    BY <1>3, <1>4, <1>5 DEF MemoryKept

\* The node says something that answers nothing, and is otherwise what it was.
LEMMA NodeSpeaks ==
  ASSUME DeliveryInv, UNCHANGED <<hub, asked, ran>>, faults' \in Nat, node' \in NodeStates,
         node'.sess = node.sess, node'.key = node.key, node'.nonces = node.nonces,
         node'.win = node.win, node'.cache = node.cache,
         Send(Uplink(0, TRUE, FALSE))
  PROVE  Step
  <1>1. /\ Typed /\ World /\ hub \in HubStates /\ up \in Seq(Uplinks) /\ KeysKept(hub, up) /\ MemoryKept(hub)
        /\ AcksKept(up) /\ RunsKept /\ asked \in Seq(Kinds) /\ ran \subseteq Executions
    BY BeforeNode
  <1>2. hub' \in HubStates /\ Thins(hub, hub') /\ Packed(hub)' \subseteq Packed(hub) /\ World'
    BY <1>1, NothingThins DEF World
  <1>3. PICK q : q = up
    OBVIOUS
  <1>4. KeysKept(hub, q)' /\ AcksKept(q)'
    BY <1>1, <1>2, <1>3, KeysStay DEF AcksKept
  <1>5. PICK u : u = Uplink(0, TRUE, FALSE)
    OBVIOUS
  <1>6. (up' = q \/ up' = Append(q, u)) /\ u.ack = 0
    BY <1>3, <1>5 DEF Send, Uplink
  <1>7. up' \in Seq(Uplinks) /\ KeysKept(hub, up)' /\ AcksKept(up)'
    BY <1>1, <1>2, <1>3, <1>4, <1>5, <1>6, UplinkGoes
  <1>8. MemoryKept(hub)'
    BY <1>1, <1>2, MemoryStays DEF Cache
  <1>9. RunsKept'
    BY <1>1 DEF RunsKept, Sealed
  <1>10. Typed'
    BY <1>1, <1>2, <1>7 DEF Typed
  <1>11. PICK h, r : h = hub /\ r = hub'
    OBVIOUS
  <1>12. RecognitionKept(hub)'
    BY <1>1, <1>2, BeforeNode, RecognitionStays
  <1> QED
    BY <1>2, <1>7, <1>8, <1>9, <1>10, <1>11, <1>12, NodeActs

LEMMA NodeStatusStep == DeliveryInv /\ (NodeStatus \/ NodeWake) => Step
  <1> SUFFICES ASSUME DeliveryInv, NodeStatus \/ NodeWake PROVE Step
    OBVIOUS
  <1>1. faults \in Nat /\ node \in NodeStates
    BY BeforeNode
  <1>2. CASE NodeStatus
    BY <1>1, <1>2, NodeSpeaks DEF NodeStatus
  <1>3. CASE NodeWake
    <2>1. /\ node' \in NodeStates /\ node'.sess = node.sess /\ node'.key = node.key
          /\ node'.nonces = node.nonces /\ node'.win = node.win /\ node'.cache = node.cache
      BY <1>1, <1>3 DEF NodeWake, NodeStates
    <2> QED
      BY <1>1, <1>3, <2>1, NodeSpeaks DEF NodeWake
  <1> QED
    BY <1>2, <1>3

LEMMA ReceivableThins ==
  ASSUME NEW key, NEW s, NEW F
  PROVE  Receivable(key, s, F) \subseteq F
  BY DEF Receivable

LEMMA FreshIsWindow == FreshWindow \in [mark : Nat, seen : SUBSET Nat]
  BY DEF FreshWindow

\* A restart: neither session nor key, and nothing remembered.
LEMMA NodeRebootStep == DeliveryInv /\ NodeReboot => Step
  <1> SUFFICES ASSUME DeliveryInv, NodeReboot PROVE Step
    OBVIOUS
  <1>1. /\ Typed /\ World /\ hub \in HubStates /\ node \in NodeStates /\ up \in Seq(Uplinks)
        /\ KeysKept(hub, up) /\ MemoryKept(hub) /\ AcksKept(up) /\ RunsKept /\ faults \in Nat
        /\ asked \in Seq(Kinds) /\ ran \subseteq Executions
    BY BeforeNode
  <1>2. hub' \in HubStates /\ Thins(hub, hub') /\ Packed(hub)' \subseteq Packed(hub)
    <2>1. PICK F : F = Receivable(0, node.last, hub.sent)
      OBVIOUS
    <2>2. F \subseteq hub.sent /\ hub' = [hub EXCEPT !.sent = F] /\ ran' = ran
      BY <2>1, ReceivableThins DEF NodeReboot
    <2> QED
      BY <1>1, <2>2, AirEmpties
  <1>3. /\ node' \in NodeStates /\ node'.sess = 0 /\ node'.key = 0 /\ node'.nonces = node.nonces
        /\ node'.cache = <<>> /\ node'.win = FreshWindow
    <2>1. <<>> \in Seq([fcnt : Nat, ok : BOOLEAN, reacks : Nat])
      OBVIOUS
    <2> QED
      BY <1>1, <2>1, FreshIsWindow DEF NodeReboot, NodeStates
  <1>4. World'
    BY <1>1, <1>3 DEF World, NodeReboot
  <1>5. PICK q : q = up
    OBVIOUS
  <1>6. 0 <= hub'.sess /\ 0 <= node'.nonces
    BY <1>2, <1>3 DEF HubStates, NodeStates
  <1>7. KeysKept(hub, q)'
    BY <1>1, <1>2, <1>3, <1>5, <1>6 DEF KeysKept, Thins, IsRegister
  <1>8. AcksKept(q)'
    BY <1>1, <1>5 DEF AcksKept, NodeReboot
  <1>9. PICK u : u = Uplink(0, TRUE, FALSE)
    OBVIOUS
  <1>10. (up' = q \/ up' = Append(q, u)) /\ u.ack = 0
    BY <1>5, <1>9 DEF NodeReboot, Send, Uplink
  <1>11. up' \in Seq(Uplinks) /\ KeysKept(hub, up)' /\ AcksKept(up)'
    BY <1>1, <1>2, <1>4, <1>5, <1>7, <1>8, <1>9, <1>10, UplinkGoes
  <1>12. MemoryKept(hub)'
    BY <1>3 DEF MemoryKept
  <1>13. RunsKept'
    BY <1>1, <1>3 DEF RunsKept, Sealed, NodeReboot
  <1>14. Typed' /\ UNCHANGED asked /\ ran \subseteq ran'
    BY <1>1, <1>2, <1>3, <1>11 DEF Typed, NodeReboot
  <1>15. PICK h, r : h = hub /\ r = hub'
    OBVIOUS
  <1>16. RecognitionKept(hub)'
    BY <1>1, <1>2, <1>3, BeforeNode, NothingToRecognise
  <1> QED
    BY <1>2, <1>11, <1>12, <1>13, <1>14, <1>15, <1>16, NodeActs

\* A session adopted: the node nonce it is keyed by is nobody's yet.
LEMMA SessionAdopted ==
  ASSUME DeliveryInv, NEW f \in hub.sent, f.cmd = 0, ran' = ran, hub' \in HubStates,
         Thins(hub, hub'), Packed(hub)' \subseteq Packed(hub), NEW q, q = up,
         node' = [node EXCEPT !.sess = f.key, !.last = f.key, !.nonces = @ + 1, !.key = node.nonces + 1,
                              !.win = FreshWindow, !.cache = <<>>]
  PROVE  node' \in NodeStates /\ KeysKept(hub, q)' /\ MemoryKept(hub)' /\ RunsKept' /\ RecognitionKept(hub)'
  <1>1. /\ Typed /\ World /\ hub \in HubStates /\ node \in NodeStates /\ q \in Seq(Uplinks)
        /\ KeysKept(hub, q) /\ RunsKept /\ ran \subseteq Executions /\ f \in Frames
        /\ Packed(hub) \subseteq Frames
    BY BeforeNode
  <1>2. f.key \in Nat /\ node.nonces \in Nat
    BY <1>1, FrameFields DEF NodeStates
  <1>3. /\ node' \in NodeStates /\ node'.sess = f.key /\ node'.key = node.nonces + 1
        /\ node'.nonces = node.nonces + 1 /\ node'.cache = <<>> /\ node'.win = FreshWindow
    <2>1. PICK n, w, c : n = node.nonces + 1 /\ w = FreshWindow /\ c = <<>>
      OBVIOUS
    <2>2. /\ n \in Nat /\ w \in [mark : Nat, seen : SUBSET Nat]
          /\ c \in Seq([fcnt : Nat, ok : BOOLEAN, reacks : Nat])
      BY <1>2, <2>1, FreshIsWindow
    <2>3. node' = [node EXCEPT !.sess = f.key, !.last = f.key, !.nonces = n, !.key = n, !.win = w, !.cache = c]
      BY <2>1
    <2>4. /\ node' \in NodeStates /\ node'.sess = f.key /\ node'.key = n /\ node'.nonces = n
          /\ node'.cache = c /\ node'.win = w
      BY <1>1, <1>2, <2>2, <2>3 DEF NodeStates
    <2> QED
      BY <2>1, <2>4
  <1>4. \A i \in 1..Len(q) : q[i].key \in Nat /\ q[i].key # node'.key /\ q[i].key <= node'.nonces
    BY <1>1, <1>2, <1>3, UplinkFields DEF KeysKept
  <1>5. \A g \in Packed(hub) : g.key \in Nat /\ g.key # node'.key /\ g.key <= node'.nonces
    BY <1>1, <1>2, <1>3, FrameFields DEF KeysKept
  <1>6. hub'.key = hub.key /\ hub'.key # node'.key /\ hub'.key <= node'.nonces
    BY <1>1, <1>2, <1>3 DEF KeysKept, Thins, HubStates
  <1>7. f.key <= hub'.sess
    BY <1>1 DEF KeysKept, Thins
  <1>8. KeysKept(hub, q)'
    <2>1. /\ node'.sess <= hub'.sess /\ hub'.key <= node'.nonces /\ node'.key <= node'.nonces
          /\ \A g \in hub'.sent : g.cmd = 0 => g.key <= hub'.sess
      BY <1>1, <1>2, <1>3, <1>6, <1>7 DEF KeysKept, Thins
    <2>2. \A i \in 1..Len(q) : q[i].sess <= hub'.sess /\ q[i].key <= node'.nonces
      BY <1>1, <1>4 DEF KeysKept, Thins
    <2>3. \A g \in Packed(hub)' : g.key <= node'.nonces
      BY <1>5
    <2>4. \A i \in 1..Len(q) : q[i].key # node'.key
      BY <1>4
    <2>5. \A g \in Packed(hub)' : g.key # 0 /\ g.key # hub'.key =>
            /\ ~(node'.key = g.key /\ node'.sess = hub'.sess)
            /\ \A i \in 1..Len(q) : ~(q[i].key = g.key /\ q[i].sess = hub'.sess)
      BY <1>1, <1>5 DEF KeysKept, Thins
    <2>6. \A i \in 1..Len(q) : IsRegister(q[i]) /\ hub'.key # 0 =>
            node'.key # hub'.key /\ \A j \in i+1..Len(q) : q[j].key # hub'.key
      BY <1>1, <1>6 DEF KeysKept
    <2>7. \A i, j \in 1..Len(q) : i < j /\ IsRegister(q[j]) /\ q[i].key # 0 =>
            node'.key # q[i].key /\ \A l \in j+1..Len(q) : q[l].key # q[i].key
      BY <1>1, <1>4 DEF KeysKept
    <2> QED
      BY <2>1, <2>2, <2>3, <2>4, <2>5, <2>6, <2>7 DEF KeysKept, IsRegister
  <1>9. MemoryKept(hub)'
    <2>1. Cache' = {}
      BY <1>3 DEF Cache
    <2> QED
      BY <1>3, <2>1 DEF MemoryKept
  <1>10. RunsKept'
    <2>1. \A x \in ran : x[2] # node'.key
      <3>1. \A x \in ran : [key |-> x[2], fcnt |-> x[3], cmd |-> x[1]] \in Packed(hub)
        BY DEF Packed
      <3> QED
        BY <1>5, <3>1
    <2> QED
      BY <1>1, <2>1 DEF RunsKept, Sealed
  <1>11. RecognitionKept(hub)'
    <2>1. \A g \in Unfinished(hub) : g.key # node'.key
      BY <1>5 DEF Unfinished, Packed
    <2> QED
      BY <1>1, <1>3, <2>1, BeforeNode, NothingToRecognise
  <1> QED
    BY <1>3, <1>8, <1>9, <1>10, <1>11

LEMMA NodeLoginStep == \A f \in hub.sent : DeliveryInv /\ NodeLogin(f) => Step
  <1> SUFFICES ASSUME NEW f \in hub.sent, DeliveryInv, NodeLogin(f) PROVE Step
    OBVIOUS
  <1>1. /\ Typed /\ World /\ hub \in HubStates /\ node \in NodeStates /\ up \in Seq(Uplinks)
        /\ KeysKept(hub, up) /\ MemoryKept(hub) /\ AcksKept(up) /\ RunsKept /\ faults \in Nat
        /\ asked \in Seq(Kinds) /\ ran \subseteq Executions
    BY BeforeNode
  <1>2. ran' = ran /\ asked' = asked /\ faults' = faults /\ f.cmd = 0
    BY DEF NodeLogin
  <1>3. hub' \in HubStates /\ Thins(hub, hub') /\ Packed(hub)' \subseteq Packed(hub)
    <2>1. PICK F : F = Receivable(node'.key, f.key, hub.sent \ {f})
      OBVIOUS
    <2>2. F \subseteq hub.sent /\ hub' = [hub EXCEPT !.sent = F]
      BY <2>1, ReceivableThins DEF NodeLogin
    <2> QED
      BY <1>1, <1>2, <2>2, AirEmpties
  <1>4. PICK q : q = up
    OBVIOUS
  <1>5. node' \in NodeStates /\ KeysKept(hub, q)' /\ MemoryKept(hub)' /\ RunsKept' /\ RecognitionKept(hub)'
    <2>1. CASE f.key = node.sess
      <3>1. node' = node
        BY <2>1 DEF NodeLogin
      <3>2. KeysKept(hub, q)'
        BY <1>1, <1>3, <1>4, <3>1, KeysStay
      <3>3. MemoryKept(hub)'
        BY <1>1, <1>2, <1>3, <3>1, MemoryStays DEF Cache
      <3>4. RecognitionKept(hub)'
        BY <1>1, <1>3, <3>1, BeforeNode, RecognitionStays
      <3> QED
        BY <1>1, <1>2, <3>1, <3>2, <3>3, <3>4 DEF RunsKept, Sealed
    <2>2. CASE f.key # node.sess
      BY <1>2, <1>3, <1>4, <2>2, SessionAdopted DEF NodeLogin
    <2> QED
      BY <2>1, <2>2
  <1>6. World'
    BY <1>1, <1>2, <1>5 DEF World
  <1>7. AcksKept(q)'
    BY <1>1, <1>2, <1>4 DEF AcksKept
  <1>8. PICK u : u = Uplink(0, TRUE, TRUE)
    OBVIOUS
  <1>9. (up' = q \/ up' = Append(q, u)) /\ u.ack = 0
    BY <1>4, <1>8 DEF NodeLogin, Send, Uplink
  <1>10. up' \in Seq(Uplinks) /\ KeysKept(hub, up)' /\ AcksKept(up)'
    BY <1>1, <1>3, <1>4, <1>5, <1>6, <1>7, <1>8, <1>9, UplinkGoes
  <1>11. Typed'
    BY <1>1, <1>2, <1>3, <1>5, <1>10 DEF Typed
  <1>12. PICK h, r : h = hub /\ r = hub'
    OBVIOUS
  <1> QED
    BY <1>2, <1>3, <1>5, <1>10, <1>11, <1>12, NodeActs

\* What a node is after a frame it accepted under its own key.
LEMMA TakenNode ==
  ASSUME World, NEW f, f.fcnt \in Nat, NEW ok \in BOOLEAN
  PROVE  LET t == Taken(f, ok)
         IN  /\ t \in NodeStates /\ t.sess = node.sess /\ t.key = node.key /\ t.nonces = node.nonces
             /\ t.win = Admitted(node.win, f.fcnt, ReplayWindow)
             /\ t.cache = Noted(node.cache, f.fcnt, ok, CacheEntries)
  <1>1. node \in NodeStates /\ node.win \in [mark : Nat, seen : SUBSET Nat]
    BY DEF World, NodeStates
  <1>2. Admitted(node.win, f.fcnt, ReplayWindow) \in [mark : Nat, seen : SUBSET Nat]
    BY <1>1, WindowShuts
  <1>3. Noted(node.cache, f.fcnt, ok, CacheEntries) \in Seq([fcnt : Nat, ok : BOOLEAN, reacks : Nat])
    BY AnswerNoted
  <1> QED
    BY <1>1, <1>2, <1>3 DEF Taken, NodeStates

LEMMA TakenCache ==
  ASSUME World, NEW a \in Nat, NEW ok, ok \in BOOLEAN, node'.cache = Noted(node.cache, a, ok, CacheEntries)
  PROVE  \A c \in Cache' : c \in Cache \/ (c.fcnt = a /\ c.ok = ok)
  <1>1. PICK new : new = node'.cache /\ new = Noted(node.cache, a, ok, CacheEntries)
    OBVIOUS
  <1>2. \A i \in 1..Len(new) : new[i] \in Cache \/ (new[i].fcnt = a /\ new[i].ok = ok)
    <2>1. Gains(new, a, ok)
      BY <1>1, AnswerNoted
    <2> QED
      BY <2>1 DEF Gains
  <1>3. \A c \in Cache' : \E i \in 1..Len(new) : c = new[i]
    BY <1>1 DEF Cache
  <1> QED
    BY <1>2, <1>3

\* The window after a frame the node took: it remembers nothing that it would let through.
LEMMA TakenWindow ==
  ASSUME World, WindowKept(hub), NEW a \in Nat, NEW ok \in BOOLEAN,
         node'.win = Admitted(node.win, a, ReplayWindow),
         node'.cache = Noted(node.cache, a, ok, CacheEntries)
  PROVE  /\ node.win \in Windows /\ node'.win \in Windows
         /\ node'.win.mark = IF a > node.win.mark THEN a ELSE node.win.mark
         /\ \A c \in Cache' : ~Admissible(node'.win, c.fcnt, ReplayWindow)
  <1>1. node.win \in [mark : Nat, seen : SUBSET Nat] /\ node.win \in Windows
    BY DEF World, NodeStates, WindowKept, Windows
  <1>2. /\ node'.win \in Windows
        /\ node'.win.mark = IF a > node.win.mark THEN a ELSE node.win.mark
    BY <1>1, WindowMoves
  <1>3. \A c \in Cache' : c \in Cache \/ c.fcnt = a
    BY TakenCache
  <1>4. \A c \in Cache : c.fcnt \in Nat /\ ~Admissible(node.win, c.fcnt, ReplayWindow)
    BY CacheEntriesTyped DEF WindowKept
  <1>5. \A c \in Cache' : ~Admissible(node'.win, c.fcnt, ReplayWindow)
    BY <1>1, <1>3, <1>4, WindowShuts
  <1> QED
    BY <1>1, <1>2, <1>5

\* A frame the window lets through is not among those remembered, so it becomes the last of them.
LEMMA TakenLast ==
  ASSUME World, WindowKept(hub), NEW f, f.fcnt \in Nat, New(f), NEW ok \in BOOLEAN,
         node'.win = Admitted(node.win, f.fcnt, ReplayWindow),
         node'.cache = Noted(node.cache, f.fcnt, ok, CacheEntries)
  PROVE  Recognised(f)'
  <1>1. ~Cached(node.cache, f.fcnt)
    <2>1. DOMAIN node.cache = 1..Len(node.cache)
      BY DEF World, NodeStates
    <2> QED
      BY <2>1 DEF Cached, Positions, New, WindowKept, Cache
  <1>2. PICK new : new = Noted(node.cache, f.fcnt, ok, CacheEntries)
    OBVIOUS
  <1>3. Len(new) \in Nat /\ Len(new) >= 1 /\ new[Len(new)].fcnt = f.fcnt
    BY <1>1, <1>2, AnswerPlaces
  <1>4. PICK n : n = Cardinality(Later(node'.win, f.fcnt)) /\ n \in Nat
    BY TakenWindow, LaterCounted
  <1>5. Len(new) \in 1..Len(new) /\ Len(new) - Len(new) <= n
    BY <1>3, <1>4
  <1>6. Cardinality(Overtook(f)') = n
    BY <1>4 DEF Overtook, Later
  <1> QED
    BY <1>2, <1>3, <1>5, <1>6 DEF Recognised

\* A frame overtaken by another: it is still new, or it is one place further from the end, and
\* one more has overtaken it, unless the window has left it behind.
LEMMA OvertakenOnce ==
  ASSUME World, WindowKept(hub), NEW a \in Nat, a > node.win.mark, NEW ok \in BOOLEAN,
         node'.win = Admitted(node.win, a, ReplayWindow),
         node'.cache = Noted(node.cache, a, ok, CacheEntries),
         NEW x, x.fcnt \in Nat, x.fcnt < a, Recognised(x)
  PROVE  Recognised(x)'
  <1>1. /\ node.win \in Windows /\ node'.win \in Windows /\ node'.win.mark = a
        /\ node.win.mark \in Nat /\ \A id \in node.win.seen : id <= node.win.mark
    <2>1. node.win \in Windows /\ node'.win \in Windows /\ node'.win.mark = a
      BY TakenWindow
    <2> QED
      BY <2>1 DEF Windows
  <1>2. CASE a - x.fcnt >= ReplayWindow
    BY <1>1, <1>2 DEF Recognised
  <1>3. CASE ~(a - x.fcnt >= ReplayWindow)
    <2>0. ReplayWindow \in Nat /\ CacheEntries \in Nat
      BY NodeAssumption
    <2>1. a - x.fcnt < ReplayWindow
      BY <1>3, <2>0
    <2>2. /\ Later(node'.win, x.fcnt) = Later(node.win, x.fcnt) \cup {a}
          /\ a \notin Later(node.win, x.fcnt)
          /\ \A n \in node'.win.seen : n \in node.win.seen \/ n = a
      <3>1. PICK w, v : w = node.win /\ v = Admitted(w, a, ReplayWindow) /\ v = node'.win
        OBVIOUS
      <3>2. w \in Windows /\ a > w.mark
        BY <1>1, <3>1
      <3>3. (\A n \in v.seen : n \in w.seen \/ n = a) /\ OneMore(w, v, a)
        BY <3>1, <3>2, WindowMoves
      <3> QED
        BY <2>1, <3>1, <3>2, <3>3 DEF OneMore
    <2>3. PICK n : n = Cardinality(Later(node.win, x.fcnt)) /\ n \in Nat
                   /\ Cardinality(Later(node'.win, x.fcnt)) = n + 1
      <3>1. PICK S : S = Later(node.win, x.fcnt)
        OBVIOUS
      <3>2. IsFiniteSet(S) /\ Cardinality(S) \in Nat
        BY <1>1, <3>1, LaterCounted
      <3>3. Cardinality(S \cup {a}) = Cardinality(S) + 1
        BY <2>2, <3>1, <3>2, FS_AddElement
      <3> QED
        BY <2>2, <3>1, <3>2, <3>3
    <2>4. Cardinality(Overtook(x)) = n /\ Cardinality(Overtook(x)') = n + 1
      BY <2>3 DEF Overtook, Later
    <2>5. CASE New(x)
      <3>1. x.fcnt \notin node.win.seen
        BY <1>1, <2>5 DEF New, Admissible
      <3>2. x.fcnt \notin node'.win.seen
        BY <2>2, <3>1
      <3> QED
        BY <1>1, <2>1, <3>2 DEF Recognised, New, Admissible
    <2>6. CASE n >= CacheEntries
      <3>1. n + 1 >= CacheEntries
        BY <2>0, <2>3, <2>6
      <3> QED
        BY <2>4, <3>1 DEF Recognised
    <2>7. CASE \E p \in 1..Len(node.cache) :
                 node.cache[p].fcnt = x.fcnt /\ Len(node.cache) - p <= n
      <3>1. PICK p \in 1..Len(node.cache) : node.cache[p].fcnt = x.fcnt /\ Len(node.cache) - p <= n
        BY <2>7
      <3>2. Len(node.cache) \in Nat
        BY DEF World, NodeStates
      <3>a. DOMAIN node.cache = 1..Len(node.cache)
        BY DEF World, NodeStates
      <3>3. CASE Cached(node.cache, a)
        <4>1. PICK m \in 1..Len(node.cache) : node.cache[m].fcnt = a
          BY <3>a, <3>3 DEF Cached, Positions
        <4>2. ~Admissible(node.win, a, ReplayWindow)
          BY <4>1 DEF WindowKept, Cache
        <4> QED
          BY <4>2 DEF Admissible
      <3>4. CASE ~Cached(node.cache, a)
        <4>1. PICK new : new = Noted(node.cache, a, ok, CacheEntries)
          OBVIOUS
        <4>2. /\ Len(new) \in Nat
              /\ \/ Len(node.cache) - p + 1 >= CacheEntries
                 \/ \E m \in 1..Len(new) : /\ new[m].fcnt = node.cache[p].fcnt
                                          /\ Len(new) - m = Len(node.cache) - p + 1
          <5>1. Len(new) \in Nat /\ MovedUp(node.cache, new)
            BY <3>4, <4>1, AnswerPlaces
          <5> QED
            BY <3>1, <5>1 DEF MovedUp
        <4>3. CASE Len(node.cache) - p + 1 >= CacheEntries
          <5>1. n + 1 >= CacheEntries
            BY <2>0, <2>3, <3>1, <3>2, <4>3
          <5> QED
            BY <2>4, <5>1 DEF Recognised
        <4>4. CASE \E m \in 1..Len(new) : /\ new[m].fcnt = node.cache[p].fcnt
                                          /\ Len(new) - m = Len(node.cache) - p + 1
          <5>1. PICK m \in 1..Len(new) : new[m].fcnt = x.fcnt /\ Len(new) - m = Len(node.cache) - p + 1
            BY <3>1, <4>4
          <5>2. Len(new) - m <= n + 1
            BY <2>3, <3>1, <3>2, <4>2, <5>1
          <5> QED
            BY <2>4, <4>1, <5>1, <5>2 DEF Recognised
        <4> QED
          BY <4>2, <4>3, <4>4
      <3> QED
        BY <3>3, <3>4
    <2>8. node.win.mark - x.fcnt >= ReplayWindow => FALSE
      BY <1>1, <2>0, <2>1
    <2> QED
      BY <2>4, <2>5, <2>6, <2>7, <2>8 DEF Recognised
  <1> QED
    BY <1>2, <1>3

\* A frame of another channel takes the next number of the session: what the node remembers
\* of it was not numbered by a command.
LEMMA OtherChannelStep == DeliveryInv /\ OtherChannel => Step
  <1> SUFFICES ASSUME DeliveryInv, OtherChannel PROVE Step
    OBVIOUS
  <1>1. /\ Typed /\ World /\ hub \in HubStates /\ node \in NodeStates /\ up \in Seq(Uplinks)
        /\ FramesKept(hub) /\ KeysKept(hub, up) /\ MemoryKept(hub) /\ AcksKept(up) /\ RunsKept /\ faults \in Nat
        /\ asked \in Seq(Kinds) /\ ran \subseteq Executions /\ Packed(hub) \subseteq Frames
    BY BeforeNode
  <1>2. PICK f : f = [key |-> hub.key, fcnt |-> hub.tx + 1, cmd |-> 0]
    OBVIOUS
  <1>3. /\ f.key = hub.key /\ f.fcnt = hub.tx + 1 /\ hub.tx \in Nat /\ f.fcnt \in Nat
    BY <1>1, <1>2 DEF HubStates
  <1>4. /\ ran' = ran /\ asked' = asked /\ up' = up /\ faults' = faults + 1
        /\ hub' = [hub EXCEPT !.tx = f.fcnt]
        /\ node' = node \/ (node' = Taken(f, TRUE) /\ node.key = f.key)
    BY <1>2 DEF OtherChannel
  <1>0. PICK ok : ok = TRUE /\ ok \in BOOLEAN
    OBVIOUS
  <1>5. hub' \in HubStates /\ Thins(hub, hub') /\ Packed(hub)' \subseteq Packed(hub) /\ hub'.tx = f.fcnt
    <2>0. PICK n : n = f.fcnt /\ n \in Nat /\ n >= hub.tx
      BY <1>3
    <2>1. hub' \in HubStates /\ hub'.tx = f.fcnt /\ hub'.sent = hub.sent /\ hub'.frame = hub.frame
      BY <1>1, <1>4, <2>0 DEF HubStates
    <2>2. Thins(hub, hub')
      BY <1>1, <1>4, <2>0, <2>1 DEF Thins, HubStates
    <2> QED
      BY <1>4, <2>1, <2>2 DEF Packed
  <1>6. PICK q : q = up
    OBVIOUS
  <1>7. /\ node' \in NodeStates /\ node'.sess = node.sess /\ node'.key = node.key /\ node'.nonces = node.nonces
        /\ RunsKept' /\ MemoryKept(hub)' /\ RecognitionKept(hub)'
    <2>1. CASE node' = node
      <3>1. MemoryKept(hub)'
        BY <1>1, <1>4, <1>5, <2>1, MemoryStays DEF Cache
      <3>2. RecognitionKept(hub)'
        BY <1>1, <1>5, <2>1, BeforeNode, RecognitionStays
      <3> QED
        BY <1>1, <1>4, <2>1, <3>1, <3>2 DEF RunsKept, Sealed
    <2>2. CASE node' = Taken(f, TRUE) /\ node.key = f.key
      <3>0. node' = Taken(f, ok)
        BY <1>0, <2>2
      <3>1. /\ node' \in NodeStates /\ node'.sess = node.sess /\ node'.key = node.key /\ node'.nonces = node.nonces
            /\ node'.win = Admitted(node.win, f.fcnt, ReplayWindow)
            /\ node'.cache = Noted(node.cache, f.fcnt, ok, CacheEntries)
        BY <1>0, <1>1, <1>3, <3>0, TakenNode
      <3>2. RunsKept'
        <4>1. \A x \in ran : x[3] \in Nat
          BY <1>1 DEF Executions
        <4>2. node.win \in [mark : Nat, seen : SUBSET Nat]
          BY <1>1 DEF NodeStates
        <4> QED
          BY <1>1, <1>3, <1>4, <3>1, <4>1, <4>2, WindowShuts DEF RunsKept, Sealed
      <3>3. \A c \in Cache' : c \in Cache \/ c.fcnt = f.fcnt
        BY <1>0, <1>1, <1>3, <3>1, TakenCache
      <3>4. \A c \in Cache : c.fcnt \in Nat
        BY <1>1, CacheEntriesTyped
      <3>5. node'.key = hub'.key /\ node.key = hub.key
        BY <1>3, <1>5, <2>2, <3>1 DEF Thins
      <3>6. \A c \in Cache' : node'.key # 0 => c.fcnt <= hub'.tx
        <4> SUFFICES ASSUME NEW c \in Cache', node'.key # 0 PROVE c.fcnt <= hub'.tx
          OBVIOUS
        <4>1. CASE c \in Cache
          <5>1. c.fcnt \in Nat /\ c.fcnt <= hub.tx
            BY <1>1, <3>1, <3>4, <3>5, <4>1 DEF MemoryKept
          <5> QED
            BY <1>3, <1>5, <5>1
        <4>2. CASE c.fcnt = f.fcnt
          BY <1>3, <1>5, <4>2
        <4> QED
          BY <3>3, <4>1, <4>2
      <3>7. ASSUME NEW g \in Packed(hub)', NEW c \in Cache', g.key = node'.key, node'.key # 0,
                   c.fcnt = g.fcnt, c.ok
            PROVE  \E x \in ran' : x[2] = node'.key /\ x[3] = c.fcnt
        <4>1. g \in Packed(hub) /\ g.fcnt \in Nat /\ g.fcnt <= hub.tx
          BY <1>1, <1>5, <3>1, <3>5, <3>7, FrameFields DEF FramesKept, Live
        <4>2. c \in Cache
          BY <1>3, <3>3, <3>7, <4>1
        <4>3. \A a \in Packed(hub), b \in Cache :
                a.key = node.key /\ node.key # 0 /\ b.fcnt = a.fcnt /\ b.ok
                  => \E x \in ran : x[2] = node.key /\ x[3] = b.fcnt
          BY <1>1 DEF MemoryKept
        <4> QED
          BY <1>4, <3>1, <3>7, <4>1, <4>2, <4>3
      <3>8. WindowKept(hub) /\ OneCommand(hub) /\ RecognitionKept(hub) /\ node.win.mark \in Nat
        BY <1>1, BeforeNode DEF RecognitionKept, NodeStates
      <3>9. WindowKept(hub)'
        <4>1. /\ node'.win \in Windows
              /\ node'.win.mark = IF f.fcnt > node.win.mark THEN f.fcnt ELSE node.win.mark
              /\ \A c \in Cache' : ~Admissible(node'.win, c.fcnt, ReplayWindow)
          BY <1>0, <1>1, <1>3, <3>1, <3>8, TakenWindow
        <4>2. node.key # 0 => node.win.mark <= hub.tx
          BY <3>5, <3>8 DEF WindowKept
        <4>3. node'.key # 0 => node'.win.mark <= hub'.tx
          BY <1>3, <1>5, <3>1, <3>8, <4>1, <4>2
        <4> QED
          BY <3>5, <4>1, <4>3 DEF WindowKept, Windows
      <3>10. ASSUME NEW x \in Unfinished(hub)', x.key = node'.key, x.key # 0
             PROVE  Recognised(x)'
        <4>1. x \in Unfinished(hub) /\ x \in Packed(hub) /\ x \in Frames /\ x.fcnt \in Nat
          BY <1>1, <1>5, FewerUnfinished, FrameFields, <3>8 DEF Unfinished, Packed
        <4>2. x.key = node.key /\ Recognised(x)
          BY <3>1, <3>8, <3>10, <4>1 DEF RecognitionKept
        <4>3. x.fcnt <= hub.tx /\ node.win.mark <= hub.tx
          BY <1>1, <3>5, <3>8, <3>10, <4>1, <4>2 DEF FramesKept, Live, WindowKept
        <4>4. PICK a : a = f.fcnt /\ a \in Nat /\ a > node.win.mark /\ x.fcnt < a
          BY <1>3, <3>8, <4>1, <4>3
        <4> QED
          BY <1>0, <1>1, <3>1, <3>8, <4>1, <4>2, <4>4, OvertakenOnce
      <3>11. RecognitionKept(hub)'
        BY <1>1, <1>5, <3>8, <3>9, <3>10, FewerUnfinished DEF RecognitionKept
      <3> QED
        BY <3>1, <3>2, <3>5, <3>6, <3>7, <3>11 DEF MemoryKept
    <2> QED
      BY <1>4, <2>1, <2>2
  <1>8. KeysKept(hub, up)'
    <2>1. KeysKept(hub, q)'
      BY <1>1, <1>5, <1>6, <1>7, KeysStay
    <2>2. up' = q
      BY <1>4, <1>6
    <2> QED
      BY <2>1, <2>2 DEF KeysKept
  <1>9. AcksKept(up)'
    BY <1>1, <1>4 DEF AcksKept
  <1>10. Typed'
    BY <1>1, <1>4, <1>5, <1>7 DEF Typed
  <1>11. PICK h, r : h = hub /\ r = hub'
    OBVIOUS
  <1> QED
    BY <1>4, <1>5, <1>7, <1>8, <1>9, <1>10, <1>11, NodeActs

\* A frame the node has taken before: at most its answer goes out again, and what it says is
\* what was done.
LEMMA NodeReplayStep == \A f \in hub.sent : DeliveryInv /\ NodeReplay(f) => Step
  <1> SUFFICES ASSUME NEW f \in hub.sent, DeliveryInv, NodeReplay(f) PROVE Step
    OBVIOUS
  <1>1. /\ Typed /\ World /\ hub \in HubStates /\ node \in NodeStates /\ up \in Seq(Uplinks)
        /\ KeysKept(hub, up) /\ MemoryKept(hub) /\ AcksKept(up) /\ RunsKept /\ faults \in Nat
        /\ asked \in Seq(Kinds) /\ ran \subseteq Executions /\ hub.sent \subseteq Frames
    BY BeforeNode
  <1>2. ran' = ran /\ asked' = asked /\ faults' = faults /\ f.cmd # 0 /\ f.key = node.key /\ f.fcnt \in Nat
    BY <1>1, FrameFields DEF NodeReplay
  <1>3. hub' \in HubStates /\ Thins(hub, hub') /\ Packed(hub)' \subseteq Packed(hub)
    <2>1. PICK F : F = hub.sent \ {f}
      OBVIOUS
    <2>2. F \subseteq hub.sent /\ hub' = [hub EXCEPT !.sent = F]
      BY <2>1 DEF NodeReplay
    <2> QED
      BY <1>1, <1>2, <2>2, AirEmpties
  <1>4. PICK q : q = up
    OBVIOUS
  <1>5. CASE f.key # 0 /\ AnsweredAgain(node.cache, f.fcnt, MaxReAcks)
    <2>1. PICK c : c = EntryOf(node.cache, f.fcnt)
      OBVIOUS
    <2>2. c \in Cache /\ c.fcnt = f.fcnt /\ c.ok \in BOOLEAN
      <3>1. PICK n \in DOMAIN node.cache : node.cache[n].fcnt = f.fcnt
        BY <1>5 DEF AnsweredAgain, Cached, Positions
      <3>2. node.cache[n] \in Range(node.cache)
        BY DEF Range
      <3>3. c \in Range(node.cache) /\ c.fcnt = f.fcnt
        BY <2>1, <3>1, <3>2 DEF EntryOf
      <3>4. DOMAIN node.cache = 1..Len(node.cache)
        BY <1>1 DEF NodeStates
      <3>5. c \in Cache
        BY <3>3, <3>4 DEF Range, Cache
      <3> QED
        BY <1>1, <3>3, <3>5, CacheEntriesTyped
    <2>3. PICK u : u = Uplink(f.fcnt, c.ok, FALSE)
      OBVIOUS
    <2>4. node' = [node EXCEPT !.cache = ReAcked(@, f.fcnt)] /\ (up' = q \/ up' = Append(q, u))
      BY <1>4, <1>5, <2>1, <2>3 DEF NodeReplay, Send
    <2>5. PICK new : new = ReAcked(node.cache, f.fcnt)
      OBVIOUS
    <2>6. /\ new \in Seq([fcnt : Nat, ok : BOOLEAN, reacks : Nat]) /\ Len(new) = Len(node.cache)
          /\ \A i \in 1..Len(new) : new[i].fcnt = node.cache[i].fcnt /\ new[i].ok = node.cache[i].ok
      BY <1>1, <1>2, <2>5, AnswerRepeated
    <2>7. /\ node' \in NodeStates /\ node'.sess = node.sess /\ node'.key = node.key
          /\ node'.nonces = node.nonces /\ node'.win = node.win /\ node'.cache = new
      BY <1>1, <2>4, <2>5, <2>6 DEF NodeStates
    <2>8. KeysKept(hub, q)'
      BY <1>1, <1>3, <1>4, <2>7, KeysStay
    <2>9. MemoryKept(hub)'
      <3>1. \A a \in Cache' : \E b \in Cache : a.fcnt = b.fcnt /\ a.ok = b.ok
        BY <2>6, <2>7 DEF Cache
      <3>2. node.cache = <<>> => node'.cache = <<>>
        BY <2>6, <2>7
      <3> QED
        BY <1>1, <1>2, <1>3, <2>7, <3>1, <3>2, MemoryStays
    <2>10. RunsKept'
      BY <1>1, <1>2, <2>7 DEF RunsKept, Sealed
    <2>11. World' /\ AcksKept(q)'
      BY <1>1, <1>2, <1>4, <2>7 DEF World, AcksKept
    <2>12. u.key # 0 /\ u.ack # 0 /\ u.ok => \E x \in ran' : x[2] = u.key /\ x[3] = u.ack
      <3>1. u.key = node.key /\ u.ack = f.fcnt /\ u.ok = c.ok
        BY <2>3, <2>7 DEF Uplink
      <3>2. f \in Packed(hub)
        BY <1>2 DEF Packed
      <3>3. \A a \in Packed(hub), b \in Cache :
              a.key = node.key /\ node.key # 0 /\ b.fcnt = a.fcnt /\ b.ok
                => \E x \in ran : x[2] = node.key /\ x[3] = b.fcnt
        BY <1>1 DEF MemoryKept
      <3> QED
        BY <1>2, <2>2, <3>1, <3>2, <3>3
    <2>13. PICK ok, opening : ok = c.ok /\ opening = FALSE /\ opening \in BOOLEAN
      OBVIOUS
    <2>14. up' \in Seq(Uplinks) /\ KeysKept(hub, up)' /\ AcksKept(up)'
      BY <1>1, <1>2, <1>3, <1>4, <2>2, <2>3, <2>4, <2>8, <2>11, <2>12, <2>13, UplinkGoes
    <2>15. Typed'
      BY <1>1, <1>2, <1>3, <2>7, <2>14 DEF Typed
    <2>16. PICK h, r : h = hub /\ r = hub'
      OBVIOUS
    <2>17. RecognitionKept(hub)'
      BY <1>1, <1>3, <2>6, <2>7, BeforeNode, RecognitionStays
    <2> QED
      BY <1>2, <1>3, <2>9, <2>10, <2>14, <2>15, <2>16, <2>17, NodeActs
  <1>6. CASE ~(f.key # 0 /\ AnsweredAgain(node.cache, f.fcnt, MaxReAcks))
    <2>1. node' = node /\ up' = up
      BY <1>6 DEF NodeReplay
    <2>2. KeysKept(hub, q)'
      BY <1>1, <1>3, <1>4, <2>1, KeysStay
    <2>3. KeysKept(hub, up)'
      <3>1. up' = q
        BY <1>4, <2>1
      <3> QED
        BY <2>2, <3>1, SMTT(30) DEF KeysKept
    <2>4. MemoryKept(hub)'
      BY <1>1, <1>2, <1>3, <2>1, MemoryStays DEF Cache
    <2>5. RunsKept' /\ AcksKept(up)'
      BY <1>1, <1>2, <2>1 DEF RunsKept, Sealed, AcksKept
    <2>6. Typed'
      BY <1>1, <1>2, <1>3, <2>1 DEF Typed
    <2>7. PICK h, r : h = hub /\ r = hub'
      OBVIOUS
    <2>8. RecognitionKept(hub)'
      BY <1>1, <1>3, <2>1, BeforeNode, RecognitionStays
    <2> QED
      BY <1>2, <1>3, <2>3, <2>4, <2>5, <2>6, <2>7, <2>8, NodeActs
  <1> QED
    BY <1>5, <1>6

\* A command the replay filter lets through: nothing that was run before has its number, and
\* what the node now remembers as done is on record as run.
LEMMA NodeCommandStep ==
  \A f \in hub.sent : \A ok \in BOOLEAN : DeliveryInv /\ NodeCommand(f, ok) => Step
  <1> SUFFICES ASSUME NEW f \in hub.sent, NEW ok \in BOOLEAN, DeliveryInv, NodeCommand(f, ok) PROVE Step
    OBVIOUS
  <1>1. /\ Typed /\ World /\ hub \in HubStates /\ node \in NodeStates /\ up \in Seq(Uplinks)
        /\ FramesKept(hub) /\ KeysKept(hub, up) /\ MemoryKept(hub) /\ AcksKept(up) /\ RunsKept /\ faults \in Nat
        /\ asked \in Seq(Kinds) /\ ran \subseteq Executions /\ hub.sent \subseteq Frames
        /\ Packed(hub) \subseteq Frames
    BY BeforeNode
  <1>2. /\ asked' = asked /\ faults' = faults /\ f.cmd # 0 /\ f.key = node.key /\ New(f)
        /\ f.fcnt \in Nat /\ f.cmd \in Nat /\ f.key \in Nat /\ f \in Packed(hub) /\ f \in Frames
    BY <1>1, FrameFields DEF NodeCommand, Packed
  <1>3. PICK again : again = \E x \in ran : x[1] = f.cmd /\ x[2] = f.key /\ x[3] = f.fcnt
    OBVIOUS
  <1>4. PICK x0 : x0 = <<f.cmd, f.key, f.fcnt, again>>
    OBVIOUS
  <1>5. ran' = IF ok THEN ran \cup {x0} ELSE ran
    BY <1>3, <1>4 DEF NodeCommand, Ran
  <1>6. /\ x0[1] = f.cmd /\ x0[2] = f.key /\ x0[3] = f.fcnt /\ x0 \in Executions
        /\ [key |-> x0[2], fcnt |-> x0[3], cmd |-> x0[1]] = f
    BY <1>2, <1>3, <1>4 DEF Executions, Frames
  <1>7. ran \subseteq ran' /\ ran' \subseteq Executions /\ (ok => x0 \in ran')
        /\ \A x \in ran' : x \in ran \/ (x = x0 /\ ok)
    BY <1>1, <1>5, <1>6
  <1>8. hub' \in HubStates /\ Thins(hub, hub') /\ Packed(hub)' \subseteq Packed(hub)
    <2>1. hub' = [hub EXCEPT !.sent = @ \ {f}]
      BY DEF NodeCommand
    <2>2. hub' \in HubStates /\ Thins(hub, hub') /\ hub'.frame = hub.frame /\ hub'.sent \subseteq hub.sent
      <3>1. PICK F : F = hub.sent \ {f}
        OBVIOUS
      <3>2. hub' = [hub EXCEPT !.sent = F] /\ F \subseteq hub.sent
        BY <2>1, <3>1
      <3> QED
        BY <1>1, <3>2, FewerFrames
    <2>3. \A x \in ran' : [key |-> x[2], fcnt |-> x[3], cmd |-> x[1]] \in Packed(hub)
      BY <1>2, <1>6, <1>7 DEF Packed
    <2> QED
      BY <2>2, <2>3 DEF Packed
  <1>9. /\ node' \in NodeStates /\ node'.sess = node.sess /\ node'.key = node.key /\ node'.nonces = node.nonces
        /\ node'.win = Admitted(node.win, f.fcnt, ReplayWindow)
        /\ node'.cache = Noted(node.cache, f.fcnt, ok, CacheEntries)
    <2>1. PICK t : t = Taken(f, ok)
      OBVIOUS
    <2>2. /\ t \in NodeStates /\ t.sess = node.sess /\ t.key = node.key /\ t.nonces = node.nonces
          /\ t.win = Admitted(node.win, f.fcnt, ReplayWindow)
          /\ t.cache = Noted(node.cache, f.fcnt, ok, CacheEntries)
      BY <1>1, <1>2, <2>1, TakenNode
    <2>3. PICK a : a \in BOOLEAN /\ node' = [t EXCEPT !.asleep = a]
      BY <2>1 DEF NodeCommand
    <2> QED
      BY <2>2, <2>3 DEF NodeStates
  <1>10. World'
    BY <1>1, <1>2, <1>7, <1>9 DEF World
  <1>11. PICK q : q = up
    OBVIOUS
  <1>12. KeysKept(hub, q)'
    BY <1>1, <1>8, <1>9, <1>11, KeysStay
  <1>13. AcksKept(q)'
    BY <1>1, <1>7, <1>11 DEF AcksKept
  <1>14. RunsKept'
    <2>1. \A x \in ran' : x[3] \in Nat
      BY <1>7 DEF Executions
    <2>2. node.win \in [mark : Nat, seen : SUBSET Nat]
      BY <1>1 DEF NodeStates
    <2>3. \A x \in ran' : x[2] = node'.key /\ node'.key # 0 => ~Admissible(node'.win, x[3], ReplayWindow)
      <3> SUFFICES ASSUME NEW x \in ran', x[2] = node'.key, node'.key # 0
                   PROVE  ~Admissible(node'.win, x[3], ReplayWindow)
        OBVIOUS
      <3>1. CASE x \in ran
        <4>1. ~Admissible(node.win, x[3], ReplayWindow)
          BY <1>1, <1>9, <3>1 DEF RunsKept
        <4> QED
          BY <1>2, <1>9, <2>1, <2>2, <4>1, WindowShuts
      <3>2. CASE x = x0
        BY <1>2, <1>6, <1>9, <2>2, <3>2, WindowShuts
      <3> QED
        BY <1>7, <3>1, <3>2
    <2>4. \A x \in ran : ~(x[2] = f.key /\ x[3] = f.fcnt /\ f.key # 0)
      BY <1>1, <1>2 DEF RunsKept, New
    <2>5. ASSUME NEW x \in ran', NEW y \in ran', x[2] # 0, y[2] # 0,
                 x[1] = y[1], x[2] = y[2], x[3] = y[3]
          PROVE  x = y
      BY <1>1, <1>6, <1>7, <2>4, <2>5 DEF RunsKept, Sealed
    <2> QED
      BY <2>3, <2>5 DEF RunsKept, Sealed
  <1>15. MemoryKept(hub)'
    <2>1. \A c \in Cache' : c \in Cache \/ (c.fcnt = f.fcnt /\ c.ok = ok)
      BY <1>1, <1>2, <1>9, TakenCache
    <2>2. \A c \in Cache : c.fcnt \in Nat
      BY <1>1, CacheEntriesTyped
    <2>3. ASSUME node'.sess = hub'.sess, node'.key # 0, node'.key # hub'.key PROVE FALSE
      BY <1>1, <1>2, <1>8, <1>9, <2>3 DEF KeysKept, Thins
    <2>4. ASSUME NEW c \in Cache', hub'.key = node'.key, node'.key # 0 PROVE c.fcnt <= hub'.tx
      <3>1. hub.key = node.key /\ node.key # 0 /\ hub.tx \in Nat /\ hub'.tx \in Nat /\ hub'.tx >= hub.tx
        BY <1>1, <1>8, <1>9, <2>4 DEF Thins, HubStates
      <3>2. CASE c \in Cache
        <4>1. c.fcnt <= hub.tx /\ c.fcnt \in Nat
          BY <1>1, <2>2, <3>1, <3>2 DEF MemoryKept
        <4> QED
          BY <3>1, <4>1
      <3>3. CASE c.fcnt = f.fcnt
        <4>1. f.fcnt <= hub.tx
          BY <1>1, <1>2, <3>1 DEF FramesKept, Live
        <4> QED
          BY <1>2, <3>1, <3>3, <4>1
      <3> QED
        BY <2>1, <3>2, <3>3
    <2>5. ASSUME NEW g \in Packed(hub)', NEW c \in Cache', g.key = node'.key, node'.key # 0,
                 c.fcnt = g.fcnt, c.ok
          PROVE  \E x \in ran' : x[2] = node'.key /\ x[3] = c.fcnt
      <3>1. CASE c \in Cache
        <4>1. \A a \in Packed(hub), b \in Cache :
                a.key = node.key /\ node.key # 0 /\ b.fcnt = a.fcnt /\ b.ok
                  => \E x \in ran : x[2] = node.key /\ x[3] = b.fcnt
          BY <1>1 DEF MemoryKept
        <4>2. g \in Packed(hub) /\ g.key = node.key /\ node.key # 0
          BY <1>8, <1>9, <2>5
        <4>3. \E x \in ran : x[2] = node.key /\ x[3] = c.fcnt
          BY <2>5, <3>1, <4>1, <4>2
        <4> QED
          BY <1>7, <1>9, <4>3
      <3>2. CASE c.fcnt = f.fcnt /\ c.ok = ok
        <4>1. x0 \in ran' /\ x0[2] = node'.key /\ x0[3] = c.fcnt
          BY <1>2, <1>6, <1>7, <1>9, <2>5, <3>2
        <4> QED
          BY <4>1
      <3> QED
        BY <2>1, <3>1, <3>2
    <2> QED
      BY <2>3, <2>4, <2>5 DEF MemoryKept
  <1>16. up' \in Seq(Uplinks) /\ KeysKept(hub, up)' /\ AcksKept(up)'
    <2>1. CASE f.key = 0
      <3>1. up' = q
        BY <1>11, <2>1 DEF NodeCommand
      <3> QED
        BY <1>1, <1>11, <1>12, <1>13, <3>1 DEF KeysKept, AcksKept
    <2>2. CASE f.key # 0
      <3>1. PICK u, opening : u = Uplink(f.fcnt, ok, opening) /\ opening = FALSE /\ opening \in BOOLEAN
        OBVIOUS
      <3>2. u.key = node'.key /\ u.ack = f.fcnt /\ u.ok = ok
        BY <3>1 DEF Uplink
      <3>3. up' = q \/ up' = Append(q, u)
        BY <1>11, <2>2, <3>1 DEF NodeCommand, Send
      <3>4. u.key # 0 /\ u.ack # 0 /\ u.ok => \E x \in ran' : x[2] = u.key /\ x[3] = u.ack
        BY <1>2, <1>6, <1>7, <1>9, <3>2
      <3> QED
        BY <1>1, <1>2, <1>8, <1>10, <1>11, <1>12, <1>13, <3>1, <3>3, <3>4, UplinkGoes
    <2> QED
      BY <2>1, <2>2
  <1>17. Typed'
    BY <1>1, <1>2, <1>7, <1>8, <1>9, <1>16 DEF Typed
  <1>18. PICK h, r : h = hub /\ r = hub'
    OBVIOUS
  <1>19. RecognitionKept(hub)'
    <2>1. WindowKept(hub) /\ OneCommand(hub) /\ RecognitionKept(hub) /\ node.win.mark \in Nat
      BY <1>1, BeforeNode DEF RecognitionKept, NodeStates
    <2>2. WindowKept(hub)'
      <3>1. /\ node'.win \in Windows
            /\ node'.win.mark = IF f.fcnt > node.win.mark THEN f.fcnt ELSE node.win.mark
            /\ \A c \in Cache' : ~Admissible(node'.win, c.fcnt, ReplayWindow)
        BY <1>1, <1>2, <1>9, <2>1, TakenWindow
      <3>2. ~(node'.sess = hub'.sess /\ node'.key # 0 /\ node'.key # hub'.key)
        BY <1>1, <1>2, <1>8, <1>9 DEF KeysKept, Thins
      <3>3. ASSUME hub'.key = node'.key, node'.key # 0 PROVE node'.win.mark <= hub'.tx
        <4>1. hub.key = node.key /\ node.key # 0 /\ hub.tx \in Nat /\ hub'.tx \in Nat /\ hub'.tx >= hub.tx
          BY <1>1, <1>8, <1>9, <3>3 DEF Thins, HubStates
        <4>2. f.fcnt <= hub.tx /\ node.win.mark <= hub.tx
          BY <1>1, <1>2, <2>1, <4>1 DEF FramesKept, Live, WindowKept
        <4> QED
          BY <1>2, <2>1, <3>1, <4>1, <4>2
      <3> QED
        BY <3>1, <3>2, <3>3 DEF WindowKept, Windows
    <2>3. ASSUME NEW x \in Unfinished(hub)', x.key = node'.key, x.key # 0
          PROVE  Recognised(x)'
      <3>1. x \in Unfinished(hub) /\ x \in Packed(hub) /\ f \in Unfinished(hub)
        BY <1>1, <1>2, <1>8, <2>1, FewerUnfinished DEF Unfinished, Packed
      <3>2. x = f
        BY <1>1, <1>2, <1>9, <2>1, <2>3, <3>1 DEF OneCommand, FramesKept
      <3> QED
        BY <1>1, <1>2, <1>9, <2>1, <3>2, TakenLast
    <2> QED
      BY <1>1, <1>8, <2>1, <2>2, <2>3, FewerUnfinished DEF RecognitionKept
  <1> QED
    BY <1>2, <1>7, <1>8, <1>14, <1>15, <1>16, <1>17, <1>18, <1>19, NodeActs

LEMMA EveryStep == DeliveryInv /\ Next => Step
  <1> SUFFICES ASSUME DeliveryInv, Next PROVE Step
    OBVIOUS
  <1>1. CASE Hub
    BY <1>1, SubmitStep, TimeoutStep, TimerSteps, ExpiryStep, ReceiveStep DEF Hub
  <1>2. CASE Node
    BY <1>2, NodeLoginStep, NodeReplayStep, NodeCommandStep, OtherChannelStep, NodeStatusStep,
       NodeRebootStep, LoseUplinkStep DEF Node
  <1> QED
    BY <1>1, <1>2 DEF Next

LEMMA NothingStays ==
  ASSUME DeliveryInv, UNCHANGED vars
  PROVE  Step
  <1>1. DeliveryInv'
    <2>1. /\ UNCHANGED <<asked, node, ran>> /\ hub' = hub /\ up' = up /\ faults' = faults
          /\ up \in Seq(Uplinks) /\ faults \in Nat /\ HubInv(hub, up) /\ AcksKept(up)
      BY InvIs DEF vars, Typed
    <2>2. HubInv(hub', up') /\ AcksKept(up')
      BY <2>1
    <2> QED
      BY <2>1, <2>2, HandlerKeeps
  <1>2. LineStep
    BY DEF vars, LineStep, Line!lineVars, Busy
  <1> QED
    BY <1>1, <1>2 DEF Step

LEMMA BeginsInOrder == Init => DeliveryInv
  <1> SUFFICES ASSUME Init PROVE DeliveryInv
    OBVIOUS
  <1>1. Typed
    <2>1. hub \in HubStates
      <3>1. <<>> \in Seq(Nat) /\ <<>> \in Seq(Ends) /\ {} \in SUBSET Frames
        OBVIOUS
      <3> QED
        BY <3>1, NoFrameIsFrame DEF Init, HubStates
    <2>2. node \in NodeStates
      <3>1. <<>> \in Seq([fcnt : Nat, ok : BOOLEAN, reacks : Nat])
        OBVIOUS
      <3> QED
        BY <3>1, FreshIsWindow DEF Init, NodeStates
    <2> QED
      BY <2>1, <2>2 DEF Init, Typed
  <1>2. /\ hub.cmd = 0 /\ hub.line = <<>> /\ hub.ended = <<>> /\ asked = <<>> /\ ~Busy(hub) /\ up = <<>>
        /\ hub.frame = NoFrame /\ ~hub.opt /\ hub.timer = "off" /\ ~hub.asleep /\ ~hub.pending /\ ~hub.relogin
        /\ hub.sent = {} /\ ran = {} /\ node.cache = <<>> /\ hub.key = 1 /\ hub.sess = 1
        /\ node.sess = 1 /\ node.key = 1 /\ node.nonces = 1 /\ ~hub.deferred /\ ~hub.awaiting
    BY DEF Init, Busy
  <1>3. Packed(hub) = {} /\ Cache = {}
    BY <1>2 DEF Packed, Cache
  <1>4. LineKept(hub) /\ LineOnce(hub)
    BY <1>2, PolicyAssumption DEF LineKept, LineOnce, Distinct
  <1>5. SlotKept(hub) /\ SleepKept(hub) /\ DeliveredRan(hub)
    BY <1>2 DEF SlotKept, SleepKept, DeliveredRan
  <1>6. FramesKept(hub) /\ MemoryKept(hub)
    BY <1>2, <1>3 DEF FramesKept, MemoryKept
  <1>7. KeysKept(hub, up) /\ AcksKept(up) /\ RunsKept
    BY <1>2, <1>3 DEF KeysKept, AcksKept, RunsKept, Sealed
  <1>8. RecognitionKept(hub)
    BY <1>2, <1>3 DEF Init, RecognitionKept, OneCommand, WindowKept, Unfinished, FreshWindow
  <1> QED
    BY <1>1, <1>4, <1>5, <1>6, <1>7, <1>8 DEF DeliveryInv

-----------------------------------------------------------------------------
(* Theorems *)

\* The inductive invariant, from the first state on: the line and the slot agree, every frame
\* of a session is the one its command was packed into, keys are fresh, and what the node
\* remembers or acks as done it has run.
THEOREM DeliveryInvHolds == Spec => []DeliveryInv
  <1>1. DeliveryInv /\ [Next]_vars => DeliveryInv'
    BY EveryStep, NothingStays DEF Step
  <1> QED
    BY <1>1, BeginsInOrder, PTL DEF Spec

\* The Control channel keeps the promise of DeliveryPolicy.h (CommandLine), whatever the radio,
\* relogins, sleeps and reboots do: every step of a handler is one step of the line or none.
THEOREM ContractHolds == Spec => Contract
  <1>1. Init => Line!LineInit
    BY DEF Init, Line!LineInit, Busy
  <1>2. DeliveryInv /\ [Next]_vars => [Line!LineNext]_(Line!lineVars)
    BY EveryStep, NothingStays DEF Step, LineStep
  <1> QED
    BY <1>1, <1>2, DeliveryInvHolds, PTL DEF Spec, Contract, Line!LineSpec

\* A command reported delivered was executed by the node: no ack of a command it replaced, of
\* another channel's frame or of an older session completes it.
THEOREM DeliveredWasExecutedHolds == Spec => []DeliveredWasExecuted
  <1>1. DeliveryInv => DeliveredWasExecuted
    <2> SUFFICES ASSUME DeliveryInv PROVE DeliveredWasExecuted
      OBVIOUS
    <2>1. Ids = 1..Len(hub.ended)
      BY DEF DeliveryInv, Typed, LineKept, Ids
    <2> QED
      BY <2>1 DEF DeliveryInv, DeliveredRan, DeliveredWasExecuted
  <1> QED
    BY <1>1, DeliveryInvHolds, PTL

\* Acks mean what the slot takes them for: a delivered command was run, and the retry of one
\* whose ack was lost is never refused as a replay - it is new to the node, or the node still
\* remembers its answer, as long as fewer frames than the cache has entries came between.
THEOREM AcksAreTrueHolds == Spec => []AcksAreTrue
  <1>1. DeliveryInv => RetryIsRecognised
    <2> SUFFICES ASSUME DeliveryInv, NEW f \in hub.sent,
                        f.cmd \in Ids, f.key = node.key, f.key # 0,
                        ~(Cardinality(Overtook(f)) >= CacheEntries),
                        ~(node.win.mark - f.fcnt >= ReplayWindow)
                 PROVE  New(f) \/ Cached(node.cache, f.fcnt)
      BY DEF RetryIsRecognised
    <2>1. f \in Unfinished(hub)
      BY DEF DeliveryInv, Typed, Ids, Unfinished
    <2>2. Recognised(f)
      BY <2>1 DEF DeliveryInv, RecognitionKept
    <2>3. DOMAIN node.cache = 1..Len(node.cache)
      BY DEF DeliveryInv, Typed, NodeStates
    <2> QED
      BY <2>2, <2>3 DEF Recognised, Cached, Positions
  <1> QED
    BY <1>1, DeliveryInvHolds, DeliveredWasExecutedHolds, PTL DEF AcksAreTrue

\* Nothing but another sleep goes to a node that acked its sleep, until it is heard or its
\* modelled wake is reached.
THEOREM NothingSentToSleeperHolds == Spec => []NothingSentToSleeper
  <1>1. DeliveryInv => NothingSentToSleeper
    BY DEF DeliveryInv, SleepKept, SlotKept, NothingSentToSleeper
  <1> QED
    BY <1>1, DeliveryInvHolds, PTL

\* Two executions of one command under one key are of the one frame it was packed into, and
\* the replay filter lets a frame through once.
LEMMA RunOnce ==
  ASSUME DeliveryInv, NEW x \in Sealed, NEW y \in Sealed, x[1] = y[1],
         x[2] = y[2] \/ (KindOf(x[1]) = "ota" /\ ~Optimistic)
  PROVE  x = y
  <1> DEFINE F(z) == [key |-> z[2], fcnt |-> z[3], cmd |-> z[1]]
  <1>1. F(x) \in Packed(hub) /\ F(y) \in Packed(hub) /\ x[2] # 0
    BY DEF Packed, Sealed
  <1>2. F(x) = F(y)
    BY <1>1 DEF DeliveryInv, FramesKept
  <1>3. x[2] = y[2] /\ x[3] = y[3]
    BY <1>2
  <1> QED
    BY <1>3 DEF DeliveryInv, RunsKept

\* No sealed command runs twice in one session, whatever is lost, repeated or restarted:
\* a retry repeats the stored bytes.
THEOREM OncePerSessionHolds == Spec => []OncePerSession
  <1>1. DeliveryInv => OncePerSession
    BY RunOnce DEF OncePerSession
  <1> QED
    BY <1>1, DeliveryInvHolds, PTL

\* Without optimistic first attempts a sealed OTA runs once ever as well: a retry whose bytes
\* are gone ends the command.  (With them a missed short wait packs it again: the hypothesis
\* is needed, DeliveryOptimistic.cfg.)
THEOREM RunsNoMoreOftenHolds ==
  ASSUME ~Optimistic
  PROVE  Spec => []RunsNoMoreOften
  <1>1. DeliveryInv => RunsNoMoreOften
    BY RunOnce DEF RunsNoMoreOften, OncePerSession, OtaAtMostOnce
  <1> QED
    BY <1>1, DeliveryInvHolds, PTL
=============================================================================
