------------------------------ MODULE AckCache ------------------------------
(***************************************************************************)
(* The commands a node has answered lately, oldest first, and how often it *)
(* repeated each answer.  A retry of one of them means that the answer was *)
(* lost.  (The copies of one burst are one frame here, and a retry comes   *)
(* later than kBurstSpanUs and kMinReAckIntervalUs.)                       *)
(***************************************************************************)
EXTENDS Integers, Sequences, SequencesExt

Positions(cache, fcnt) == {n \in DOMAIN cache : cache[n].fcnt = fcnt}

\* find
Cached(cache, fcnt) == Positions(cache, fcnt) # {}

EntryOf(cache, fcnt) == CHOOSE e \in Range(cache) : e.fcnt = fcnt

\* Mutant of Noted: one entry, which the next answered command evicts.
NotedAlone(cache, fcnt, ok, entries) == <<[fcnt |-> fcnt, ok |-> ok, reacks |-> 0]>>

\* note: the oldest entry makes room; noting an id again refreshes nothing.
Noted(cache, fcnt, ok, entries) ==
  IF Cached(cache, fcnt) THEN cache
  ELSE LET room == IF Len(cache) = entries THEN Tail(cache) ELSE cache
       IN  Append(room, [fcnt |-> fcnt, ok |-> ok, reacks |-> 0])

\* classify: ReAck, rather than NotADuplicate or Exhausted.
AnsweredAgain(cache, fcnt, maxReAcks) ==
  Cached(cache, fcnt) /\ EntryOf(cache, fcnt).reacks < maxReAcks

\* noteReAck
ReAcked(cache, fcnt) ==
  [n \in DOMAIN cache |->
     IF cache[n].fcnt = fcnt THEN [cache[n] EXCEPT !.reacks = @ + 1] ELSE cache[n]]
==============================================================================
