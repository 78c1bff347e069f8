------------------------------- MODULE TxQueue -------------------------------
(***************************************************************************)
(* The reordering transmit queue and the supersession table of TxQueue.h.  *)
(* A queue is a sequence of entries in insertion order, so a position is   *)
(* the code's `seq`; an entry has the fields buf, earliest and priority.   *)
(***************************************************************************)
EXTENDS WaitLine

CONSTANTS
    MaxEntries,      \* kMaxEntries
    MaxKeys          \* SupersedeTable::kMaxKeys

ASSUME SizesAssumption == MaxEntries \in Nat /\ MaxKeys \in Nat

Full(q) == Len(q) >= MaxEntries

\* Queue::push: the entry goes in as the youngest; a full queue is left as it is.
Push(q, entry) == IF Full(q) THEN q ELSE Append(q, entry)

\* The positions popDue may release at `now`, which is `lead` before their instant.
Due(q, now, lead) == {i \in DOMAIN q : q[i].earliest <= now + lead}

\* Queue::better_: lower priority value first, then insertion order.
Better(q, i, j) == \/ q[i].priority < q[j].priority
                   \/ q[i].priority = q[j].priority /\ i < j

\* Queue::popDue: the position it releases, 0 when none is due.
PopDue(q, now, lead) ==
    IF Due(q, now, lead) = {} THEN 0
    ELSE CHOOSE i \in Due(q, now, lead) :
             \A j \in Due(q, now, lead) \ {i} : Better(q, i, j)

(***************************************************************************)
(* SupersedeTable: the newest generation queued under a key, for at most   *)
(* MaxKeys keys.  Key 0 supersedes nothing and is superseded by nothing.   *)
(***************************************************************************)
NoKey == 0

EmptyTable == <<>>

\* Mutant: a retry of an older generation lowers the mark.
NoteLast(table, key, gen) ==
    IF key = NoKey THEN table
    ELSE [k \in DOMAIN table \cup {key} |-> IF k = key THEN gen ELSE table[k]]

Note(table, key, gen) ==
    CASE key = NoKey -> table
      [] key # NoKey /\ key \in DOMAIN table ->
             [table EXCEPT ![key] = IF gen > @ THEN gen ELSE @]
      [] key # NoKey /\ key \notin DOMAIN table /\ Cardinality(DOMAIN table) < MaxKeys ->
             [k \in DOMAIN table \cup {key} |-> IF k = key THEN gen ELSE table[k]]
      [] OTHER -> table

IsCurrent(table, key, gen) == key \in DOMAIN table => gen >= table[key]
=============================================================================
