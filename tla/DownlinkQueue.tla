---------------------------- MODULE DownlinkQueue ----------------------------
(***************************************************************************)
(* What the tracker promises the tasks that send through it.  A frame that *)
(* was accepted leaves once: onto the air, or dropped because a newer      *)
(* command for its node has been announced.  Of two frames of which one    *)
(* was accepted first, is no less urgent and may leave no later, that one  *)
(* goes first.  One frame is on the air at a time, and it was current when *)
(* the radio took it up.                                                   *)
(***************************************************************************)
EXTENDS Integers, Sequences

CONSTANTS Keys, NoFrame

VARIABLES
    waiting,     \* the accepted frames, in the order of acceptance
    latest,      \* per key the newest generation announced
    onAir        \* the frame the radio has taken up, or NoFrame

qvars == <<waiting, latest, onAir>>

Init == /\ waiting = <<>>
        /\ latest = [k \in Keys |-> 0]
        /\ onAir = NoFrame

Newest(f) == f.key \in Keys => f.gen >= latest[f.key]

\* Frame j has to go before frame i.
Precedes(j, i) == /\ j < i
                  /\ waiting[j].priority <= waiting[i].priority
                  /\ waiting[j].earliest <= waiting[i].earliest

Rest(i) == [j \in 1 .. Len(waiting) - 1 |-> IF j < i THEN waiting[j] ELSE waiting[j + 1]]

Announce == /\ \E k \in Keys : /\ latest'[k] > latest[k]
                               /\ latest' = [latest EXCEPT ![k] = latest'[k]]
            /\ UNCHANGED <<waiting, onAir>>

Accept == /\ Len(waiting') = Len(waiting) + 1
          /\ waiting' = Append(waiting, waiting'[Len(waiting')])
          /\ UNCHANGED <<latest, onAir>>

Transmit(i) == /\ onAir = NoFrame
               /\ Newest(waiting[i])
               /\ \A j \in DOMAIN waiting : ~Precedes(j, i)
               /\ onAir' = waiting[i]
               /\ waiting' = Rest(i)
               /\ UNCHANGED latest

Sent == onAir' = NoFrame /\ UNCHANGED <<waiting, latest>>

Drop(i) == /\ ~Newest(waiting[i])
           /\ waiting' = Rest(i)
           /\ UNCHANGED <<latest, onAir>>

Next == Announce \/ Accept \/ Sent \/ \E i \in DOMAIN waiting : Transmit(i) \/ Drop(i)

Spec == Init /\ [][Next]_qvars
=============================================================================
