------------------------------ MODULE CommandLine ------------------------------
(***************************************************************************)
(* What the hub promises a user about the Control commands of one node     *)
(* (the header of DeliveryPolicy.h, "one Control command at a time, the    *)
(* rest in line"): one command is in hand, the others wait in order, only  *)
(* a cover operation is ever superseded and only by a newer one, a full    *)
(* line refuses the newest, and whatever ends the command in hand starts   *)
(* the next.  Radio, sessions and retries do not appear.                   *)
(***************************************************************************)
EXTENDS WaitLine

CONSTANTS Depth, Kinds

\* One command per index: its kind; the one in hand (0: none); the line; and
\* how each command ended ("open": it has not).
VARIABLES asked, hand, line, ended

lineVars == <<asked, hand, line, ended>>

Endings  == {"delivered", "failed", "superseded", "full", "ignored", "dropped"}
Asked    == DOMAIN asked
NewId    == Len(asked) + 1
IsCover(i) == asked[i] = "cover"

LineInit == asked = <<>> /\ hand = 0 /\ line = <<>> /\ ended = <<>>

\* The places in line of commands of kind k.
Waiting(k) == {n \in 1..Len(line) : asked[line[n]] = k}

\* How the commands end when the new one (of kind k) makes those in Old
\* superseded and itself ends as o.
EndedWith(o, Old) ==
    [i \in Asked \cup {NewId} |->
        IF i = NewId THEN o ELSE IF i \in Old THEN "superseded" ELSE ended[i]]

\* The node is known to sleep, or an equal request is pending.
Ignore(k) ==
    /\ asked' = Append(asked, k)
    /\ ended' = EndedWith("ignored", {})
    /\ UNCHANGED <<hand, line>>

Start(k) ==
    /\ hand = 0
    /\ asked' = Append(asked, k)
    /\ hand' = NewId
    /\ ended' = EndedWith("open", {})
    /\ UNCHANGED line

Supersede ==
    /\ hand # 0
    /\ IsCover(hand)
    /\ asked' = Append(asked, "cover")
    /\ hand' = NewId
    /\ ended' = EndedWith("open", {hand})
    /\ UNCHANGED line

\* The new command takes its place behind the others, those of rest; a command of Old gave its
\* place up for it.
Queue(rest, Old) ==
    IF Len(rest) < Depth
      THEN line' = Append(rest, NewId) /\ ended' = EndedWith("open", Old)
      ELSE line' = rest /\ ended' = EndedWith("full", Old)

Wait(k) ==
    /\ hand # 0
    /\ ~(k = "cover" /\ IsCover(hand))
    /\ asked' = Append(asked, k)
    /\ IF k = "cover" /\ Waiting("cover") # {}
         THEN \E n \in Waiting("cover") : Queue(Without(line, n), {line[n]})
         ELSE Queue(line, {})
    /\ UNCHANGED hand

End(o) ==
    /\ hand # 0
    /\ ended' = [ended EXCEPT ![hand] = o]
    /\ hand' = IF line = <<>> THEN 0 ELSE Head(line)
    /\ line' = IF line = <<>> THEN <<>> ELSE Tail(line)
    /\ UNCHANGED asked

\* A nightly sleep still in line is withdrawn: it would fire at the wrong time.
DropSleep ==
    \E n \in Waiting("sleep") :
        /\ line' = Without(line, n)
        /\ ended' = [ended EXCEPT ![line[n]] = "dropped"]
        /\ UNCHANGED <<asked, hand>>

LineNext ==
    \/ \E k \in Kinds : Ignore(k) \/ Start(k) \/ Wait(k)
    \/ Supersede
    \/ \E o \in {"delivered", "failed"} : End(o)
    \/ DropSleep

LineSpec == LineInit /\ [][LineNext]_lineVars
=============================================================================
