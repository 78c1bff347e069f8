------------------------------- MODULE RikaStove -------------------------------
(***************************************************************************)
(* The stove controller (rika_stove).  The stove believes it talks to a    *)
(* GSM modem: it asks for a received SMS (AT+CMGR), obeys it, has it       *)
(* deleted (AT+CMGD) and answers with an SMS of its own (AT+CMGS, a text). *)
(* The component keeps the orders of Home Assistant in a short queue: a    *)
(* read answers with the oldest, a delete removes the oldest.              *)
(*                                                                         *)
(* The wire carries whole lines.  Clock, phone number, PIN and the texts   *)
(* of the answers decide nothing and are left out; so is the status poll,  *)
(* which is compiled out.                                                  *)
(***************************************************************************)
EXTENDS Integers, Sequences, SequencesExt

CONSTANTS
  MaxQueue, MaxLines,     \* MAX_COMMAND_QUEUE, MAX_MSG_QUEUE: 5 and 5
  Coldest, Warmest,       \* visual minimum and maximum temperature: 17 and 30
  Targets,                \* temperatures Home Assistant asks for
  MaxOrders, MaxTimeouts  \* bounds: orders of Home Assistant; answers the stove gives up on and stray terminators

VARIABLES
  mode, target, current,  \* what Home Assistant shows
  queue,     \* command_queue_
  lines,     \* msg_queue_
  state,     \* state_, with the line terminator that goes with it
  wire,      \* lines of the stove not read yet
  answers,   \* answers the stove has not read yet
  stove,     \* what it waits for, what it obeys, timeouts
  count,     \* orders given so far
  read, deleted  \* history: orders the stove has read, orders deleted on its request

vars == <<mode, target, current, queue, lines, state, wire, answers, stove, count, read, deleted>>

Tel == [id |-> 0, mode |-> "TEL", level |-> 0]

-----------------------------------------------------------------------------
(* Home Assistant. *)

\* The power in per cent, in steps of 5, that stands for a temperature in HEAT.
Power(t) == 5 * ((2 * (30 * (Warmest - Coldest) + 70 * (t - Coldest)) + 5 * (Warmest - Coldest))
                   \div (10 * (Warmest - Coldest)))
\* And back, for the temperature shown.
Temperature(p) == (2 * (p - 30) * (Warmest - Coldest) + 70) \div 140 + Coldest

\* A full queue drops its oldest order.
Pushed(q, o) == Append(IF Len(q) >= MaxQueue THEN Tail(q) ELSE q, o)

\* A change of the temperature names the mode too; a change of the mode alone has no level.
Control ==
  /\ count < MaxOrders /\ count' = count + 1
  /\ \E m \in {"OFF", "HEAT"}, t \in Targets :
       /\ <<m, t>> # <<mode, target>>
       /\ mode' = m /\ target' = t
       /\ queue' = Pushed(queue, [id |-> count', mode |-> m, level |-> IF t = target THEN 0 ELSE Power(t)])
  /\ UNCHANGED <<current, lines, state, wire, answers, stove, read, deleted>>

-----------------------------------------------------------------------------
(* The loop: takes in every line that has arrived, as far as it holds them, and handles one. *)

Answers(is, order) == answers' = Append(answers, [is |-> is, order |-> order])
Answer(is) == Answers(is, Tel)

Read ==
  /\ IF queue = <<>> THEN Answer("OK") /\ UNCHANGED read
     ELSE Answers("SMS", Head(queue)) /\ read' = read \union {Head(queue).id}
  /\ UNCHANGED <<queue, state, deleted, current>>

Delete ==
  /\ Answer("OK")
  /\ IF queue = <<>> THEN UNCHANGED <<queue, deleted>>
     ELSE queue' = Tail(queue) /\ deleted' = deleted \union {Head(queue).id}
  /\ UNCHANGED <<state, read, current>>

Send ==
  /\ Answer("PROMPT") /\ state' = "SEND_SMS"
  /\ UNCHANGED <<queue, read, deleted, current>>

\* The text of the stove's own SMS, what it now does; any other line is taken for one.
Reply(line) ==
  /\ current' = IF line.at = "text" /\ line.obeys.mode = "HEAT" /\ line.obeys.level # 0
                  THEN Temperature(line.obeys.level) ELSE current
  /\ Answer("OK") /\ state' = "IDLE"
  /\ UNCHANGED <<queue, read, deleted>>

\* ATE, AT+CNMI, AT+CMGF: agreed to, whatever they set.
Setup == Answer("OK") /\ UNCHANGED <<queue, state, read, deleted, current>>
\* An empty line, as a second terminator leaves it, ends whatever was begun.
Empty == state' = "IDLE" /\ UNCHANGED <<queue, read, deleted, current, answers>>
Unknown == Answer("ERROR") /\ UNCHANGED <<queue, state, read, deleted, current>>

Handle(line) ==
  \/ state = "IDLE" /\ line.at = "CMGR" /\ Read
  \/ state = "IDLE" /\ line.at = "CMGD" /\ Delete
  \/ state = "IDLE" /\ line.at = "CMGS" /\ Send
  \/ state = "IDLE" /\ line.at = "setup" /\ Setup
  \/ state = "IDLE" /\ line.at = "text" /\ Unknown
  \/ state = "SEND_SMS" /\ line.at # "empty" /\ Reply(line)
  \/ line.at = "empty" /\ Empty

Loop ==
  LET room == MaxLines - Len(lines)
      held == lines \o SubSeq(wire, 1, IF Len(wire) < room THEN Len(wire) ELSE room)
  IN /\ held # <<>>
     /\ wire' = <<>> /\ lines' = Tail(held)
     /\ Handle(Head(held))
     /\ UNCHANGED <<mode, target, stove, count>>

-----------------------------------------------------------------------------
(* The stove. *)

Says(at) == wire' = Append(wire, [at |-> at, obeys |-> stove'.obeys])

\* It begins with its settings or with a read; an answer moves it on, and silence or nonsense sends it back.
StoveReads ==
  /\ stove.waits = "nothing"
  /\ \/ stove' = [stove EXCEPT !.waits = "sms"] /\ Says("CMGR")
     \/ stove' = [stove EXCEPT !.waits = "setup"] /\ Says("setup")
  /\ UNCHANGED <<mode, target, current, queue, lines, state, answers, count, read, deleted>>

StoveGoesOn ==
  LET a == Head(answers)
      Moves(at, waits, obeys) == stove' = [stove EXCEPT !.waits = waits, !.obeys = obeys] /\ Says(at)
  IN /\ answers # <<>> /\ answers' = Tail(answers)
     /\ CASE stove.waits = "sms" /\ a.is = "SMS"       -> Moves("CMGD", "deleted", a.order)
          [] stove.waits = "deleted" /\ a.is = "OK"    -> Moves("CMGS", "prompt", stove.obeys)
          [] stove.waits = "prompt" /\ a.is = "PROMPT" -> Moves("text", "sent", stove.obeys)
          [] OTHER -> stove' = [stove EXCEPT !.waits = "nothing"] /\ UNCHANGED wire
     /\ UNCHANGED <<mode, target, current, queue, lines, state, count, read, deleted>>

StrayTerminator ==
  /\ stove.timeouts < MaxTimeouts /\ stove' = [stove EXCEPT !.timeouts = @ + 1] /\ Says("empty")
  /\ UNCHANGED <<mode, target, current, queue, lines, state, answers, count, read, deleted>>

StoveTimesOut ==
  /\ stove.waits # "nothing" /\ stove.timeouts < MaxTimeouts
  /\ stove' = [stove EXCEPT !.waits = "nothing", !.timeouts = @ + 1]
  /\ UNCHANGED <<mode, target, current, queue, lines, state, wire, answers, count, read, deleted>>

\* Mode and target are restored from flash; the first order of all lets the stove answer.
Init ==
  /\ mode \in {"OFF", "HEAT"} /\ target \in Targets /\ current = 20
  /\ queue = <<Tel>> /\ lines = <<>> /\ state = "IDLE"
  /\ wire = <<>> /\ answers = <<>> /\ count = 0
  /\ stove = [waits |-> "nothing", obeys |-> Tel, timeouts |-> 0]
  /\ read = {} /\ deleted = {}

Next == Control \/ Loop \/ StoveReads \/ StoveGoesOn \/ StrayTerminator \/ StoveTimesOut
Spec == Init /\ [][Next]_vars

-----------------------------------------------------------------------------
(* Properties. *)

\* "The stove asks to delete the current SMS": what is deleted is an order it has read.
OnlyReadIsDeleted == deleted \subseteq read
=============================================================================
