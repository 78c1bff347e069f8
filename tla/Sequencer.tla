------------------------------ MODULE Sequencer ------------------------------
(***************************************************************************)
(* The node's replay filter (MAC-1, SlidingWindow): the highest frame      *)
(* counter accepted, and the ones accepted just below it.  A retry repeats *)
(* its bytes and so its counter: one that was overtaken by later frames is *)
(* still accepted, once.                                                   *)
(***************************************************************************)
EXTENDS Integers

\* A new session starts both directions over (reset).
FreshWindow == [mark |-> 0, seen |-> {}]

\* Mutant of Admissible: a replay below the mark is let in.
AdmissibleUnseen(w, fcnt, window) == fcnt > w.mark \/ w.mark - fcnt < window

\* check: above the mark, or a reorder inside the window seen for the first time.
\* (A jump past kForwardWindow is far beyond what one session sends here.)
Admissible(w, fcnt, window) ==
  fcnt > w.mark \/ (w.mark - fcnt < window /\ fcnt \notin w.seen)

\* commit: the mark never moves back; what falls out of the window is forgotten.
Admitted(w, fcnt, window) ==
  LET mark == IF fcnt > w.mark THEN fcnt ELSE w.mark
  IN  [mark |-> mark, seen |-> {id \in w.seen \cup {fcnt} : mark - id < window}]
==============================================================================
