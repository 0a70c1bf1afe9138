----------------------------- MODULE Broadcast -----------------------------
(***************************************************************************)
(* What a shared session promises: the sharer's terminal produces outputs, *)
(* numbered in order, and a viewer's screen shows them in that order, each *)
(* once and none left out.                                                 *)
(***************************************************************************)
EXTENDS Integers, Sequences, SequencesExt

CONSTANT MaxOutput  \* bound: outputs of the terminal

VARIABLES
  output,  \* what the sharer's terminal has put out
  screen   \* what the viewer's terminal has been fed

vars == <<output, screen>>

Init == output = <<>> /\ screen = <<>>

Produce ==
  /\ Len(output) < MaxOutput
  /\ output' = Append(output, Len(output) + 1)
  /\ UNCHANGED screen

(* The screen catches up with some of what it lacks.                       *)
Show ==
  /\ \E n \in Len(screen) + 1 .. Len(output) : screen' = SubSeq(output, 1, n)
  /\ UNCHANGED output

Next == Produce \/ Show

Spec == Init /\ [][Next]_vars
=============================================================================
