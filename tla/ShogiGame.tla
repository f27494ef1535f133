----------------------------- MODULE ShogiGame -----------------------------
(***************************************************************************)
(* What a game session promises, without activities, threads or messages:  *)
(* a game starts from a board, the two sides play in turn, a player takes  *)
(* back a play and the answer to it, and an ended game stays as it is.     *)
(***************************************************************************)
EXTENDS Naturals, Sequences

CONSTANTS Moves, Openings

VARIABLES log, over

Turn == IF Len(log) % 2 = 0 THEN "BLACK" ELSE "WHITE"

Init == log = <<>> /\ over = FALSE

Start == log' \in Openings /\ over' = FALSE

MakePlay ==
  /\ ~over
  /\ \E m \in Moves : log' = Append(log, [by |-> Turn, move |-> m])
  /\ over' \in BOOLEAN

TakeBack ==
  /\ ~over
  /\ Len(log) >= 2
  /\ log' = SubSeq(log, 1, Len(log) - 2)
  /\ UNCHANGED over

Next == Start \/ MakePlay \/ TakeBack

Spec == Init /\ [][Next]_<<log, over>>
=============================================================================
