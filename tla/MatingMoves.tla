------------------------------ MODULE MatingMoves ------------------------------
(***************************************************************************)
(* What the solver of mate in one promises to the search that calls it, in *)
(* the positions where the walks of Moves start.                           *)
(***************************************************************************)
EXTENDS CheckingMoves, Mates

(* A move the solver of mate in one returns is legal and mates: the search *)
(* stops there (search.c:197, quiesrch.c:73).                              *)
MatingMovesMate ==
  Quiet => \A m \in IsMateIn1Ply(turn, pos) :
             m \in LegalMoves /\ GivesMate(board, hand, turn, m)

(* If there is a mate by a piece that itself gives check, from next to the *)
(* king or as a knight, pawn drops left out, it finds one: the moves and   *)
(* drops it does not try are never the only ones.                          *)
ContactMates ==
  {m \in LegalMoves :
     /\ m.from # Drop2From(pawn)
     /\ m.to \in abb_king_attacks[Target(turn, pos)] \cup Knight(Waiting, Target(turn, pos))
     /\ KingOf(board, Waiting) \in Targets(After(board, turn, m), turn, m.to)
     /\ GivesMate(board, hand, turn, m)}
ContactMatesAreFound == Quiet /\ ContactMates # {} => IsMateIn1Ply(turn, pos) # {}
=============================================================================
