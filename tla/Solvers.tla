-------------------------------- MODULE Solvers --------------------------------
(***************************************************************************)
(* What the solver of mate in three promises to the search that calls it,  *)
(* in the positions where the walks of Moves start.                        *)
(***************************************************************************)
EXTENDS MatingMoves, MateSearch

(* The answers mate3.c tries leave no king in check (mate3.c:83 asserts    *)
(* it), and stand for all: whatever may be moved or dropped in answer, one *)
(* of them moves the same piece there, or drops another on that square.    *)
Going(m) == <<IF IsDrop(m) THEN nsquare ELSE m.from, m.to>>
AnswersStand ==
  /\ gen_next_evasion_mate(turn, pos) \subseteq LegalMoves
  /\ {Going(m) : m \in LegalMoves} = {Going(m) : m \in gen_next_evasion_mate(turn, pos)}
MateAnswersStandForAll == AtStart /\ InCheck(turn, pos) => AnswersStand

(* A mate in three that is found stays one: whatever legal answer is given *)
(* to the check, tried by mate3.c or not, there is a further check, which  *)
(* may be mate, for which mate3.c says mate.                               *)
Met(r) ==
  \E m \in Legal(r.board, r.hand, turn) :
    GivesCheck(r.board, turn, m) /\ Refuted(turn, MakeMove(turn, r, m), 4)
AllMet(q) == \A e \in Legal(q.board, q.hand, Waiting) : Met(MakeMove(Waiting, q, e))
MateInThreeIsKept ==
  Quiet => \A m \in MatesInThree(turn, pos, 1) :
             IllegalPromotion(m) \/ AllMet(MakeMove(turn, pos, m))
=============================================================================
