----------------------------- MODULE CheckingMoves -----------------------------
(***************************************************************************)
(* What the generator of checks and the test for a check promise to the    *)
(* search that calls them.                                                 *)
(***************************************************************************)
EXTENDS Moves, Checks

Waiting == Flip(turn)
Quiet == AtStart /\ ~InCheck(turn, pos)

(* genchk.c finds every legal check but two kinds: with a promotion        *)
(* declined, and by a pawn that opens a line, its own arrival giving none. *)
(* What it finds gives check and may be played, except that a lance which  *)
(* opens a line is promoted even outside the zone (genchk.c:405).          *)
IllegalPromotion(m) == m.promo /\ {m.from, m.to} \cap Zone(turn) = {}
DiscoveredByPawn ==
  {m \in BoardMoves(board, turn) :
     m.piece = pawn /\ KingOf(board, Waiting) \notin Targets(After(board, turn, m), turn, m.to)}
ChecksFound(checks) ==
  /\ \A m \in checks :
       IF IllegalPromotion(m) THEN m.piece = lance
       ELSE m \in PseudoLegal(board, hand, turn) /\ GivesCheck(board, turn, m)
  /\ \A m \in LegalMoves \ checks :
       GivesCheck(board, turn, m) => m \in GenEx2(turn, pos) \cup DiscoveredByPawn
ChecksAreFound == Quiet => ChecksFound(GenCheck(turn, pos))

(* Before it makes a move the search knows whether it gives check          *)
(* (search.c:327) and counts the check in nsuc_check, which decides if the *)
(* next ply generates evasions: answered wrongly, a king may be taken.     *)
ChecksAreRecognised ==
  AtStart => \A m \in LegalMoves : IsMoveCheck(turn, pos, m) <=> GivesCheck(board, turn, m)
=============================================================================
