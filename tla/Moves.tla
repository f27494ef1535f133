-------------------------------- MODULE Moves --------------------------------
(***************************************************************************)
(* A walk of the search over the board: it makes a move of the generators, *)
(* goes on below it unless the mover left its king in check, and takes the *)
(* moves back in turn.  What it keeps of a move to take it back is what    *)
(* make_move saves in tree_t.                                              *)
(***************************************************************************)
EXTENDS MoveGen, ShogiRules

CONSTANTS
  Starts     \* positions to start from, [board, hand, turn, depth]: the walk
             \* goes depth moves below them

VARIABLES
  start,     \* where the walk started
  pos,       \* posi_t
  turn,      \* side to move
  line,      \* the moves made: [move, key, material], oldest first
  seen       \* ghost: the positions before the moves of line

vars == <<start, pos, turn, line, seen>>

(* A position of a game: the side that moved is not in check, and no move  *)
(* gives check with more than two pieces.                                  *)
Playable(x) ==
  /\ x.turn \in Colour
  /\ ~Checked(x.board, Flip(x.turn))
  /\ Cardinality(Attackers(x.board, Flip(x.turn), KingOf(x.board, x.turn))) <= 2

(* Each side has its king, and no pawn or knight that could never move.    *)
Pieces == {empty} \cup {Signed(c, k) : c \in Colour, k \in Kinds}
WellFormed(x) ==
  /\ x.board \in [Square -> Pieces]
  /\ x.hand \in [Colour -> [Hands -> Nat]]
  /\ \A c \in Colour :
       /\ \E s \in Square : OnBoard(x.board, c, {king}) = {s}
       /\ \A s \in OnBoard(x.board, c, {pawn}) : Row(c, s) > 0
       /\ \A s \in OnBoard(x.board, c, {knight}) : Row(c, s) > 1

ASSUME MovesAssumption ==
  \A x \in Starts : x.depth \in Nat /\ WellFormed(x) /\ Playable(x)

NoPosition == [board |-> <<>>]
Init ==
  /\ start \in Starts
  /\ pos = NoPosition
  /\ turn = start.turn
  /\ line = <<>>
  /\ seen = <<>>

ini_game ==
  /\ pos = NoPosition
  /\ pos' = SetUp(start.board, start.hand)
  /\ UNCHANGED <<start, turn, line, seen>>

(* The waiting side is not in check: the search goes on below the move.    *)
Sound == pos # NoPosition /\ ~InCheck(Flip(turn), pos)
Generated(c, p) ==
  IF InCheck(c, p) THEN GenEvasion(c, p) ELSE GenAll(c, p) \cup GenEx2(c, p)

Make ==
  /\ Sound
  /\ Len(line) < start.depth
  /\ \E m \in Generated(turn, pos) :
       /\ pos' = MakeMove(turn, pos, m)
       /\ line' = Append(line, [move |-> m, key |-> pos.key, material |-> pos.material])
  /\ turn' = Flip(turn)
  /\ seen' = Append(seen, pos)
  /\ UNCHANGED start

UnMake ==
  /\ line # <<>>
  /\ LET last == line[Len(line)]
     IN pos' = UnMakeMove(Flip(turn), pos, last.move, last.key, last.material)
  /\ turn' = Flip(turn)
  /\ line' = SubSeq(line, 1, Len(line) - 1)
  /\ seen' = SubSeq(seen, 1, Len(seen) - 1)
  /\ UNCHANGED start

Next == ini_game \/ Make \/ UnMake
Spec == Init /\ [][Next]_vars
-----------------------------------------------------------------------------
AtStart == line = <<>> /\ Sound
board == pos.board
hand == pos.hand
LegalMoves == Legal(board, hand, turn)

(* assert( exam_bb( ptree ) ) at the end of make_move and unmake_move      *)
(* (makemove.c:201, unmake.c:167): after any moves made and taken back the *)
(* copies agree with the board, and no piece is lost or gained.            *)
CopiesAgree == pos # NoPosition => exam_bb(pos, PieceCount(start))

(* Taking a move back (unmake.c) restores every copy to what it was before *)
(* the move, whatever was captured, promoted or dropped.                   *)
TakenBackIsRestored ==
  [][Len(line') < Len(line) => pos' = seen[Len(seen)]]_vars

(* Out of check the generators (gencap.c, gennocap.c, gendrop.c, and       *)
(* movgenex.c for promotions declined) find every legal move and, but for  *)
(* moves that leave the king in check, no other.  In check genevasn.c      *)
(* finds all of them but promotions declined, and needs no further test.   *)
(* A pawn drop that mates is no legal move: attack.c:104 has to see that a *)
(* pinned piece cannot take the pawn, and that the pawn may shut the line  *)
(* of a piece that guarded a square the king can now go to.                *)
FoundWith(declined) ==
  IF InCheck(turn, pos) THEN GenEvasion(turn, pos) = LegalMoves \ declined
  ELSE LegalMoves = {m \in GenAll(turn, pos) \cup declined :
                       ~InCheck(turn, MakeMove(turn, pos, m))}
GeneratorsFindTheLegalMoves == AtStart => FoundWith(GenEx2(turn, pos))

(* A move remembered from an earlier position of the walk (the hash table, *)
(* the killers) passes is_move_valid (valid.c:7) only where it may be      *)
(* played here as well.                                                    *)
Remembered ==
  UNION {PseudoLegal(seen[i].board, seen[i].hand, turn) :
           i \in {i \in DOMAIN seen : (Len(seen) - i) % 2 = 1}}
RememberedMovesAreChecked ==
  Sound => LET playable == PseudoLegal(board, hand, turn)
           IN \A m \in Remembered : is_move_valid(turn, pos, m) <=> m \in playable
=============================================================================
