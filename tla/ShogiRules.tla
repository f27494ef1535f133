------------------------------ MODULE ShogiRules ------------------------------
(***************************************************************************)
(* The rules of shogi, on nothing but an array of squares and two hands:   *)
(* what the engine's generators are compared with.  A move is the record   *)
(* of Position.tla.                                                        *)
(***************************************************************************)
EXTENDS Bitboards

Mine(c, v) == IF c = black THEN v > 0 ELSE v < 0
Abs(v) == IF v < 0 THEN -v ELSE v

(* The directions in which a piece of black steps, and those it runs in.   *)
StepDirections(k) ==
  CASE k = pawn -> {<<-1, 0>>}
    [] k = knight -> KnightSteps
    [] k = silver -> SilverSteps
    [] k \in Golds -> GoldSteps
    [] k \in {king, horse, dragon} -> LineSteps
    [] OTHER -> {}
RunDirections(k) ==
  CASE k = lance -> {<<-1, 0>>}
    [] k \in {bishop, horse} -> Diag1Steps \cup Diag2Steps
    [] k \in {rook, dragon} -> RankSteps \cup FileSteps
    [] OTHER -> {}

(* The squares the piece of c on s attacks: where it steps, and where it   *)
(* runs with nothing in the way.                                           *)
StepTable == [c \in Colour |-> [k \in Kinds |-> [s \in Square |->
                set_attacks(s, Turned(c, StepDirections(k)))]]]
RunTable == [c \in Colour |-> [k \in Kinds |-> Turned(c, RunDirections(k))]]
Steps(board, c, s) == StepTable[c][Abs(board[s])][s]
Runs(board, c, s) == RunTable[c][Abs(board[s])]
Clear(board, s, d, t) == \A u \in Ray(s, d) : t \in Ray(u, d) => board[u] = empty
Targets(board, c, s) ==
  Steps(board, c, s)
    \cup UNION {{t \in Ray(s, d) : Clear(board, s, d, t)} : d \in Runs(board, c, s)}

Hits(board, c, s, t) ==
  \/ t \in Steps(board, c, s)
  \/ \E d \in Runs(board, c, s) : t \in Ray(s, d) /\ Clear(board, s, d, t)
Attackers(board, c, t) == {s \in Square : Mine(c, board[s]) /\ Hits(board, c, s, t)}
Attacked(board, c, t) == \E s \in Square : Mine(c, board[s]) /\ Hits(board, c, s, t)
KingOf(board, c) ==
  CHOOSE s \in Square : board[s] = IF c = black THEN king ELSE -king
Checked(board, c) == Attacked(board, Flip(c), KingOf(board, c))

(* A piece that could never move again must promote.                       *)
Stuck(c, k, t) == Row(c, t) < (IF k = knight THEN 2 ELSE IF k \in {pawn, lance} THEN 1 ELSE 0)
BoardMoves(board, c) ==
  UNION {{m \in {[from |-> s, to |-> t, piece |-> Abs(board[s]), promo |-> f,
                  cap |-> Abs(board[t])] :
                   t \in {t \in Targets(board, c, s) : ~Mine(c, board[t])}, f \in BOOLEAN} :
            IF m.promo THEN m.piece \in Promotable /\ {m.from, m.to} \cap Zone(c) # {}
            ELSE ~Stuck(c, m.piece, m.to)}
         : s \in {s \in Square : Mine(c, board[s])}}
Drops(board, hand, c) ==
  {m \in {[from |-> 80 + k, to |-> t, piece |-> empty, promo |-> FALSE, cap |-> empty] :
            k \in {k \in Hands : hand[c][k] > 0}, t \in {s \in Square : board[s] = empty}} :
     LET k == m.from - 80
     IN /\ ~Stuck(c, k, m.to)
        /\ k = pawn => \A s \in Square :
             aifile(s) = aifile(m.to) => board[s] # (IF c = black THEN pawn ELSE -pawn)}

After(board, c, m) ==
  LET k == IF m.from > 80 THEN m.from - 80 ELSE IF m.promo THEN m.piece + promote ELSE m.piece
  IN [s \in Square |-> IF s = m.to THEN (IF c = black THEN k ELSE -k)
                       ELSE IF s = m.from THEN empty ELSE board[s]]
HandAfter(hand, c, m) ==
  [hand EXCEPT ![c] = [k \in Hands |->
     hand[c][k] + (IF m.cap # empty /\ Unpromoted(m.cap) = k THEN 1 ELSE 0)
                - (IF m.from - 80 = k THEN 1 ELSE 0)]]
Safe(board, c, m) == ~Checked(After(board, c, m), c)

(* Mate: in check, and no move leads out of it.                            *)
Mated(board, hand, c) ==
  /\ Checked(board, c)
  /\ \A m \in BoardMoves(board, c) \cup Drops(board, hand, c) : ~Safe(board, c, m)

(* A pawn may not be dropped to give mate.                                 *)
PawnDropMate(board, hand, c, m) ==
  /\ m.from = 80 + pawn
  /\ Mated(After(board, c, m), HandAfter(hand, c, m), Flip(c))
PseudoLegal(board, hand, c) ==
  BoardMoves(board, c) \cup {m \in Drops(board, hand, c) : ~PawnDropMate(board, hand, c, m)}
Legal(board, hand, c) == {m \in PseudoLegal(board, hand, c) : Safe(board, c, m)}
GivesCheck(board, c, m) == Checked(After(board, c, m), Flip(c))
GivesMate(board, hand, c, m) == Mated(After(board, c, m), HandAfter(hand, c, m), Flip(c))
=============================================================================
