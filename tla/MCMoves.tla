------------------------------- MODULE MCMoves -------------------------------
(***************************************************************************)
(* Positions to check the generators and solvers on: pieces scattered by a *)
(* linear congruence, pieces lined up so that one of them stands between a *)
(* slider and a king, and a few composed for what chance seldom brings.    *)
(***************************************************************************)
EXTENDS Solvers

CONSTANTS
  ManyTried,       \* how many positions to try with pieces scattered,
  LinedUpTried,    \* with pieces lined up,
  FewTried,        \* with few pieces;
  ComposedTried,   \* the numbers of the composed positions to try
  Depth            \* how deep to walk below positions with few pieces

(* <<colour, kind>>, in the order the pieces are put down.                 *)
Men == << <<0, 8>>, <<1, 8>>, <<0, 7>>, <<1, 7>>, <<0, 6>>, <<1, 6>>, <<0, 5>>, <<1, 5>>,
          <<0, 4>>, <<1, 4>>, <<0, 3>>, <<1, 3>>, <<0, 2>>, <<1, 2>>, <<0, 1>>, <<1, 1>>,
          <<0, 14>>, <<1, 15>>, <<0, 9>>, <<1, 12>>, <<0, 2>>, <<1, 1>>, <<1, 3>>, <<0, 4>>,
          <<1, 10>>, <<0, 15>> >>
Where(n, i) == (n * (2 * i + 7) + 13 * i * i + 31 * i + ((n * n) % 81) * i) % 81
Scattered(n, count) == [i \in 1..count |-> <<Where(n, i), Men[i][1], Men[i][2]>>]
Few(n, count) ==
  [i \in 1..count |-> LET man == Men[IF i <= 2 THEN i ELSE 3 + ((n + 5 * i) % 24)]
                      IN <<Where(n, i), man[1], man[2]>>]

(* The king of the waiting side, a piece of the moving side and, behind    *)
(* it, one that runs along the line.                                       *)
Directions == << <<0, 1>>, <<1, 1>>, <<1, 0>>, <<1, -1>>, <<0, -1>>, <<-1, -1>>, <<-1, 0>>, <<-1, 1>> >>
Shields == <<1, 2, 3, 4, 5, 6, 7, 8, 14, 15, 1, 2, 12>>
LinedUp(n) ==
  LET c == n % 2
      d == Directions[1 + ((n \div 2) % 8)]
      k == (n * 7 + (n \div 16) * 29 + 40) % 81
      at(i) == <<airank(k) + i * d[1], aifile(k) + i * d[2]>>
      near == 1 + (n % 3)
      far == near + 1 + (n % 2)
      runner == IF d[1] = 0 \/ d[2] = 0 THEN 7 ELSE 6
      sq(i) == 9 * at(i)[1] + at(i)[2]
  IN IF ~OnTheBoard(at(far)[1], at(far)[2]) THEN <<>>
     ELSE << <<k, 1 - c, king>>, <<sq(near), c, Shields[1 + (n % 13)]>>, <<sq(far), c, runner>> >>
            \o Scattered(n, 2 + (n % 17))

BoardOf(list) ==
  LET at(s) == {i \in DOMAIN list : list[i][1] = s}
      first(s) == CHOOSE i \in at(s) : \A j \in at(s) : i <= j
      king2(i) == list[i][3] = king /\ \E j \in 1..(i-1) : list[j][2] = list[i][2] /\ list[j][3] = king
      dead(i, s) ==
        LET c == list[i][2]
            k == list[i][3]
        IN \/ k \in {pawn, lance} /\ Row(c, s) < 1
           \/ k = knight /\ Row(c, s) < 2
           \/ king2(i)
           \/ k = pawn /\ \E j \in 1..(i-1) : /\ list[j][2] = c
                                                /\ list[j][3] = pawn
                                                /\ aifile(list[j][1]) = aifile(s)
  IN [s \in Square |-> IF at(s) = {} \/ dead(first(s), s) THEN empty
                       ELSE Signed(list[first(s)][2], list[first(s)][3])]
HandOf(n) == [c \in Colour |-> [k \in Hands |-> IF (n + 3 * k + c) % (k + 2) < 2 THEN 1 ELSE 0]]

(* 1: a lance dropped on the edge checks the king in the corner; the       *)
(*    bishop that comes between clears a square for it.                    *)
(* 2: check by a knight that only a pinned gold could take.                *)
(* 3: a gold dropped in front of the king can be taken by a pinned silver. *)
(* 4: a pawn dropped in front of the king shuts the line of a bishop that  *)
(*    guarded its only free square.                                        *)
(* 5: a promoted pawn may be taken.                                        *)
(* 6: check by a bishop next to the king and by a rook.                    *)
(* 7: a move of a dragon or horse is remembered; the answer blocks it.     *)
(* 8: a gold beside the king gives no check itself: it opens a rook's line *)
(*    and so mates.                                                        *)
Composed ==
  << [men |-> << <<0, 1, 8>>, <<10, 1, 6>>, <<1, 1, 2>>, <<79, 0, 8>> >>,
      drops |-> lance, turn |-> black, depth |-> 0],
     [men |-> << <<76, 0, 8>>, <<67, 0, 5>>, <<4, 1, 7>>, <<59, 1, 3>>, <<0, 1, 8>> >>,
      drops |-> gold, turn |-> black, depth |-> 0],
     [men |-> << <<4, 1, 8>>, <<22, 0, 1>>, <<3, 1, 4>>, <<0, 0, 7>>, <<80, 0, 8>> >>,
      drops |-> gold, turn |-> black, depth |-> 0],
     [men |-> << <<4, 1, 8>>, <<3, 1, 2>>, <<12, 1, 1>>, <<14, 1, 1>>, <<37, 0, 6>>, <<80, 0, 8>> >>,
      drops |-> pawn, turn |-> black, depth |-> 0],
     [men |-> << <<0, 1, 8>>, <<31, 1, 5>>, <<40, 0, 9>>, <<80, 0, 8>> >>,
      drops |-> pawn, turn |-> white, depth |-> 2],
     [men |-> << <<7, 1, 8>>, <<15, 1, 7>>, <<23, 0, 2>>, <<25, 1, 6>>, <<31, 0, 6>>, <<33, 0, 8>> >>,
      drops |-> pawn, turn |-> black, depth |-> 0],
     [men |-> << <<6, 1, 8>>, <<12, 1, 1>>, <<18, 0, 8>>, <<20, 0, 15>>, <<56, 0, 14>> >>,
      drops |-> pawn, turn |-> black, depth |-> 2],
     [men |-> << <<18, 1, 8>>, <<45, 0, 3>>, <<72, 0, 7>>, <<20, 0, 5>>, <<37, 0, 1>>, <<80, 0, 8>> >>,
      drops |-> pawn, turn |-> black, depth |-> 0] >>

Possible(x) == /\ \E s \in Square : x.board[s] = king
               /\ \E s \in Square : x.board[s] = -king
               /\ Playable(x)
MCStarts ==
  LET one(c, k) == [d \in Colour |-> [j \in Hands |-> IF d = c /\ j = k THEN 1 ELSE 0]]
      at(list, held, c, depth) ==
        [board |-> BoardOf(list), hand |-> held, turn |-> c, depth |-> depth]
      many == {at(Scattered(n, 2 + ((n * 7) % 25)), HandOf(n), n % 2, 0) : n \in 1..ManyTried}
      lined == {at(LinedUp(n), HandOf(n), n % 2, 0) : n \in 1..LinedUpTried}
      few == {at(Few(n, 6 + (n % 6)), one(n % 2, 1 + (n % 7)), n % 2, Depth) : n \in 1..FewTried}
      composed == {at(x.men, one(x.turn, x.drops), x.turn, x.depth) :
                     x \in {Composed[n] : n \in ComposedTried}}
  IN {x \in many \cup lined \cup few \cup composed : Possible(x)}
=============================================================================
