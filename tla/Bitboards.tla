------------------------------ MODULE Bitboards ------------------------------
(***************************************************************************)
(* The constant tables of the engine (ini.c) and the types of shogi.h:     *)
(* squares, pieces, rays, the squares a piece attacks from each square and *)
(* the squares from which one can give check.                              *)
(*                                                                         *)
(* A bitboard_t is the set of its squares.  Where a square sits in the     *)
(* three words, or in a rotated copy of them, is left out; that the engine *)
(* keeps rotated copies next to the plain ones is not (see Position).      *)
(*                                                                         *)
(* The source writes every operation twice, for black and for white, each  *)
(* the other one turned by 180 degrees.  Here a definition takes the side  *)
(* to move c, and Row and Ahead turn the board for it.                     *)
(***************************************************************************)
EXTENDS Integers, Sequences, FiniteSets

nsquare == 81
Square == 0..80
black == 0
white == 1
Colour == {black, white}
Flip(turn) == 1 - turn

promote == 8
empty == 0
pawn == 1
lance == 2
knight == 3
silver == 4
gold == 5
bishop == 6
rook == 7
king == 8
horse == 14
dragon == 15
Hands == pawn .. rook
Promotable == {pawn, lance, knight, silver, bishop, rook}
Golds == {gold} \cup {k + promote : k \in {pawn, lance, knight, silver}}
Kinds == (1..15) \ {13}
Unpromoted(k) == IF k > king THEN k - promote ELSE k

airank(s) == s \div 9
aifile(s) == s % 9

(* The rank, counted from the far side of c; one step forward; the order   *)
(* FirstOne and LastOne look at squares in, turned the same way.           *)
Row(c, s) == IF c = black THEN airank(s) ELSE 8 - airank(s)
Ahead(c) == IF c = black THEN -9 ELSE 9
Rel(c, s) == IF c = black THEN s ELSE nsquare - 1 - s
Zone(c) == {s \in Square : Row(c, s) <= 2}
Nearest(c, S) == CHOOSE s \in S : \A t \in S : Rel(c, t) >= Rel(c, s)
Furthest(c, S) == CHOOSE s \in S : \A t \in S : Rel(c, t) <= Rel(c, s)
Toggle(S, T) == (S \ T) \cup (T \ S)          \* BBXor, Xor, SetClear

(* set_attacks: the squares some steps <<ranks, files>> away.              *)
OnTheBoard(rank, file) == rank \in 0..8 /\ file \in 0..8
set_attacks(s, steps) ==
  {s + 9 * d[1] + d[2] : d \in {d \in steps : OnTheBoard(airank(s) + d[1], aifile(s) + d[2])}}

RankSteps == {<<0, 1>>, <<0, -1>>}
FileSteps == {<<1, 0>>, <<-1, 0>>}
Diag1Steps == {<<1, -1>>, <<-1, 1>>}
Diag2Steps == {<<1, 1>>, <<-1, -1>>}
LineSteps == RankSteps \cup FileSteps \cup Diag1Steps \cup Diag2Steps

(* The rays abb_plus1dir, abb_minus1dir, ... abb_minus10dir of a step.     *)
Rays == [s \in Square |-> [d \in LineSteps |->
           set_attacks(s, {<<i * d[1], i * d[2]>> : i \in 1..8})]]
Ray(s, d) == Rays[s][d]

(* The kind of line that joins two squares, and the squares s is joined to *)
(* by a line of one kind: the two rays from s along it.                    *)
direc_misc == 0
direc_file == 2
direc_rank == 3
direc_diag1 == 4
direc_diag2 == 5
LinesOf(rank, file) == <<0, file, rank, rank + file, rank - file>>   \* by direc_*
Joined(d, s, t) == LinesOf(s \div 9, s % 9)[d] = LinesOf(t \div 9, t % 9)[d]
Line == [d \in 2..5 |-> [s \in Square |-> {t \in Square \ {s} : Joined(d, s, t)}]]
adirec ==
  [s \in Square |-> [t \in Square |->
     IF s = t \/ ~\E d \in 2..5 : Joined(d, s, t) THEN direc_misc
     ELSE CHOOSE d \in 2..5 : Joined(d, s, t)]]

(* abb_plus_rays: the rays towards higher squares; abb_minus_rays.         *)
abb_plus_rays == [s \in Square |-> {t \in s+1 .. 80 : \E d \in 2..5 : Joined(d, s, t)}]
abb_minus_rays == [s \in Square |-> {t \in 0 .. s-1 : \E d \in 2..5 : Joined(d, s, t)}]
RaysBehind(c) == IF c = black THEN abb_plus_rays ELSE abb_minus_rays
RaysAhead(c) == IF c = black THEN abb_minus_rays ELSE abb_plus_rays

(* The squares strictly between two squares of a line: those on it that    *)
(* are lower than one of the two only.                                     *)
abb_obstacle ==
  [s \in Square |-> [t \in Square |->
     {u \in Square \ {s, t} : /\ u > s <=> u < t
                            /\ \E d \in 2..5 : Joined(d, s, t) /\ Joined(d, s, u)}]]

Turned(c, steps) == IF c = black THEN steps ELSE {<<-d[1], -d[2]>> : d \in steps}
Around == ((-1 .. 1) \X (-1 .. 1)) \ {<<0, 0>>}
SilverSteps == {<<-1, -1>>, <<-1, 1>>, <<1, -1>>, <<1, 1>>, <<-1, 0>>}
GoldSteps == {<<-1, -1>>, <<-1, 1>>, <<-1, 0>>, <<1, 0>>, <<0, -1>>, <<0, 1>>}
KnightSteps == {<<-2, -1>>, <<-2, 1>>}

abb_silver_attacks ==
  [c \in Colour |-> [s \in Square |-> set_attacks(s, Turned(c, SilverSteps))]]
abb_gold_attacks ==
  [c \in Colour |-> [s \in Square |-> set_attacks(s, Turned(c, GoldSteps))]]
abb_king_attacks == [s \in Square |-> set_attacks(s, Around)]
abb_b_knight_attacks == [s \in Square |-> set_attacks(s, KnightSteps)]
abb_w_knight_attacks == [s \in Square |-> set_attacks(s, Turned(white, KnightSteps))]
abb_knight_attacks == <<abb_b_knight_attacks, abb_w_knight_attacks>>
Knight(c, s) == abb_knight_attacks[c + 1][s]
Silver(c, s) == abb_silver_attacks[c][s]
Gold(c, s) == abb_gold_attacks[c][s]

(* The squares of a line a slider on s reaches when occ is occupied: up to *)
(* the first piece, which may be taken.                                    *)
Slide(d, s, occ) == {t \in Line[d][s] : abb_obstacle[s][t] \cap occ = {}}
abb_file_attacks(s, occ) == Slide(direc_file, s, occ)
ai_rook_attacks_r0(s, occ) == Slide(direc_rank, s, occ)
abb_bishop_attacks_rl45(s, occ) == Slide(direc_diag2, s, occ)
abb_bishop_attacks_rr45(s, occ) == Slide(direc_diag1, s, occ)

(* ini_check_table: the squares from which a gold, silver, knight or lance *)
(* of c may come to give check to a king on k.  The reach of a piece that  *)
(* comes to a square is that of the enemy's piece that stands there.  A    *)
(* silver or knight also checks as a promoted piece, from inside the zone; *)
(* a silver may enter it from the fourth rank.                             *)
ComesTo(reach, S) == UNION {reach[s] : s \in S}
chk_tbl_gold ==
  [c \in Colour |-> [k \in Square |->
     LET g == abb_gold_attacks[Flip(c)]
     IN ComesTo(g, g[k]) \ ({k} \cup g[k])]]
chk_tbl_silver ==
  [c \in Colour |-> [k \in Square |->
     LET g == abb_gold_attacks[Flip(c)]
         s == abb_silver_attacks[Flip(c)]
         fourth == {t \in Square : Row(c, t) \in 3..5}
     IN (ComesTo(s, s[k]) \cup ComesTo(s, g[k] \cap Zone(c))
           \cup (ComesTo(s, g[k] \cap fourth) \cap Zone(c)))
        \ ({k} \cup s[k])]]
chk_tbl_knight ==
  [c \in Colour |-> [k \in Square |->
     LET n == abb_knight_attacks[Flip(c) + 1]
     IN ComesTo(n, n[k])
          \cup ComesTo(n, abb_gold_attacks[Flip(c)][k] \cap Zone(c))]]
chk_tbl_lance ==
  [c \in Colour |-> [k \in Square |->
     LET behind(s) == Ray(s, IF c = black THEN <<1, 0>> ELSE <<-1, 0>>)
         beside == {t \in Square : airank(t) = airank(k)
                                     /\ aifile(t) - aifile(k) \in {-1, 1}}
     IN IF Row(c, k) > 6 THEN {}
        ELSE behind(k - Ahead(c))
             \cup IF Row(c, k) <= 2 THEN UNION {behind(t) : t \in beside} ELSE {}]]
=============================================================================
