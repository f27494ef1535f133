--------------------------------- MODULE Mates ---------------------------------
(***************************************************************************)
(* The mate solvers: mate in one by a move or drop next to the king or by  *)
(* a knight (mate1ply.c), and mate in three (mate3.c) built on it.         *)
(*                                                                         *)
(* The functions of mate1ply.c return the first mating move they come to;  *)
(* an operator here is the set of all those they would accept.             *)
(***************************************************************************)
EXTENDS Checks

(* The board without the piece of c that is about to leave s.              *)
Lifted_Supporting(c, p, s) == Occupying(c, p, s)
Lifted(c, p, s) ==
  LET k == Kind(p, s)
      q == Occupying(c, p, s)
  IN IF k = pawn THEN [q EXCEPT !.pawn_atk[c] = Toggle(@, {s + Ahead(c)})]
     ELSE [q EXCEPT !.bb[c] = [j \in BoardKinds |-> IF j = k THEN @[j] \ {s} ELSE @[j]],
                    !.union[c] = [u \in DOMAIN Unions |->
                                    IF k \in Unions[u] THEN @[u] \ {s} ELSE @[u]]]

(* Once a piece of c has come to the square to, from where it reaches the  *)
(* squares of reach: the king of d may step aside, or a piece of d other   *)
(* than the king, and not pinned, may take.                                *)
ArrivedAt(c, p, to) == IF p.board[to] = empty THEN Occupying(c, p, to) ELSE p
FreeSquare(d, gone, S) == \E s \in S \ gone.occ[d] : ~is_attacked_by(Flip(d), gone, s)
can_king_escape(d, p, to, reach) ==
  FreeSquare(d, Occupying(d, ArrivedAt(Flip(d), p, to), p.sq_king[d]),
             abb_king_attacks[p.sq_king[d]] \ (reach \cup {to}))
can_piece_capture(d, p, to) ==
  LET pawns == {s \in Square : s = to - Ahead(d) /\ p.board[s] = Signed(d, pawn)}
  IN \E s \in (pawns \cup Strikers(d, p, to)) \ {p.sq_king[d]} : ~IsDiscover(d, p, s, to)
can_b_king_escape(p, to, reach) == can_king_escape(black, p, to, reach)
can_b_piece_capture(p, to) == can_piece_capture(black, p, to)

DropMates(c, p, to, reach) ==
  /\ ~can_king_escape(Flip(c), p, to, reach)
  /\ ~can_piece_capture(Flip(c), p, to)
MoveMates(c, p, from, to, reach) ==      \* p without the piece that moves
  /\ ~can_king_escape(Flip(c), p, to, reach)
  /\ IsDiscover(Flip(c), p, from, to) \/ ~can_piece_capture(Flip(c), p, to)
  /\ ~IsDiscover(c, p, from, to)

Cross(s) == Line[direc_file][s] \cup Line[direc_rank][s]
Saltire(s) == Line[direc_diag1][s] \cup Line[direc_diag2][s]
BothGold(k) == Gold(black, k) \cap Gold(white, k)
BothSilver(k) == Silver(black, k) \cap Silver(white, k)

(***************************************************************************)
(* Drops, each only where no stronger piece of the hand does as well.      *)
(***************************************************************************)
Contact(c, p, k, S, reach) ==
  IF p.hand[c][k] = 0 THEN {}
  ELSE {DropMove(k, t) : t \in {t \in S \cap Empty(p) : /\ is_attacked_by(c, p, t)
                                                        /\ DropMates(c, p, t, reach[t])}}
mate_by_drop(c, p) ==
  LET k == Target(c, p)
      has(j) == p.hand[c][j] > 0
      golds == GoldChecks(c, p)
      silvers == Silver(Flip(c), k)
      back == Gold(c, k) \cap Silver(c, k)
      front == IF Row(c, k) <= 7 THEN {k - Ahead(c)} ELSE {}
      knights == {t \in Knight(Flip(c), k) \cap Empty(p) : DropMates(c, p, t, {})}
  IN Contact(c, p, rook, BothGold(k), [t \in Square |-> Cross(t)])
       \cup (IF has(rook) THEN {} ELSE Contact(c, p, lance, front, Line[direc_file]))
       \cup Contact(c, p, bishop, BothSilver(k), [t \in Square |-> Saltire(t)])
       \cup Contact(c, p, gold, golds \ (IF has(rook) THEN back ELSE {}), abb_gold_attacks[c])
       \cup Contact(c, p, silver,
              (IF has(gold) THEN silvers \ golds ELSE silvers)
                \cap (IF has(bishop) THEN golds ELSE Square), abb_silver_attacks[c])
       \cup IF has(knight) THEN {DropMove(knight, t) : t \in knights} ELSE {}

(***************************************************************************)
(* Moves.  Coming(c, p, s, T, promo, reach): the moves of the piece on s   *)
(* to squares of T, supported by another piece, that mate.                 *)
(***************************************************************************)
MatingSquares(c, q, s, T, reach) ==
  {t \in T : is_attacked_by(c, q, t) /\ MoveMates(c, q, s, t, reach[t])}
Coming(c, p, s, T, promo, reach) ==
  {Board(p, Kind(p, s), promo, s, t) :
     t \in MatingSquares(c, Lifted(c, p, s), s,
                         T \cap Reach(c, p, Kind(p, s), s) \cap Movable(c, p), reach)}

DragonReach(k, q) ==
  [t \in Square |-> IF adirec[k][t] \in {direc_file, direc_rank}
                    THEN Cross(t) \cup abb_king_attacks[t] ELSE AttackDragon(q, t)]
RookReach(c, p, s) == DragonReach(Target(c, p), Lifted(c, p, s))
HorseReach == [t \in Square |-> Saltire(t) \cup abb_king_attacks[t]]

mate_by_dragon(c, p) ==
  LET near == abb_king_attacks[Target(c, p)]
  IN UNION {Coming(c, p, s, near, FALSE, RookReach(c, p, s)) : s \in p.bb[c][dragon]}
Promoting(c, s, T) == IF s \in Zone(c) THEN T ELSE T \cap Zone(c)
Plainly(c, s, T) == IF s \in Zone(c) THEN {} ELSE T \ Zone(c)
mate_by_rook(c, p) ==
  LET near == abb_king_attacks[Target(c, p)]
      cross == BothGold(Target(c, p))
  IN UNION {Coming(c, p, s, Promoting(c, s, near), TRUE, RookReach(c, p, s))
              \cup Coming(c, p, s, Plainly(c, s, cross), FALSE, [t \in Square |-> Cross(t)])
            : s \in p.bb[c][rook]}
mate_by_horse(c, p) ==
  LET near == abb_king_attacks[Target(c, p)]
  IN UNION {Coming(c, p, s, near, FALSE, HorseReach) : s \in p.bb[c][horse]}
mate_by_bishop(c, p) ==
  LET near == abb_king_attacks[Target(c, p)]
      saltire == BothSilver(Target(c, p))
  IN UNION {Coming(c, p, s, Promoting(c, s, near), TRUE, HorseReach)
              \cup Coming(c, p, s, Plainly(c, s, saltire), FALSE, [t \in Square |-> Saltire(t)])
            : s \in p.bb[c][bishop]}

mate_by_gold(c, p) ==
  UNION {Coming(c, p, s, GoldChecks(c, p), FALSE, abb_gold_attacks[c]) :
           s \in p.union[c].tgold \cap chk_tbl_gold[c][Target(c, p)]}
mate_by_silver(c, p) ==
  LET promoting(s) == Promoting(c, s, GoldChecks(c, p))
  IN UNION {Coming(c, p, s, promoting(s), TRUE, abb_gold_attacks[c])
              \cup Coming(c, p, s, Silver(Flip(c), Target(c, p)) \ promoting(s), FALSE,
                          abb_silver_attacks[c]) :
            s \in p.bb[c][silver] \cap chk_tbl_silver[c][Target(c, p)]}

(* A knight that can give check with promotion does nothing else, and one  *)
(* that does not promote needs no support.                                 *)
Plain(c, p, s) ==
  {Board(p, knight, FALSE, s, t) :
     t \in {t \in Knight(c, s) \cap Knight(Flip(c), Target(c, p)) \cap Movable(c, p) :
              MoveMates(c, Lifted(c, p, s), s, t, {})}}
mate_by_knight(c, p) ==
  LET golds == GoldChecks(c, p) \cap Zone(c) \cap Movable(c, p)
  IN UNION {IF Knight(c, s) \cap golds # {}
            THEN Coming(c, p, s, golds, TRUE, abb_gold_attacks[c]) ELSE Plain(c, p, s)
            : s \in p.bb[c][knight] \cap chk_tbl_knight[c][Target(c, p)]}
mate_by_lance(c, p) ==
  LET k == Target(c, p)
      front == {k - Ahead(c)} \cap {t \in Square : Row(c, t) >= 2}
  IN UNION {Coming(c, p, s, front, FALSE, Line[direc_file])
              \cup Coming(c, p, s, GoldChecks(c, p) \cap Zone(c), TRUE, abb_gold_attacks[c]) :
            s \in p.bb[c][lance] \cap chk_tbl_lance[c][k]}

PromotionMates(c, q, s, t) == MatingSquares(c, q, s, {t}, abb_gold_attacks[c]) # {}
PushMates(c, q, s, t) ==
  is_attacked_by(c, q, t) /\ DropMates(c, q, t, {}) /\ ~IsDiscover(c, q, s, t)
mate_by_pawn(c, p) ==
  LET golds == GoldChecks(c, p) \cap Zone(c) \cap Movable(c, p) \cap p.pawn_atk[c]
      below == {s \in Square : /\ Row(c, Target(c, p)) \in 2..6
                               /\ s = Target(c, p) - 2 * Ahead(c)
                               /\ p.board[s] = Signed(c, pawn)
                               /\ s + Ahead(c) \in Movable(c, p)}
  IN {Step(c, p, s) :
        s \in {s \in {t - Ahead(c) : t \in golds} : PromotionMates(c, Lifted(c, p, s), s, s + Ahead(c))}}
       \cup {Step(c, p, s) : s \in {s \in below : PushMates(c, Lifted(c, p, s), s, s + Ahead(c))}}

is_mate_in_1ply(c, p) ==
  UNION {mate_by_drop(c, p), mate_by_dragon(c, p), mate_by_rook(c, p), mate_by_horse(c, p),
         mate_by_bishop(c, p), mate_by_gold(c, p), mate_by_silver(c, p),
         mate_by_knight(c, p), mate_by_lance(c, p), mate_by_pawn(c, p)}

w_mate_by_drop(p) == mate_by_drop(white, p)
w_mate_by_dragon(p) == mate_by_dragon(white, p)
w_mate_by_rook(p) == mate_by_rook(white, p)
w_mate_by_horse(p) == mate_by_horse(white, p)
w_mate_by_bishop(p) == mate_by_bishop(white, p)
w_mate_by_gold(p) == mate_by_gold(white, p)
w_mate_by_silver(p) == mate_by_silver(white, p)
w_mate_by_knight(p) == mate_by_knight(white, p)
w_mate_by_lance(p) == mate_by_lance(white, p)
w_mate_by_pawn(p) == mate_by_pawn(white, p)
IsMateIn1Ply(turn, p) ==
  IF turn = white
  THEN UNION {w_mate_by_drop(p), w_mate_by_dragon(p), w_mate_by_rook(p), w_mate_by_horse(p),
              w_mate_by_bishop(p), w_mate_by_gold(p), w_mate_by_silver(p),
              w_mate_by_knight(p), w_mate_by_lance(p), w_mate_by_pawn(p)}
  ELSE is_mate_in_1ply(black, p)
=============================================================================
