------------------------------- MODULE MoveGen -------------------------------
(***************************************************************************)
(* The move generators: captures and promotions (gencap.c), other moves    *)
(* of pieces on the board (gennocap.c), drops (gendrop.c), answers to a    *)
(* check (genevasn.c) and the moves that decline a promotion the first two *)
(* force (movgenex.c).                                                     *)
(*                                                                         *)
(* A generator is the set of its moves.  The source has each of them for   *)
(* black and, turned, for white; x(c, p) stands for both, w_x is the half  *)
(* for white, and GenX(turn, p) the macro of shogi.h that chooses.         *)
(***************************************************************************)
EXTENDS Position

Kind(p, s) == IF p.board[s] < 0 THEN -p.board[s] ELSE p.board[s]
Empty(p) == Square \ (p.occ[black] \cup p.occ[white])
Board(p, k, promo, from, to) == Move(from, to, k, promo, Kind(p, to))

(* The squares a piece of c on s attacks.                                  *)
Reach(c, p, k, s) ==
  CASE k = lance -> AttackLance(c, p, s)
    [] k = knight -> Knight(c, s)
    [] k = silver -> Silver(c, s)
    [] k \in Golds -> Gold(c, s)
    [] k = king -> abb_king_attacks[s]
    [] k = bishop -> AttackBishop(p, s)
    [] k = rook -> AttackRook(p, s)
    [] k = horse -> AttackHorse(p, s)
    [] k = dragon -> AttackDragon(p, s)

(* The moves of the pieces on S to the squares of T they attack, those     *)
(* with promotion if promo.                                                *)
Go(c, p, k, S, T, promo) ==
  UNION {{Board(p, k, promo, s, t) : t \in Reach(c, p, k, s) \cap T} : s \in S}
AsGold(c, p, T) ==
  UNION {Go(c, p, Kind(p, s), {s}, T, FALSE) : s \in p.union[c].tgold}
Push(c, p, T, promo) ==
  {Board(p, pawn, promo, t - Ahead(c), t) : t \in p.pawn_atk[c] \cap T}

(* To or from the zone with promotion, or without.                         *)
SilverMoves(c, p, S, T) ==
  LET either(s) == IF s \in Zone(c) THEN T ELSE T \cap Zone(c)
  IN Go(c, p, silver, S, T, FALSE)
       \cup UNION {Go(c, p, silver, {s}, either(s), TRUE) : s \in S}
ForcedPromotion(c, p, k, S, T) ==
  LET touching(s) == IF s \in Zone(c) THEN T ELSE T \cap Zone(c)
  IN UNION {Go(c, p, k, {s}, touching(s), TRUE)
              \cup Go(c, p, k, {s}, T \ touching(s), FALSE) : s \in S}

(***************************************************************************)
(* Captures and promotions.                                                *)
(***************************************************************************)
Movable(c, p) == Square \ p.occ[c]
Deep(c) == {s \in Square : Row(c, s) <= 1}

cap_steps(c, p) ==
  LET capture == p.occ[Flip(c)]
  IN Push(c, p, Movable(c, p) \cap Zone(c), TRUE)
       \cup Push(c, p, capture \ Zone(c), FALSE)
       \cup SilverMoves(c, p, p.bb[c][silver], capture)
       \cup AsGold(c, p, capture)
       \cup Go(c, p, king, {p.sq_king[c]}, capture, FALSE)
cap_sliders(c, p) ==
  LET capture == p.occ[Flip(c)]
      target(s) == IF s \in Zone(c) THEN Movable(c, p)
                   ELSE capture \cup (Movable(c, p) \cap Zone(c))
      of(k) == UNION {ForcedPromotion(c, p, k, {s}, target(s)) : s \in p.bb[c][k]}
  IN of(bishop) \cup of(rook)
cap_promoted(c, p) ==
  LET capture == p.occ[Flip(c)]
  IN Go(c, p, horse, p.bb[c][horse], capture, FALSE)
       \cup Go(c, p, dragon, p.bb[c][dragon], capture, FALSE)
cap_far(c, p, k) ==                       \* lances, and knights
  LET capture == p.occ[Flip(c)]
  IN Go(c, p, k, p.bb[c][k], Movable(c, p) \cap Zone(c), TRUE)
       \cup Go(c, p, k, p.bb[c][k], capture \ Deep(c), FALSE)

gen_captures(c, p) ==
  cap_steps(c, p) \cup cap_sliders(c, p) \cup cap_promoted(c, p)
    \cup cap_far(c, p, lance) \cup cap_far(c, p, knight)

(***************************************************************************)
(* Moves to an empty square without promotion, silvers both ways.          *)
(***************************************************************************)
nocap_steps(c, p) ==
  Push(c, p, Empty(p) \ Zone(c), FALSE)
    \cup SilverMoves(c, p, p.bb[c][silver], Empty(p))
    \cup AsGold(c, p, Empty(p))
    \cup Go(c, p, king, {p.sq_king[c]}, Empty(p), FALSE)
nocap_sliders(c, p) ==
  LET outside == Square \ Zone(c)
      of(k) == Go(c, p, k, p.bb[c][k] \cap outside, Empty(p) \cap outside, FALSE)
      all(k) == Go(c, p, k, p.bb[c][k], Empty(p), FALSE)
      far(k) == Go(c, p, k, p.bb[c][k], Empty(p) \ Deep(c), FALSE)
  IN of(bishop) \cup of(rook) \cup all(horse) \cup all(dragon)
       \cup far(lance) \cup far(knight)

gen_nocaptures(c, p) == nocap_steps(c, p) \cup nocap_sliders(c, p)

(***************************************************************************)
(* The promotions the two generators above force, declined: pawns, bishops *)
(* and rooks anywhere, lances on the second rank; ex2 generates them for   *)
(* captures and for other moves.                                           *)
(***************************************************************************)
Declined(c, p, T) ==
  LET second == {s \in Square : Row(c, s) = 1}
      third == {s \in Square : Row(c, s) = 2}
      of(k) == UNION {Go(c, p, k, {s}, IF s \in Zone(c) THEN T ELSE T \cap Zone(c), FALSE)
                        : s \in p.bb[c][k]}
  IN Push(c, p, T \cap (second \cup third), FALSE)
       \cup of(bishop) \cup of(rook)
       \cup Go(c, p, lance, p.bb[c][lance], T \cap second, FALSE)
gen_cap_nopro_ex2(c, p) == Declined(c, p, p.occ[Flip(c)])
gen_nocap_nopro_ex2(c, p) == Declined(c, p, Empty(p))

(***************************************************************************)
(* Drops on the squares of T, which are empty.                             *)
(***************************************************************************)
DropsOn(c, p, T) ==
  LET from == [k \in Hands |-> CASE k = knight -> 2 [] k \in {pawn, lance} -> 1 [] OTHER -> 0]
      may(k, t) == /\ Row(c, t) >= from[k]
                   /\ k = pawn => ~PawnOnFile(c, p, t) /\ ~IsMatePawnDrop(c, p, t)
  IN {DropMove(x[1], x[2]) : x \in {x \in {k \in Hands : p.hand[c][k] > 0} \X T :
                                      may(x[1], x[2])}}
gen_drop(c, p) == DropsOn(c, p, Empty(p))

(***************************************************************************)
(* Answers to a check.  The king is lifted off the board to see where it   *)
(* may go.  If a single piece gives check, other pieces that are not       *)
(* pinned may take it or come between.                                     *)
(***************************************************************************)
evade_king(c, p) ==
  LET k == p.sq_king[c]
      lifted == Occupying(c, p, k)
  IN {Board(p, king, FALSE, k, t) :
        t \in {t \in abb_king_attacks[k] \ lifted.occ[c] :
                 ~is_attacked_by(Flip(c), lifted, t)}}
Checkers(c, p) == attacks_to_piece(p, p.sq_king[c]) \cap p.occ[Flip(c)]
Between(c, p) == abb_obstacle[p.sq_king[c]][Furthest(c, Checkers(c, p))]
Free_Always(c, p, s) == TRUE
Free(c, p, s) ==
  LET idirec == adirec[p.sq_king[c]][s]
  IN idirec = direc_misc \/ ~is_pinned_on(c, p, s, idirec)

evade_steps(c, p, target) ==
  LET free(k) == {s \in p.bb[c][k] : Free(c, p, s)}
      pushed == {t \in target \cap p.pawn_atk[c] : Free(c, p, t - Ahead(c))}
      landing(s) == LET reach == AttackLance(c, p, s) \cap target
                    IN IF reach = {} THEN {} ELSE {Furthest(c, reach)}
      far(k, S, T) == Go(c, p, k, S, T \cap Zone(c), TRUE)
                        \cup Go(c, p, k, S, T \ Deep(c), FALSE)
  IN Push(c, p, pushed \cap Zone(c), TRUE) \cup Push(c, p, pushed \ Zone(c), FALSE)
       \cup far(knight, free(knight), target)
       \cup SilverMoves(c, p, free(silver), target)
       \cup UNION {far(lance, {s}, landing(s)) : s \in free(lance)}
evade_others(c, p, target) ==
  LET free(k) == {s \in p.bb[c][k] : Free(c, p, s)}
  IN ForcedPromotion(c, p, bishop, free(bishop), target)
       \cup ForcedPromotion(c, p, rook, free(rook), target)
       \cup UNION {Go(c, p, k, free(k), target, FALSE) : k \in Golds \cup {horse, dragon}}
evade_drops(c, p) == DropsOn(c, p, Between(c, p))

gen_evasion(c, p) ==
  evade_king(c, p) \cup
    IF Cardinality(Checkers(c, p)) = 2 THEN {}
    ELSE LET target == Between(c, p) \cup Checkers(c, p)
         IN evade_steps(c, p, target) \cup evade_others(c, p, target)
              \cup evade_drops(c, p)

(***************************************************************************)
(* The halves for white, and the macros that choose a half.                *)
(***************************************************************************)
w_cap_steps(p) == cap_steps(white, p)
w_cap_sliders(p) == cap_sliders(white, p) \cup cap_promoted(white, p)
w_cap_far(p) == cap_far(white, p, lance) \cup cap_far(white, p, knight)
w_nocap_steps(p) == nocap_steps(white, p)
w_nocap_sliders(p) == nocap_sliders(white, p)
w_gen_cap_nopro_ex2(p) == gen_cap_nopro_ex2(white, p)
w_gen_nocap_nopro_ex2(p) == gen_nocap_nopro_ex2(white, p)
w_gen_drop(p) == gen_drop(white, p)
w_evade_king(p) == evade_king(white, p)
w_evade_steps(p, target) == evade_steps(white, p, target)
w_evade_others(p, target) == evade_others(white, p, target)
w_evade_drops(p) == evade_drops(white, p)
w_gen_evasion(p) ==
  w_evade_king(p) \cup
    IF Cardinality(Checkers(white, p)) = 2 THEN {}
    ELSE LET target == Between(white, p) \cup Checkers(white, p)
         IN w_evade_steps(p, target) \cup w_evade_others(p, target) \cup w_evade_drops(p)

GenCaptures(turn, p) ==
  IF turn = white THEN w_cap_steps(p) \cup w_cap_sliders(p) \cup w_cap_far(p)
  ELSE gen_captures(black, p)
GenNoCaptures(turn, p) ==
  IF turn = white THEN w_nocap_steps(p) \cup w_nocap_sliders(p) ELSE gen_nocaptures(black, p)
GenCapNoProEx2(turn, p) ==
  IF turn = white THEN w_gen_cap_nopro_ex2(p) ELSE gen_cap_nopro_ex2(black, p)
GenNoCapNoProEx2(turn, p) ==
  IF turn = white THEN w_gen_nocap_nopro_ex2(p) ELSE gen_nocap_nopro_ex2(black, p)
GenDrop(turn, p) == IF turn = white THEN w_gen_drop(p) ELSE gen_drop(black, p)
GenEvasion(turn, p) == IF turn = white THEN w_gen_evasion(p) ELSE gen_evasion(black, p)
MakeMove(turn, p, m) == IF turn = white THEN make_move_w(p, m) ELSE make_move(black, p, m)
UnMakeMove(turn, p, m, key, material) ==
  IF turn = white THEN unmake_move_w(p, m, key, material)
  ELSE unmake_move(black, p, m, key, material)

(* What the search goes through, out of check, and adds when it looks at   *)
(* every move.                                                             *)
GenAll(turn, p) == GenCaptures(turn, p) \cup GenNoCaptures(turn, p) \cup GenDrop(turn, p)
GenEx2(turn, p) == GenCapNoProEx2(turn, p) \cup GenNoCapNoProEx2(turn, p)
=============================================================================
