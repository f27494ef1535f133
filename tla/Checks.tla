-------------------------------- MODULE Checks --------------------------------
(***************************************************************************)
(* b_gen_checks and w_gen_checks (genchk.c): the moves the quiescence and  *)
(* mate searches try to give check with; and is_move_check_b and _w        *)
(* (search.c), which tell before a move is made whether it gives check.    *)
(***************************************************************************)
EXTENDS MoveGen

(* The squares off the line idirec of the king: where a piece may go to    *)
(* leave the line open behind it.                                          *)
add_behind_attacks_OnTheLine(idirec, ik, bb) == bb \cup Line[idirec][ik]
add_behind_attacks(idirec, ik, bb) == bb \cup (Square \ Line[idirec][ik])
Opened(c, p, s) ==
  LET k == p.sq_king[Flip(c)]
      idirec == adirec[k][s]
  IN IF idirec # direc_misc /\ is_pinned_on(Flip(c), p, s, idirec)
     THEN add_behind_attacks(idirec, k, {}) ELSE {}

Target(c, p) == p.sq_king[Flip(c)]
GoldChecks(c, p) == Gold(Flip(c), Target(c, p))

(* The moves of the pieces on S to the squares of chk, or off a line.      *)
Check(c, p, k, S, chk, promo) ==
  UNION {Go(c, p, k, {s}, (chk \cup Opened(c, p, s)) \cap Movable(c, p), promo) : s \in S}

checks_by_promoted(c, p) ==
  LET near == abb_king_attacks[Target(c, p)]
  IN Check(c, p, king, {p.sq_king[c]}, {}, FALSE)
       \cup Check(c, p, dragon, p.bb[c][dragon], AttackRook(p, Target(c, p)) \cup near, FALSE)
       \cup Check(c, p, horse, p.bb[c][horse], AttackBishop(p, Target(c, p)) \cup near, FALSE)

(* A rook or bishop that opens a line gives check wherever it goes.        *)
checks_by_slider(c, p, k, lines) ==
  LET near == abb_king_attacks[Target(c, p)]
      direct(s) == lines \cup (IF s \in Zone(c) THEN near ELSE near \cap Zone(c))
      chk(s) == IF Opened(c, p, s) # {} THEN Square ELSE direct(s)
  IN UNION {ForcedPromotion(c, p, k, {s}, chk(s) \cap Movable(c, p)) : s \in p.bb[c][k]}
checks_by_rook(c, p) == checks_by_slider(c, p, rook, AttackRook(p, Target(c, p)))
checks_by_bishop(c, p) == checks_by_slider(c, p, bishop, AttackBishop(p, Target(c, p)))

checks_by_gold(c, p) ==
  UNION {Check(c, p, Kind(p, s), {s}, GoldChecks(c, p), FALSE) : s \in p.union[c].tgold}
checks_by_silver(c, p) ==
  LET promoting(s) == {m \in Check(c, p, silver, {s}, GoldChecks(c, p), TRUE) :
                         {m.from, m.to} \cap Zone(c) # {}}
  IN Check(c, p, silver, p.bb[c][silver], Silver(Flip(c), Target(c, p)), FALSE)
       \cup UNION {promoting(s) : s \in p.bb[c][silver]}
checks_by_knight(c, p) ==
  LET far == {s \in p.bb[c][knight] : Row(c, s) >= 4}
  IN {m \in Check(c, p, knight, p.bb[c][knight], GoldChecks(c, p), TRUE) : m.to \in Zone(c)}
       \cup Check(c, p, knight, far, Knight(Flip(c), Target(c, p)), FALSE)

(* A lance that opens a line is given the promotion wherever it goes.      *)
checks_by_lance(c, p) ==
  LET below == AttackFile(p, Target(c, p)) \cap RaysBehind(c)[Target(c, p)]
      outside == p.bb[c][lance] \ Zone(c)
  IN Check(c, p, lance, p.bb[c][lance], GoldChecks(c, p) \cap Zone(c), TRUE)
       \cup {m \in Check(c, p, lance, outside, below, FALSE) : Row(c, m.to) >= 2}

(* Pawns that open a diagonal by a step to an empty square, and pawns that *)
(* give check themselves.  A pawn promotes whenever it can.                *)
Step(c, p, s) == Board(p, pawn, Row(c, s) <= 3, s, s + Ahead(c))
checks_by_pawn(c, p) ==
  LET k == Target(c, p)
      open(seen, attacks(_, _)) ==
        {s \in seen \cap p.bb[c][pawn] : /\ p.board[s + Ahead(c)] = empty
                                         /\ attacks(p, s) \cap p.union[c].bh # {}}
      chk == (GoldChecks(c, p) \cap Zone(c))
               \cup (IF Row(c, k) < 7 THEN {k - Ahead(c)} ELSE {})
      direct == {t - Ahead(c) : t \in chk \cap Movable(c, p) \cap p.pawn_atk[c]}
  IN {Step(c, p, s) : s \in open(AttackDiag1(p, k), AttackDiag1)
                              \cup open(AttackDiag2(p, k), AttackDiag2) \cup direct}

checks_by_drop(c, p) ==
  LET k == Target(c, p)
      drop(j, S) == IF p.hand[c][j] > 0 THEN {DropMove(j, t) : t \in S \cap Empty(p)} ELSE {}
      front == IF Row(c, k) < 8 /\ ~\E s \in p.bb[c][pawn] : aifile(s) = aifile(k)
               THEN {k - Ahead(c)} ELSE {}
  IN drop(gold, GoldChecks(c, p)) \cup drop(silver, Silver(Flip(c), k))
       \cup drop(knight, Knight(Flip(c), k))
       \cup {m \in drop(pawn, front) : ~is_mate_pawn_drop(c, p, m.to)}
checks_by_far_drop(c, p) ==
  LET k == Target(c, p)
      drop(j, S) == IF p.hand[c][j] > 0 THEN {DropMove(j, t) : t \in S \cap Empty(p)} ELSE {}
  IN drop(lance, AttackFile(p, k) \cap RaysBehind(c)[k])
       \cup drop(rook, AttackRook(p, k)) \cup drop(bishop, AttackBishop(p, k))

gen_checks(c, p) ==
  UNION {checks_by_promoted(c, p), checks_by_rook(c, p), checks_by_bishop(c, p),
         checks_by_gold(c, p), checks_by_silver(c, p), checks_by_knight(c, p),
         checks_by_lance(c, p), checks_by_pawn(c, p), checks_by_drop(c, p),
         checks_by_far_drop(c, p)}

w_checks_by_promoted(p) == checks_by_promoted(white, p)
w_checks_by_rook(p) == checks_by_rook(white, p)
w_checks_by_bishop(p) == checks_by_bishop(white, p)
w_checks_by_generals(p) == checks_by_gold(white, p) \cup checks_by_silver(white, p)
w_checks_by_knight(p) == checks_by_knight(white, p)
w_checks_by_lance(p) == checks_by_lance(white, p)
w_checks_by_pawn(p) == checks_by_pawn(white, p)
w_checks_by_drop(p) == checks_by_drop(white, p)
w_checks_by_far_drop(p) == checks_by_far_drop(white, p)
GenCheck(turn, p) ==
  IF turn = white
  THEN UNION {w_checks_by_promoted(p), w_checks_by_rook(p), w_checks_by_bishop(p),
              w_checks_by_generals(p), w_checks_by_knight(p), w_checks_by_lance(p),
              w_checks_by_pawn(p), w_checks_by_drop(p), w_checks_by_far_drop(p)}
  ELSE gen_checks(black, p)

(* Whether m gives check: from where it goes, seen on the board before it  *)
(* is made, or by opening a line.                                          *)
is_move_check_Direct(c, p, m) ==
  IF Comes(m) = pawn THEN Target(c, p) = m.to + Ahead(c)
  ELSE Target(c, p) \in Reach(c, p, Comes(m), m.to)
is_move_check(c, p, m) ==
  LET k == Target(c, p)
      direct == CASE Comes(m) = pawn -> k = m.to + Ahead(c)
                  [] Comes(m) = king -> FALSE
                  [] OTHER -> k \in Reach(c, p, Comes(m), m.to)
  IN direct \/ (~IsDrop(m) /\ IsDiscover(Flip(c), p, m.from, m.to))
is_move_check_w(p, m) == is_move_check(white, p, m)
IsMoveCheck(turn, p, m) ==
  IF turn = white THEN is_move_check_w(p, m) ELSE is_move_check(black, p, m)
=============================================================================
