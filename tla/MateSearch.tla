------------------------------ MODULE MateSearch ------------------------------
(***************************************************************************)
(* Mate in three (mate3.c).  Every answer to a check must be met by a mate *)
(* in one, except that a piece put in the way which nothing supports (a    *)
(* weak answer) may simply be taken, by the piece that gave check, if that *)
(* leads to mate in turn.                                                  *)
(***************************************************************************)
EXTENDS Mates

PLY_MAX == 48

(* The square of the checker; of two, that of the one next to the king,    *)
(* and the other one, if any.                                              *)
checker_One(c, p) == <<Furthest(black, Checkers(c, p))>>
OneOfTwo(c, p, sq0, sq1) ==
  IF sq1 \in abb_king_attacks[p.sq_king[c]] THEN <<sq1, sq0>> ELSE <<sq0, sq1>>
checker(c, p) ==
  LET of(all, sq0) == IF all = {sq0} THEN <<sq0>>
                      ELSE OneOfTwo(c, p, sq0, Furthest(black, all \ {sq0}))
  IN of(Checkers(c, p), Furthest(black, Checkers(c, p)))

gen_king_cap_checker(c, p, to) ==
  LET k == p.sq_king[c]
  IN IF to \in abb_king_attacks[k] /\ ~is_attacked_by(Flip(c), p, to)
     THEN {Board(p, king, FALSE, k, to)} ELSE {}

(* The moves to a square of the pieces that are not pinned, each with the  *)
(* promotions its kind takes or may take there.                            *)
Promotions(c, k, from, to) ==
  LET touches == {from, to} \cap Zone(c) # {}
  IN CASE k = pawn -> {to \in Zone(c)}
       [] k \in {lance, knight} -> IF to \in Deep(c) THEN {TRUE} ELSE {to \in Zone(c), FALSE}
       [] k = silver -> {touches, FALSE}
       [] k \in {bishop, rook} -> {touches}
       [] OTHER -> {FALSE}
gen_move_to(c, p, to) ==
  LET movers == {s \in (attacks_to_piece(p, to) \cap p.occ[c]) \ {p.sq_king[c]} : Free(c, p, s)}
  IN UNION {{Board(p, Kind(p, s), promo, s, to) : promo \in Promotions(c, Kind(p, s), s, to)}
              : s \in movers}

(* Steps of the king; the squares a checking slider sees through the king  *)
(* are left out, which is_attacked_by, with the king in place, would pass. *)
gen_king_move(c, p, psq, is_capture) ==
  LET k == p.sq_king[c]
      d == Flip(c)
      taken == IF is_capture THEN p.occ[d] \ {psq[1]} ELSE Square \ p.occ[d]
      same(s, to) == adirec[k][s] = adirec[k][to]
      crossing == adirec[k][psq[1]] \in {direc_file, direc_rank}
      runs == IF crossing THEN {lance, rook, dragon} ELSE {bishop, horse}
      seen(to) == \/ Len(psq) = 2 /\ same(psq[2], to)
                  \/ psq[1] # to /\ same(psq[1], to) /\ Kind(p, psq[1]) \in runs
  IN {Board(p, king, FALSE, k, to) :
        to \in {to \in (abb_king_attacks[k] \cap taken) \ p.occ[c] :
                  ~seen(to) /\ ~is_attacked_by(d, p, to)}}

(* Pieces put in the way: one drop of rook, lance or pawn stands for all   *)
(* three.  An answer is weak if no other piece stands behind it.           *)
gen_intercept_drops(c, p, to) ==
  LET has(k) == p.hand[c][k] > 0
      straight ==
        IF has(rook) THEN {rook}
        ELSE IF has(lance) /\ Row(c, to) > 0 THEN {lance}
        ELSE IF /\ has(pawn)
                /\ Row(c, to) > 0
                /\ ~\E s \in p.bb[c][pawn] : aifile(s) = aifile(to)
                /\ ~IsMatePawnDrop(c, p, to)
             THEN {pawn} ELSE {}
      others == {k \in {knight, silver, gold, bishop} : has(k) /\ (k = knight => Row(c, to) > 1)}
  IN {DropMove(k, to) : k \in straight \cup others}
gen_intercept(c, p, sq_checker, weak) ==
  LET k == p.sq_king[c]
      nsup(to) == Cardinality(gen_move_to(c, p, to))
                    + (IF to \in abb_king_attacks[k] THEN 1 ELSE 0)
  IN UNION {(IF weak <=> nsup(to) <= 1 THEN gen_move_to(c, p, to) ELSE {})
              \cup (IF weak <=> nsup(to) = 0 THEN gen_intercept_drops(c, p, to) ELSE {})
            : to \in abb_obstacle[k][sq_checker]}

(* gen_next_evasion_mate, phase by phase; psq is the result of checker.    *)
Interposable(p, psq) == Len(psq) = 1 /\ Kind(p, psq[1]) # knight
StrongAnswers(c, p, psq) ==
  gen_king_cap_checker(c, p, psq[1])
    \cup (IF Len(psq) = 1 THEN gen_move_to(c, p, psq[1]) ELSE {})
    \cup gen_king_move(c, p, psq, TRUE) \cup gen_king_move(c, p, psq, FALSE)
    \cup IF Interposable(p, psq) THEN gen_intercept(c, p, psq[1], FALSE) ELSE {}
WeakAnswers_Ignored(c, p, psq) == {}
WeakAnswers(c, p, psq) ==
  IF Interposable(p, psq) THEN gen_intercept(c, p, psq[1], TRUE) ELSE {}
gen_next_evasion_mate(c, p) ==
  StrongAnswers(c, p, checker(c, p)) \cup WeakAnswers(c, p, checker(c, p))

RECURSIVE mate3_and(_, _, _)

(* The checker on from takes what was put in its way on to.                *)
TakeInterposed(c, p, from, to) ==
  LET k == Kind(p, from)
  IN Board(p, k, k \in {bishop, rook} /\ {from, to} \cap Zone(c) # {}, from, to)
Refuted(c, q, ply) == ~InCheck(c, q) /\ mate3_and(Flip(c), q, ply)
mate_weak_or(c, p, ply, from, to) ==
  /\ ply < PLY_MAX - 2
  /\ Free(c, p, from)
  /\ Refuted(c, MakeMove(c, p, TakeInterposed(c, p, from, to)), ply + 1)
MatedAtOnce(c, q) == ~InCheck(c, q) /\ is_mate_in_1ply(c, q) # {}
mate3_and(d, p, ply) ==
  /\ \A m \in StrongAnswers(d, p, checker(d, p)) :
       MatedAtOnce(Flip(d), MakeMove(d, p, m))
  /\ \A m \in WeakAnswers(d, p, checker(d, p)) :
       mate_weak_or(Flip(d), MakeMove(d, p, m), ply + 1, checker(d, p)[1], m.to)

MatesInThree(c, p, ply) ==
  {m \in gen_checks(c, p) : Refuted(c, MakeMove(c, p, m), ply + 1)}
is_mate_in3ply(c, p, ply) == ply < PLY_MAX - 2 /\ MatesInThree(c, p, ply) # {}
=============================================================================
