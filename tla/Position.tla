------------------------------- MODULE Position -------------------------------
(***************************************************************************)
(* The board of the engine: posi_t of shogi.h with every copy of the same  *)
(* facts it keeps (the array of squares, a bitboard for each piece, unions *)
(* of them, the squares pawns attack, three rotated occupancies, the hash  *)
(* key, the material), make_move_b/_w (makemove.c), unmake_move_b/_w       *)
(* (unmake.c) and what is read off the copies: attacks, pins (attack.c),   *)
(* the validity of a remembered move (valid.c).                            *)
(*                                                                         *)
(* A hash key is the set of the random numbers that went into it.          *)
(***************************************************************************)
EXTENDS Bitboards, FiniteSetsExt

(* p_value[15+k] (param.h), in the order of the pieces.                    *)
p_value == <<87, 235, 254, 371, 447, 571, 647, 15000, 530, 482, 500, 489, 0, 832, 955>>
MT_CAP(k) == p_value[k] + p_value[Unpromoted(k)]
MT_PRO(k) == p_value[k + promote] - p_value[k]

Owner(piece) == IF piece > 0 THEN black ELSE white
Signed(c, k) == IF c = black THEN k ELSE -k          \* the entries of BOARD

(* Moves; a drop comes from Drop2From(piece) and has no piece to move.     *)
Drop2From(k) == nsquare - 1 + k
From2Drop(from) == from - nsquare + 1
IsDrop(m) == m.from >= nsquare
Move(from, to, k, promo, cap) ==
  [from |-> from, to |-> to, piece |-> k, promo |-> promo, cap |-> cap]
DropMove(k, to) == Move(Drop2From(k), to, empty, FALSE, empty)

(***************************************************************************)
(* The position of an array of squares and two hands, each copy computed   *)
(* from the array.  Kings are on their square only, not in a bitboard.     *)
(***************************************************************************)
Unions == [tgold |-> Golds, bh |-> {bishop, horse}, rd |-> {rook, dragon},
           hdk |-> {king, horse, dragon}]
OnBoard(board, c, kinds) == {s \in Square : board[s] \in {Signed(c, k) : k \in kinds}}
BoardKinds == Kinds \ {king}

hash_func(p) ==
  {<<c, king, p.sq_king[c]>> : c \in Colour}
    \cup {x \in Colour \X BoardKinds \X Square : x[3] \in p.bb[x[1]][x[2]]}

Count(p, c, k) == Cardinality(p.bb[c][k]) + (IF k \in Hands THEN p.hand[c][k] ELSE 0)
Worth(p, k) == (Count(p, black, k) - Count(p, white, k)) * p_value[k]
eval_material(p) ==
  Worth(p, pawn) + Worth(p, lance) + Worth(p, knight) + Worth(p, silver) + Worth(p, gold)
    + Worth(p, bishop) + Worth(p, rook)
    + Worth(p, pawn + promote) + Worth(p, lance + promote) + Worth(p, knight + promote)
    + Worth(p, silver + promote) + Worth(p, horse) + Worth(p, dragon)

SetUp(board, hand) ==
  LET occupied(c) == OnBoard(board, c, Kinds)
      all == occupied(black) \cup occupied(white)
      p == [board |-> board, hand |-> hand,
            bb |-> [c \in Colour |-> [k \in BoardKinds |-> OnBoard(board, c, {k})]],
            occ |-> [c \in Colour |-> occupied(c)],
            union |-> [c \in Colour |->
                         [u \in DOMAIN Unions |-> OnBoard(board, c, Unions[u])]],
            pawn_atk |-> [c \in Colour |->
                            {s + Ahead(c) : s \in OnBoard(board, c, {pawn})}],
            rl90 |-> all, rr45 |-> all, rl45 |-> all,
            sq_king |-> [c \in Colour |-> CHOOSE s \in Square : board[s] = Signed(c, king)],
            key |-> {}, material |-> 0]
  IN [p EXCEPT !.key = hash_func(p), !.material = eval_material(p)]

(***************************************************************************)
(* What exam_bb (debug.c) demands of the copies, count being the number of *)
(* pieces of each kind in the set the game is played with.                 *)
(***************************************************************************)
PieceCount(p) ==
  [k \in Hands |->
     Cardinality({s \in Square : LET a == IF p.board[s] < 0 THEN -p.board[s] ELSE p.board[s]
                                 IN a # empty /\ Unpromoted(a) = k})
       + p.hand[black][k] + p.hand[white][k]]

NoDeadPiece(c, p) ==
  /\ \A s \in p.bb[c][pawn] : Row(c, s) > 0
  /\ \A s \in p.bb[c][knight] : Row(c, s) > 1

UnionsAgree(c, p) ==
  /\ \A u \in DOMAIN Unions :
       p.union[c][u] = (IF king \in Unions[u] THEN {p.sq_king[c]} ELSE {})
                         \cup UNION {p.bb[c][k] : k \in Unions[u] \ {king}}
  /\ p.pawn_atk[c] = {s + Ahead(c) : s \in p.bb[c][pawn]}
  /\ p.occ[c] = {p.sq_king[c]} \cup UNION {p.bb[c][k] : k \in BoardKinds}

BoardAgrees(p) ==
  /\ \A c \in Colour, k \in BoardKinds : \A s \in p.bb[c][k] : p.board[s] = Signed(c, k)
  /\ \A c \in Colour : p.board[p.sq_king[c]] = Signed(c, king)
  /\ LET npiece == Cardinality({s \in Square : p.board[s] # empty})
     IN \A occ \in {p.rl90, p.rl45, p.rr45} : Cardinality(occ) = npiece

Standing(p, k) ==          \* the pieces on the board that are k, or were
  UNION {p.bb[c][j] : c \in Colour, j \in {i \in BoardKinds : Unpromoted(i) = k}}

exam_bb(p, count) ==
  /\ \A c \in Colour : NoDeadPiece(c, p) /\ UnionsAgree(c, p)
  /\ \A k \in Hands :
       count[k] = p.hand[black][k] + p.hand[white][k] + Cardinality(Standing(p, k))
  /\ BoardAgrees(p)
  /\ p.material = eval_material(p)
  /\ p.key = hash_func(p)

(***************************************************************************)
(* Making and taking back a move.  Both toggle the same squares of the     *)
(* bitboards, the rotated ones included, of mover and captured piece;      *)
(* taking back restores the key and the material from what was saved.      *)
(***************************************************************************)
Comes(m) == IF IsDrop(m) THEN From2Drop(m.from)
            ELSE IF m.promo THEN m.piece + promote ELSE m.piece
Left(m) == IF IsDrop(m) THEN {} ELSE {m.from}

(* The squares of the bitboard for a set of kinds that the mover toggles,  *)
(* and that the captured piece does.                                       *)
ByMover(m, kinds) == (IF m.piece \in kinds THEN Left(m) ELSE {})
                       \cup (IF Comes(m) \in kinds THEN {m.to} ELSE {})
ByCaptured(m, kinds) == IF m.cap \in kinds THEN {m.to} ELSE {}

PawnAttacksByMover(c, m) ==
  (IF Comes(m) = pawn THEN {m.to + Ahead(c)} ELSE {})
    \cup IF m.piece = pawn THEN {m.to} ELSE {}
PawnAttacksByCaptured_AnyPawn(d, m) ==
  IF m.cap # empty /\ Unpromoted(m.cap) = pawn THEN {m.to + Ahead(d)} ELSE {}
PawnAttacksByCaptured(d, m) == IF m.cap = pawn THEN {m.to + Ahead(d)} ELSE {}
RotatedBy(m) == IF m.cap # empty THEN {m.from} ELSE Left(m) \cup {m.to}

ToggleBitboards(c, p, m) ==
  LET d == Flip(c)
      of(e, kinds) == IF e = c THEN ByMover(m, kinds) ELSE ByCaptured(m, kinds)
      atk(e) == IF e = c THEN PawnAttacksByMover(c, m) ELSE PawnAttacksByCaptured(d, m)
  IN [p EXCEPT
        !.bb = [e \in Colour |-> [k \in BoardKinds |-> Toggle(p.bb[e][k], of(e, {k}))]],
        !.union = [e \in Colour |-> [u \in DOMAIN Unions |->
                                       Toggle(p.union[e][u], of(e, Unions[u]))]],
        !.pawn_atk = [e \in Colour |-> Toggle(p.pawn_atk[e], atk(e))],
        !.occ = [e \in Colour |-> Toggle(p.occ[e], of(e, Kinds))],
        !.rl90 = Toggle(@, RotatedBy(m)),
        !.rl45 = Toggle(@, RotatedBy(m)),
        !.rr45 = Toggle(@, RotatedBy(m))]

KeyChange(c, m) ==
  {<<c, m.piece, s>> : s \in Left(m)} \cup {<<c, Comes(m), m.to>>}
    \cup IF m.cap # empty THEN {<<Flip(c), m.cap, m.to>>} ELSE {}
MaterialGain(m) == (IF m.promo THEN MT_PRO(m.piece) ELSE 0)
                     + (IF m.cap # empty THEN MT_CAP(m.cap) ELSE 0)
HandChange(c, m, n, hand) ==
  [hand EXCEPT ![c] = [k \in Hands |->
     IF k = (IF IsDrop(m) THEN From2Drop(m.from) ELSE Unpromoted(m.cap))
     THEN @[k] + (IF IsDrop(m) THEN -n ELSE n) ELSE @[k]]]

BoardAfter(c, p, m) ==
  [s \in Square |-> IF s = m.to THEN Signed(c, Comes(m))
                    ELSE IF s = m.from THEN empty ELSE p.board[s]]
make_move(c, p, m) ==
  [ToggleBitboards(c, p, m) EXCEPT
     !.board = BoardAfter(c, p, m),
     !.hand = HandChange(c, m, 1, @),
     !.sq_king = IF m.piece = king THEN [@ EXCEPT ![c] = m.to] ELSE @,
     !.key = Toggle(@, KeyChange(c, m)),
     !.material = @ + (IF c = black THEN MaterialGain(m) ELSE -MaterialGain(m))]

BoardBefore_Promoted(c, p, m) ==
  [s \in Square |-> IF s = m.to THEN Signed(Flip(c), m.cap)
                    ELSE IF s = m.from THEN Signed(c, Comes(m)) ELSE p.board[s]]
BoardBefore(c, p, m) ==
  [s \in Square |-> IF s = m.to THEN Signed(Flip(c), m.cap)
                    ELSE IF s = m.from THEN Signed(c, m.piece) ELSE p.board[s]]
unmake_move(c, p, m, key, material) ==
  [ToggleBitboards(c, p, m) EXCEPT
     !.board = BoardBefore(c, p, m),
     !.hand = HandChange(c, m, -1, @),
     !.sq_king = IF m.piece = king THEN [@ EXCEPT ![c] = m.from] ELSE @,
     !.key = key,
     !.material = material]

make_move_w(p, m) == make_move(white, p, m)
unmake_move_w(p, m, key, material) == unmake_move(white, p, m, key, material)

(***************************************************************************)
(* Attacks, read off the copies that the macros of shogi.h use: files and  *)
(* diagonals off the rotated occupancies, ranks off the plain ones.        *)
(***************************************************************************)
AttackFile(p, s) == abb_file_attacks(s, p.rl90)
AttackRank(p, s) == ai_rook_attacks_r0(s, p.occ[black] \cup p.occ[white])
AttackDiag1(p, s) == abb_bishop_attacks_rr45(s, p.rr45)
AttackDiag2(p, s) == abb_bishop_attacks_rl45(s, p.rl45)
AttackBishop(p, s) == AttackDiag1(p, s) \cup AttackDiag2(p, s)
AttackRook(p, s) == AttackFile(p, s) \cup AttackRank(p, s)
AttackHorse(p, s) == AttackBishop(p, s) \cup abb_king_attacks[s]
AttackDragon(p, s) == AttackRook(p, s) \cup abb_king_attacks[s]
AttackLance(c, p, s) == RaysAhead(c)[s] \cap AttackFile(p, s)

(* The pieces of c that attack s, pawns left out; a piece of c reaches s   *)
(* from the squares an enemy's piece on s would reach.                     *)
Strikers(c, p, s) ==
  LET d == Flip(c)
  IN (p.bb[c][knight] \cap Knight(d, s))
       \cup (p.bb[c][silver] \cap Silver(d, s))
       \cup (p.union[c].tgold \cap Gold(d, s))
       \cup (p.union[c].hdk \cap abb_king_attacks[s])
       \cup (p.union[c].bh \cap AttackBishop(p, s))
       \cup (p.union[c].rd \cap (AttackRank(p, s) \cup AttackFile(p, s)))
       \cup (p.bb[c][lance] \cap RaysBehind(c)[s] \cap AttackFile(p, s))

(* is_white_attacked and is_black_attacked: a piece of c attacks s.        *)
is_attacked_by(c, p, s) == s \in p.pawn_atk[c] \/ Strikers(c, p, s) # {}
is_black_attacked(p, s) == is_attacked_by(white, p, s)
InCheck(turn, p) == is_attacked_by(Flip(turn), p, p.sq_king[turn])

attacks_to_piece(p, s) ==
  {t \in Square : \E c \in Colour : t = s - Ahead(c) /\ p.board[t] = Signed(c, pawn)}
    \cup Strikers(black, p, s) \cup Strikers(white, p, s)

(* is_pinned_on_white_king (k = white) and is_pinned_on_black_king: on the *)
(* line idirec, the piece on s stands between the king of k and a slider.  *)
Along(p, s, idirec) ==
  CASE idirec = direc_rank -> AttackRank(p, s)
    [] idirec = direc_file -> AttackFile(p, s)
    [] idirec = direc_diag1 -> AttackDiag1(p, s)
    [] OTHER -> AttackDiag2(p, s)
Runners(d, p, s, idirec) ==
  CASE idirec = direc_rank -> p.union[d].rd
    [] idirec = direc_file -> p.union[d].rd \cup (p.bb[d][lance] \cap RaysBehind(d)[s])
    [] OTHER -> p.union[d].bh
BothOn(attacks, k, attacker) == k \in attacks /\ attacks \cap attacker # {}
is_pinned_on(k, p, s, idirec) ==
  BothOn(Along(p, s, idirec), p.sq_king[k], Runners(Flip(k), p, s, idirec))
is_pinned_on_black_king(p, s, idirec) == is_pinned_on(black, p, s, idirec)

(* IsDiscoverWK, IsDiscoverBK: a move that opens a line onto the king of k. *)
IsDiscover_Never(k, p, from, to) == FALSE
IsDiscover(k, p, from, to) ==
  LET idirec == adirec[p.sq_king[k]][from]
  IN /\ idirec # direc_misc
     /\ idirec # adirec[p.sq_king[k]][to]
     /\ is_pinned_on(k, p, from, idirec)

(* The board while the occupancies have one more, or one fewer, piece.     *)
Occupying(c, p, s) ==
  [p EXCEPT !.occ[c] = Toggle(@, {s}), !.rl90 = Toggle(@, {s}),
            !.rl45 = Toggle(@, {s}), !.rr45 = Toggle(@, {s})]

(* is_mate_b_pawn_drop: the pawn that c drops on s in front of the king of *)
(* the other side cannot be taken, and the king has no square to go to.    *)
is_mate_pawn_drop(c, p, s) ==
  LET d == Flip(c)
      takers == (p.bb[d][knight] \cap Knight(c, s))
                  \cup (p.bb[d][silver] \cap Silver(c, s))
                  \cup (p.union[d].tgold \cap Gold(c, s))
                  \cup (p.union[d].bh \cap AttackBishop(p, s))
                  \cup (p.union[d].rd \cap AttackRook(p, s))
                  \cup ((p.bb[d][horse] \cup p.bb[d][dragon]) \cap abb_king_attacks[s])
      dropped == Occupying(c, p, s)
  IN /\ \A t \in takers : IsDiscover(d, p, t, s)
     /\ \A t \in abb_king_attacks[p.sq_king[d]] \ p.occ[d] :
          is_attacked_by(c, dropped, t)
is_mate_w_pawn_drop(p, s) == is_mate_pawn_drop(white, p, s)

IsMatePawnDrop(c, p, to) ==
  /\ p.board[to + Ahead(c)] = Signed(Flip(c), king)
  /\ is_mate_pawn_drop(c, p, to)

(* The file holds a pawn of c (which may not be joined by another).        *)
PawnOnFile(c, p, to) == \E s \in p.pawn_atk[c] : aifile(s) = aifile(to)

(* is_move_valid (valid.c): a move remembered from another position.       *)
Running_Unpromoted == {lance, bishop, rook}
Running == {lance, bishop, horse, rook, dragon}
is_move_valid(c, p, m) ==
  IF ~IsDrop(m)
  THEN /\ m.piece # empty
       /\ p.board[m.from] = Signed(c, m.piece)
       /\ p.board[m.to] = Signed(Flip(c), m.cap)
       /\ m.piece \in Running =>
            (p.occ[black] \cup p.occ[white]) \cap abb_obstacle[m.from][m.to] = {}
  ELSE /\ p.board[m.to] = empty
       /\ p.hand[c][From2Drop(m.from)] > 0
       /\ From2Drop(m.from) = pawn =>
            ~PawnOnFile(c, p, m.to) /\ ~IsMatePawnDrop(c, p, m.to)
=============================================================================
