---------------------------- MODULE RulesProofs ----------------------------
(***************************************************************************)
(* The engine's board and the rules, for every start and every walk of the *)
(* generators' moves.                                                      *)
(*                                                                         *)
(* First the copies of the board: making a move that fits keeps each copy  *)
(* in step with the array of squares, and taking it back restores it; what *)
(* a piece reaches, it attacks, so that while the king of the waiting side *)
(* is not attacked no generated move takes it; every generated move, the   *)
(* answers to a check included, fits; no piece is lost and the material    *)
(* follows; the walk.                                                      *)
(*                                                                         *)
(* Then the rules of ShogiRules.  The engine looks attacks up in tables of *)
(* lines and rotated occupancies; the rules run along rays until something *)
(* is in the way.  That the two agree is proved square by square and piece *)
(* by piece, then for checks, for the moves is_move_valid lets through and *)
(* for the moves the generators make out of check.                         *)
(***************************************************************************)
EXTENDS Moves, SequenceTheorems, FiniteSetTheorems, WellFoundedInduction, TLAPS

Fields == {"board", "hand", "bb", "occ", "union", "pawn_atk", "rl90", "rr45", "rl45",
           "sq_king", "key", "material"}
HasFields(q) == q = [f \in Fields |-> q[f]]
IsPosition(p) ==
  /\ HasFields(p)
  /\ p.board \in [Square -> Pieces]
  /\ p.hand \in [Colour -> [Hands -> Nat]]
  /\ p.bb \in [Colour -> [BoardKinds -> SUBSET Square]]
  /\ p.union \in [Colour -> [DOMAIN Unions -> SUBSET Square]]
  /\ p.occ \in [Colour -> SUBSET Square]
  /\ p.pawn_atk \in [Colour -> SUBSET Int]
  /\ p.rl90 \in SUBSET Square /\ p.rr45 \in SUBSET Square /\ p.rl45 \in SUBSET Square
  /\ p.sq_king \in [Colour -> Square]
  /\ p.key \in SUBSET (Colour \X Kinds \X Square)

Copies(p) ==
  /\ \A c \in Colour : \A k \in BoardKinds : p.bb[c][k] = OnBoard(p.board, c, {k})
  /\ \A c \in Colour : \A u \in DOMAIN Unions : p.union[c][u] = OnBoard(p.board, c, Unions[u])
  /\ \A c \in Colour : p.occ[c] = OnBoard(p.board, c, Kinds)
  /\ \A c \in Colour : p.pawn_atk[c] = {s + Ahead(c) : s \in OnBoard(p.board, c, {pawn})}
  /\ \A c \in Colour : OnBoard(p.board, c, {king}) = {p.sq_king[c]}
  /\ p.rl90 = {s \in Square : p.board[s] # empty}
  /\ p.rr45 = p.rl90
  /\ p.rl45 = p.rl90
  /\ p.key = hash_func(p)

StepFits(c, p, m) ==
  /\ m.from \in Square
  /\ m.piece \in Kinds
  /\ p.board[m.from] = Signed(c, m.piece)
  /\ m.cap \in {empty} \cup BoardKinds
  /\ p.board[m.to] = Signed(Flip(c), m.cap)
  /\ m.promo => m.piece \in Promotable
  /\ m.piece = pawn => m.to = m.from + Ahead(c)
DropFits(c, p, m) ==
  /\ \E k \in Hands : m.from = Drop2From(k) /\ p.hand[c][k] > 0
  /\ m.piece = empty /\ m.cap = empty /\ ~m.promo
  /\ p.board[m.to] = empty
Fits(c, p, m) ==
  /\ m.to \in Square /\ m.promo \in BOOLEAN
  /\ StepFits(c, p, m) \/ DropFits(c, p, m)

(* A signed piece tells its side and its kind.                             *)
LEMMA SignedIsOne ==
  ASSUME NEW c \in Colour, NEW e \in Colour, NEW k \in Kinds, NEW j \in Kinds
  PROVE  /\ Signed(c, k) # empty
         /\ Signed(c, k) = Signed(e, j) <=> c = e /\ k = j
  BY DEF Colour, black, white, Kinds, Signed, empty

(* The empty square has no sign.                                           *)
LEMMA SignedZero == ASSUME NEW e, NEW k \in Int, k + k = k PROVE Signed(e, k) = k
<1>1. -k = k
  OBVIOUS
<1> QED BY <1>1, Zenon DEF Signed

(* The empty square has no sign.                                           *)
LEMMA SignedEmpty == ASSUME NEW e PROVE Signed(e, empty) = empty
<1>1. empty \in Int /\ empty + empty = empty
  BY DEF empty
<1> QED BY <1>1, SignedZero

(* Toggling the same squares again undoes it.                              *)
LEMMA ToggledTwice == ASSUME NEW S, NEW T PROVE Toggle(Toggle(S, T), T) = S
  BY DEF Toggle

(* What the mover's (e = c) and the other side's bitboards toggle.         *)
Toggled(c, e, m, kinds) == IF e = c THEN ByMover(m, kinds) ELSE ByCaptured(m, kinds)
ToggledAttacks(c, e, m) ==
  IF e = c THEN PawnAttacksByMover(c, m) ELSE PawnAttacksByCaptured(Flip(c), m)

(* A position has the fields of posi_t.                                    *)
LEMMA PositionHasFields ==
  ASSUME NEW p, IsPosition(p) PROVE HasFields(p)
  BY DEF IsPosition

(* The fields that both make_move and unmake_move toggle.                  *)
TogglesTo(c, p, m, q) ==
  /\ q.bb = [e \in Colour |-> [k \in BoardKinds |-> Toggle(p.bb[e][k], Toggled(c, e, m, {k}))]]
  /\ q.union = [e \in Colour |-> [u \in DOMAIN Unions |->
                                   Toggle(p.union[e][u], Toggled(c, e, m, Unions[u]))]]
  /\ q.pawn_atk = [e \in Colour |-> Toggle(p.pawn_atk[e], ToggledAttacks(c, e, m))]
  /\ q.occ = [e \in Colour |-> Toggle(p.occ[e], Toggled(c, e, m, Kinds))]
  /\ q.rl90 = Toggle(p.rl90, RotatedBy(m))
  /\ q.rl45 = Toggle(p.rl45, RotatedBy(m))
  /\ q.rr45 = Toggle(p.rr45, RotatedBy(m))

(* What make_move makes of each field, and unmake_move.                    *)
MadeOf(c, p, m, q) ==
  /\ TogglesTo(c, p, m, q)
  /\ q.board = BoardAfter(c, p, m)
  /\ q.hand = HandChange(c, m, 1, p.hand)
  /\ q.sq_king = IF m.piece = king THEN [p.sq_king EXCEPT ![c] = m.to] ELSE p.sq_king
  /\ q.key = Toggle(p.key, KeyChange(c, m))
  /\ q.material = p.material + (IF c = black THEN MaterialGain(m) ELSE -MaterialGain(m))
UnmadeOf(c, p, m, key, material, q) ==
  /\ TogglesTo(c, p, m, q)
  /\ q.board = BoardBefore(c, p, m)
  /\ q.hand = HandChange(c, m, -1, p.hand)
  /\ q.sq_king = IF m.piece = king THEN [p.sq_king EXCEPT ![c] = m.from] ELSE p.sq_king
  /\ q.key = key
  /\ q.material = material

(* What ToggleBitboards does to each field.                                *)
LEMMA ToggledFields ==
  ASSUME NEW c, NEW p, NEW m, HasFields(p), NEW q, q = ToggleBitboards(c, p, m)
  PROVE  /\ HasFields(q)
         /\ TogglesTo(c, p, m, q)
         /\ q.sq_king = p.sq_king /\ q.key = p.key /\ q.material = p.material
         /\ q.board = p.board /\ q.hand = p.hand
<1> USE DEF ToggleBitboards, Fields, HasFields
<1>1. q.bb = [e \in Colour |-> [k \in BoardKinds |-> Toggle(p.bb[e][k], Toggled(c, e, m, {k}))]]
  BY DEF Toggled
<1>2. q.union = [e \in Colour |-> [u \in DOMAIN Unions |-> Toggle(p.union[e][u], Toggled(c, e, m, Unions[u]))]]
  BY DEF Toggled
<1>3. q.pawn_atk = [e \in Colour |-> Toggle(p.pawn_atk[e], ToggledAttacks(c, e, m))]
  BY DEF ToggledAttacks
<1>4. q.occ = [e \in Colour |-> Toggle(p.occ[e], Toggled(c, e, m, Kinds))]
  BY DEF Toggled
<1>5. HasFields(q)
  OBVIOUS
<1>6. q.rl90 = Toggle(p.rl90, RotatedBy(m)) /\ q.rl45 = Toggle(p.rl45, RotatedBy(m)) /\ q.rr45 = Toggle(p.rr45, RotatedBy(m))
  OBVIOUS
<1>7. q.sq_king = p.sq_king /\ q.key = p.key /\ q.material = p.material /\ q.board = p.board /\ q.hand = p.hand
  OBVIOUS
<1>8. TogglesTo(c, p, m, q)
  BY <1>1, <1>2, <1>3, <1>4, <1>6, Zenon DEF TogglesTo
<1> HIDE DEF ToggleBitboards, Fields, HasFields
<1> QED BY <1>5, <1>7, <1>8

(* What make_move does to each field.                                      *)
LEMMA MadeFields ==
  ASSUME NEW c, NEW p, NEW m, HasFields(p)
  PROVE  LET q == make_move(c, p, m)
         IN HasFields(q) /\ MadeOf(c, p, m, q)
<1>1. PICK r : r = ToggleBitboards(c, p, m)
  OBVIOUS
<1>2. /\ HasFields(r)
      /\ TogglesTo(c, p, m, r)
      /\ r.sq_king = p.sq_king /\ r.key = p.key /\ r.material = p.material
      /\ r.board = p.board /\ r.hand = p.hand
  BY <1>1, ToggledFields
<1>3. PICK q : q = make_move(c, p, m)
  OBVIOUS
<1>4. q = [r EXCEPT !.board = BoardAfter(c, p, m),
                     !.hand = HandChange(c, m, 1, @),
                     !.sq_king = IF m.piece = king THEN [@ EXCEPT ![c] = m.to] ELSE @,
                     !.key = Toggle(@, KeyChange(c, m)),
                     !.material = @ + (IF c = black THEN MaterialGain(m) ELSE -MaterialGain(m))]
  BY <1>1, <1>3 DEF make_move
<1>5. HasFields(q)
  BY <1>2, <1>4 DEF HasFields, Fields
<1>6. /\ q.bb = r.bb /\ q.union = r.union /\ q.pawn_atk = r.pawn_atk /\ q.occ = r.occ
      /\ q.rl90 = r.rl90 /\ q.rl45 = r.rl45 /\ q.rr45 = r.rr45
  BY <1>2, <1>4 DEF HasFields, Fields
<1>7. /\ q.board = BoardAfter(c, p, m)
      /\ q.hand = HandChange(c, m, 1, r.hand)
      /\ q.sq_king = (IF m.piece = king THEN [r.sq_king EXCEPT ![c] = m.to] ELSE r.sq_king)
      /\ q.key = Toggle(r.key, KeyChange(c, m))
      /\ q.material = r.material + (IF c = black THEN MaterialGain(m) ELSE -MaterialGain(m))
  BY <1>2, <1>4 DEF HasFields, Fields
<1>8. TogglesTo(c, p, m, q)
  BY <1>2, <1>6, Zenon DEF TogglesTo
<1>9. MadeOf(c, p, m, q)
  BY <1>2, <1>7, <1>8, Zenon DEF MadeOf
<1> QED BY <1>3, <1>5, <1>9

(* What unmake_move does to each field.                                    *)
LEMMA UnmadeFields ==
  ASSUME NEW c, NEW p, NEW m, NEW key, NEW material, HasFields(p)
  PROVE  LET q == unmake_move(c, p, m, key, material)
         IN HasFields(q) /\ UnmadeOf(c, p, m, key, material, q)
<1>1. PICK r : r = ToggleBitboards(c, p, m)
  OBVIOUS
<1>2. /\ HasFields(r)
      /\ TogglesTo(c, p, m, r)
      /\ r.sq_king = p.sq_king /\ r.key = p.key /\ r.material = p.material
      /\ r.board = p.board /\ r.hand = p.hand
  BY <1>1, ToggledFields
<1>3. PICK q : q = unmake_move(c, p, m, key, material)
  OBVIOUS
<1>4. q = [r EXCEPT !.board = BoardBefore(c, p, m),
                     !.hand = HandChange(c, m, -1, @),
                     !.sq_king = IF m.piece = king THEN [@ EXCEPT ![c] = m.from] ELSE @,
                     !.key = key,
                     !.material = material]
  BY <1>1, <1>3 DEF unmake_move
<1>5. HasFields(q)
  BY <1>2, <1>4 DEF HasFields, Fields
<1>6. /\ q.bb = r.bb /\ q.union = r.union /\ q.pawn_atk = r.pawn_atk /\ q.occ = r.occ
      /\ q.rl90 = r.rl90 /\ q.rl45 = r.rl45 /\ q.rr45 = r.rr45
  BY <1>2, <1>4 DEF HasFields, Fields
<1>7. /\ q.board = BoardBefore(c, p, m)
      /\ q.hand = HandChange(c, m, -1, r.hand)
      /\ q.sq_king = (IF m.piece = king THEN [r.sq_king EXCEPT ![c] = m.from] ELSE r.sq_king)
      /\ q.key = key
      /\ q.material = material
  BY <1>2, <1>4 DEF HasFields, Fields
<1>8. TogglesTo(c, p, m, q)
  BY <1>2, <1>6, Zenon DEF TogglesTo
<1>9. UnmadeOf(c, p, m, key, material, q)
  BY <1>2, <1>7, <1>8, Zenon DEF UnmadeOf
<1> QED BY <1>3, <1>5, <1>9

(* Positions with the same fields are the same.                            *)
LEMMA SamePosition ==
  ASSUME NEW p, IsPosition(p), NEW q, HasFields(q),
         q.board = p.board, q.hand = p.hand, q.bb = p.bb, q.occ = p.occ, q.union = p.union, q.pawn_atk = p.pawn_atk,
         q.rl90 = p.rl90, q.rr45 = p.rr45, q.rl45 = p.rl45, q.sq_king = p.sq_king, q.key = p.key, q.material = p.material
  PROVE  q = p
<1>1. HasFields(p) BY PositionHasFields
<1>2. \A f \in Fields : q[f] = p[f]
  BY DEF Fields
<1> QED BY <1>1, <1>2 DEF HasFields

(* Taking back puts mover and captured piece on their squares again.       *)
LEMMA BoardTakenBack ==
  ASSUME NEW c \in Colour, NEW p, IsPosition(p), NEW m, Fits(c, p, m),
         NEW q, q.board = BoardAfter(c, p, m)
  PROVE  BoardBefore(c, q, m) = p.board
<1>1. m.to \in Square /\ p.board \in [Square -> Pieces]
  BY DEF Fits, IsPosition
<1>2. CASE StepFits(c, p, m)
  <2>1. m.from \in Square /\ p.board[m.from] = Signed(c, m.piece) /\ p.board[m.to] = Signed(Flip(c), m.cap)
    BY <1>2 DEF StepFits
  <2> QED BY <1>1, <2>1 DEF BoardBefore, BoardAfter
<1>3. CASE DropFits(c, p, m)
  <2>1. m.from \notin Square /\ p.board[m.to] = empty /\ m.cap = empty
    BY <1>3 DEF DropFits, Square, Drop2From, nsquare, Hands, pawn, rook
  <2>2. Signed(Flip(c), m.cap) = empty
    BY <2>1, SignedEmpty
  <2> QED BY <1>1, <2>1, <2>2 DEF BoardBefore, BoardAfter
<1> QED BY <1>2, <1>3 DEF Fits

(* Taking back undoes the change of the hand.                              *)
LEMMA HandTakenBack ==
  ASSUME NEW c \in Colour, NEW held \in [Colour -> [Hands -> Nat]], NEW m
  PROVE  HandChange(c, m, -1, HandChange(c, m, 1, held)) = held
<1> DEFINE k0 == IF IsDrop(m) THEN From2Drop(m.from) ELSE Unpromoted(m.cap)
           d == IF IsDrop(m) THEN -1 ELSE 1
           one == HandChange(c, m, 1, held)
           two == HandChange(c, m, -1, one)
<1>1. one = [held EXCEPT ![c] = [k \in Hands |-> IF k = k0 THEN held[c][k] + d ELSE held[c][k]]]
  BY DEF HandChange
<1>2. two = [one EXCEPT ![c] = [k \in Hands |-> IF k = k0 THEN one[c][k] - d ELSE one[c][k]]]
  BY DEF HandChange
<1>3. d \in Int
  OBVIOUS
<1> HIDE DEF k0, d, one, two
<1>4. \A k \in Hands : two[c][k] = held[c][k]
  BY <1>1, <1>2, <1>3
<1>5. two[c] = held[c]
  BY <1>1, <1>2, <1>4
<1>6. \A e \in Colour : two[e] = held[e]
  BY <1>1, <1>2, <1>5
<1>7. two = [e \in Colour |-> two[e]]
  BY <1>1, <1>2
<1>8. two = held
  BY <1>6, <1>7
<1> QED BY <1>8 DEF two, one

(* Taking back a move that was just made restores the position, whatever   *)
(* was captured, promoted or dropped.                                      *)
LEMMA TakingBackRestores ==
  ASSUME NEW c \in Colour, NEW p, IsPosition(p), NEW m, Fits(c, p, m), Copies(p)
  PROVE  unmake_move(c, make_move(c, p, m), m, p.key, p.material) = p
<1>1. PICK q : q = make_move(c, p, m)
  OBVIOUS
<1>2. HasFields(q) /\ MadeOf(c, p, m, q)
  BY <1>1, PositionHasFields, MadeFields
<1>3. PICK r : r = unmake_move(c, q, m, p.key, p.material)
  OBVIOUS
<1>4. HasFields(r) /\ UnmadeOf(c, q, m, p.key, p.material, r)
  BY <1>2, <1>3, UnmadeFields
<1>5. TogglesTo(c, p, m, q) /\ TogglesTo(c, q, m, r)
  BY <1>2, <1>4 DEF MadeOf, UnmadeOf
<1>6. r.bb = p.bb
  <2>1. \A e \in Colour : \A k \in BoardKinds : r.bb[e][k] = p.bb[e][k]
    BY <1>5, ToggledTwice DEF TogglesTo
  <2>2. p.bb \in [Colour -> [BoardKinds -> SUBSET Square]]
    BY DEF IsPosition
  <2>3. r.bb = [e \in Colour |-> [k \in BoardKinds |-> r.bb[e][k]]]
    BY <1>5 DEF TogglesTo
  <2> QED BY <2>1, <2>2, <2>3
<1>7. r.union = p.union
  <2>1. \A e \in Colour : \A u \in DOMAIN Unions : r.union[e][u] = p.union[e][u]
    BY <1>5, ToggledTwice DEF TogglesTo
  <2>2. p.union \in [Colour -> [DOMAIN Unions -> SUBSET Square]]
    BY DEF IsPosition
  <2>3. r.union = [e \in Colour |-> [u \in DOMAIN Unions |-> r.union[e][u]]]
    BY <1>5 DEF TogglesTo
  <2> QED BY <2>1, <2>2, <2>3
<1>8. r.pawn_atk = p.pawn_atk /\ r.occ = p.occ
  <2>1. \A e \in Colour : r.pawn_atk[e] = p.pawn_atk[e] /\ r.occ[e] = p.occ[e]
    BY <1>5, ToggledTwice DEF TogglesTo
  <2>2. p.pawn_atk \in [Colour -> SUBSET Int] /\ p.occ \in [Colour -> SUBSET Square]
    BY DEF IsPosition
  <2>3. r.pawn_atk = [e \in Colour |-> r.pawn_atk[e]] /\ r.occ = [e \in Colour |-> r.occ[e]]
    BY <1>5 DEF TogglesTo
  <2> QED BY <2>1, <2>2, <2>3
<1>9. r.rl90 = p.rl90 /\ r.rr45 = p.rr45 /\ r.rl45 = p.rl45
  BY <1>5, ToggledTwice DEF TogglesTo
<1>10. r.board = p.board
  <2>1. q.board = BoardAfter(c, p, m) /\ r.board = BoardBefore(c, q, m)
    BY <1>2, <1>4 DEF MadeOf, UnmadeOf
  <2> QED BY <2>1, BoardTakenBack
<1>11. r.hand = p.hand
  <2>1. q.hand = HandChange(c, m, 1, p.hand) /\ r.hand = HandChange(c, m, -1, q.hand)
    BY <1>2, <1>4 DEF MadeOf, UnmadeOf
  <2>2. p.hand \in [Colour -> [Hands -> Nat]]
    BY DEF IsPosition
  <2> QED BY <2>1, <2>2, HandTakenBack
<1>12. r.sq_king = p.sq_king
  <2>1. p.sq_king \in [Colour -> Square]
    BY DEF IsPosition
  <2>2. q.sq_king = (IF m.piece = king THEN [p.sq_king EXCEPT ![c] = m.to] ELSE p.sq_king)
        /\ r.sq_king = (IF m.piece = king THEN [q.sq_king EXCEPT ![c] = m.from] ELSE q.sq_king)
    BY <1>2, <1>4 DEF MadeOf, UnmadeOf
  <2>3. CASE m.piece = king
    <3>1. m.from \in Square /\ p.board[m.from] = Signed(c, king)
      BY <2>3 DEF Fits, StepFits, DropFits, king, empty
    <3>2. m.from \in OnBoard(p.board, c, {king})
      BY <3>1 DEF OnBoard
    <3>3. p.sq_king[c] = m.from
      BY <3>2 DEF Copies
    <3> QED BY <2>1, <2>2, <2>3, <3>3
  <2> QED BY <2>2, <2>3
<1>13. r.key = p.key /\ r.material = p.material
  BY <1>4 DEF UnmadeOf
<1>14. r = p
  BY <1>4, <1>6, <1>7, <1>8, <1>9, <1>10, <1>11, <1>12, <1>13, SamePosition
<1> QED BY <1>1, <1>3, <1>14

(* The kinds of pieces, and what promotes.                                 *)
LEMMA KindsAreNumbers == Kinds \subseteq Int /\ BoardKinds \subseteq Kinds /\ Hands \subseteq BoardKinds
                          /\ empty \notin Kinds /\ king \in Kinds /\ king \notin BoardKinds
                          /\ pawn \in BoardKinds
                          /\ \A k \in Promotable : k \in BoardKinds /\ k + promote \in BoardKinds /\ k + promote # pawn
  BY DEF Kinds, BoardKinds, Hands, empty, king, Promotable, promote, pawn, lance, knight,
         silver, bishop, rook

(* The other side.                                                         *)
LEMMA Flips == ASSUME NEW c \in Colour PROVE Flip(c) \in Colour /\ Flip(c) # c /\ Flip(Flip(c)) = c
  BY DEF Flip, Colour, black, white

(* There are two sides.                                                    *)
LEMMA TwoColours == ASSUME NEW c \in Colour, NEW e \in Colour, e # c PROVE e = Flip(c)
  BY DEF Flip, Colour, black, white

(* What a fitting move does to the squares, steps and drops alike.         *)
MoveFacts(c, p, m) ==
  /\ m.to \in Square /\ Left(m) \subseteq Square /\ m.to \notin Left(m)
  /\ Comes(m) \in Kinds
  /\ \A s \in Left(m) : s = m.from /\ m.piece \in Kinds /\ p.board[s] = Signed(c, m.piece)
  /\ m.piece \in Kinds => Left(m) = {m.from}
  /\ m.cap \in {empty} \cup BoardKinds
  /\ p.board[m.to] = Signed(Flip(c), m.cap)
  /\ m.cap # empty => Left(m) = {m.from}
  /\ m.piece = pawn => m.to = m.from + Ahead(c)
  /\ Comes(m) = king <=> m.piece = king
  /\ \A s \in Square : BoardAfter(c, p, m)[s] = IF s = m.to THEN Signed(c, Comes(m))
                                               ELSE IF s \in Left(m) THEN empty ELSE p.board[s]

(* A step and a drop that fit, in the same terms.                          *)
LEMMA FittingMoves ==
  ASSUME NEW c \in Colour, NEW p, IsPosition(p), NEW m, Fits(c, p, m)
  PROVE  MoveFacts(c, p, m)
<1>1. m.to \in Square /\ m.promo \in BOOLEAN
  BY DEF Fits
<1>2. CASE StepFits(c, p, m)
  <2>1. m.from \in Square /\ ~IsDrop(m) /\ Left(m) = {m.from} /\ Comes(m) = IF m.promo THEN m.piece + promote ELSE m.piece
    BY <1>2 DEF StepFits, IsDrop, Left, Comes, Square, nsquare
  <2>2. m.piece \in Kinds /\ p.board[m.from] = Signed(c, m.piece) /\ m.cap \in {empty} \cup BoardKinds
        /\ p.board[m.to] = Signed(Flip(c), m.cap) /\ (m.promo => m.piece \in Promotable)
    BY <1>2 DEF StepFits
  <2>3. Comes(m) \in Kinds
    BY <1>1, <2>1, <2>2, KindsAreNumbers
  <2>4. m.from # m.to
    <3>1. CASE m.cap = empty
      <4>1. Signed(c, m.piece) # empty
        BY <2>2, SignedIsOne
      <4> QED BY <2>2, <3>1, <4>1, SignedEmpty
    <3>2. CASE m.cap \in BoardKinds
      <4>1. Signed(c, m.piece) # Signed(Flip(c), m.cap)
        <5>1. m.cap \in Kinds /\ Flip(c) \in Colour /\ Flip(c) # c
          BY <3>2, Flips, KindsAreNumbers
        <5> QED BY <2>2, <5>1, SignedIsOne
      <4> QED BY <2>2, <4>1
    <3> QED BY <2>2, <3>1, <3>2
  <2>5. \A s \in Square : BoardAfter(c, p, m)[s] = IF s = m.to THEN Signed(c, Comes(m))
                                               ELSE IF s \in Left(m) THEN empty ELSE p.board[s]
    BY <2>1 DEF BoardAfter
  <2>6. Comes(m) = king <=> m.piece = king
    BY <1>1, <2>1, <2>2, KindsAreNumbers
  <2>7. m.piece = pawn => m.to = m.from + Ahead(c)
    BY <1>2 DEF StepFits
  <2> QED BY <1>1, <2>1, <2>2, <2>3, <2>4, <2>5, <2>6, <2>7 DEF MoveFacts
<1>3. CASE DropFits(c, p, m)
  <2>1. PICK k \in Hands : m.from = Drop2From(k)
    BY <1>3 DEF DropFits
  <2>2. m.piece = empty /\ m.cap = empty /\ p.board[m.to] = empty
    BY <1>3 DEF DropFits
  <2>3. m.from \notin Square /\ IsDrop(m) /\ From2Drop(m.from) = k
    BY <2>1 DEF Drop2From, From2Drop, IsDrop, Square, nsquare, Hands, pawn, rook
  <2>4. Left(m) = {} /\ Comes(m) = k
    BY <2>3 DEF Left, Comes
  <2>5. \A s \in Square : BoardAfter(c, p, m)[s] = IF s = m.to THEN Signed(c, Comes(m))
                                               ELSE IF s \in Left(m) THEN empty ELSE p.board[s]
    BY <2>3, <2>4 DEF BoardAfter
  <2>6. p.board[m.to] = Signed(Flip(c), m.cap)
    BY <2>2, SignedEmpty
  <2>7. k \in Kinds /\ m.piece \notin Kinds
    BY <2>1, <2>2, KindsAreNumbers
  <2>8. Comes(m) # king /\ m.piece # king /\ m.piece # pawn
    BY <2>1, <2>2, <2>4, KindsAreNumbers
  <2> QED BY <1>1, <2>2, <2>4, <2>5, <2>6, <2>7, <2>8 DEF MoveFacts
<1> QED BY <1>2, <1>3 DEF Fits

(* A signed piece among those of some kinds of one side.                   *)
LEMMA SignedAmong ==
  ASSUME NEW c \in Colour, NEW e \in Colour, NEW j \in Kinds, NEW K \in SUBSET Kinds
  PROVE  /\ Signed(c, j) \in {Signed(e, k) : k \in K} <=> e = c /\ j \in K
         /\ empty \notin {Signed(e, k) : k \in K}
<1>1. Signed(c, j) \in {Signed(e, k) : k \in K} => e = c /\ j \in K
  <2> SUFFICES ASSUME NEW k \in K, Signed(c, j) = Signed(e, k) PROVE e = c /\ j = k
    OBVIOUS
  <2> QED BY SignedIsOne
<1>2. empty \notin {Signed(e, k) : k \in K}
  BY SignedIsOne
<1> QED BY <1>1, <1>2

(* A bitboard, and a union of them, is toggled to what the squares say.    *)
LEMMA ToggledFollows ==
  ASSUME NEW c \in Colour, NEW p, IsPosition(p), NEW m, MoveFacts(c, p, m),
         NEW e \in Colour, NEW K \in SUBSET Kinds
  PROVE  OnBoard(BoardAfter(c, p, m), e, K) = Toggle(OnBoard(p.board, e, K), Toggled(c, e, m, K))
<1> DEFINE after == BoardAfter(c, p, m)
<1>1. \A s \in Square : s \in OnBoard(after, e, K) <=> after[s] \in {Signed(e, k) : k \in K}
  BY DEF OnBoard
<1>2. \A s \in Square : s \in OnBoard(p.board, e, K) <=> p.board[s] \in {Signed(e, k) : k \in K}
  BY DEF OnBoard
<1>3. Toggled(c, e, m, K) \subseteq Square
  BY DEF Toggled, ByMover, ByCaptured, MoveFacts
<1> HIDE DEF after
<1>4. ASSUME NEW s \in Square
      PROVE  s \in OnBoard(after, e, K) <=> ~(s \in OnBoard(p.board, e, K) <=> s \in Toggled(c, e, m, K))
  <2>1. CASE s = m.to
    <3>1. after[s] = Signed(c, Comes(m)) /\ Comes(m) \in Kinds
      BY <2>1 DEF MoveFacts, after
    <3>2. s \in OnBoard(after, e, K) <=> e = c /\ Comes(m) \in K
      BY <1>1, <3>1, SignedAmong
    <3>3. m.to \notin Left(m) /\ m.cap \in {empty} \cup BoardKinds
      BY DEF MoveFacts
    <3>4. s \in OnBoard(p.board, e, K) <=> e = Flip(c) /\ m.cap \in K
      <4>1. CASE m.cap = empty
        <5>1. p.board[s] = empty
          BY <2>1, <4>1, SignedEmpty DEF MoveFacts
        <5>2. m.cap \notin K
          BY <4>1, KindsAreNumbers
        <5> QED BY <1>2, <5>1, <5>2, SignedAmong
      <4>2. CASE m.cap \in BoardKinds
        <5>1. p.board[s] = Signed(Flip(c), m.cap)
          BY <2>1 DEF MoveFacts
        <5>2. m.cap \in Kinds /\ Flip(c) \in Colour
          BY <4>2, KindsAreNumbers, Flips
        <5>3. p.board[s] \in {Signed(e, k) : k \in K} <=> e = Flip(c) /\ m.cap \in K
          BY <5>1, <5>2, SignedAmong
        <5> QED BY <1>2, <5>3
      <4> QED BY <3>3, <4>1, <4>2
    <3>5. s \in Toggled(c, e, m, K) <=> IF e = c THEN Comes(m) \in K ELSE m.cap \in K
      BY <2>1, <3>3 DEF Toggled, ByMover, ByCaptured
    <3>6. e # c => e = Flip(c)
      BY TwoColours
    <3>7. Flip(c) # c
      BY Flips
    <3> QED BY <3>2, <3>4, <3>5, <3>6, <3>7
  <2>2. CASE s # m.to /\ s \in Left(m)
    <3>1. after[s] = empty /\ p.board[s] = Signed(c, m.piece) /\ m.piece \in Kinds
      BY <2>2 DEF MoveFacts, after
    <3>2. s \notin OnBoard(after, e, K)
      BY <1>1, <3>1, SignedAmong
    <3>3. s \in OnBoard(p.board, e, K) <=> e = c /\ m.piece \in K
      BY <1>2, <3>1, SignedAmong
    <3>4. s \in Toggled(c, e, m, K) <=> e = c /\ m.piece \in K
      BY <2>2 DEF Toggled, ByMover, ByCaptured
    <3> QED BY <3>2, <3>3, <3>4
  <2>3. CASE s # m.to /\ s \notin Left(m)
    <3>1. after[s] = p.board[s]
      BY <2>3 DEF MoveFacts, after
    <3>2. s \notin Toggled(c, e, m, K)
      BY <2>3 DEF Toggled, ByMover, ByCaptured
    <3> QED BY <1>1, <1>2, <3>1, <3>2
  <2> QED BY <2>1, <2>2, <2>3
<1>5. OnBoard(after, e, K) \subseteq Square /\ OnBoard(p.board, e, K) \subseteq Square
  BY DEF OnBoard
<1>6. OnBoard(after, e, K) = Toggle(OnBoard(p.board, e, K), Toggled(c, e, m, K))
  BY <1>3, <1>4, <1>5 DEF Toggle
<1> QED BY <1>6 DEF after

(* The rotated occupancies toggle the squares that a move fills or         *)
(* empties.                                                                *)
LEMMA OccupancyFollows ==
  ASSUME NEW c \in Colour, NEW p, IsPosition(p), NEW m, MoveFacts(c, p, m)
  PROVE  {s \in Square : BoardAfter(c, p, m)[s] # empty}
           = Toggle({s \in Square : p.board[s] # empty}, RotatedBy(m))
<1>1. RotatedBy(m) \subseteq Square
  BY DEF RotatedBy, MoveFacts
<1>2. ASSUME NEW s \in Square
      PROVE  BoardAfter(c, p, m)[s] # empty <=> ~(p.board[s] # empty <=> s \in RotatedBy(m))
  <2>1. CASE s = m.to
    <3>1. BoardAfter(c, p, m)[s] # empty
      BY <2>1, SignedIsOne DEF MoveFacts
    <3>2. CASE m.cap = empty
      <4>1. p.board[s] = empty
        BY <2>1, <3>2, SignedEmpty DEF MoveFacts
      <4> QED BY <2>1, <3>1, <3>2, <4>1 DEF RotatedBy
    <3>3. CASE m.cap # empty
      <4>1. m.cap \in Kinds /\ Flip(c) \in Colour
        BY <3>3, KindsAreNumbers, Flips DEF MoveFacts
      <4>2. p.board[s] # empty
        BY <2>1, <4>1, SignedIsOne DEF MoveFacts
      <4>3. s \notin RotatedBy(m)
        BY <2>1, <3>3 DEF RotatedBy, MoveFacts
      <4> QED BY <3>1, <4>2, <4>3
    <3> QED BY <3>2, <3>3
  <2>2. CASE s # m.to /\ s \in Left(m)
    <3>1. BoardAfter(c, p, m)[s] = empty /\ p.board[s] = Signed(c, m.piece) /\ m.piece \in Kinds /\ s = m.from
      BY <2>2 DEF MoveFacts
    <3>2. p.board[s] # empty
      BY <3>1, SignedIsOne
    <3>3. s \in RotatedBy(m)
      BY <2>2, <3>1 DEF RotatedBy
    <3> QED BY <3>1, <3>2, <3>3
  <2>3. CASE s # m.to /\ s \notin Left(m)
    <3>1. BoardAfter(c, p, m)[s] = p.board[s]
      BY <2>3 DEF MoveFacts
    <3>2. s \notin RotatedBy(m)
      BY <2>3 DEF RotatedBy, MoveFacts
    <3> QED BY <3>1, <3>2
  <2> QED BY <2>1, <2>2, <2>3
<1> QED BY <1>1, <1>2 DEF Toggle

(* A step forward is a difference of squares.                              *)
LEMMA AheadIsOneRank == ASSUME NEW c PROVE Ahead(c) \in Int
  BY DEF Ahead

(* Shifting two boards and toggling is toggling and shifting.              *)
LEMMA ShiftedToggle ==
  ASSUME NEW S \in SUBSET Int, NEW T \in SUBSET Int, NEW a \in Int
  PROVE  {s + a : s \in Toggle(S, T)} = Toggle({s + a : s \in S}, {s + a : s \in T})
<1>1. \A x, y \in Int : x + a = y + a => x = y
  OBVIOUS
<1> QED BY <1>1 DEF Toggle

(* The squares that pawns attack toggle with the squares of the pawns.     *)
LEMMA PawnAttacksFollow ==
  ASSUME NEW c \in Colour, NEW p, IsPosition(p), NEW m, MoveFacts(c, p, m), NEW e \in Colour
  PROVE  {s + Ahead(e) : s \in OnBoard(BoardAfter(c, p, m), e, {pawn})}
           = Toggle({s + Ahead(e) : s \in OnBoard(p.board, e, {pawn})}, ToggledAttacks(c, e, m))
<1> DEFINE S == OnBoard(p.board, e, {pawn})
           T == Toggled(c, e, m, {pawn})
<1>1. OnBoard(BoardAfter(c, p, m), e, {pawn}) = Toggle(S, T)
  BY ToggledFollows, KindsAreNumbers
<1>2. S \in SUBSET Int /\ T \in SUBSET Int
  BY DEF OnBoard, Toggled, ByMover, ByCaptured, MoveFacts, Square
<1>3. {s + Ahead(e) : s \in T} = ToggledAttacks(c, e, m)
  <2>1. CASE e = c
    <3>1. T = (IF m.piece = pawn THEN {m.from} ELSE {}) \cup (IF Comes(m) = pawn THEN {m.to} ELSE {})
      BY <2>1, KindsAreNumbers DEF Toggled, ByMover, MoveFacts
    <3>2. m.piece = pawn => m.from + Ahead(e) = m.to
      BY <2>1 DEF MoveFacts
    <3> HIDE DEF T
    <3> QED BY <2>1, <3>1, <3>2 DEF ToggledAttacks, PawnAttacksByMover
  <2>2. CASE e # c
    <3>1. e = Flip(c)
      BY <2>2, TwoColours
    <3>2. T = IF m.cap = pawn THEN {m.to} ELSE {}
      BY <2>2 DEF Toggled, ByCaptured
    <3> HIDE DEF T
    <3> QED BY <2>2, <3>1, <3>2 DEF ToggledAttacks, PawnAttacksByCaptured
  <2> QED BY <2>1, <2>2
<1> HIDE DEF S, T
<1>4. {s + Ahead(e) : s \in Toggle(S, T)} = Toggle({s + Ahead(e) : s \in S}, {s + Ahead(e) : s \in T})
  BY <1>2, AheadIsOneRank, ShiftedToggle
<1>5. {s + Ahead(e) : s \in OnBoard(BoardAfter(c, p, m), e, {pawn})} = Toggle({s + Ahead(e) : s \in S}, ToggledAttacks(c, e, m))
  BY <1>1, <1>3, <1>4
<1> QED BY <1>5 DEF S

(* A king stays or goes where its move goes: no move takes it.             *)
LEMMA KingsFollow ==
  ASSUME NEW c \in Colour, NEW p, IsPosition(p), NEW m, MoveFacts(c, p, m), Copies(p), NEW e \in Colour
  PROVE  OnBoard(BoardAfter(c, p, m), e, {king})
           = {IF m.piece = king /\ e = c THEN m.to ELSE p.sq_king[e]}
<1>1. OnBoard(BoardAfter(c, p, m), e, {king}) = Toggle(OnBoard(p.board, e, {king}), Toggled(c, e, m, {king}))
  BY ToggledFollows, KindsAreNumbers
<1>2. OnBoard(p.board, e, {king}) = {p.sq_king[e]} /\ p.sq_king \in [Colour -> Square]
  BY DEF Copies, IsPosition
<1>3. CASE m.piece = king /\ e = c
  <2>1. Toggled(c, e, m, {king}) = {m.from, m.to} /\ m.from # m.to
    BY <1>3, KindsAreNumbers DEF Toggled, ByMover, MoveFacts
  <2>2. m.from = p.sq_king[c]
    <3>1. m.from \in Square /\ p.board[m.from] = Signed(c, king)
      BY <1>3, KindsAreNumbers DEF MoveFacts
    <3>2. m.from \in OnBoard(p.board, e, {king})
      BY <1>3, <3>1 DEF OnBoard
    <3> QED BY <1>2, <1>3, <3>2
  <2> QED BY <1>1, <1>2, <1>3, <2>1, <2>2 DEF Toggle
<1>4. CASE ~(m.piece = king /\ e = c)
  <2>1. Toggled(c, e, m, {king}) = {}
    BY <1>4, KindsAreNumbers DEF Toggled, ByMover, ByCaptured, MoveFacts
  <2> QED BY <1>1, <1>2, <1>4, <2>1 DEF Toggle
<1> QED BY <1>3, <1>4

KeyOf(b) == {x \in Colour \X Kinds \X Square : x[3] \in OnBoard(b, x[1], {x[2]})}

(* The random numbers a move XORs into the key are those of the squares it *)
(* toggles.                                                                *)
LEMMA KeyChangeIsToggled ==
  ASSUME NEW c \in Colour, NEW p, IsPosition(p), NEW m, MoveFacts(c, p, m)
  PROVE  /\ KeyChange(c, m) \subseteq Colour \X Kinds \X Square
         /\ \A e \in Colour, k \in Kinds, s \in Square :
              <<e, k, s>> \in KeyChange(c, m) <=> s \in Toggled(c, e, m, {k})
<1>1. Flip(c) \in Colour /\ Flip(c) # c /\ (m.cap # empty => m.cap \in Kinds) /\ Comes(m) \in Kinds /\ m.to \in Square
  BY Flips, KindsAreNumbers DEF MoveFacts
<1>2. \A s \in Left(m) : m.piece \in Kinds /\ s \in Square
  BY DEF MoveFacts
<1>3. KeyChange(c, m) \subseteq Colour \X Kinds \X Square
  BY <1>1, <1>2 DEF KeyChange
<1>4. ASSUME NEW e \in Colour, NEW k \in Kinds, NEW s \in Square
      PROVE  <<e, k, s>> \in KeyChange(c, m) <=> s \in Toggled(c, e, m, {k})
  <2>1. <<e, k, s>> \in KeyChange(c, m) <=> \/ (e = c /\ k = m.piece /\ s \in Left(m))
                                            \/ (e = c /\ k = Comes(m) /\ s = m.to)
                                            \/ (m.cap # empty /\ e = Flip(c) /\ k = m.cap /\ s = m.to)
    BY DEF KeyChange
  <2>2. e # c => e = Flip(c)
    BY TwoColours
  <2>3. k # empty
    BY KindsAreNumbers
  <2> QED BY <1>1, <2>1, <2>2, <2>3 DEF Toggled, ByMover, ByCaptured
<1> QED BY <1>3, <1>4

(* The key of a board after a move is the toggled key.                     *)
LEMMA KeyFollows ==
  ASSUME NEW c \in Colour, NEW p, IsPosition(p), NEW m, MoveFacts(c, p, m)
  PROVE  KeyOf(BoardAfter(c, p, m)) = Toggle(KeyOf(p.board), KeyChange(c, m))
<1>1. \A e \in Colour, k \in Kinds, s \in Square : <<e, k, s>> \in KeyOf(p.board) <=> s \in OnBoard(p.board, e, {k})
  BY DEF KeyOf
<1>2. \A e \in Colour, k \in Kinds, s \in Square :
        <<e, k, s>> \in KeyOf(BoardAfter(c, p, m)) <=> s \in OnBoard(BoardAfter(c, p, m), e, {k})
  BY DEF KeyOf
<1>3. \A e \in Colour, k \in Kinds, s \in Square :
        <<e, k, s>> \in KeyOf(BoardAfter(c, p, m)) <=> <<e, k, s>> \in Toggle(KeyOf(p.board), KeyChange(c, m))
  <2> SUFFICES ASSUME NEW e \in Colour, NEW k \in Kinds, NEW s \in Square
               PROVE  <<e, k, s>> \in KeyOf(BoardAfter(c, p, m)) <=> <<e, k, s>> \in Toggle(KeyOf(p.board), KeyChange(c, m))
    OBVIOUS
  <2>1. OnBoard(BoardAfter(c, p, m), e, {k}) = Toggle(OnBoard(p.board, e, {k}), Toggled(c, e, m, {k}))
    BY ToggledFollows
  <2>2. <<e, k, s>> \in KeyChange(c, m) <=> s \in Toggled(c, e, m, {k})
    BY KeyChangeIsToggled
  <2> QED BY <1>1, <1>2, <2>1, <2>2 DEF Toggle
<1>4. KeyOf(p.board) \subseteq Colour \X Kinds \X Square /\ KeyOf(BoardAfter(c, p, m)) \subseteq Colour \X Kinds \X Square
      /\ KeyChange(c, m) \subseteq Colour \X Kinds \X Square
  BY KeyChangeIsToggled DEF KeyOf
<1>5. Toggle(KeyOf(p.board), KeyChange(c, m)) \subseteq Colour \X Kinds \X Square
  BY <1>4 DEF Toggle
<1> QED BY <1>3, <1>4, <1>5

(* The key of the bitboards is that of the array of squares.               *)
LEMMA KeyOfCopies ==
  ASSUME NEW p, \A c \in Colour : \A k \in BoardKinds : p.bb[c][k] = OnBoard(p.board, c, {k}),
         \A c \in Colour : OnBoard(p.board, c, {king}) = {p.sq_king[c]}
  PROVE  hash_func(p) = KeyOf(p.board)
<1>1. hash_func(p) \subseteq Colour \X Kinds \X Square
  <2>1. \A c \in Colour : p.sq_king[c] \in Square
    BY DEF OnBoard
  <2>2. {<<c, king, p.sq_king[c]>> : c \in Colour} \subseteq Colour \X Kinds \X Square
    BY <2>1, KindsAreNumbers
  <2>3. {x \in Colour \X BoardKinds \X Square : x[3] \in p.bb[x[1]][x[2]]} \subseteq Colour \X Kinds \X Square
    BY KindsAreNumbers
  <2> QED BY <2>2, <2>3 DEF hash_func
<1>2. ASSUME NEW e \in Colour, NEW k \in Kinds, NEW s \in Square
      PROVE  <<e, k, s>> \in hash_func(p) <=> <<e, k, s>> \in KeyOf(p.board)
  <2>1. <<e, k, s>> \in KeyOf(p.board) <=> s \in OnBoard(p.board, e, {k})
    BY DEF KeyOf
  <2>2. <<e, k, s>> \in hash_func(p) <=> \/ (k = king /\ s = p.sq_king[e])
                                        \/ (k \in BoardKinds /\ s \in p.bb[e][k])
    BY DEF hash_func
  <2>3. CASE k = king
    BY <2>1, <2>2, <2>3, KindsAreNumbers
  <2>4. CASE k # king
    <3>1. k \in BoardKinds
      BY <2>4 DEF BoardKinds
    <3> QED BY <2>1, <2>2, <2>4, <3>1
  <2> QED BY <2>3, <2>4
<1>3. KeyOf(p.board) \subseteq Colour \X Kinds \X Square
  BY DEF KeyOf
<1> QED BY <1>1, <1>2, <1>3

(* A drop takes a piece the hand has, so no count goes below nothing.      *)
LEMMA HandsStayCounted ==
  ASSUME NEW c \in Colour, NEW p, IsPosition(p), NEW m, Fits(c, p, m)
  PROVE  HandChange(c, m, 1, p.hand) \in [Colour -> [Hands -> Nat]]
<1> DEFINE k0 == IF IsDrop(m) THEN From2Drop(m.from) ELSE Unpromoted(m.cap)
           d == IF IsDrop(m) THEN -1 ELSE 1
           held == p.hand
           one == HandChange(c, m, 1, held)
<1>1. one = [held EXCEPT ![c] = [k \in Hands |-> IF k = k0 THEN held[c][k] + d ELSE held[c][k]]]
  BY DEF HandChange
<1>2. held \in [Colour -> [Hands -> Nat]]
  BY DEF IsPosition
<1>3. \A k \in Hands : k = k0 => held[c][k] + d \in Nat
  <2>1. CASE IsDrop(m)
    <3>1. DropFits(c, p, m)
      BY <2>1 DEF Fits, StepFits, IsDrop, Square, nsquare
    <3>2. PICK k \in Hands : m.from = Drop2From(k) /\ held[c][k] > 0
      BY <3>1 DEF DropFits
    <3>3. k0 = k
      BY <2>1, <3>2 DEF Drop2From, From2Drop, Hands, pawn, rook, nsquare
    <3>4. held[c][k] \in Nat
      BY <1>2
    <3> QED BY <2>1, <3>2, <3>3, <3>4
  <2>2. CASE ~IsDrop(m)
    BY <1>2, <2>2
  <2> QED BY <2>1, <2>2
<1> HIDE DEF k0, d, held, one
<1>4. [k \in Hands |-> IF k = k0 THEN held[c][k] + d ELSE held[c][k]] \in [Hands -> Nat]
  BY <1>2, <1>3
<1>5. one \in [Colour -> [Hands -> Nat]]
  BY <1>1, <1>2, <1>4
<1> QED BY <1>5 DEF one, held

(* Each union is of kinds of pieces.                                       *)
LEMMA SetsOfKinds == \A u \in DOMAIN Unions : Unions[u] \in SUBSET Kinds
  BY DEF Unions, Golds, Kinds, gold, promote, pawn, lance, knight, silver, bishop, horse,
         rook, dragon, king

(* make_move keeps the copies in step with the squares.                    *)
LEMMA MakingKeepsCopies ==
  ASSUME NEW c \in Colour, NEW p, IsPosition(p), NEW m, Fits(c, p, m), Copies(p),
         NEW q, q = make_move(c, p, m)
  PROVE  IsPosition(q) /\ Copies(q)
<1>1. HasFields(q) /\ MadeOf(c, p, m, q) /\ MoveFacts(c, p, m)
  BY PositionHasFields, MadeFields, FittingMoves
<1>2. TogglesTo(c, p, m, q) /\ q.board = BoardAfter(c, p, m)
  BY <1>1 DEF MadeOf
<1>3. \A e \in Colour : \A K \in SUBSET Kinds :
        OnBoard(q.board, e, K) = Toggle(OnBoard(p.board, e, K), Toggled(c, e, m, K))
  BY <1>1, <1>2, ToggledFollows
<1>4. \A e \in Colour : \A k \in BoardKinds : q.bb[e][k] = OnBoard(q.board, e, {k})
  <2> SUFFICES ASSUME NEW e \in Colour, NEW k \in BoardKinds PROVE q.bb[e][k] = OnBoard(q.board, e, {k})
    OBVIOUS
  <2>1. q.bb[e][k] = Toggle(p.bb[e][k], Toggled(c, e, m, {k}))
    BY <1>2 DEF TogglesTo
  <2>2. p.bb[e][k] = OnBoard(p.board, e, {k})
    BY DEF Copies
  <2>3. {k} \in SUBSET Kinds
    BY KindsAreNumbers
  <2> QED BY <1>3, <2>1, <2>2, <2>3
<1>5. \A e \in Colour : \A u \in DOMAIN Unions : q.union[e][u] = OnBoard(q.board, e, Unions[u])
  <2> SUFFICES ASSUME NEW e \in Colour, NEW u \in DOMAIN Unions PROVE q.union[e][u] = OnBoard(q.board, e, Unions[u])
    OBVIOUS
  <2>1. q.union[e][u] = Toggle(p.union[e][u], Toggled(c, e, m, Unions[u]))
    BY <1>2 DEF TogglesTo
  <2>2. p.union[e][u] = OnBoard(p.board, e, Unions[u])
    BY DEF Copies
  <2> QED BY <1>3, <2>1, <2>2, SetsOfKinds
<1>6. \A e \in Colour : q.occ[e] = OnBoard(q.board, e, Kinds)
  <2> SUFFICES ASSUME NEW e \in Colour PROVE q.occ[e] = OnBoard(q.board, e, Kinds)
    OBVIOUS
  <2>1. q.occ[e] = Toggle(p.occ[e], Toggled(c, e, m, Kinds)) /\ p.occ[e] = OnBoard(p.board, e, Kinds)
    BY <1>2 DEF TogglesTo, Copies
  <2> QED BY <1>3, <2>1
<1>7. \A e \in Colour : q.pawn_atk[e] = {s + Ahead(e) : s \in OnBoard(q.board, e, {pawn})}
  <2> SUFFICES ASSUME NEW e \in Colour PROVE q.pawn_atk[e] = {s + Ahead(e) : s \in OnBoard(q.board, e, {pawn})}
    OBVIOUS
  <2>1. q.pawn_atk[e] = Toggle(p.pawn_atk[e], ToggledAttacks(c, e, m))
    BY <1>2 DEF TogglesTo
  <2>2. p.pawn_atk[e] = {s + Ahead(e) : s \in OnBoard(p.board, e, {pawn})}
    BY DEF Copies
  <2>3. {s + Ahead(e) : s \in OnBoard(BoardAfter(c, p, m), e, {pawn})}
           = Toggle({s + Ahead(e) : s \in OnBoard(p.board, e, {pawn})}, ToggledAttacks(c, e, m))
    BY <1>1, PawnAttacksFollow
  <2> QED BY <1>2, <2>1, <2>2, <2>3
<1>8. \A e \in Colour : OnBoard(q.board, e, {king}) = {q.sq_king[e]}
  <2>1. q.sq_king = IF m.piece = king THEN [p.sq_king EXCEPT ![c] = m.to] ELSE p.sq_king
    BY <1>1 DEF MadeOf
  <2> SUFFICES ASSUME NEW e \in Colour PROVE OnBoard(q.board, e, {king}) = {q.sq_king[e]}
    OBVIOUS
  <2>2. p.sq_king \in [Colour -> Square]
    BY DEF IsPosition
  <2>3. q.sq_king[e] = IF m.piece = king /\ e = c THEN m.to ELSE p.sq_king[e]
    BY <2>1, <2>2
  <2>4. OnBoard(BoardAfter(c, p, m), e, {king}) = {IF m.piece = king /\ e = c THEN m.to ELSE p.sq_king[e]}
    BY <1>1, KingsFollow
  <2> QED BY <1>2, <2>3, <2>4
<1>9. q.rl90 = {s \in Square : q.board[s] # empty} /\ q.rr45 = q.rl90 /\ q.rl45 = q.rl90
  <2>1. {s \in Square : BoardAfter(c, p, m)[s] # empty} = Toggle({s \in Square : p.board[s] # empty}, RotatedBy(m))
    BY <1>1, OccupancyFollows
  <2>2. p.rl90 = {s \in Square : p.board[s] # empty} /\ p.rr45 = p.rl90 /\ p.rl45 = p.rl90
    BY DEF Copies
  <2>3. q.rl90 = Toggle(p.rl90, RotatedBy(m)) /\ q.rl45 = Toggle(p.rl45, RotatedBy(m)) /\ q.rr45 = Toggle(p.rr45, RotatedBy(m))
    BY <1>2 DEF TogglesTo
  <2> QED BY <1>2, <2>1, <2>2, <2>3
<1>10. q.key = hash_func(q)
  <2>1. hash_func(q) = KeyOf(q.board)
    BY <1>4, <1>8, KeyOfCopies
  <2>2. hash_func(p) = KeyOf(p.board)
    BY KeyOfCopies DEF Copies
  <2>3. q.key = Toggle(p.key, KeyChange(c, m))
    BY <1>1 DEF MadeOf
  <2>4. p.key = hash_func(p)
    BY DEF Copies
  <2> QED BY <1>1, <1>2, <2>1, <2>2, <2>3, <2>4, KeyFollows
<1>11. Copies(q)
  BY <1>4, <1>5, <1>6, <1>7, <1>8, <1>9, <1>10 DEF Copies
<1>12. IsPosition(q)
  <2>1. q.board \in [Square -> Pieces]
    <3>1. p.board \in [Square -> Pieces]
      BY DEF IsPosition
    <3>2. Signed(c, Comes(m)) \in Pieces /\ empty \in Pieces
      BY <1>1 DEF Pieces, MoveFacts
    <3> QED BY <1>2, <3>1, <3>2 DEF BoardAfter
  <2>2. q.hand \in [Colour -> [Hands -> Nat]]
    BY <1>1, HandsStayCounted DEF MadeOf
  <2>3. \A K : \A e : OnBoard(q.board, e, K) \in SUBSET Square
    BY DEF OnBoard
  <2>4. q.bb \in [Colour -> [BoardKinds -> SUBSET Square]]
    <3>1. q.bb = [e \in Colour |-> [k \in BoardKinds |-> q.bb[e][k]]]
      BY <1>2 DEF TogglesTo
    <3>2. \A e \in Colour : \A k \in BoardKinds : q.bb[e][k] \in SUBSET Square
      <4> SUFFICES ASSUME NEW e \in Colour, NEW k \in BoardKinds PROVE q.bb[e][k] \in SUBSET Square
        OBVIOUS
      <4>1. q.bb[e][k] = OnBoard(q.board, e, {k})
        BY <1>4
      <4>2. OnBoard(q.board, e, {k}) \in SUBSET Square
        BY DEF OnBoard
      <4> QED BY <4>1, <4>2
    <3> QED BY <3>1, <3>2
  <2>5. q.union \in [Colour -> [DOMAIN Unions -> SUBSET Square]]
    <3>1. q.union = [e \in Colour |-> [u \in DOMAIN Unions |-> q.union[e][u]]]
      BY <1>2 DEF TogglesTo
    <3> QED BY <1>5, <2>3, <3>1
  <2>6. q.occ \in [Colour -> SUBSET Square]
    <3>1. q.occ = [e \in Colour |-> q.occ[e]]
      BY <1>2 DEF TogglesTo
    <3> QED BY <1>6, <2>3, <3>1
  <2>7. q.pawn_atk \in [Colour -> SUBSET Int]
    <3>1. q.pawn_atk = [e \in Colour |-> q.pawn_atk[e]]
      BY <1>2 DEF TogglesTo
    <3>2. \A e \in Colour : q.pawn_atk[e] \in SUBSET Int
      <4> SUFFICES ASSUME NEW e \in Colour PROVE {s + Ahead(e) : s \in OnBoard(q.board, e, {pawn})} \in SUBSET Int
        BY <1>7
      <4>1. OnBoard(q.board, e, {pawn}) \subseteq Int
        BY <2>3 DEF Square
      <4>2. \A s \in OnBoard(q.board, e, {pawn}) : s + Ahead(e) \in Int
        BY <4>1, AheadIsOneRank
      <4> QED BY <4>2
    <3> QED BY <3>1, <3>2
  <2>8. q.rl90 \in SUBSET Square /\ q.rr45 \in SUBSET Square /\ q.rl45 \in SUBSET Square
    BY <1>9
  <2>9. q.sq_king \in [Colour -> Square]
    <3>1. p.sq_king \in [Colour -> Square] /\ m.to \in Square
      BY <1>1 DEF IsPosition, MoveFacts
    <3>2. q.sq_king = IF m.piece = king THEN [p.sq_king EXCEPT ![c] = m.to] ELSE p.sq_king
      BY <1>1 DEF MadeOf
    <3> QED BY <3>1, <3>2
  <2>10. q.key \in SUBSET (Colour \X Kinds \X Square)
    <3>1. p.key \in SUBSET (Colour \X Kinds \X Square)
      BY DEF IsPosition
    <3>2. KeyChange(c, m) \in SUBSET (Colour \X Kinds \X Square)
      BY <1>1, KeyChangeIsToggled
    <3>3. q.key = Toggle(p.key, KeyChange(c, m))
      BY <1>1 DEF MadeOf
    <3>4. PICK A : A = p.key
      OBVIOUS
    <3>5. PICK B : B = KeyChange(c, m)
      OBVIOUS
    <3>6. Toggle(A, B) \in SUBSET (Colour \X Kinds \X Square)
      BY <3>1, <3>2, <3>4, <3>5 DEF Toggle
    <3> QED BY <3>3, <3>4, <3>5, <3>6
  <2> QED BY <1>1, <2>1, <2>2, <2>4, <2>5, <2>6, <2>7, <2>8, <2>9, <2>10 DEF IsPosition
<1> QED BY <1>11, <1>12

(* A square is a rank and a file.                                          *)
LEMMA SquareParts ==
  ASSUME NEW s \in Square
  PROVE  s \div 9 \in 0..8 /\ s % 9 \in 0..8 /\ s = 9 * (s \div 9) + (s % 9)
  BY DEF Square

(* A square some ranks and files away.                                     *)
LEMMA SquareMoved ==
  ASSUME NEW s \in Square, NEW i \in Int, NEW j \in Int,
         (s \div 9) + i \in 0..8, (s % 9) + j \in 0..8, NEW t, t = s + 9 * i + j
  PROVE  t \in Square /\ t \div 9 = (s \div 9) + i /\ t % 9 = (s % 9) + j
  BY DEF Square

(* A step there and the step back.                                         *)
LEMMA StepsBack ==
  ASSUME NEW s \in Square, NEW steps \in SUBSET (Int \X Int), NEW back \in SUBSET (Int \X Int),
         \A d \in steps : <<-d[1], -d[2]>> \in back,
         NEW t \in set_attacks(s, steps)
  PROVE  t \in Square /\ s \in set_attacks(t, back)
<1>1. PICK d \in steps : OnTheBoard(airank(s) + d[1], aifile(s) + d[2]) /\ t = s + 9 * d[1] + d[2]
  BY DEF set_attacks
<1>2. d[1] \in Int /\ d[2] \in Int
  OBVIOUS
<1>3. t \in Square /\ t \div 9 = (s \div 9) + d[1] /\ t % 9 = (s % 9) + d[2]
  BY <1>1, <1>2, SquareMoved DEF OnTheBoard, airank, aifile
<1>4. PICK e \in back : e = <<-d[1], -d[2]>>
  OBVIOUS
<1>5. e[1] = -d[1] /\ e[2] = -d[2]
  BY <1>4
<1>6. airank(t) + e[1] = s \div 9 /\ aifile(t) + e[2] = s % 9
  BY <1>2, <1>3, <1>5, SquareParts DEF airank, aifile
<1>7. OnTheBoard(airank(t) + e[1], aifile(t) + e[2])
  BY <1>6, SquareParts DEF OnTheBoard
<1>8. s = t + 9 * e[1] + e[2]
  BY <1>1, <1>2, <1>5 DEF Square
<1> QED BY <1>3, <1>7, <1>8 DEF set_attacks

(* The steps of one side, back, are the steps of the other.                *)
LEMMA TurnedBack ==
  ASSUME NEW c \in Colour, NEW steps \in SUBSET (Int \X Int)
  PROVE  /\ Turned(c, steps) \in SUBSET (Int \X Int)
         /\ \A d \in Turned(c, steps) : <<-d[1], -d[2]>> \in Turned(Flip(c), steps)
<1>1. \A d \in steps : d[1] \in Int /\ d[2] \in Int /\ d = <<d[1], d[2]>>
  OBVIOUS
<1>2. CASE c = black
  <2>1. Turned(c, steps) = steps
    BY <1>2 DEF Turned
  <2>2. Turned(Flip(c), steps) = {<<-d[1], -d[2]>> : d \in steps}
    BY <1>2 DEF Turned, Flip, black
  <2> QED BY <2>1, <2>2
<1>3. CASE c = white
  <2>1. Turned(c, steps) = {<<-d[1], -d[2]>> : d \in steps}
    BY <1>3 DEF Turned, black, white
  <2>2. Turned(Flip(c), steps) = steps
    BY <1>3 DEF Turned, Flip, black, white
  <2>3. \A d \in steps : <<-(-d[1]), -(-d[2])>> = d
    BY <1>1
  <2>4. Turned(c, steps) \in SUBSET (Int \X Int)
    BY <1>1, <2>1
  <2>5. ASSUME NEW d \in Turned(c, steps) PROVE <<-d[1], -d[2]>> \in Turned(Flip(c), steps)
    <3>1. PICK e \in steps : d = <<-e[1], -e[2]>>
      BY <2>1
    <3> QED BY <1>1, <2>2, <2>3, <3>1
  <2> QED BY <2>4, <2>5
<1> QED BY <1>2, <1>3 DEF Colour

(* A piece reaches a square from where an enemy's piece there reaches it.  *)
LEMMA StepsAreMutual ==
  ASSUME NEW c \in Colour, NEW s \in Square
  PROVE  /\ \A t \in Knight(c, s) : t \in Square /\ s \in Knight(Flip(c), t)
         /\ \A t \in Silver(c, s) : t \in Square /\ s \in Silver(Flip(c), t)
         /\ \A t \in Gold(c, s) : t \in Square /\ s \in Gold(Flip(c), t)
         /\ \A t \in abb_king_attacks[s] : t \in Square /\ s \in abb_king_attacks[t]
<1>1. KnightSteps \in SUBSET (Int \X Int) /\ SilverSteps \in SUBSET (Int \X Int) /\ GoldSteps \in SUBSET (Int \X Int)
  BY DEF KnightSteps, SilverSteps, GoldSteps
<1>2. \A e \in Colour, u \in Square : Silver(e, u) = set_attacks(u, Turned(e, SilverSteps))
  BY DEF Silver, abb_silver_attacks
<1>3. \A e \in Colour, u \in Square : Gold(e, u) = set_attacks(u, Turned(e, GoldSteps))
  BY DEF Gold, abb_gold_attacks
<1>4. \A e \in Colour, u \in Square : Knight(e, u) = set_attacks(u, Turned(e, KnightSteps))
  <2> SUFFICES ASSUME NEW e \in Colour, NEW u \in Square PROVE Knight(e, u) = set_attacks(u, Turned(e, KnightSteps))
    OBVIOUS
  <2>1. CASE e = black
    BY <2>1 DEF Knight, abb_knight_attacks, abb_b_knight_attacks, Turned, black
  <2>2. CASE e = white
    BY <2>2 DEF Knight, abb_knight_attacks, abb_w_knight_attacks, white
  <2> QED BY <2>1, <2>2 DEF Colour
<1>5. Flip(c) \in Colour
  BY Flips
<1>6. ASSUME NEW steps \in SUBSET (Int \X Int), NEW t \in set_attacks(s, Turned(c, steps))
      PROVE  t \in Square /\ s \in set_attacks(t, Turned(Flip(c), steps))
  <2>1. PICK there : there = Turned(c, steps)
    OBVIOUS
  <2>2. PICK back : back = Turned(Flip(c), steps)
    OBVIOUS
  <2>3. there \in SUBSET (Int \X Int) /\ back \in SUBSET (Int \X Int) /\ \A d \in there : <<-d[1], -d[2]>> \in back
    BY <1>5, <2>1, <2>2, TurnedBack
  <2>4. t \in set_attacks(s, there)
    BY <2>1
  <2>5. t \in Square /\ s \in set_attacks(t, back)
    BY <2>3, <2>4, StepsBack
  <2> QED BY <2>2, <2>5
<1>7. \A t \in Knight(c, s) : t \in Square /\ s \in Knight(Flip(c), t)
  BY <1>1, <1>4, <1>5, <1>6
<1>8. \A t \in Silver(c, s) : t \in Square /\ s \in Silver(Flip(c), t)
  BY <1>1, <1>2, <1>5, <1>6
<1>9. \A t \in Gold(c, s) : t \in Square /\ s \in Gold(Flip(c), t)
  BY <1>1, <1>3, <1>5, <1>6
<1>10. \A t \in abb_king_attacks[s] : t \in Square /\ s \in abb_king_attacks[t]
  <2> SUFFICES ASSUME NEW t \in abb_king_attacks[s] PROVE t \in Square /\ s \in abb_king_attacks[t]
    OBVIOUS
  <2>1. Around \in SUBSET (Int \X Int)
    BY DEF Around
  <2>2. \A d \in Around : <<-d[1], -d[2]>> \in Around
    <3> SUFFICES ASSUME NEW d \in Around PROVE <<-d[1], -d[2]>> \in Around
      OBVIOUS
    <3>1. d[1] \in -1..1 /\ d[2] \in -1..1 /\ (d[1] # 0 \/ d[2] # 0)
      BY DEF Around
    <3>2. -d[1] \in -1..1 /\ -d[2] \in -1..1 /\ (-d[1] # 0 \/ -d[2] # 0)
      BY <3>1
    <3> QED BY <3>2 DEF Around
  <2>3. \A u \in Square : abb_king_attacks[u] = set_attacks(u, Around)
    BY DEF abb_king_attacks
  <2>4. t \in set_attacks(s, Around)
    BY <2>3
  <2>5. t \in Square /\ s \in set_attacks(t, Around)
    BY <2>1, <2>2, <2>4, StepsBack
  <2> QED BY <2>3, <2>5
<1> QED BY <1>7, <1>8, <1>9, <1>10

(* A slider reaches a square that would reach it the same way.             *)
LEMMA SlidesAreMutual ==
  ASSUME NEW d \in 2..5, NEW s \in Square, NEW occ, NEW t \in Slide(d, s, occ)
  PROVE  t \in Square /\ s \in Slide(d, t, occ) /\ t # s
<1>1. t \in Square /\ t # s /\ Joined(d, s, t) /\ abb_obstacle[s][t] \cap occ = {}
  BY DEF Slide, Line
<1>2. abb_obstacle[s][t] = {u \in Square \ {s, t} : (u > s <=> u < t) /\ \E e \in 2..5 : Joined(e, s, t) /\ Joined(e, s, u)}
  BY <1>1 DEF abb_obstacle
<1>3. abb_obstacle[t][s] = {u \in Square \ {t, s} : (u > t <=> u < s) /\ \E e \in 2..5 : Joined(e, t, s) /\ Joined(e, t, u)}
  BY <1>1 DEF abb_obstacle
<1>4. \A e \in 2..5, x, y, z \in Square : (Joined(e, x, y) => Joined(e, y, x)) /\ (Joined(e, x, y) /\ Joined(e, x, z) => Joined(e, y, z))
  BY DEF Joined
<1>5. \A u \in Square \ {s, t} : (u > s <=> u < t) <=> (u > t <=> u < s)
  BY <1>1 DEF Square
<1>6. abb_obstacle[t][s] \subseteq abb_obstacle[s][t]
  BY <1>1, <1>2, <1>3, <1>4, <1>5
<1>7. s \in Line[d][t]
  BY <1>1, <1>4 DEF Line
<1> QED BY <1>1, <1>6, <1>7 DEF Slide

(* A lance reaches the squares from which the ray behind leads to it.      *)
LEMMA LancesAreMutual ==
  ASSUME NEW c \in Colour, NEW p, NEW s \in Square, NEW t \in AttackLance(c, p, s)
  PROVE  t \in Square /\ s \in RaysBehind(c)[t] \cap AttackFile(p, t)
<1>1. t \in RaysAhead(c)[s] /\ t \in Slide(direc_file, s, p.rl90)
  BY DEF AttackLance, AttackFile, abb_file_attacks
<1>2. t \in Square /\ s \in Slide(direc_file, t, p.rl90) /\ t # s
  BY <1>1, SlidesAreMutual DEF direc_file
<1>3. \A e \in 2..5, x, y \in Square : Joined(e, x, y) => Joined(e, y, x)
  BY DEF Joined
<1>4. abb_plus_rays[s] = {u \in s+1 .. 80 : \E d \in 2..5 : Joined(d, s, u)}
      /\ abb_minus_rays[s] = {u \in 0 .. s-1 : \E d \in 2..5 : Joined(d, s, u)}
  BY DEF abb_plus_rays, abb_minus_rays
<1>5. abb_plus_rays[t] = {u \in t+1 .. 80 : \E d \in 2..5 : Joined(d, t, u)}
      /\ abb_minus_rays[t] = {u \in 0 .. t-1 : \E d \in 2..5 : Joined(d, t, u)}
  BY <1>2 DEF abb_plus_rays, abb_minus_rays
<1>6. s \in RaysBehind(c)[t]
  <2>1. CASE c = black
    <3>1. t \in abb_minus_rays[s]
      BY <1>1, <2>1 DEF RaysAhead
    <3>2. s \in abb_plus_rays[t]
      <4>1. PICK e \in 2..5 : t \in 0 .. s-1 /\ Joined(e, s, t)
        BY <1>4, <3>1
      <4>2. s \in t+1 .. 80
        BY <1>2, <4>1 DEF Square
      <4>3. Joined(e, t, s)
        BY <1>2, <1>3, <4>1
      <4> QED BY <1>5, <4>2, <4>3
    <3> QED BY <2>1, <3>2 DEF RaysBehind
  <2>2. CASE c # black
    <3>1. t \in abb_plus_rays[s]
      BY <1>1, <2>2 DEF RaysAhead
    <3>2. s \in abb_minus_rays[t]
      <4>1. PICK e \in 2..5 : t \in s+1 .. 80 /\ Joined(e, s, t)
        BY <1>4, <3>1
      <4>2. s \in 0 .. t-1
        BY <1>2, <4>1 DEF Square
      <4>3. Joined(e, t, s)
        BY <1>2, <1>3, <4>1
      <4> QED BY <1>5, <4>2, <4>3
    <3> QED BY <2>2, <3>2 DEF RaysBehind
  <2> QED BY <2>1, <2>2
<1> QED BY <1>2, <1>6 DEF AttackFile, abb_file_attacks

(* The lines of bishops and rooks lead both ways.                          *)
LEMMA OnTheLines ==
  ASSUME NEW p, NEW s \in Square
  PROVE  /\ \A t \in AttackBishop(p, s) : t \in Square /\ s \in AttackBishop(p, t)
         /\ \A t \in AttackRook(p, s) : t \in Square /\ s \in AttackRank(p, t) \cup AttackFile(p, t)
<1>1. \A t \in AttackDiag1(p, s) : t \in Square /\ s \in AttackDiag1(p, t)
  BY SlidesAreMutual DEF AttackDiag1, abb_bishop_attacks_rr45, direc_diag1
<1>2. \A t \in AttackDiag2(p, s) : t \in Square /\ s \in AttackDiag2(p, t)
  BY SlidesAreMutual DEF AttackDiag2, abb_bishop_attacks_rl45, direc_diag2
<1>3. \A t \in AttackRank(p, s) : t \in Square /\ s \in AttackRank(p, t)
  BY SlidesAreMutual DEF AttackRank, ai_rook_attacks_r0, direc_rank
<1>4. \A t \in AttackFile(p, s) : t \in Square /\ s \in AttackFile(p, t)
  BY SlidesAreMutual DEF AttackFile, abb_file_attacks, direc_file
<1> QED BY <1>1, <1>2, <1>3, <1>4 DEF AttackBishop, AttackRook

(* What the pieces that are not pawns reach.                               *)
LEMMA ReachOfKinds ==
  ASSUME NEW c, NEW p, NEW s
  PROVE  /\ Reach(c, p, lance, s) = AttackLance(c, p, s)
         /\ Reach(c, p, knight, s) = Knight(c, s)
         /\ Reach(c, p, silver, s) = Silver(c, s)
         /\ \A k \in Golds : Reach(c, p, k, s) = Gold(c, s)
         /\ Reach(c, p, king, s) = abb_king_attacks[s]
         /\ Reach(c, p, bishop, s) = AttackBishop(p, s)
         /\ Reach(c, p, rook, s) = AttackRook(p, s)
         /\ Reach(c, p, horse, s) = AttackHorse(p, s)
         /\ Reach(c, p, dragon, s) = AttackDragon(p, s)
<1>1. Golds = {5, 9, 10, 11, 12}
  BY DEF Golds, gold, promote, pawn, lance, knight, silver
<1> USE DEF pawn, lance, knight, silver, bishop, rook, king, horse, dragon
<1>2. Reach(c, p, lance, s) = AttackLance(c, p, s)
  BY <1>1 DEF Reach
<1>3. Reach(c, p, knight, s) = Knight(c, s)
  BY <1>1 DEF Reach
<1>4. Reach(c, p, silver, s) = Silver(c, s)
  BY <1>1 DEF Reach
<1>5. \A k \in Golds : Reach(c, p, k, s) = Gold(c, s)
  BY <1>1 DEF Reach
<1>6. Reach(c, p, king, s) = abb_king_attacks[s]
  BY <1>1 DEF Reach
<1>7. Reach(c, p, bishop, s) = AttackBishop(p, s)
  BY <1>1 DEF Reach
<1>8. Reach(c, p, rook, s) = AttackRook(p, s)
  BY <1>1 DEF Reach
<1>9. Reach(c, p, horse, s) = AttackHorse(p, s)
  BY <1>1 DEF Reach
<1>10. Reach(c, p, dragon, s) = AttackDragon(p, s)
  BY <1>1 DEF Reach
<1> QED BY <1>2, <1>3, <1>4, <1>5, <1>6, <1>7, <1>8, <1>9, <1>10

(* The pieces that are not pawns.                                          *)
LEMMA KindsOfPieces ==
  ASSUME NEW k \in Kinds, k # pawn
  PROVE  \/ k \in {lance, knight, silver} \/ k \in Golds \/ k \in {king, bishop, rook, horse, dragon}
  BY DEF Kinds, Golds, gold, promote, pawn, lance, knight, silver, bishop, rook, king, horse,
         dragon

(* The copies of a position that attacks are read off, by the squares.     *)
LEMMA PiecesInCopies ==
  ASSUME NEW p, IsPosition(p), Copies(p), NEW c \in Colour, NEW k \in Kinds,
         NEW s \in Square, p.board[s] = Signed(c, k)
  PROVE  /\ k \in BoardKinds => s \in p.bb[c][k]
         /\ k \in Golds => s \in p.union[c].tgold
         /\ k \in {bishop, horse} => s \in p.union[c].bh
         /\ k \in {rook, dragon} => s \in p.union[c].rd
         /\ k \in {king, horse, dragon} => s \in p.union[c].hdk
         /\ s \in p.occ[c]
<1>1. \A K : k \in K => s \in OnBoard(p.board, c, K)
  BY DEF OnBoard
<1>2. \A j \in BoardKinds : p.bb[c][j] = OnBoard(p.board, c, {j})
  BY DEF Copies
<1>3. \A u \in DOMAIN Unions : p.union[c][u] = OnBoard(p.board, c, Unions[u])
  BY DEF Copies
<1>4. p.union[c].tgold = OnBoard(p.board, c, Golds)
  BY <1>3 DEF Unions
<1>5. p.union[c].bh = OnBoard(p.board, c, {bishop, horse})
  BY <1>3 DEF Unions
<1>6. p.union[c].rd = OnBoard(p.board, c, {rook, dragon})
  BY <1>3 DEF Unions
<1>7. p.union[c].hdk = OnBoard(p.board, c, {king, horse, dragon})
  BY <1>3 DEF Unions
<1>8. p.occ[c] = OnBoard(p.board, c, Kinds)
  BY DEF Copies
<1> QED BY <1>1, <1>2, <1>4, <1>5, <1>6, <1>7, <1>8

(* A piece is among the strikers of what it reaches.                       *)
LEMMA WhatReachesStrikes ==
  ASSUME NEW p, IsPosition(p), Copies(p), NEW c \in Colour, NEW k \in Kinds, k # pawn,
         NEW s \in Square, p.board[s] = Signed(c, k), NEW t \in Reach(c, p, k, s)
  PROVE  t \in Square /\ s \in Strikers(c, p, t)
<1> DEFINE d == Flip(c)
<1>1. /\ k \in BoardKinds => s \in p.bb[c][k]
      /\ k \in Golds => s \in p.union[c].tgold
      /\ k \in {bishop, horse} => s \in p.union[c].bh
      /\ k \in {rook, dragon} => s \in p.union[c].rd
      /\ k \in {king, horse, dragon} => s \in p.union[c].hdk
  BY PiecesInCopies
<1>2. k # king => k \in BoardKinds
  BY DEF BoardKinds
<1>4. CASE k = lance
  <2>1. t \in AttackLance(c, p, s)
    BY <1>4, ReachOfKinds
  <2>2. t \in Square /\ s \in p.bb[c][lance] \cap RaysBehind(c)[t] \cap AttackFile(p, t)
    BY <1>1, <1>2, <1>4, <2>1, LancesAreMutual DEF lance, king
  <2> QED BY <2>2 DEF Strikers
<1>5. CASE k = knight
  <2>1. t \in Knight(c, s)
    BY <1>5, ReachOfKinds
  <2>2. t \in Square /\ s \in p.bb[c][knight] \cap Knight(d, t)
    BY <1>1, <1>2, <1>5, <2>1, StepsAreMutual DEF knight, king
  <2> QED BY <2>2 DEF Strikers
<1>6. CASE k = silver
  <2>1. t \in Silver(c, s)
    BY <1>6, ReachOfKinds
  <2>2. t \in Square /\ s \in p.bb[c][silver] \cap Silver(d, t)
    BY <1>1, <1>2, <1>6, <2>1, StepsAreMutual DEF silver, king
  <2> QED BY <2>2 DEF Strikers
<1>7. CASE k \in Golds
  <2>1. t \in Gold(c, s)
    BY <1>7, ReachOfKinds
  <2>2. t \in Square /\ s \in p.union[c].tgold \cap Gold(d, t)
    BY <1>1, <1>7, <2>1, StepsAreMutual
  <2> QED BY <2>2 DEF Strikers
<1>8. ASSUME k \in {king, horse, dragon}, t \in abb_king_attacks[s] PROVE t \in Square /\ s \in Strikers(c, p, t)
  <2>1. t \in Square /\ s \in p.union[c].hdk \cap abb_king_attacks[t]
    BY <1>1, <1>8, StepsAreMutual
  <2> QED BY <2>1 DEF Strikers
<1>9. ASSUME k \in {bishop, horse}, t \in AttackBishop(p, s) PROVE t \in Square /\ s \in Strikers(c, p, t)
  <2>1. t \in Square /\ s \in p.union[c].bh \cap AttackBishop(p, t)
    BY <1>1, <1>9, OnTheLines
  <2> QED BY <2>1 DEF Strikers
<1>10. ASSUME k \in {rook, dragon}, t \in AttackRook(p, s) PROVE t \in Square /\ s \in Strikers(c, p, t)
  <2>1. t \in Square /\ s \in p.union[c].rd \cap (AttackRank(p, t) \cup AttackFile(p, t))
    BY <1>1, <1>10, OnTheLines
  <2> QED BY <2>1 DEF Strikers
<1>11. CASE k \in {king, bishop, rook, horse, dragon}
  <2>1. CASE k = king
    BY <1>8, <2>1, ReachOfKinds
  <2>2. CASE k = bishop
    BY <1>9, <2>2, ReachOfKinds
  <2>3. CASE k = rook
    BY <1>10, <2>3, ReachOfKinds
  <2>4. CASE k = horse
    <3>1. t \in AttackBishop(p, s) \cup abb_king_attacks[s]
      BY <2>4, ReachOfKinds DEF AttackHorse
    <3> QED BY <1>8, <1>9, <2>4, <3>1
  <2>5. CASE k = dragon
    <3>1. t \in AttackRook(p, s) \cup abb_king_attacks[s]
      BY <2>5, ReachOfKinds DEF AttackDragon
    <3> QED BY <1>8, <1>10, <2>5, <3>1
  <2> QED BY <1>11, <2>1, <2>2, <2>3, <2>4, <2>5
<1> QED BY <1>4, <1>5, <1>6, <1>7, <1>11, KindsOfPieces

(* What a piece reaches its side attacks.                                  *)
LEMMA WhatIsReachedIsAttacked ==
  ASSUME NEW p, IsPosition(p), Copies(p), NEW c \in Colour, NEW k \in Kinds, k # pawn,
         NEW s \in Square, p.board[s] = Signed(c, k), NEW t \in Reach(c, p, k, s)
  PROVE  t \in Square /\ is_attacked_by(c, p, t)
  BY WhatReachesStrikes DEF is_attacked_by

(* The waiting side's king is not attacked.                                *)
KingIsSafe(c, p) == ~is_attacked_by(c, p, p.sq_king[Flip(c)])

(* No piece comes to where it could never move again.                      *)
Lives(c, m) ==
  /\ Comes(m) = pawn => Row(c, m.to) > 0
  /\ Comes(m) = knight => Row(c, m.to) > 1

(* What the generators promise of a move.                                  *)
Good(c, p, m) == Fits(c, p, m) /\ Lives(c, m)

(* The kind of a piece on the board.                                       *)
LEMMA KindOfSigned ==
  ASSUME NEW p, NEW t, NEW e \in Colour, NEW j \in {empty} \cup Kinds, p.board[t] = Signed(e, j)
  PROVE  Kind(p, t) = j
<1>1. j \in Nat /\ j = 0 <=> j = empty
  BY DEF Kinds, empty
<1>2. j \in Int /\ j >= 0
  BY DEF Kinds, empty
<1>3. CASE e = black
  <2>1. p.board[t] = j
    BY <1>3 DEF Signed
  <2> QED BY <1>2, <2>1 DEF Kind
<1>4. CASE e # black
  <2>1. p.board[t] = -j
    BY <1>4 DEF Signed
  <2>2. -j < 0 => -(-j) = j
    BY <1>2
  <2>3. ~(-j < 0) => -j = j
    BY <1>2
  <2> QED BY <2>1, <2>2, <2>3, Zenon DEF Kind
<1> QED BY <1>3, <1>4

(* What the bitboards say of the array of squares.                         *)
LEMMA PieceOf ==
  ASSUME NEW p, Copies(p), NEW c \in Colour
  PROVE  /\ \A k \in BoardKinds : \A s \in p.bb[c][k] : s \in Square /\ p.board[s] = Signed(c, k)
         /\ p.sq_king[c] \in Square /\ p.board[p.sq_king[c]] = Signed(c, king)
         /\ \A t \in p.pawn_atk[c] : t - Ahead(c) \in Square /\ t = (t - Ahead(c)) + Ahead(c)
                                       /\ p.board[t - Ahead(c)] = Signed(c, pawn)
<1>1. \A k \in BoardKinds : \A s \in p.bb[c][k] : s \in Square /\ p.board[s] = Signed(c, k)
  BY DEF Copies, OnBoard
<1>2. p.sq_king[c] \in Square /\ p.board[p.sq_king[c]] = Signed(c, king)
  BY DEF Copies, OnBoard
<1>3. ASSUME NEW t \in p.pawn_atk[c]
      PROVE  t - Ahead(c) \in Square /\ t = (t - Ahead(c)) + Ahead(c) /\ p.board[t - Ahead(c)] = Signed(c, pawn)
  <2>0. p.pawn_atk[c] = {s + Ahead(c) : s \in OnBoard(p.board, c, {pawn})}
    BY DEF Copies
  <2>1. PICK s \in OnBoard(p.board, c, {pawn}) : t = s + Ahead(c)
    BY <2>0
  <2>2. s \in Square /\ p.board[s] = Signed(c, pawn)
    BY DEF OnBoard
  <2>3. s \in Int /\ Ahead(c) \in Int
    BY <2>2, AheadIsOneRank DEF Square
  <2>4. t - Ahead(c) = s
    BY <2>1, <2>3
  <2> QED BY <2>1, <2>2, <2>4
<1> QED BY <1>1, <1>2, <1>3

(* A square without an own piece is empty or holds an enemy's piece.       *)
LEMMA NotOwn ==
  ASSUME NEW p, IsPosition(p), Copies(p), NEW c \in Colour, NEW t \in Square, t \notin p.occ[c]
  PROVE  Kind(p, t) \in {empty} \cup Kinds /\ p.board[t] = Signed(Flip(c), Kind(p, t))
<1>1. p.board[t] \in Pieces
  BY DEF IsPosition
<1>2. CASE p.board[t] = empty
  <2>1. p.board[t] = Signed(Flip(c), empty)
    BY <1>2, SignedEmpty
  <2> QED BY <2>1, Flips, KindOfSigned
<1>3. CASE p.board[t] # empty
  <2>1. PICK e \in Colour, k \in Kinds : p.board[t] = Signed(e, k)
    BY <1>1, <1>3 DEF Pieces
  <2>2. e # c
    BY <2>1, PiecesInCopies
  <2>3. e = Flip(c)
    BY <2>2, TwoColours
  <2> QED BY <2>1, <2>3, KindOfSigned
<1> QED BY <1>2, <1>3

(* No generated move captures the king: it is not attacked.                *)
LEMMA TheKingIsNotTaken ==
  ASSUME NEW p, IsPosition(p), Copies(p), NEW c \in Colour, KingIsSafe(c, p),
         NEW t \in Square, t \notin p.occ[c], is_attacked_by(c, p, t)
  PROVE  Kind(p, t) \in {empty} \cup BoardKinds /\ p.board[t] = Signed(Flip(c), Kind(p, t))
<1>1. Kind(p, t) \in {empty} \cup Kinds /\ p.board[t] = Signed(Flip(c), Kind(p, t))
  BY NotOwn
<1>2. Kind(p, t) # king
  <2> SUFFICES ASSUME Kind(p, t) = king PROVE FALSE
    OBVIOUS
  <2>1. Flip(c) \in Colour
    BY Flips
  <2>2. t \in OnBoard(p.board, Flip(c), {king})
    BY <1>1 DEF OnBoard
  <2>3. t = p.sq_king[Flip(c)]
    BY <2>1, <2>2 DEF Copies
  <2> QED BY <2>3 DEF KingIsSafe
<1> QED BY <1>1, <1>2 DEF BoardKinds

(* What comes of a promotion may go backwards.                             *)
LEMMA PromotionsComeAs ==
  ASSUME NEW k \in Promotable PROVE k + promote # pawn /\ k + promote # knight
  BY DEF Promotable, promote, pawn, lance, knight, silver, bishop, rook

(* A step to a square that its piece attacks, and that holds no piece of   *)
(* its side, is good: what it takes is not the king, which nothing         *)
(* attacks.                                                                *)
LEMMA BoardMoveIsGood ==
  ASSUME NEW p, IsPosition(p), Copies(p), NEW c \in Colour, KingIsSafe(c, p),
         NEW k \in Kinds, NEW s \in Square, p.board[s] = Signed(c, k),
         NEW t \in Square, t \notin p.occ[c], is_attacked_by(c, p, t),
         NEW promo \in BOOLEAN, promo => k \in Promotable,
         k = pawn => t = s + Ahead(c),
         k = pawn /\ ~promo => Row(c, t) > 0,
         k = knight /\ ~promo => Row(c, t) > 1
  PROVE  Good(c, p, Board(p, k, promo, s, t))
<1>1. PICK m : m = Board(p, k, promo, s, t)
  OBVIOUS
<1>2. m.from = s /\ m.to = t /\ m.piece = k /\ m.promo = promo /\ m.cap = Kind(p, t)
  BY <1>1 DEF Board, Move
<1>3. Kind(p, t) \in {empty} \cup BoardKinds /\ p.board[t] = Signed(Flip(c), Kind(p, t))
  BY TheKingIsNotTaken
<1>4. Fits(c, p, m)
  BY <1>2, <1>3 DEF Fits, StepFits
<1>5. Comes(m) = IF promo THEN k + promote ELSE k
  BY <1>2 DEF Comes, IsDrop, Square, nsquare
<1>6. Lives(c, m)
  BY <1>2, <1>5, PromotionsComeAs DEF Lives
<1> QED BY <1>1, <1>4, <1>6 DEF Good

(* The steps of pawns.                                                     *)
LEMMA PushIsGood ==
  ASSUME NEW p, IsPosition(p), Copies(p), NEW c \in Colour, KingIsSafe(c, p),
         NEW T \in SUBSET Square, T \cap p.occ[c] = {}, NEW promo \in BOOLEAN,
         ~promo => \A t \in T : Row(c, t) > 0
  PROVE  \A m \in Push(c, p, T, promo) : Good(c, p, m)
<1> SUFFICES ASSUME NEW t \in p.pawn_atk[c] \cap T
             PROVE  Good(c, p, Board(p, pawn, promo, t - Ahead(c), t))
  BY DEF Push
<1>1. t - Ahead(c) \in Square /\ t = (t - Ahead(c)) + Ahead(c) /\ p.board[t - Ahead(c)] = Signed(c, pawn)
  BY PieceOf
<1>2. is_attacked_by(c, p, t)
  BY DEF is_attacked_by
<1>3. pawn \in Kinds /\ pawn \in Promotable /\ pawn # knight
  BY DEF Kinds, Promotable, pawn, knight
<1> QED BY <1>1, <1>2, <1>3, BoardMoveIsGood

(* The steps of any other piece.                                           *)
LEMMA GoIsGood ==
  ASSUME NEW p, IsPosition(p), Copies(p), NEW c \in Colour, KingIsSafe(c, p),
         NEW k \in Kinds, k # pawn, NEW S, \A s \in S : s \in Square /\ p.board[s] = Signed(c, k),
         NEW T, T \cap p.occ[c] = {}, NEW promo \in BOOLEAN, promo => k \in Promotable,
         k = knight /\ ~promo => \A t \in T \cap Square : Row(c, t) > 1
  PROVE  \A m \in Go(c, p, k, S, T, promo) : Good(c, p, m)
<1> SUFFICES ASSUME NEW s \in S, NEW t \in Reach(c, p, k, s) \cap T
             PROVE  Good(c, p, Board(p, k, promo, s, t))
  BY DEF Go
<1>1. t \in Square /\ is_attacked_by(c, p, t)
  BY WhatIsReachedIsAttacked
<1> QED BY <1>1, BoardMoveIsGood

(* Which kinds are the same.                                               *)
LEMMA KindsApart ==
  /\ {pawn, lance, knight, silver, bishop, rook, horse, dragon} \cup Golds \subseteq BoardKinds
  /\ BoardKinds \subseteq Kinds /\ king \in Kinds /\ king # pawn /\ king # knight
  /\ pawn \notin Golds /\ knight \notin Golds
  /\ pawn \notin {lance, knight, silver, bishop, rook, horse, dragon}
  /\ knight \notin {lance, silver, bishop, rook, horse, dragon}
  /\ {pawn, lance, knight, silver, bishop, rook} = Promotable
  BY DEF Promotable, BoardKinds, Kinds, Golds, gold, promote, pawn, lance, knight, silver,
         bishop, rook,
         king, horse, dragon

(* The steps of silvers.                                                   *)
LEMMA SilverIsGood ==
  ASSUME NEW p, IsPosition(p), Copies(p), NEW c \in Colour, KingIsSafe(c, p),
         NEW S, \A s \in S : s \in Square /\ p.board[s] = Signed(c, silver), NEW T, T \cap p.occ[c] = {}
  PROVE  \A m \in SilverMoves(c, p, S, T) : Good(c, p, m)
<1>1. silver \in Kinds /\ silver # pawn /\ silver # knight /\ silver \in Promotable
  BY KindsApart
<1>2. \A m \in Go(c, p, silver, S, T, FALSE) : Good(c, p, m)
  BY <1>1, GoIsGood
<1>3. ASSUME NEW s \in S, NEW U, U \subseteq T PROVE \A m \in Go(c, p, silver, {s}, U, TRUE) : Good(c, p, m)
  <2>1. U \cap p.occ[c] = {}
    BY <1>3
  <2> QED BY <1>1, <2>1, GoIsGood
<1>4. \A s \in S : (IF s \in Zone(c) THEN T ELSE T \cap Zone(c)) \subseteq T
  OBVIOUS
<1> QED BY <1>2, <1>3, <1>4 DEF SilverMoves

(* The steps of lances, bishops and rooks that promote where they may.     *)
LEMMA ForcedIsGood ==
  ASSUME NEW p, IsPosition(p), Copies(p), NEW c \in Colour, KingIsSafe(c, p),
         NEW k \in {lance, bishop, rook}, NEW S, \A s \in S : s \in Square /\ p.board[s] = Signed(c, k),
         NEW T, T \cap p.occ[c] = {}
  PROVE  \A m \in ForcedPromotion(c, p, k, S, T) : Good(c, p, m)
<1>1. k \in Kinds /\ k # pawn /\ k # knight /\ k \in Promotable
  BY KindsApart
<1>2. ASSUME NEW s \in S, NEW U, U \subseteq T, NEW promo \in BOOLEAN
      PROVE  \A m \in Go(c, p, k, {s}, U, promo) : Good(c, p, m)
  <2>1. U \cap p.occ[c] = {}
    BY <1>2
  <2> QED BY <1>1, <2>1, GoIsGood
<1>3. \A s \in S : LET U == IF s \in Zone(c) THEN T ELSE T \cap Zone(c) IN U \subseteq T /\ T \ U \subseteq T
  OBVIOUS
<1> QED BY <1>2, <1>3 DEF ForcedPromotion

(* The steps of what moves as a gold.                                      *)
LEMMA GoldsAreGood ==
  ASSUME NEW p, IsPosition(p), Copies(p), NEW c \in Colour, KingIsSafe(c, p),
         NEW T, T \cap p.occ[c] = {}
  PROVE  \A m \in AsGold(c, p, T) : Good(c, p, m)
<1> SUFFICES ASSUME NEW s \in p.union[c].tgold, NEW m \in Go(c, p, Kind(p, s), {s}, T, FALSE) PROVE Good(c, p, m)
  BY DEF AsGold
<1>1. p.union[c].tgold = OnBoard(p.board, c, Golds)
  BY DEF Copies, Unions
<1>2. PICK k \in Golds : s \in Square /\ p.board[s] = Signed(c, k)
  BY <1>1 DEF OnBoard
<1>3. k \in Kinds /\ k # pawn /\ k # knight
  BY KindsApart
<1>4. Kind(p, s) = k
  BY <1>2, <1>3, KindOfSigned
<1>5. \A x \in {s} : x \in Square /\ p.board[x] = Signed(c, k)
  BY <1>2
<1>6. \A x \in Go(c, p, k, {s}, T, FALSE) : Good(c, p, x)
  BY <1>3, <1>5, GoIsGood
<1> QED BY <1>4, <1>6

(* The steps of the king.                                                  *)
LEMMA KingIsGood ==
  ASSUME NEW p, IsPosition(p), Copies(p), NEW c \in Colour, KingIsSafe(c, p),
         NEW T, T \cap p.occ[c] = {}
  PROVE  \A m \in Go(c, p, king, {p.sq_king[c]}, T, FALSE) : Good(c, p, m)
<1>1. \A s \in {p.sq_king[c]} : s \in Square /\ p.board[s] = Signed(c, king)
  BY PieceOf
<1> QED BY <1>1, KindsApart, GoIsGood

(* The steps of the pieces of one bitboard.                                *)
LEMMA PieceIsGood ==
  ASSUME NEW p, IsPosition(p), Copies(p), NEW c \in Colour, KingIsSafe(c, p),
         NEW k \in BoardKinds \ {pawn}, NEW S, S \subseteq p.bb[c][k],
         NEW T, T \cap p.occ[c] = {}, NEW promo \in BOOLEAN, promo => k \in Promotable,
         k = knight /\ ~promo => \A t \in T \cap Square : Row(c, t) > 1
  PROVE  \A m \in Go(c, p, k, S, T, promo) : Good(c, p, m)
<1>1. \A s \in S : s \in Square /\ p.board[s] = Signed(c, k)
  BY PieceOf
<1>2. k \in Kinds
  BY KindsApart
<1> QED BY <1>1, <1>2, GoIsGood

(* The squares of the other side, and the empty ones, hold no own piece.   *)
LEMMA FreeOfOwn ==
  ASSUME NEW p, IsPosition(p), Copies(p), NEW c \in Colour
  PROVE  /\ p.occ[Flip(c)] \subseteq Square /\ p.occ[Flip(c)] \cap p.occ[c] = {}
         /\ Movable(c, p) \subseteq Square /\ Movable(c, p) \cap p.occ[c] = {}
         /\ Empty(p) \subseteq Square /\ Empty(p) \cap p.occ[c] = {}
         /\ \A t \in Empty(p) : p.board[t] = empty
<1>1. Flip(c) \in Colour /\ Flip(c) # c
  BY Flips
<1>2. \A e \in Colour : p.occ[e] = OnBoard(p.board, e, Kinds)
  BY DEF Copies
<1>3. p.occ[Flip(c)] \subseteq Square
  BY <1>1, <1>2 DEF OnBoard
<1>4. ASSUME NEW s \in p.occ[Flip(c)], s \in p.occ[c] PROVE FALSE
  <2>1. PICK k \in Kinds : p.board[s] = Signed(c, k)
    BY <1>2, <1>4 DEF OnBoard
  <2>2. PICK j \in Kinds : p.board[s] = Signed(Flip(c), j)
    BY <1>1, <1>2 DEF OnBoard
  <2>3. PICK e \in Colour : e = Flip(c) /\ e # c
    BY <1>1
  <2>4. Signed(c, k) = Signed(e, j)
    BY <2>1, <2>2, <2>3, Zenon
  <2> QED BY <2>3, <2>4, SignedIsOne
<1>5. ASSUME NEW t \in Empty(p) PROVE t \in Square /\ t \notin p.occ[c] /\ p.board[t] = empty
  <2>1. t \in Square /\ \A e \in Colour : t \notin p.occ[e]
    BY DEF Empty, Colour
  <2>2. p.board[t] \in Pieces
    BY <2>1 DEF IsPosition
  <2>3. \A e \in Colour, k \in Kinds : p.board[t] # Signed(e, k)
    BY <2>1, PiecesInCopies
  <2> QED BY <2>1, <2>2, <2>3 DEF Pieces
<1> QED BY <1>3, <1>4, <1>5 DEF Movable

(* The ranks where a pawn or a knight can move again.                      *)
LEMMA Ranks ==
  ASSUME NEW c
  PROVE  /\ \A t \in Square \ Zone(c) : Row(c, t) > 2
         /\ \A t \in Square \ Deep(c) : Row(c, t) > 1
<1>1. \A t \in Square : Row(c, t) \in Int
  BY SquareParts DEF Row, airank
<1> QED BY <1>1 DEF Zone, Deep

(* GenCaptures makes good moves only.                                      *)
LEMMA CapturesAreGood ==
  ASSUME NEW p, IsPosition(p), Copies(p), NEW c \in Colour, KingIsSafe(c, p)
  PROVE  \A m \in gen_captures(c, p) : Good(c, p, m)
<1>1. /\ p.occ[Flip(c)] \subseteq Square /\ p.occ[Flip(c)] \cap p.occ[c] = {}
      /\ Movable(c, p) \subseteq Square /\ Movable(c, p) \cap p.occ[c] = {}
  BY FreeOfOwn
<1> DEFINE capture == p.occ[Flip(c)]
<1> HIDE DEF capture
<1>2. capture \subseteq Square /\ capture \cap p.occ[c] = {}
  BY <1>1 DEF capture
<1>3. \A m \in cap_steps(c, p) : Good(c, p, m)
  <2>1. \A m \in Push(c, p, Movable(c, p) \cap Zone(c), TRUE) : Good(c, p, m)
    BY <1>1, PushIsGood
  <2>2. \A m \in Push(c, p, capture \ Zone(c), FALSE) : Good(c, p, m)
    <3>1. \A t \in capture \ Zone(c) : Row(c, t) > 0
      <4>1. \A t \in Square : Row(c, t) \in Int
        BY SquareParts DEF Row, airank
      <4> QED BY <1>2, <4>1, Ranks
    <3> QED BY <1>2, <3>1, PushIsGood
  <2>3. \A m \in SilverMoves(c, p, p.bb[c][silver], capture) : Good(c, p, m)
    BY <1>2, PieceOf, KindsApart, SilverIsGood
  <2>4. \A m \in AsGold(c, p, capture) : Good(c, p, m)
    BY <1>2, GoldsAreGood
  <2>5. \A m \in Go(c, p, king, {p.sq_king[c]}, capture, FALSE) : Good(c, p, m)
    BY <1>2, KingIsGood
  <2> QED BY <2>1, <2>2, <2>3, <2>4, <2>5 DEF cap_steps, capture
<1>4. \A m \in cap_sliders(c, p) : Good(c, p, m)
  <2>1. ASSUME NEW k \in {bishop, rook}, NEW s \in p.bb[c][k], NEW T, T \cap p.occ[c] = {}
        PROVE  \A m \in ForcedPromotion(c, p, k, {s}, T) : Good(c, p, m)
    <3>1. \A x \in {s} : x \in Square /\ p.board[x] = Signed(c, k)
      BY PieceOf, KindsApart
    <3> QED BY <2>1, <3>1, ForcedIsGood
  <2>2. \A s : (IF s \in Zone(c) THEN Movable(c, p) ELSE capture \cup (Movable(c, p) \cap Zone(c))) \cap p.occ[c] = {}
    BY <1>1, <1>2
  <2> QED BY <2>1, <2>2 DEF cap_sliders, capture
<1>5. \A m \in cap_promoted(c, p) : Good(c, p, m)
  <2>1. \A m \in Go(c, p, horse, p.bb[c][horse], capture, FALSE) : Good(c, p, m)
    BY <1>2, KindsApart, PieceIsGood
  <2>2. \A m \in Go(c, p, dragon, p.bb[c][dragon], capture, FALSE) : Good(c, p, m)
    BY <1>2, KindsApart, PieceIsGood
  <2> QED BY <2>1, <2>2 DEF cap_promoted, capture
<1>6. ASSUME NEW k \in {lance, knight} PROVE \A m \in cap_far(c, p, k) : Good(c, p, m)
  <2>1. \A m \in Go(c, p, k, p.bb[c][k], Movable(c, p) \cap Zone(c), TRUE) : Good(c, p, m)
    BY <1>1, KindsApart, PieceIsGood
  <2>2. \A m \in Go(c, p, k, p.bb[c][k], capture \ Deep(c), FALSE) : Good(c, p, m)
    <3>1. \A t \in (capture \ Deep(c)) \cap Square : Row(c, t) > 1
      BY Ranks
    <3> QED BY <1>2, <3>1, KindsApart, PieceIsGood
  <2> QED BY <2>1, <2>2 DEF cap_far, capture
<1> QED BY <1>3, <1>4, <1>5, <1>6 DEF gen_captures

(* GenNoCaptures makes good moves only.                                    *)
LEMMA QuietMovesAreGood ==
  ASSUME NEW p, IsPosition(p), Copies(p), NEW c \in Colour, KingIsSafe(c, p)
  PROVE  \A m \in gen_nocaptures(c, p) : Good(c, p, m)
<1>1. Empty(p) \subseteq Square /\ Empty(p) \cap p.occ[c] = {}
  BY FreeOfOwn
<1>2. \A m \in nocap_steps(c, p) : Good(c, p, m)
  <2>1. \A m \in Push(c, p, Empty(p) \ Zone(c), FALSE) : Good(c, p, m)
    <3>1. \A t \in Empty(p) \ Zone(c) : Row(c, t) > 0
      <4>1. \A t \in Square : Row(c, t) \in Int
        BY SquareParts DEF Row, airank
      <4> QED BY <1>1, <4>1, Ranks
    <3> QED BY <1>1, <3>1, PushIsGood
  <2>2. \A m \in SilverMoves(c, p, p.bb[c][silver], Empty(p)) : Good(c, p, m)
    BY <1>1, PieceOf, KindsApart, SilverIsGood
  <2>3. \A m \in AsGold(c, p, Empty(p)) : Good(c, p, m)
    BY <1>1, GoldsAreGood
  <2>4. \A m \in Go(c, p, king, {p.sq_king[c]}, Empty(p), FALSE) : Good(c, p, m)
    BY <1>1, KingIsGood
  <2> QED BY <2>1, <2>2, <2>3, <2>4 DEF nocap_steps
<1>3. \A m \in nocap_sliders(c, p) : Good(c, p, m)
  <2>1. ASSUME NEW k \in {bishop, rook, horse, dragon}, NEW S, S \subseteq p.bb[c][k], NEW T, T \subseteq Empty(p)
        PROVE  \A m \in Go(c, p, k, S, T, FALSE) : Good(c, p, m)
    <3>1. T \cap p.occ[c] = {}
      BY <1>1, <2>1
    <3> QED BY <2>1, <3>1, KindsApart, PieceIsGood
  <2>2. ASSUME NEW k \in {lance, knight} PROVE \A m \in Go(c, p, k, p.bb[c][k], Empty(p) \ Deep(c), FALSE) : Good(c, p, m)
    <3>1. \A t \in (Empty(p) \ Deep(c)) \cap Square : Row(c, t) > 1
      BY Ranks
    <3> QED BY <1>1, <3>1, KindsApart, PieceIsGood
  <2> QED BY <2>1, <2>2 DEF nocap_sliders
<1> QED BY <1>2, <1>3 DEF gen_nocaptures

(* The promotions declined are good moves.                                 *)
LEMMA DeclinedAreGood ==
  ASSUME NEW p, IsPosition(p), Copies(p), NEW c \in Colour, KingIsSafe(c, p), NEW T \in SUBSET Square, T \cap p.occ[c] = {}
  PROVE  \A m \in Declined(c, p, T) : Good(c, p, m)
<1> DEFINE second == {s \in Square : Row(c, s) = 1}
           third == {s \in Square : Row(c, s) = 2}
<1>1. \A m \in Push(c, p, T \cap (second \cup third), FALSE) : Good(c, p, m)
  <2>1. \A t \in T \cap (second \cup third) : Row(c, t) > 0
    OBVIOUS
  <2> QED BY <2>1, PushIsGood
<1>2. ASSUME NEW k \in {bishop, rook}, NEW s \in p.bb[c][k], NEW U, U \subseteq T
      PROVE  \A m \in Go(c, p, k, {s}, U, FALSE) : Good(c, p, m)
  <2>1. U \cap p.occ[c] = {} /\ {s} \subseteq p.bb[c][k]
    BY <1>2
  <2> QED BY <2>1, KindsApart, PieceIsGood
<1>3. \A m \in Go(c, p, lance, p.bb[c][lance], T \cap second, FALSE) : Good(c, p, m)
  <2>1. (T \cap second) \cap p.occ[c] = {}
    OBVIOUS
  <2> QED BY <2>1, KindsApart, PieceIsGood
<1>4. \A s : (IF s \in Zone(c) THEN T ELSE T \cap Zone(c)) \subseteq T
  OBVIOUS
<1> DEFINE of(k) == UNION {Go(c, p, k, {s}, IF s \in Zone(c) THEN T ELSE T \cap Zone(c), FALSE) : s \in p.bb[c][k]}
<1>5. Declined(c, p, T) = Push(c, p, T \cap (second \cup third), FALSE) \cup of(bishop) \cup of(rook)
                          \cup Go(c, p, lance, p.bb[c][lance], T \cap second, FALSE)
  BY DEF Declined
<1>6. \A m \in of(bishop) : Good(c, p, m)
  BY <1>2, <1>4
<1>7. \A m \in of(rook) : Good(c, p, m)
  BY <1>2, <1>4
<1> HIDE DEF second, third, of
<1> QED BY <1>1, <1>3, <1>5, <1>6, <1>7

(* GenDrop makes good moves only.                                          *)
LEMMA DropsAreGood ==
  ASSUME NEW p, IsPosition(p), Copies(p), NEW c \in Colour, KingIsSafe(c, p), NEW T \in SUBSET Square, \A t \in T : p.board[t] = empty
  PROVE  \A m \in DropsOn(c, p, T) : Good(c, p, m)
<1> DEFINE from == [k \in Hands |-> CASE k = knight -> 2 [] k \in {pawn, lance} -> 1 [] OTHER -> 0]
<1> SUFFICES ASSUME NEW k \in Hands, p.hand[c][k] > 0, NEW t \in T, Row(c, t) >= from[k]
             PROVE  Good(c, p, DropMove(k, t))
  BY DEF DropsOn
<1>1. from[pawn] = 1 /\ from[knight] = 2
  BY DEF Hands, pawn, knight, lance, rook
<1> HIDE DEF from
<1>2. PICK m : m = DropMove(k, t)
  OBVIOUS
<1>3. m.from = Drop2From(k) /\ m.to = t /\ m.piece = empty /\ m.promo = FALSE /\ m.cap = empty
  BY <1>2 DEF DropMove, Move
<1>4. Fits(c, p, m)
  BY <1>3 DEF Fits, DropFits
<1>5. Comes(m) = k
  BY <1>3 DEF Comes, IsDrop, Drop2From, From2Drop, nsquare, Hands, pawn, rook
<1>6. Row(c, t) \in Int
  BY SquareParts DEF Row, airank
<1>7. Lives(c, m)
  BY <1>1, <1>3, <1>5, <1>6 DEF Lives
<1> QED BY <1>2, <1>4, <1>7 DEF Good

(* A set of numbers has a least one.                                       *)
LEMMA LeastOfNaturals ==
  ASSUME NEW S \in SUBSET Nat, S # {} PROVE \E n \in S : \A k \in S : n <= k
<1> DEFINE R == {x \in Nat \X Nat : x[1] < x[2]}
<1>1. IsWellFoundedOn(R, Nat)
  BY NatLessThanWellFounded DEF OpToRel
<1>2. \E n \in S : \A k \in S : ~ (<<k, n>> \in R)
  <2> HIDE DEF R
  <2> QED BY <1>1, WFMin
<1>3. PICK n \in S : \A k \in S : ~ (<<k, n>> \in R)
  BY <1>2
<1>4. \A k \in S : n <= k
  <2> SUFFICES ASSUME NEW k \in S PROVE n <= k
    OBVIOUS
  <2>1. ~ (k < n)
    BY <1>3
  <2>2. k \in Nat /\ n \in Nat
    OBVIOUS
  <2> HIDE DEF R
  <2> QED BY <2>1, <2>2
<1> QED BY <1>4

(* LastOne is one of the squares it looks at.                              *)
LEMMA FurthestIsOneOf ==
  ASSUME NEW c \in Colour, NEW S \in SUBSET Square, S # {} PROVE Furthest(c, S) \in S
<1> DEFINE N == {80 - Rel(c, s) : s \in S}
<1>1. \A s \in Square : Rel(c, s) \in 0..80
  BY DEF Rel, Square, nsquare
<1>2. N \in SUBSET Nat
  <2>1. \A s \in S : 80 - Rel(c, s) \in Nat
    BY <1>1
  <2> QED BY <2>1
<1>3. N # {}
  OBVIOUS
<1>4. PICK n \in N : \A k \in N : n <= k
  <2> HIDE DEF N
  <2> QED BY <1>2, <1>3, LeastOfNaturals
<1>5. PICK s \in S : n = 80 - Rel(c, s)
  BY <1>4
<1>6. \A t \in S : Rel(c, t) <= Rel(c, s)
  <2> SUFFICES ASSUME NEW t \in S PROVE Rel(c, t) <= Rel(c, s)
    OBVIOUS
  <2>1. 80 - Rel(c, s) <= 80 - Rel(c, t)
    BY <1>4, <1>5
  <2>2. Rel(c, s) \in Int /\ Rel(c, t) \in Int
    BY <1>1
  <2> QED BY <2>1, <2>2
<1> QED BY <1>6 DEF Furthest

(* The squares between two squares.                                        *)
LEMMA BetweenIsSquares ==
  ASSUME NEW s \in Square, NEW t \in Square, NEW u \in abb_obstacle[s][t]
  PROVE  /\ u \in Square /\ u # s /\ u # t /\ (u > s <=> u < t)
         /\ \E e \in 2..5 : Joined(e, s, t) /\ Joined(e, s, u)
<1>1. abb_obstacle[s][t] = {v \in Square \ {s, t} : (v > s <=> v < t) /\ \E e \in 2..5 : Joined(e, s, t) /\ Joined(e, s, v)}
  BY DEF abb_obstacle
<1> QED BY <1>1

(* The four kinds of lines, by rank and file.                              *)
LEMMA JoinedBy ==
  ASSUME NEW s \in Square, NEW t \in Square
  PROVE  /\ Joined(2, s, t) <=> s % 9 = t % 9
         /\ Joined(3, s, t) <=> s \div 9 = t \div 9
         /\ Joined(4, s, t) <=> (s \div 9) + (s % 9) = (t \div 9) + (t % 9)
         /\ Joined(5, s, t) <=> (s \div 9) - (s % 9) = (t \div 9) - (t % 9)
  BY DEF Joined, LinesOf

(* Three squares, by rank and file, on one diagonal of each kind: (rs, fs),    *)
(* (rs + i, fs + j) and (ru, fu).  These are direc_diag1 and direc_diag2 of    *)
(* shogi.h.                                                                    *)
AlignedSum(rs, fs, ru, fu, i, j) ==
  rs + fs = (rs + i) + (fs + j) /\ rs + fs = ru + fu

AlignedDifference(rs, fs, ru, fu, i, j) ==
  rs - fs = (rs + i) - (fs + j) /\ rs - fs = ru - fu

(* The third square's number is strictly between the numbers of the others.    *)
Apart(rs, fs, ru, fu, i, j) ==
  \/ 9 * ru + fu > 9 * rs + fs /\ 9 * ru + fu < 9 * (rs + i) + (fs + j)
  \/ 9 * ru + fu < 9 * rs + fs /\ 9 * ru + fu > 9 * (rs + i) + (fs + j)

(* Between two diagonal neighbours there is no square of their diagonal.       *)
LEMMA NothingOnTheSum ==
  ASSUME NEW rs \in Int, NEW fs \in Int, NEW ru \in Int, NEW fu \in Int,
         NEW i \in -1 .. 1, NEW j \in Int, AlignedSum(rs, fs, ru, fu, i, j)
  PROVE  ~Apart(rs, fs, ru, fu, i, j)
<1>1. j = 0 - i /\ fu = fs - (ru - rs)
  BY DEF AlignedSum
<1>2. ASSUME Apart(rs, fs, ru, fu, i, j) PROVE FALSE
  <2>1. (ru - rs > 0 /\ ru - rs < i) \/ (ru - rs < 0 /\ ru - rs > i)
    BY <1>1, <1>2 DEF Apart
  <2> QED BY <2>1
<1> QED BY <1>2

(* The same on the other diagonal.                                             *)
LEMMA NothingOnTheDifference ==
  ASSUME NEW rs \in Int, NEW fs \in Int, NEW ru \in Int, NEW fu \in Int,
         NEW i \in -1 .. 1, NEW j \in Int, AlignedDifference(rs, fs, ru, fu, i, j)
  PROVE  ~Apart(rs, fs, ru, fu, i, j)
<1>1. j = i /\ fu = fs + (ru - rs)
  BY DEF AlignedDifference
<1>2. ASSUME Apart(rs, fs, ru, fu, i, j) PROVE FALSE
  <2>1. (ru - rs > 0 /\ ru - rs < i) \/ (ru - rs < 0 /\ ru - rs > i)
    BY <1>1, <1>2 DEF Apart
  <2> QED BY <2>1
<1> QED BY <1>2

(* Neighbours have nothing in between, and a knight is on no line.         *)
LEMMA NothingBetweenNeighbours ==
  ASSUME NEW s \in Square, NEW i \in -1 .. 1, NEW j \in -1 .. 1,
         (s \div 9) + i \in 0..8, (s % 9) + j \in 0..8, NEW t, t = s + 9 * i + j
  PROVE  t \in Square /\ abb_obstacle[s][t] = {}
<1>1. t \in Square /\ t \div 9 = (s \div 9) + i /\ t % 9 = (s % 9) + j
  BY SquareMoved
<1>2. ASSUME NEW u \in abb_obstacle[s][t] PROVE FALSE
  <2>1. u \in Square /\ u # s /\ u # t /\ (u > s <=> u < t)
    BY <1>1, <1>2, BetweenIsSquares
  <2>2. PICK e \in 2..5 : Joined(e, s, t) /\ Joined(e, s, u)
    BY <1>1, <1>2, BetweenIsSquares
  <2>3. PICK rs \in 0..8, fs \in 0..8, ru \in 0..8, fu \in 0..8 :
           rs = s \div 9 /\ fs = s % 9 /\ ru = u \div 9 /\ fu = u % 9
    BY <2>1, SquareParts
  <2>4. s = 9 * rs + fs /\ u = 9 * ru + fu
    BY <2>1, <2>3, SquareParts
  <2>5. t = 9 * (rs + i) + (fs + j)
    BY <2>4
  <2>6. (9 * ru + fu > 9 * rs + fs /\ 9 * ru + fu < 9 * (rs + i) + (fs + j))
        \/ (9 * ru + fu < 9 * rs + fs /\ 9 * ru + fu > 9 * (rs + i) + (fs + j))
    <3>1. (u > s /\ u < t) \/ (u < s /\ u > t)
      BY <1>1, <2>1 DEF Square
    <3> QED BY <2>4, <2>5, <3>1
  <2>7. CASE e = 2
    <3>1. fs = fs + j /\ fs = fu
      BY <1>1, <2>1, <2>2, <2>3, <2>7, JoinedBy
    <3> QED BY <2>6, <3>1
  <2>8. CASE e = 3
    <3>1. rs = rs + i /\ rs = ru
      BY <1>1, <2>1, <2>2, <2>3, <2>8, JoinedBy
    <3> QED BY <2>6, <3>1
  <2>9. CASE e = 4
    <3>1. rs + fs = (rs + i) + (fs + j) /\ rs + fs = ru + fu
      BY <1>1, <2>1, <2>2, <2>3, <2>9, JoinedBy
    <3>2. rs \in Int /\ fs \in Int /\ ru \in Int /\ fu \in Int /\ i \in Int /\ j \in Int
      OBVIOUS
    <3>3. AlignedSum(rs, fs, ru, fu, i, j)
      BY <3>1 DEF AlignedSum
    <3> QED BY <2>6, <3>2, <3>3, NothingOnTheSum DEF Apart
  <2>10. CASE e = 5
    <3>1. rs - fs = (rs + i) - (fs + j) /\ rs - fs = ru - fu
      BY <1>1, <2>1, <2>2, <2>3, <2>10, JoinedBy
    <3>2. rs \in Int /\ fs \in Int /\ ru \in Int /\ fu \in Int /\ i \in Int /\ j \in Int
      OBVIOUS
    <3>3. AlignedDifference(rs, fs, ru, fu, i, j)
      BY <3>1 DEF AlignedDifference
    <3> QED BY <2>6, <3>2, <3>3, NothingOnTheDifference DEF Apart
  <2> QED BY <2>7, <2>8, <2>9, <2>10
<1> QED BY <1>1, <1>2

(* Nothing is between the squares of a knight's step.                      *)
LEMMA NothingBetweenKnights ==
  ASSUME NEW s \in Square, NEW i \in {-2, 2}, NEW j \in {-1, 1},
         (s \div 9) + i \in 0..8, (s % 9) + j \in 0..8, NEW t, t = s + 9 * i + j
  PROVE  t \in Square /\ abb_obstacle[s][t] = {}
<1>1. t \in Square /\ t \div 9 = (s \div 9) + i /\ t % 9 = (s % 9) + j
  BY SquareMoved
<1>2. s \div 9 \in Int /\ s % 9 \in Int
  BY SquareParts
<1>3. ASSUME NEW u \in abb_obstacle[s][t] PROVE FALSE
  <2>1. PICK e \in 2..5 : Joined(e, s, t)
    BY <1>1, <1>3, BetweenIsSquares
  <2>2. ~Joined(2, s, t) /\ ~Joined(3, s, t) /\ ~Joined(4, s, t) /\ ~Joined(5, s, t)
    BY <1>1, <1>2, JoinedBy
  <2> QED BY <2>1, <2>2
<1> QED BY <1>1, <1>3

(* The squares with a piece on them.                                       *)
Occupied(p) == {s \in Square : p.board[s] # empty}

(* A square is occupied by one of the sides.                               *)
LEMMA OccupiedIsBoth ==
  ASSUME NEW p, IsPosition(p), Copies(p)
  PROVE  p.occ[black] \cup p.occ[white] = Occupied(p)
<1>1. ASSUME NEW s \in Occupied(p) PROVE s \in p.occ[black] \cup p.occ[white]
  <2>1. s \in Square /\ p.board[s] \in Pieces /\ p.board[s] # empty
    BY DEF Occupied, IsPosition
  <2>2. PICK e \in Colour, k \in Kinds : p.board[s] = Signed(e, k)
    BY <2>1 DEF Pieces
  <2>3. s \in p.occ[e]
    BY <2>1, <2>2, PiecesInCopies
  <2> QED BY <2>3 DEF Colour
<1>2. ASSUME NEW e \in Colour, NEW s \in p.occ[e] PROVE s \in Occupied(p)
  <2>1. s \in OnBoard(p.board, e, Kinds)
    BY DEF Copies
  <2>2. PICK k \in Kinds : s \in Square /\ p.board[s] = Signed(e, k)
    BY <2>1 DEF OnBoard
  <2>3. p.board[s] # empty
    <3>1. k \in Int /\ k # 0
      BY DEF Kinds
    <3> QED BY <2>2, <3>1 DEF Signed, empty
  <2> QED BY <2>2, <2>3 DEF Occupied
<1> QED BY <1>1, <1>2 DEF Colour

(* Steps of a piece leave nothing in between.                              *)
LEMMA NothingBetweenSteps ==
  ASSUME NEW s \in Square, NEW steps,
         \A d \in steps : \/ d[1] \in -1 .. 1 /\ d[2] \in -1 .. 1
                          \/ d[1] \in {-2, 2} /\ d[2] \in {-1, 1},
         NEW t \in set_attacks(s, steps)
  PROVE  t \in Square /\ abb_obstacle[s][t] = {}
<1>1. PICK d \in steps : OnTheBoard(airank(s) + d[1], aifile(s) + d[2]) /\ t = s + 9 * d[1] + d[2]
  BY DEF set_attacks
<1>2. (s \div 9) + d[1] \in 0..8 /\ (s % 9) + d[2] \in 0..8
  BY <1>1 DEF OnTheBoard, airank, aifile
<1>3. CASE d[1] \in -1 .. 1 /\ d[2] \in -1 .. 1
  BY <1>1, <1>2, <1>3, NothingBetweenNeighbours
<1>4. CASE d[1] \in {-2, 2} /\ d[2] \in {-1, 1}
  BY <1>1, <1>2, <1>4, NothingBetweenKnights
<1> QED BY <1>3, <1>4

(* Nothing is between the squares of a single step.                        *)
LEMMA StepsOfPieces ==
  ASSUME NEW e \in Colour, NEW s \in Square
  PROVE  /\ \A t \in Knight(e, s) : t \in Square /\ abb_obstacle[s][t] = {}
         /\ \A t \in Silver(e, s) : t \in Square /\ abb_obstacle[s][t] = {}
         /\ \A t \in Gold(e, s) : t \in Square /\ abb_obstacle[s][t] = {}
         /\ \A t \in abb_king_attacks[s] : t \in Square /\ abb_obstacle[s][t] = {}
<1> DEFINE Short(steps) == \A d \in steps : \/ d[1] \in -1 .. 1 /\ d[2] \in -1 .. 1
                                            \/ d[1] \in {-2, 2} /\ d[2] \in {-1, 1}
<1>1. Short(Turned(e, SilverSteps))
  BY DEF Turned, SilverSteps
<1>2. Short(Turned(e, GoldSteps))
  BY DEF Turned, GoldSteps
<1>3. Short(KnightSteps) /\ Short(Turned(white, KnightSteps))
  BY DEF Turned, KnightSteps
<1>4. Short(Around)
  BY DEF Around
<1>5. Silver(e, s) = set_attacks(s, Turned(e, SilverSteps)) /\ Gold(e, s) = set_attacks(s, Turned(e, GoldSteps))
  BY DEF Silver, Gold, abb_silver_attacks, abb_gold_attacks
<1>6. Knight(e, s) = set_attacks(s, KnightSteps) \/ Knight(e, s) = set_attacks(s, Turned(white, KnightSteps))
  <2>1. CASE e = black
    BY <2>1 DEF Knight, abb_knight_attacks, abb_b_knight_attacks, black
  <2>2. CASE e = white
    BY <2>2 DEF Knight, abb_knight_attacks, abb_w_knight_attacks, white
  <2> QED BY <2>1, <2>2 DEF Colour
<1>7. abb_king_attacks[s] = set_attacks(s, Around)
  BY DEF abb_king_attacks
<1>8. ASSUME NEW steps, Short(steps), NEW t \in set_attacks(s, steps) PROVE t \in Square /\ abb_obstacle[s][t] = {}
  BY <1>8, NothingBetweenSteps
<1>9. \A t \in Silver(e, s) : t \in Square /\ abb_obstacle[s][t] = {}
  <2> HIDE DEF Short
  <2> QED BY <1>1, <1>5, <1>8
<1>10. \A t \in Gold(e, s) : t \in Square /\ abb_obstacle[s][t] = {}
  <2> HIDE DEF Short
  <2> QED BY <1>2, <1>5, <1>8
<1>11. \A t \in Knight(e, s) : t \in Square /\ abb_obstacle[s][t] = {}
  <2> HIDE DEF Short
  <2> QED BY <1>3, <1>6, <1>8
<1>12. \A t \in abb_king_attacks[s] : t \in Square /\ abb_obstacle[s][t] = {}
  <2> HIDE DEF Short
  <2> QED BY <1>4, <1>7, <1>8
<1> QED BY <1>9, <1>10, <1>11, <1>12

(* A piece strikes along a line that holds no other piece.                 *)
LEMMA LinesAreClear ==
  ASSUME NEW p, IsPosition(p), Copies(p), NEW s \in Square
  PROVE  \A t \in AttackBishop(p, s) \cup AttackRank(p, s) \cup AttackFile(p, s) :
           t \in Square /\ abb_obstacle[s][t] \cap Occupied(p) = {}
<1>1. \A d \in 2..5 : \A t \in Slide(d, s, Occupied(p)) : t \in Square /\ abb_obstacle[s][t] \cap Occupied(p) = {}
  BY DEF Slide, Line
<1>2. p.rl90 = Occupied(p) /\ p.rr45 = Occupied(p) /\ p.rl45 = Occupied(p)
  BY DEF Copies, Occupied
<1>3. p.occ[black] \cup p.occ[white] = Occupied(p)
  BY OccupiedIsBoth
<1>4. AttackFile(p, s) = Slide(direc_file, s, Occupied(p)) /\ AttackRank(p, s) = Slide(direc_rank, s, Occupied(p))
  BY <1>2, <1>3 DEF AttackFile, abb_file_attacks, AttackRank, ai_rook_attacks_r0
<1>5. AttackDiag1(p, s) = Slide(direc_diag1, s, Occupied(p)) /\ AttackDiag2(p, s) = Slide(direc_diag2, s, Occupied(p))
  BY <1>2 DEF AttackDiag1, AttackDiag2, abb_bishop_attacks_rr45, abb_bishop_attacks_rl45
<1>6. direc_file \in 2..5 /\ direc_rank \in 2..5 /\ direc_diag1 \in 2..5 /\ direc_diag2 \in 2..5
  BY DEF direc_file, direc_rank, direc_diag1, direc_diag2
<1> QED BY <1>1, <1>4, <1>5, <1>6 DEF AttackBishop

(* Between a piece and what it attacks there is no piece.                  *)
LEMMA NothingInTheWay ==
  ASSUME NEW p, IsPosition(p), Copies(p), NEW e \in Colour, NEW k \in Square, NEW t \in Strikers(e, p, k)
  PROVE  t \in Square /\ abb_obstacle[k][t] \cap Occupied(p) = {}
<1>1. Flip(e) \in Colour
  BY Flips
<1>2. \/ t \in Knight(Flip(e), k) \/ t \in Silver(Flip(e), k) \/ t \in Gold(Flip(e), k) \/ t \in abb_king_attacks[k]
      \/ t \in AttackBishop(p, k) \/ t \in AttackRank(p, k) \/ t \in AttackFile(p, k)
  BY DEF Strikers
<1> QED BY <1>1, <1>2, StepsOfPieces, LinesAreClear

(* Nothing is between a pawn and the square ahead of it.                   *)
LEMMA AboveAndBelow ==
  ASSUME NEW k \in Square, NEW e, k - Ahead(e) \in Square
  PROVE  abb_obstacle[k][k - Ahead(e)] = {}
<1>1. PICK t \in Square : t = k - Ahead(e)
  OBVIOUS
<1>2. PICK i \in {-1, 1} : i = IF e = black THEN 1 ELSE -1
  OBVIOUS
<1>3. t = k + 9 * i + 0
  BY <1>1, <1>2 DEF Square, Ahead
<1>4. (k \div 9) + i \in 0..8 /\ (k % 9) + 0 \in 0..8
  BY <1>3, SquareParts DEF Square
<1>5. i \in -1 .. 1 /\ 0 \in -1 .. 1
  OBVIOUS
<1>6. abb_obstacle[k][t] = {}
  BY <1>3, <1>4, <1>5, NothingBetweenNeighbours
<1> QED BY <1>1, <1>6

(* Those who give check stand next to the king, or on a clear line to it.  *)
LEMMA CheckersAreEnemies ==
  ASSUME NEW p, IsPosition(p), Copies(p), NEW c \in Colour
  PROVE  /\ Checkers(c, p) \subseteq p.occ[Flip(c)]
         /\ Checkers(c, p) \subseteq Square
         /\ \A t \in Checkers(c, p) : abb_obstacle[p.sq_king[c]][t] \cap Occupied(p) = {}
<1>1. PICK k \in Square : k = p.sq_king[c]
  BY DEF IsPosition
<1>2. Checkers(c, p) \subseteq p.occ[Flip(c)]
  BY DEF Checkers
<1>3. p.occ[Flip(c)] \subseteq Square
  BY FreeOfOwn
<1>4. ASSUME NEW t \in Checkers(c, p) PROVE abb_obstacle[k][t] \cap Occupied(p) = {}
  <2>1. t \in attacks_to_piece(p, k) /\ t \in Square
    BY <1>1, <1>2, <1>3 DEF Checkers
  <2>2. CASE \E e \in Colour : t = k - Ahead(e)
    BY <2>1, <2>2, AboveAndBelow
  <2>3. CASE t \in Strikers(black, p, k) \cup Strikers(white, p, k)
    BY <2>3, NothingInTheWay DEF Colour
  <2> QED BY <2>1, <2>2, <2>3 DEF attacks_to_piece
<1> QED BY <1>1, <1>2, <1>3, <1>4

(* What attacks for a side is a piece of that side.                        *)
LEMMA StrikersAreOwn ==
  ASSUME NEW p, IsPosition(p), Copies(p), NEW e \in Colour, NEW k
  PROVE  Strikers(e, p, k) \subseteq p.occ[e]
<1>1. p.occ[e] = OnBoard(p.board, e, Kinds)
  BY DEF Copies
<1>2. \A K \in SUBSET Kinds : OnBoard(p.board, e, K) \subseteq p.occ[e]
  BY <1>1 DEF OnBoard
<1>3. \A j \in BoardKinds : p.bb[e][j] \subseteq p.occ[e]
  <2>1. \A j \in BoardKinds : p.bb[e][j] = OnBoard(p.board, e, {j}) /\ {j} \in SUBSET Kinds
    BY KindsAreNumbers DEF Copies
  <2> QED BY <1>2, <2>1
<1>4. \A u \in DOMAIN Unions : p.union[e][u] \subseteq p.occ[e]
  <2>1. \A u \in DOMAIN Unions : p.union[e][u] = OnBoard(p.board, e, Unions[u])
    BY DEF Copies
  <2> QED BY <1>2, <2>1, SetsOfKinds
<1>5. "tgold" \in DOMAIN Unions /\ "hdk" \in DOMAIN Unions /\ "bh" \in DOMAIN Unions /\ "rd" \in DOMAIN Unions
  BY DEF Unions
<1>6. p.union[e].tgold \subseteq p.occ[e] /\ p.union[e].hdk \subseteq p.occ[e]
      /\ p.union[e].bh \subseteq p.occ[e] /\ p.union[e].rd \subseteq p.occ[e]
  BY <1>4, <1>5
<1>7. p.bb[e][knight] \subseteq p.occ[e] /\ p.bb[e][silver] \subseteq p.occ[e] /\ p.bb[e][lance] \subseteq p.occ[e]
  BY <1>3, KindsApart
<1> QED BY <1>6, <1>7 DEF Strikers

(* In check, something gives check.                                        *)
LEMMA SomethingGivesCheck ==
  ASSUME NEW p, IsPosition(p), Copies(p), NEW c \in Colour, InCheck(c, p)
  PROVE  Checkers(c, p) # {}
<1>1. PICK e \in Colour : e = Flip(c)
  BY Flips
<1>2. is_attacked_by(e, p, p.sq_king[c])
  BY <1>1 DEF InCheck
<1>3. CASE p.sq_king[c] \in p.pawn_atk[e]
  <2>1. PICK t : t = p.sq_king[c] - Ahead(e)
    OBVIOUS
  <2>2. t \in Square /\ p.board[t] = Signed(e, pawn)
    BY <1>3, <2>1, PieceOf
  <2>3. t \in attacks_to_piece(p, p.sq_king[c])
    BY <2>1, <2>2 DEF attacks_to_piece
  <2>4. t \in p.occ[e]
    BY <2>2, KindsApart, PiecesInCopies
  <2> QED BY <1>1, <2>3, <2>4 DEF Checkers
<1>4. CASE Strikers(e, p, p.sq_king[c]) # {}
  <2>1. PICK t : t \in Strikers(e, p, p.sq_king[c])
    BY <1>4
  <2>2. t \in p.occ[e]
    BY <2>1, StrikersAreOwn
  <2>3. t \in attacks_to_piece(p, p.sq_king[c])
    BY <2>1 DEF attacks_to_piece, Colour
  <2> QED BY <1>1, <2>2, <2>3 DEF Checkers
<1> QED BY <1>2, <1>3, <1>4 DEF is_attacked_by

(* The squares between the king and who checks it are empty.               *)
LEMMA BetweenIsEmpty ==
  ASSUME NEW p, IsPosition(p), Copies(p), NEW c \in Colour, InCheck(c, p)
  PROVE  /\ Between(c, p) \subseteq Square
         /\ \A t \in Between(c, p) : p.board[t] = empty
         /\ (Between(c, p) \cup Checkers(c, p)) \subseteq Square
         /\ (Between(c, p) \cup Checkers(c, p)) \cap p.occ[c] = {}
<1>1. Checkers(c, p) # {} /\ Checkers(c, p) \subseteq Square /\ Checkers(c, p) \subseteq p.occ[Flip(c)]
  BY SomethingGivesCheck, CheckersAreEnemies
<1>2. PICK t \in Checkers(c, p) : t = Furthest(c, Checkers(c, p))
  BY <1>1, FurthestIsOneOf
<1>3. PICK k \in Square : k = p.sq_king[c]
  BY DEF IsPosition
<1>4. Between(c, p) = abb_obstacle[k][t]
  BY <1>2, <1>3 DEF Between
<1>5. abb_obstacle[k][t] \cap Occupied(p) = {}
  BY <1>2, <1>3, CheckersAreEnemies
<1>6. \A u \in Between(c, p) : u \in Square
  BY <1>1, <1>2, <1>4, BetweenIsSquares
<1>7. \A u \in Between(c, p) : p.board[u] = empty
  BY <1>4, <1>5, <1>6 DEF Occupied
<1>8. \A u \in p.occ[c] : u \notin Between(c, p)
  <2>1. p.occ[c] \subseteq Occupied(p)
    BY OccupiedIsBoth DEF Colour
  <2> QED BY <1>4, <1>5, <2>1
<1>9. p.occ[Flip(c)] \cap p.occ[c] = {}
  BY FreeOfOwn
<1> QED BY <1>1, <1>6, <1>7, <1>8, <1>9

(* A king that leaves its square makes a good move.                        *)
LEMMA TheKingsWayOutIsGood ==
  ASSUME NEW p, IsPosition(p), Copies(p), NEW c \in Colour, KingIsSafe(c, p)
  PROVE  \A m \in evade_king(c, p) : Good(c, p, m)
<1>1. PICK k \in Square : k = p.sq_king[c]
  BY DEF IsPosition
<1>2. Occupying(c, p, k).occ[c] = Toggle(p.occ[c], {k})
  <2>1. "occ" \in DOMAIN p /\ "rl90" # "occ" /\ "rl45" # "occ" /\ "rr45" # "occ"
    BY DEF IsPosition, HasFields, Fields
  <2>2. p.occ \in [Colour -> SUBSET Square]
    BY DEF IsPosition
  <2> QED BY <2>1, <2>2 DEF Occupying
<1> SUFFICES ASSUME NEW t \in abb_king_attacks[k], t \notin Toggle(p.occ[c], {k})
             PROVE  Good(c, p, Board(p, king, FALSE, k, t))
  BY <1>1, <1>2 DEF evade_king
<1>3. t # k
  <2>1. t \in set_attacks(k, Around)
    BY DEF abb_king_attacks
  <2>2. PICK d \in Around : t = k + 9 * d[1] + d[2]
    BY <2>1 DEF set_attacks
  <2>3. PICK i \in -1..1, j \in -1..1 : d[1] = i /\ d[2] = j /\ (i # 0 \/ j # 0)
    BY DEF Around
  <2> QED BY <2>2, <2>3 DEF Square
<1>4. {t} \cap p.occ[c] = {}
  BY <1>3 DEF Toggle
<1>5. Reach(c, p, king, k) = abb_king_attacks[k]
  BY ReachOfKinds
<1>6. Board(p, king, FALSE, k, t) \in Go(c, p, king, {p.sq_king[c]}, {t}, FALSE)
  BY <1>1, <1>5 DEF Go
<1> QED BY <1>4, <1>6, KingIsGood

(* Answers to a check by pieces that are not pinned: onto target.          *)
LEMMA StepsInAnswerAreGood ==
  ASSUME NEW p, IsPosition(p), Copies(p), NEW c \in Colour, KingIsSafe(c, p),
         NEW target \in SUBSET Square, target \cap p.occ[c] = {}
  PROVE  \A m \in evade_steps(c, p, target) : Good(c, p, m)
<1> DEFINE free(k) == {s \in p.bb[c][k] : Free(c, p, s)}
           pushed == {t \in target \cap p.pawn_atk[c] : Free(c, p, t - Ahead(c))}
           landing(s) == LET reach == AttackLance(c, p, s) \cap target
                         IN IF reach = {} THEN {} ELSE {Furthest(c, reach)}
           far(k, S, T) == Go(c, p, k, S, T \cap Zone(c), TRUE)
                             \cup Go(c, p, k, S, T \ Deep(c), FALSE)
<1>1. \A m \in Push(c, p, pushed \cap Zone(c), TRUE) : Good(c, p, m)
  BY PushIsGood
<1>2. \A m \in Push(c, p, pushed \ Zone(c), FALSE) : Good(c, p, m)
  <2>1. \A t \in pushed \ Zone(c) : Row(c, t) > 0
    <3>1. \A t \in Square : Row(c, t) \in Int
      BY SquareParts DEF Row, airank
    <3> QED BY <3>1, Ranks
  <2> QED BY <2>1, PushIsGood
<1>3. ASSUME NEW k \in {lance, knight}, NEW S, S \subseteq p.bb[c][k], NEW T, T \subseteq target
      PROVE  \A m \in far(k, S, T) : Good(c, p, m)
  <2>1. (T \cap Zone(c)) \cap p.occ[c] = {} /\ (T \ Deep(c)) \cap p.occ[c] = {}
    BY <1>3
  <2>2. k \in BoardKinds \ {pawn} /\ k \in Promotable
    BY KindsApart
  <2>3. \A t \in (T \ Deep(c)) \cap Square : Row(c, t) > 1
    BY Ranks
  <2>4. \A m \in Go(c, p, k, S, T \cap Zone(c), TRUE) : Good(c, p, m)
    BY <1>3, <2>1, <2>2, PieceIsGood
  <2>5. \A m \in Go(c, p, k, S, T \ Deep(c), FALSE) : Good(c, p, m)
    BY <1>3, <2>1, <2>2, <2>3, PieceIsGood
  <2> QED BY <2>4, <2>5
<1>4. \A k : free(k) \subseteq p.bb[c][k]
  OBVIOUS
<1>5. \A s : landing(s) \subseteq target
  <2> SUFFICES ASSUME NEW s PROVE landing(s) \subseteq target
    OBVIOUS
  <2>1. PICK reach : reach = AttackLance(c, p, s) \cap target
    OBVIOUS
  <2>2. CASE reach = {}
    BY <2>1, <2>2
  <2>3. CASE reach # {}
    <3>1. Furthest(c, reach) \in reach
      BY <2>1, <2>3, FurthestIsOneOf
    <3> QED BY <2>1, <2>3, <3>1
  <2> QED BY <2>2, <2>3
<1>6. \A m \in SilverMoves(c, p, free(silver), target) : Good(c, p, m)
  <2>1. \A s \in free(silver) : s \in Square /\ p.board[s] = Signed(c, silver)
    BY PieceOf, KindsApart
  <2> QED BY <2>1, SilverIsGood
<1>7. \A s \in free(lance) : \A m \in far(lance, {s}, landing(s)) : Good(c, p, m)
  <2> SUFFICES ASSUME NEW s \in free(lance) PROVE \A m \in far(lance, {s}, landing(s)) : Good(c, p, m)
    OBVIOUS
  <2>1. {s} \subseteq p.bb[c][lance] /\ landing(s) \subseteq target
    BY <1>5
  <2> HIDE DEF landing, far
  <2> QED BY <1>3, <2>1
<1>8. \A m \in far(knight, free(knight), target) : Good(c, p, m)
  <2> HIDE DEF far
  <2> QED BY <1>3, <1>4
<1> DEFINE lances == UNION {far(lance, {s}, landing(s)) : s \in free(lance)}
<1>9. evade_steps(c, p, target) =
        Push(c, p, pushed \cap Zone(c), TRUE) \cup Push(c, p, pushed \ Zone(c), FALSE)
          \cup far(knight, free(knight), target)
          \cup SilverMoves(c, p, free(silver), target) \cup lances
  BY Zenon DEF evade_steps
<1> HIDE DEF far, landing, free, pushed
<1>10. \A m \in lances : Good(c, p, m)
  BY <1>7
<1> HIDE DEF lances
<1> QED BY <1>1, <1>2, <1>6, <1>8, <1>9, <1>10

(* A piece that takes the checker, or steps in between, makes a good move. *)
LEMMA OthersInAnswerAreGood ==
  ASSUME NEW p, IsPosition(p), Copies(p), NEW c \in Colour, KingIsSafe(c, p),
         NEW target \in SUBSET Square, target \cap p.occ[c] = {}
  PROVE  \A m \in evade_others(c, p, target) : Good(c, p, m)
<1> DEFINE free(k) == {s \in p.bb[c][k] : Free(c, p, s)}
<1>1. ASSUME NEW k \in Golds \cup {horse, dragon} PROVE \A m \in Go(c, p, k, free(k), target, FALSE) : Good(c, p, m)
  <2>1. k \in BoardKinds \ {pawn} /\ k # knight
    BY KindsApart
  <2> QED BY <2>1, PieceIsGood
<1>2. ASSUME NEW k \in {bishop, rook} PROVE \A m \in ForcedPromotion(c, p, k, free(k), target) : Good(c, p, m)
  <2>1. \A s \in free(k) : s \in Square /\ p.board[s] = Signed(c, k)
    BY PieceOf, KindsApart
  <2> QED BY <2>1, ForcedIsGood
<1> DEFINE others == UNION {Go(c, p, k, free(k), target, FALSE) : k \in Golds \cup {horse, dragon}}
<1>3. evade_others(c, p, target) =
        ForcedPromotion(c, p, bishop, free(bishop), target)
          \cup ForcedPromotion(c, p, rook, free(rook), target) \cup others
  BY Zenon DEF evade_others
<1> HIDE DEF free
<1>4. \A m \in others : Good(c, p, m)
  BY <1>1
<1> HIDE DEF others
<1> QED BY <1>2, <1>3, <1>4

(* GenEvasion makes good moves only.                                       *)
LEMMA EvasionsAreGood ==
  ASSUME NEW p, IsPosition(p), Copies(p), NEW c \in Colour, KingIsSafe(c, p), InCheck(c, p)
  PROVE  \A m \in gen_evasion(c, p) : Good(c, p, m)
<1>1. PICK target : target = Between(c, p) \cup Checkers(c, p)
  OBVIOUS
<1>2. target \in SUBSET Square /\ target \cap p.occ[c] = {}
  BY <1>1, BetweenIsEmpty
<1>3. \A m \in evade_king(c, p) : Good(c, p, m)
  BY TheKingsWayOutIsGood
<1>4. \A m \in evade_steps(c, p, target) : Good(c, p, m)
  BY <1>2, StepsInAnswerAreGood
<1>5. \A m \in evade_others(c, p, target) : Good(c, p, m)
  BY <1>2, OthersInAnswerAreGood
<1>6. \A m \in evade_drops(c, p) : Good(c, p, m)
  BY BetweenIsEmpty, DropsAreGood DEF evade_drops
<1> QED BY <1>1, <1>3, <1>4, <1>5, <1>6 DEF gen_evasion

(* Every move the search makes is good where the other side's king is not  *)
(* attacked.                                                               *)
LEMMA GeneratedAreGood ==
  ASSUME NEW p, IsPosition(p), Copies(p), NEW c \in Colour, ~InCheck(Flip(c), p), NEW m \in Generated(c, p)
  PROVE  Good(c, p, m)
<1>1. KingIsSafe(c, p)
  BY Flips DEF KingIsSafe, InCheck
<1>2. CASE InCheck(c, p)
  <2>1. GenEvasion(c, p) = gen_evasion(c, p)
    <3>1. w_gen_evasion(p) = gen_evasion(white, p)
      BY DEF w_gen_evasion, gen_evasion, w_evade_king, w_evade_steps, w_evade_others,
             w_evade_drops
    <3> QED BY <3>1 DEF GenEvasion, Colour
  <2> QED BY <1>1, <1>2, <2>1, EvasionsAreGood DEF Generated
<1>3. CASE ~InCheck(c, p)
  <2>1. GenCaptures(c, p) = gen_captures(c, p)
    BY DEF GenCaptures, w_cap_steps, w_cap_sliders, w_cap_far, gen_captures, Colour
  <2>2. GenNoCaptures(c, p) = gen_nocaptures(c, p)
    BY DEF GenNoCaptures, w_nocap_steps, w_nocap_sliders, gen_nocaptures, Colour
  <2>3. GenDrop(c, p) = gen_drop(c, p) /\ GenCapNoProEx2(c, p) = gen_cap_nopro_ex2(c, p)
        /\ GenNoCapNoProEx2(c, p) = gen_nocap_nopro_ex2(c, p)
    BY DEF GenDrop, w_gen_drop, GenCapNoProEx2, w_gen_cap_nopro_ex2, GenNoCapNoProEx2,
           w_gen_nocap_nopro_ex2, Colour
  <2>4. \A x \in gen_captures(c, p) \cup gen_nocaptures(c, p) : Good(c, p, x)
    BY <1>1, CapturesAreGood, QuietMovesAreGood
  <2>5. p.occ[Flip(c)] \in SUBSET Square /\ p.occ[Flip(c)] \cap p.occ[c] = {}
        /\ Empty(p) \in SUBSET Square /\ Empty(p) \cap p.occ[c] = {} /\ \A t \in Empty(p) : p.board[t] = empty
    BY FreeOfOwn
  <2>6. \A x \in gen_drop(c, p) : Good(c, p, x)
    BY <1>1, <2>5, DropsAreGood DEF gen_drop
  <2>7. \A x \in gen_cap_nopro_ex2(c, p) \cup gen_nocap_nopro_ex2(c, p) : Good(c, p, x)
    BY <1>1, <2>5, DeclinedAreGood DEF gen_cap_nopro_ex2, gen_nocap_nopro_ex2
  <2>8. m \in GenAll(c, p) \cup GenEx2(c, p)
    BY <1>3 DEF Generated
  <2> QED BY <2>1, <2>2, <2>3, <2>4, <2>6, <2>7, <2>8 DEF GenAll, GenEx2
<1> QED BY <1>2, <1>3

(* The squares with one of the pieces V on them.                           *)
With(b, V) == {s \in Square : b[s] \in V}
One(b) == IF b THEN 1 ELSE 0

(* A set of squares can be counted.                                        *)
LEMMA SquaresAreFinite ==
  ASSUME NEW S \in SUBSET Square PROVE IsFiniteSet(S) /\ Cardinality(S) \in Nat
<1>1. IsFiniteSet(Square)
  <2>1. PICK a \in Int, b \in Int : a = 0 /\ b = 80
    OBVIOUS
  <2>2. IsFiniteSet(a .. b)
    BY FS_Interval
  <2> QED BY <2>1, <2>2 DEF Square
<1> QED BY <1>1, FS_Subset, FS_CardinalityType

(* A set with one square more.                                             *)
LEMMA OneMore ==
  ASSUME NEW S \in SUBSET Square, NEW s \in Square, s \notin S
  PROVE  Cardinality(S \cup {s}) = Cardinality(S) + 1
  BY SquaresAreFinite, FS_AddElement

(* A set with one square fewer.                                            *)
LEMMA OneLess ==
  ASSUME NEW S \in SUBSET Square, NEW s \in S
  PROVE  Cardinality(S \ {s}) = Cardinality(S) - 1
  BY SquaresAreFinite, FS_RemoveElement

(* A move puts one piece down, and takes one up or captures one or both.   *)
LEMMA PiecesMoved ==
  ASSUME NEW c \in Colour, NEW p, IsPosition(p), NEW m, Fits(c, p, m), MoveFacts(c, p, m), NEW V \in SUBSET Pieces, empty \notin V
  PROVE  Cardinality(With(BoardAfter(c, p, m), V))
           = Cardinality(With(p.board, V)) + One(Signed(c, Comes(m)) \in V)
               - One(Left(m) # {} /\ Signed(c, m.piece) \in V)
               - One(Signed(Flip(c), m.cap) \in V)
<1> DEFINE here == With(p.board, V)
           taken == here \ {m.to}
           left == taken \ Left(m)
           there == With(BoardAfter(c, p, m), V)
<1>1. /\ m.to \in Square /\ Left(m) \subseteq Square /\ m.to \notin Left(m)
      /\ \A s \in Left(m) : s = m.from /\ p.board[s] = Signed(c, m.piece)
      /\ p.board[m.to] = Signed(Flip(c), m.cap)
      /\ \A s \in Square : BoardAfter(c, p, m)[s] = IF s = m.to THEN Signed(c, Comes(m))
                                                   ELSE IF s \in Left(m) THEN empty ELSE p.board[s]
  BY DEF MoveFacts
<1>2. here \in SUBSET Square /\ taken \in SUBSET Square /\ left \in SUBSET Square
  BY DEF With
<1>3. Cardinality(here) \in Int /\ Cardinality(taken) \in Int /\ Cardinality(left) \in Int
  BY <1>2, SquaresAreFinite
<1>4. Cardinality(taken) = Cardinality(here) - One(Signed(Flip(c), m.cap) \in V)
  <2>1. CASE Signed(Flip(c), m.cap) \in V
    <3>1. m.to \in here
      BY <1>1, <2>1 DEF With
    <3> QED BY <1>2, <2>1, <3>1, OneLess DEF One
  <2>2. CASE Signed(Flip(c), m.cap) \notin V
    <3>1. taken = here
      BY <1>1, <2>2 DEF With
    <3> QED BY <1>3, <2>2, <3>1 DEF One
  <2> QED BY <2>1, <2>2
<1>5. Cardinality(left) = Cardinality(taken) - One(Left(m) # {} /\ Signed(c, m.piece) \in V)
  <2>1. CASE Left(m) # {} /\ Signed(c, m.piece) \in V
    <3>1. Left(m) = {m.from} /\ m.from \in taken
      BY <1>1, <2>1 DEF With
    <3> QED BY <1>2, <2>1, <3>1, OneLess DEF One
  <2>2. CASE ~(Left(m) # {} /\ Signed(c, m.piece) \in V)
    <3>1. left = taken
      BY <1>1, <2>2 DEF With
    <3>2. One(Left(m) # {} /\ Signed(c, m.piece) \in V) = 0
      BY <2>2, Zenon DEF One
    <3> HIDE DEF taken, left
    <3> QED BY <1>3, <3>1, <3>2
  <2> QED BY <2>1, <2>2
<1>6. Cardinality(there) = Cardinality(left) + One(Signed(c, Comes(m)) \in V)
  <2>1. CASE Signed(c, Comes(m)) \in V
    <3>1. there = left \cup {m.to} /\ m.to \notin left
      BY <1>1, <2>1 DEF With
    <3> QED BY <1>1, <1>2, <2>1, <3>1, OneMore DEF One
  <2>2. CASE Signed(c, Comes(m)) \notin V
    <3>1. there = left
      BY <1>1, <2>2 DEF With
    <3> QED BY <1>3, <2>2, <3>1 DEF One
  <2> QED BY <2>1, <2>2
<1>7. \A b : One(b) \in Int
  BY DEF One
<1> HIDE DEF here, taken, left, there
<1>8. Cardinality(there) = Cardinality(here) + One(Signed(c, Comes(m)) \in V)
               - One(Left(m) # {} /\ Signed(c, m.piece) \in V) - One(Signed(Flip(c), m.cap) \in V)
  BY <1>3, <1>4, <1>5, <1>6, <1>7
<1> QED BY <1>8 DEF here, there

(* A count of one or none.                                                 *)
LEMMA OneIsANumber == ASSUME NEW b PROVE One(b) \in Int
  BY DEF One

(* A move is a step or a drop.                                             *)
LEMMA StepOrDrop ==
  ASSUME NEW c \in Colour, NEW p, IsPosition(p), NEW m, Fits(c, p, m)
  PROVE  /\ m.promo \in BOOLEAN /\ Comes(m) \in Kinds /\ m.cap \in {empty} \cup BoardKinds
         /\ \/ /\ ~IsDrop(m) /\ Left(m) # {} /\ m.piece \in Kinds
               /\ Unpromoted(Comes(m)) = Unpromoted(m.piece)
               /\ ~m.promo => Comes(m) = m.piece
               /\ m.promo => m.piece \in BoardKinds /\ Comes(m) = m.piece + promote /\ Comes(m) \in BoardKinds
            \/ /\ IsDrop(m) /\ Left(m) = {} /\ ~m.promo /\ m.cap = empty
               /\ Comes(m) \in Hands /\ From2Drop(m.from) = Comes(m) /\ Unpromoted(Comes(m)) = Comes(m)
<1>1. MoveFacts(c, p, m)
  BY FittingMoves
<1>2. CASE StepFits(c, p, m)
  <2>1. m.from \in Square /\ m.piece \in Kinds /\ m.cap \in {empty} \cup BoardKinds /\ (m.promo => m.piece \in Promotable)
    BY <1>2 DEF StepFits
  <2>2. ~IsDrop(m) /\ Left(m) # {} /\ Comes(m) = IF m.promo THEN m.piece + promote ELSE m.piece
    BY <2>1 DEF IsDrop, Left, Comes, Square, nsquare
  <2>3. m.promo => m.piece \in BoardKinds /\ m.piece + promote \in BoardKinds
                     /\ Unpromoted(m.piece + promote) = Unpromoted(m.piece)
    BY <2>1 DEF Promotable, BoardKinds, Kinds, Unpromoted, promote, king, pawn, lance,
           knight, silver, bishop, rook
  <2> QED BY <1>1, <2>1, <2>2, <2>3 DEF MoveFacts, Fits
<1>3. CASE DropFits(c, p, m)
  <2>1. PICK k \in Hands : m.from = Drop2From(k)
    BY <1>3 DEF DropFits
  <2>2. m.cap = empty /\ ~m.promo
    BY <1>3 DEF DropFits
  <2>3. IsDrop(m) /\ From2Drop(m.from) = k
    BY <2>1 DEF IsDrop, Drop2From, From2Drop, nsquare, Hands, pawn, rook
  <2>4. Left(m) = {} /\ Comes(m) = k
    BY <2>3 DEF Left, Comes
  <2>5. Unpromoted(k) = k
    BY DEF Unpromoted, Hands, pawn, rook, king
  <2> QED BY <1>1, <2>2, <2>3, <2>4, <2>5 DEF MoveFacts, Fits
<1> QED BY <1>2, <1>3 DEF Fits

(* The hands after a move.                                                 *)
LEMMA HandsMoved ==
  ASSUME NEW c \in Colour, NEW p, IsPosition(p), NEW m, Fits(c, p, m), NEW e \in Colour, NEW k \in Hands
  PROVE  HandChange(c, m, 1, p.hand)[e][k]
           = p.hand[e][k] + (IF e # c THEN 0
                             ELSE IF IsDrop(m) THEN - One(k = Comes(m))
                             ELSE One(m.cap # empty /\ k = Unpromoted(m.cap)))
<1>1. p.hand \in [Colour -> [Hands -> Nat]]
  BY DEF IsPosition
<1>2. HandChange(c, m, 1, p.hand)[e][k] =
        IF e # c THEN p.hand[e][k]
        ELSE IF k = (IF IsDrop(m) THEN From2Drop(m.from) ELSE Unpromoted(m.cap))
             THEN p.hand[c][k] + (IF IsDrop(m) THEN -1 ELSE 1) ELSE p.hand[c][k]
  BY <1>1 DEF HandChange
<1>3. Unpromoted(empty) # k
  BY DEF Unpromoted, empty, king, Hands, pawn, rook
<1>4. p.hand[e][k] \in Int
  BY <1>1
<1>5. IsDrop(m) => From2Drop(m.from) = Comes(m)
  BY StepOrDrop
<1>6. CASE e # c
  BY <1>2, <1>4, <1>6
<1>7. CASE e = c /\ IsDrop(m)
  BY <1>2, <1>4, <1>5, <1>7 DEF One
<1>8. CASE e = c /\ ~IsDrop(m)
  <2>1. (m.cap # empty /\ k = Unpromoted(m.cap)) <=> k = Unpromoted(m.cap)
    BY <1>3
  <2>2. CASE k = Unpromoted(m.cap)
    BY <1>2, <1>4, <1>8, <2>1, <2>2 DEF One
  <2>3. CASE k # Unpromoted(m.cap)
    BY <1>2, <1>4, <1>8, <2>1, <2>3 DEF One
  <2> QED BY <2>2, <2>3
<1> QED BY <1>6, <1>7, <1>8

(* The pieces that are, or were before they promoted, of kind k.           *)
OfKind(k) ==
  {v \in Pieces : LET a == IF v < 0 THEN -v ELSE v IN a # empty /\ Unpromoted(a) = k}

(* The pieces that are of one kind, promoted or not.                       *)
LEMMA PiecesOfKind ==
  ASSUME NEW k
  PROVE  /\ OfKind(k) \in SUBSET Pieces /\ empty \notin OfKind(k)
         /\ \A e \in Colour, j \in Kinds : Signed(e, j) \in OfKind(k) <=> Unpromoted(j) = k
<1>1. \A e \in Colour, j \in Kinds : LET v == Signed(e, j)
                                         a == IF v < 0 THEN -v ELSE v
                                     IN a = j /\ a # empty
  BY DEF Signed, Kinds, Colour, black, white, empty
<1>2. \A e \in Colour, j \in Kinds : Signed(e, j) \in Pieces
  BY DEF Pieces
<1>3. empty \notin OfKind(k)
  BY DEF OfKind, empty
<1>4. \A e \in Colour, j \in Kinds : Signed(e, j) \in OfKind(k) <=> Unpromoted(j) = k
  <2> SUFFICES ASSUME NEW e \in Colour, NEW j \in Kinds PROVE Signed(e, j) \in OfKind(k) <=> Unpromoted(j) = k
    OBVIOUS
  <2>1. PICK v : v = Signed(e, j)
    OBVIOUS
  <2>2. v \in Pieces /\ (IF v < 0 THEN -v ELSE v) = j /\ j # empty
    BY <1>1, <1>2, <2>1
  <2>3. v \in OfKind(k) <=> Unpromoted(j) = k
    BY <2>2 DEF OfKind
  <2> QED BY <2>1, <2>3
<1> QED BY <1>3, <1>4 DEF OfKind

(* No move loses or adds a piece: captured pieces go to the hand, dropped  *)
(* ones come from it, and a promoted piece counts as what it was.          *)
LEMMA NoPieceIsLost ==
  ASSUME NEW c \in Colour, NEW p, IsPosition(p), NEW m, Fits(c, p, m), Copies(p),
         NEW q, q = make_move(c, p, m)
  PROVE  PieceCount(q) = PieceCount(p)
<1>1. IsPosition(q) /\ MadeOf(c, p, m, q) /\ MoveFacts(c, p, m)
  BY PositionHasFields, MadeFields, FittingMoves, MakingKeepsCopies
<1>2. q.board = BoardAfter(c, p, m) /\ q.hand = HandChange(c, m, 1, p.hand)
  BY <1>1 DEF MadeOf
<1>3. ASSUME NEW r, IsPosition(r)
      PROVE  PieceCount(r) = [k \in Hands |-> Cardinality(With(r.board, OfKind(k))) + r.hand[black][k] + r.hand[white][k]]
  <2>1. \A k : {s \in Square : LET a == IF r.board[s] < 0 THEN -r.board[s] ELSE r.board[s]
                               IN a # empty /\ Unpromoted(a) = k} = With(r.board, OfKind(k))
    <3>1. \A s \in Square : r.board[s] \in Pieces
      BY <1>3 DEF IsPosition
    <3> QED BY <3>1 DEF With, OfKind
  <2> QED BY <2>1, Zenon DEF PieceCount
<1>4. ASSUME NEW k \in Hands
      PROVE  Cardinality(With(q.board, OfKind(k))) + q.hand[black][k] + q.hand[white][k]
               = Cardinality(With(p.board, OfKind(k))) + p.hand[black][k] + p.hand[white][k]
  <2>1. PICK before \in Int : before = Cardinality(With(p.board, OfKind(k)))
    <3>1. With(p.board, OfKind(k)) \in SUBSET Square
      BY DEF With
    <3> QED BY <3>1, SquaresAreFinite
  <2>2. PICK after : after = Cardinality(With(q.board, OfKind(k)))
    OBVIOUS
  <2>3. PICK x \in BOOLEAN, y \in BOOLEAN, z \in BOOLEAN :
          /\ x <=> Signed(c, Comes(m)) \in OfKind(k)
          /\ y <=> Left(m) # {} /\ Signed(c, m.piece) \in OfKind(k)
          /\ z <=> Signed(Flip(c), m.cap) \in OfKind(k)
    OBVIOUS
  <2>4. after = before + One(x) - One(y) - One(z)
    <3>1. OfKind(k) \in SUBSET Pieces /\ empty \notin OfKind(k)
      BY PiecesOfKind
    <3>2. after = before + One(Signed(c, Comes(m)) \in OfKind(k))
               - One(Left(m) # {} /\ Signed(c, m.piece) \in OfKind(k))
               - One(Signed(Flip(c), m.cap) \in OfKind(k))
      BY <1>1, <1>2, <2>1, <2>2, <3>1, PiecesMoved
    <3> QED BY <2>3, <3>2 DEF One
  <2>5. x <=> Unpromoted(Comes(m)) = k
    BY <2>3, StepOrDrop, PiecesOfKind
  <2>6. y <=> Left(m) # {} /\ Unpromoted(m.piece) = k
    <3>1. Left(m) # {} => m.piece \in Kinds
      BY StepOrDrop
    <3> QED BY <2>3, <3>1, PiecesOfKind
  <2>7. z <=> m.cap # empty /\ Unpromoted(m.cap) = k
    <3>1. CASE m.cap = empty
      BY <2>3, <3>1, SignedEmpty, PiecesOfKind
    <3>2. CASE m.cap # empty
      <4>1. m.cap \in Kinds /\ Flip(c) \in Colour
        BY <3>2, StepOrDrop, KindsAreNumbers, Flips
      <4> QED BY <2>3, <3>2, <4>1, PiecesOfKind
    <3> QED BY <3>1, <3>2
  <2>8. PICK h \in Int, g \in Int : h = p.hand[c][k] /\ g = p.hand[Flip(c)][k]
    BY Flips DEF IsPosition
  <2>9. q.hand[c][k] = h + (IF IsDrop(m) THEN - One(k = Comes(m)) ELSE One(m.cap # empty /\ k = Unpromoted(m.cap)))
        /\ q.hand[Flip(c)][k] = g + 0
    BY <1>2, <2>8, HandsMoved, Flips
  <2>10. after + q.hand[c][k] + q.hand[Flip(c)][k] = before + h + g
    <3>1. CASE IsDrop(m)
      <4>1. ~y /\ ~z /\ (x <=> k = Comes(m))
        BY <2>5, <2>6, <2>7, <3>1, StepOrDrop
      <4> QED BY <2>4, <2>9, <3>1, <4>1 DEF One
    <3>2. CASE ~IsDrop(m)
      <4>1. (x <=> y) /\ (z <=> m.cap # empty /\ k = Unpromoted(m.cap))
        BY <2>5, <2>6, <2>7, <3>2, StepOrDrop
      <4>2. One(m.cap # empty /\ k = Unpromoted(m.cap)) = One(z)
        BY <4>1 DEF One
      <4>3. One(x) = One(y)
        BY <4>1 DEF One
      <4> QED BY <2>4, <2>9, <3>2, <4>2, <4>3, OneIsANumber
    <3> QED BY <3>1, <3>2
  <2>11. q.hand[black][k] \in Int /\ q.hand[white][k] \in Int
    BY <1>1 DEF IsPosition, Colour
  <2>12. after \in Int
    BY <2>4, OneIsANumber
  <2>13. CASE c = black
    <3>1. Flip(c) = white
      BY <2>13 DEF Flip, black, white
    <3> QED BY <2>1, <2>2, <2>8, <2>10, <2>11, <2>12, <2>13, <3>1
  <2>14. CASE c = white
    <3>1. Flip(c) = black
      BY <2>14 DEF Flip, black, white
    <3> QED BY <2>1, <2>2, <2>8, <2>10, <2>11, <2>12, <2>14, <3>1
  <2> QED BY <2>13, <2>14 DEF Colour
<1> QED BY <1>1, <1>3, <1>4

(* The sum of f over the pieces that are not kings, as eval_material adds  *)
(* them up.                                                                *)
Total(f) ==
  f[pawn] + f[lance] + f[knight] + f[silver] + f[gold] + f[bishop] + f[rook]
    + f[pawn + promote] + f[lance + promote] + f[knight + promote] + f[silver + promote]
    + f[horse] + f[dragon]
PlusAt(f, a, d) == [k \in BoardKinds |-> f[k] + IF k = a THEN d ELSE 0]

(* The sum with one term more.                                             *)
LEMMA TotalPlus ==
  ASSUME NEW f \in [BoardKinds -> Int], NEW a, NEW d \in Int
  PROVE  /\ PlusAt(f, a, d) \in [BoardKinds -> Int]
         /\ Total(f) \in Int
         /\ Total(PlusAt(f, a, d)) = Total(f) + IF a \in BoardKinds THEN d ELSE 0
<1> USE DEF pawn, lance, knight, silver, gold, bishop, rook, horse, dragon, promote
<1>1. BoardKinds = {1, 2, 3, 4, 5, 6, 7, 9, 10, 11, 12, 14, 15}
  BY DEF BoardKinds, Kinds, king
<1>2. PlusAt(f, a, d) \in [BoardKinds -> Int]
  BY DEF PlusAt
<1>3. PICK g \in [BoardKinds -> Int] : g = PlusAt(f, a, d)
  BY <1>2
<1>4. \A k \in BoardKinds : g[k] = f[k] + IF k = a THEN d ELSE 0
  BY <1>3 DEF PlusAt
<1>5. \A h \in [BoardKinds -> Int] :
        Total(h) = h[1] + h[2] + h[3] + h[4] + h[5] + h[6] + h[7] + h[9] + h[10] + h[11] + h[12] + h[14] + h[15]
  BY DEF Total
<1>6. Total(f) \in Int
  BY <1>1, <1>5
<1>7. Total(g) = Total(f) + IF a \in BoardKinds THEN d ELSE 0
  <2>1. CASE a \notin BoardKinds
    <3>1. \A k \in BoardKinds : g[k] = f[k]
      BY <1>4, <2>1
    <3>2. g = f
      BY <3>1
    <3> QED BY <1>6, <2>1, <3>2
  <2>2. CASE a \in BoardKinds
    <3>1. \A k \in BoardKinds : k # a => g[k] = f[k]
      BY <1>4
    <3>2. g[a] = f[a] + d
      BY <1>4, <2>2
    <3> QED BY <1>1, <1>5, <2>2, <3>1, <3>2
  <2> QED BY <2>1, <2>2
<1> QED BY <1>2, <1>3, <1>6, <1>7

(* eval_material adds up what each kind is worth.                          *)
LEMMA MaterialIsTotal ==
  ASSUME NEW p PROVE eval_material(p) = Total([k \in BoardKinds |-> Worth(p, k)])
<1> DEFINE w == [k \in BoardKinds |-> Worth(p, k)]
<1>1. {pawn, lance, knight, silver, gold, bishop, rook, pawn + promote, lance + promote,
       knight + promote, silver + promote, horse, dragon} \subseteq BoardKinds
  BY DEF BoardKinds, Kinds, king, pawn, lance, knight, silver, gold, bishop, rook, horse,
         dragon, promote
<1>2. \A k \in BoardKinds : w[k] = Worth(p, k)
  OBVIOUS
<1> HIDE DEF w
<1>3. eval_material(p) = Total(w)
  BY <1>1, <1>2 DEF eval_material, Total
<1> QED BY <1>3 DEF w

(* Each piece has a value, and goes to a hand.                             *)
LEMMA ValuesAreNumbers ==
  /\ \A k \in BoardKinds : p_value[k] \in Int
  /\ \A k \in BoardKinds : Unpromoted(k) \in Hands
  BY DEF p_value, BoardKinds, Kinds, king, Unpromoted, promote, Hands, pawn, rook

(* A side has so many pieces of a kind.                                    *)
LEMMA CountsAreNumbers ==
  ASSUME NEW p, IsPosition(p), NEW e \in Colour, NEW k \in BoardKinds PROVE Count(p, e, k) \in Int
<1>1. p.bb[e][k] \in SUBSET Square
  BY DEF IsPosition
<1>2. k \in Hands => p.hand[e][k] \in Int
  BY DEF IsPosition
<1> QED BY <1>1, <1>2, SquaresAreFinite DEF Count

(* How many pieces of a kind each side has after a move, in hand or not.   *)
LEMMA CountsMoved ==
  ASSUME NEW c \in Colour, NEW p, IsPosition(p), NEW m, Fits(c, p, m), Copies(p),
         NEW q, q = make_move(c, p, m), NEW k \in BoardKinds
  PROVE  /\ Count(q, c, k) = Count(p, c, k)
              + (IF m.promo /\ k = Comes(m) THEN 1 ELSE 0) - (IF m.promo /\ k = m.piece THEN 1 ELSE 0)
              + (IF m.cap # empty /\ k = Unpromoted(m.cap) THEN 1 ELSE 0)
         /\ Count(q, Flip(c), k) = Count(p, Flip(c), k) - IF k = m.cap THEN 1 ELSE 0
<1>1. IsPosition(q) /\ Copies(q) /\ MadeOf(c, p, m, q) /\ MoveFacts(c, p, m)
  BY PositionHasFields, MadeFields, FittingMoves, MakingKeepsCopies
<1>2. q.board = BoardAfter(c, p, m) /\ q.hand = HandChange(c, m, 1, p.hand)
  BY <1>1 DEF MadeOf
<1>3. \A r : Copies(r) => \A e \in Colour : r.bb[e][k] = With(r.board, {Signed(e, k)})
  BY DEF Copies, OnBoard, With
<1>4. k \in Kinds /\ k # empty /\ \A e \in Colour, f \in Colour, i \in Kinds : Signed(e, k) = Signed(f, i) <=> (e = f /\ k = i)
  <2>1. k \in Kinds /\ k # empty
    BY KindsAreNumbers
  <2> QED BY <2>1, SignedIsOne
<1>5. ASSUME NEW e \in Colour
      PROVE  /\ Cardinality(p.bb[e][k]) \in Int
             /\ Cardinality(q.bb[e][k]) = Cardinality(p.bb[e][k])
                  + (IF e = c /\ k = Comes(m) THEN 1 ELSE 0) - (IF Left(m) # {} /\ e = c /\ k = m.piece THEN 1 ELSE 0)
                  - (IF e # c /\ k = m.cap THEN 1 ELSE 0)
  <2>1. PICK v : v = Signed(e, k)
    OBVIOUS
  <2>2. {v} \in SUBSET Pieces /\ empty \notin {v}
    <3>1. v # empty
      BY <1>4, <2>1 DEF Signed, empty, Kinds
    <3> QED BY <1>4, <2>1, <3>1 DEF Pieces
  <2>3. Cardinality(With(q.board, {v})) = Cardinality(With(p.board, {v})) + One(Signed(c, Comes(m)) \in {v})
               - One(Left(m) # {} /\ Signed(c, m.piece) \in {v}) - One(Signed(Flip(c), m.cap) \in {v})
    BY <1>1, <1>2, <2>2, PiecesMoved
  <2>4. (Signed(c, Comes(m)) \in {v}) <=> (e = c /\ k = Comes(m))
    BY <1>4, <2>1, StepOrDrop
  <2>5. (Left(m) # {} /\ Signed(c, m.piece) \in {v}) <=> (Left(m) # {} /\ e = c /\ k = m.piece)
    BY <1>4, <2>1, StepOrDrop
  <2>6. (Signed(Flip(c), m.cap) \in {v}) <=> (e # c /\ k = m.cap)
    <3>1. CASE m.cap = empty
      BY <1>4, <2>2, <3>1, SignedEmpty
    <3>2. CASE m.cap # empty
      <4>1. m.cap \in Kinds /\ Flip(c) \in Colour /\ (e = Flip(c) <=> e # c)
        BY <3>2, StepOrDrop, KindsAreNumbers, Flips, TwoColours
      <4> QED BY <1>4, <2>1, <4>1
    <3> QED BY <3>1, <3>2
  <2>7. p.bb[e][k] = With(p.board, {v}) /\ q.bb[e][k] = With(q.board, {v})
    BY <1>1, <1>3, <2>1
  <2>8. Cardinality(p.bb[e][k]) \in Int
    <3>1. p.bb[e][k] \in SUBSET Square
      BY DEF IsPosition
    <3> QED BY <3>1, SquaresAreFinite
  <2>9. PICK x \in BOOLEAN, y \in BOOLEAN, z \in BOOLEAN :
          /\ x <=> Signed(c, Comes(m)) \in {v}
          /\ y <=> Left(m) # {} /\ Signed(c, m.piece) \in {v}
          /\ z <=> Signed(Flip(c), m.cap) \in {v}
    OBVIOUS
  <2>10. Cardinality(q.bb[e][k]) = Cardinality(p.bb[e][k]) + One(x) - One(y) - One(z)
    BY <2>3, <2>7, <2>9 DEF One
  <2>11. One(x) = (IF e = c /\ k = Comes(m) THEN 1 ELSE 0)
    BY <2>4, <2>9 DEF One
  <2>12. One(y) = (IF Left(m) # {} /\ e = c /\ k = m.piece THEN 1 ELSE 0)
    BY <2>5, <2>9 DEF One
  <2>13. One(z) = (IF e # c /\ k = m.cap THEN 1 ELSE 0)
    BY <2>6, <2>9 DEF One
  <2> QED BY <2>8, <2>10, <2>11, <2>12, <2>13
<1>6. Flip(c) \in Colour /\ Flip(c) # c
  BY Flips
<1>7. \A e \in Colour : k \in Hands => /\ p.hand[e][k] \in Int
                                       /\ q.hand[e][k] = p.hand[e][k] + (IF e # c THEN 0
                                             ELSE IF IsDrop(m) THEN - One(k = Comes(m))
                                             ELSE One(m.cap # empty /\ k = Unpromoted(m.cap)))
  <2> SUFFICES ASSUME NEW e \in Colour, k \in Hands
               PROVE  /\ p.hand[e][k] \in Int
                      /\ q.hand[e][k] = p.hand[e][k] + (IF e # c THEN 0
                                             ELSE IF IsDrop(m) THEN - One(k = Comes(m))
                                             ELSE One(m.cap # empty /\ k = Unpromoted(m.cap)))
    BY Zenon
  <2>1. p.hand[e][k] \in Int
    BY DEF IsPosition
  <2>2. HandChange(c, m, 1, p.hand)[e][k]
           = p.hand[e][k] + (IF e # c THEN 0
                             ELSE IF IsDrop(m) THEN - One(k = Comes(m))
                             ELSE One(m.cap # empty /\ k = Unpromoted(m.cap)))
    BY HandsMoved
  <2> QED BY <1>2, <2>1, <2>2, Zenon
<1>8. Count(q, Flip(c), k) = Count(p, Flip(c), k) - IF k = m.cap THEN 1 ELSE 0
  <2>1. Cardinality(p.bb[Flip(c)][k]) \in Int
        /\ Cardinality(q.bb[Flip(c)][k]) = Cardinality(p.bb[Flip(c)][k]) - IF k = m.cap THEN 1 ELSE 0
    BY <1>5, <1>6
  <2>2. k \in Hands => p.hand[Flip(c)][k] \in Int /\ q.hand[Flip(c)][k] = p.hand[Flip(c)][k]
    BY <1>6, <1>7
  <2> QED BY <2>1, <2>2 DEF Count
<1>9. Count(q, c, k) = Count(p, c, k)
              + (IF m.promo /\ k = Comes(m) THEN 1 ELSE 0) - (IF m.promo /\ k = m.piece THEN 1 ELSE 0)
              + (IF m.cap # empty /\ k = Unpromoted(m.cap) THEN 1 ELSE 0)
  <2>1. Cardinality(p.bb[c][k]) \in Int
        /\ Cardinality(q.bb[c][k]) = Cardinality(p.bb[c][k]) + (IF k = Comes(m) THEN 1 ELSE 0)
                                       - (IF Left(m) # {} /\ k = m.piece THEN 1 ELSE 0)
    BY <1>5
  <2>2. k \in Hands => /\ p.hand[c][k] \in Int
                       /\ q.hand[c][k] = p.hand[c][k] + (IF IsDrop(m) THEN - One(k = Comes(m))
                                                         ELSE One(m.cap # empty /\ k = Unpromoted(m.cap)))
    BY <1>7
  <2>3. CASE IsDrop(m)
    <3>1. Left(m) = {} /\ ~m.promo /\ m.cap = empty /\ Comes(m) \in Hands
      BY <2>3, StepOrDrop
    <3>2. CASE k \in Hands
      BY <2>1, <2>2, <2>3, <3>1, <3>2 DEF Count, One
    <3>3. CASE k \notin Hands
      BY <2>1, <2>3, <3>1, <3>3 DEF Count
    <3> QED BY <3>2, <3>3
  <2>4. CASE ~IsDrop(m)
    <3>1. Left(m) # {} /\ (~m.promo => Comes(m) = m.piece) /\ m.promo \in BOOLEAN
      BY <2>4, StepOrDrop
    <3>2. m.cap # empty => Unpromoted(m.cap) \in Hands
      BY StepOrDrop, ValuesAreNumbers
    <3>3. Cardinality(q.bb[c][k]) = Cardinality(p.bb[c][k]) + (IF m.promo /\ k = Comes(m) THEN 1 ELSE 0)
                                       - (IF m.promo /\ k = m.piece THEN 1 ELSE 0)
      BY <2>1, <3>1
    <3>4. CASE k \in Hands
      BY <2>1, <2>2, <2>4, <3>3, <3>4 DEF Count, One
    <3>5. CASE k \notin Hands
      BY <2>1, <3>2, <3>3, <3>5 DEF Count
    <3> QED BY <3>4, <3>5
  <2> QED BY <2>3, <2>4
<1> QED BY <1>8, <1>9

(* The material that make_move adds up is that of eval_material.           *)
LEMMA MaterialFollows ==
  ASSUME NEW c \in Colour, NEW p, IsPosition(p), NEW m, Fits(c, p, m), Copies(p),
         p.material = eval_material(p), NEW q, q = make_move(c, p, m)
  PROVE  q.material = eval_material(q)
<1>1. IsPosition(q) /\ MadeOf(c, p, m, q)
  BY PositionHasFields, MadeFields, MakingKeepsCopies
<1>2. PICK sign \in {-1, 1} : sign = IF c = black THEN 1 ELSE -1
  OBVIOUS
<1> DEFINE value(k) == IF k \in BoardKinds THEN p_value[k] ELSE 0
           came == IF m.promo THEN Comes(m) ELSE empty
           went == IF m.promo THEN m.piece ELSE empty
           held == IF m.cap # empty THEN Unpromoted(m.cap) ELSE empty
           f0 == [k \in BoardKinds |-> Worth(p, k)]
           f1 == PlusAt(f0, came, sign * value(came))
           f2 == PlusAt(f1, went, -(sign * value(went)))
           f3 == PlusAt(f2, held, sign * value(held))
           f4 == PlusAt(f3, m.cap, sign * value(m.cap))
<1>3. \A k : value(k) \in Int /\ sign * value(k) \in Int /\ -(sign * value(k)) \in Int
  BY <1>2, ValuesAreNumbers
<1>4. \A k \in BoardKinds : \A e \in Colour : Count(p, e, k) \in Int /\ Count(q, e, k) \in Int
  BY <1>1, CountsAreNumbers
<1>5. f0 \in [BoardKinds -> Int]
  <2>1. \A k \in BoardKinds : Worth(p, k) \in Int
    BY <1>4, ValuesAreNumbers DEF Worth, Colour
  <2> QED BY <2>1
<1>6. empty \notin BoardKinds
  BY KindsAreNumbers
<1>7. ASSUME NEW k \in BoardKinds
      PROVE  Worth(q, k) = Worth(p, k) + (IF k = came THEN sign * value(came) ELSE 0)
               + (IF k = went THEN -(sign * value(went)) ELSE 0)
               + (IF k = held THEN sign * value(held) ELSE 0)
               + (IF k = m.cap THEN sign * value(m.cap) ELSE 0)
  <2> DEFINE up == IF k = came THEN 1 ELSE 0
             down == IF k = went THEN 1 ELSE 0
             gain == IF k = held THEN 1 ELSE 0
             loss == IF k = m.cap THEN 1 ELSE 0
  <2>1. PICK v \in Int : v = p_value[k] /\ value(k) = v
    BY ValuesAreNumbers
  <2>2. PICK x \in Int : x = Count(p, black, k) - Count(p, white, k)
    BY <1>4 DEF Colour
  <2>3. k # empty
    BY <1>6
  <2>4. Count(q, c, k) = Count(p, c, k) + up - down + gain /\ Count(q, Flip(c), k) = Count(p, Flip(c), k) - loss
    <3>1. (m.promo /\ k = Comes(m)) <=> k = came
      BY <2>3
    <3>2. (m.promo /\ k = m.piece) <=> k = went
      BY <2>3
    <3>3. (m.cap # empty /\ k = Unpromoted(m.cap)) <=> k = held
      BY <2>3
    <3> HIDE DEF came, went, held
    <3> QED BY <3>1, <3>2, <3>3, CountsMoved
  <2>5. up \in {0, 1} /\ down \in {0, 1} /\ gain \in {0, 1} /\ loss \in {0, 1}
    OBVIOUS
  <2>6. /\ (IF k = came THEN sign * value(came) ELSE 0) = up * (sign * v)
        /\ (IF k = went THEN -(sign * value(went)) ELSE 0) = -(down * (sign * v))
        /\ (IF k = held THEN sign * value(held) ELSE 0) = gain * (sign * v)
        /\ (IF k = m.cap THEN sign * value(m.cap) ELSE 0) = loss * (sign * v)
    <3> HIDE DEF came, went, held, value
    <3> QED BY <1>2, <2>1
  <2> HIDE DEF up, down, gain, loss, came, went, held, value
  <2>7. Count(q, black, k) - Count(q, white, k) = x + sign * (up - down + gain + loss)
    <3>1. CASE c = black
      <4>1. Flip(c) = white /\ sign = 1
        BY <1>2, <3>1 DEF Flip, black, white
      <4> QED BY <1>4, <2>2, <2>4, <2>5, <3>1, <4>1 DEF Colour
    <3>2. CASE c = white
      <4>1. Flip(c) = black /\ sign = -1
        BY <1>2, <3>2 DEF Flip, black, white
      <4> QED BY <1>4, <2>2, <2>4, <2>5, <3>2, <4>1 DEF Colour
    <3> QED BY <3>1, <3>2 DEF Colour
  <2>8. Worth(q, k) = (x + sign * (up - down + gain + loss)) * v /\ Worth(p, k) = x * v
    BY <2>1, <2>2, <2>7 DEF Worth
  <2>9. (x + sign * (up - down + gain + loss)) * v
          = x * v + up * (sign * v) - down * (sign * v) + gain * (sign * v) + loss * (sign * v)
    <3>1. PICK y \in Int : y = up - down + gain + loss
      BY <2>5
    <3>2. (x + sign * y) * v = x * v + y * (sign * v)
      BY <1>2
    <3>3. y * (sign * v) = up * (sign * v) - down * (sign * v) + gain * (sign * v) + loss * (sign * v)
      BY <1>2, <2>5, <3>1
    <3>4. x * v \in Int /\ sign * v \in Int
      BY <1>2
    <3> QED BY <2>5, <3>1, <3>2, <3>3, <3>4
  <2> QED BY <1>2, <2>1, <2>5, <2>6, <2>8, <2>9
<1> HIDE DEF value, came, went, held, f0
<1>8. f1 \in [BoardKinds -> Int] /\ Total(f1) = Total(f0) + (IF came \in BoardKinds THEN sign * value(came) ELSE 0)
      /\ Total(f0) \in Int
  BY <1>3, <1>5, TotalPlus
<1> HIDE DEF f1
<1>9. f2 \in [BoardKinds -> Int] /\ Total(f2) = Total(f1) + (IF went \in BoardKinds THEN -(sign * value(went)) ELSE 0)
  BY <1>3, <1>8, TotalPlus
<1> HIDE DEF f2
<1>10. f3 \in [BoardKinds -> Int] /\ Total(f3) = Total(f2) + (IF held \in BoardKinds THEN sign * value(held) ELSE 0)
  BY <1>3, <1>9, TotalPlus
<1> HIDE DEF f3
<1>11. f4 \in [BoardKinds -> Int] /\ Total(f4) = Total(f3) + (IF m.cap \in BoardKinds THEN sign * value(m.cap) ELSE 0)
  BY <1>3, <1>10, TotalPlus
<1>12. \A k : k \notin BoardKinds => value(k) = 0
  BY DEF value
<1>13. Total(f4) = Total(f0) + sign * value(came) - sign * value(went) + sign * value(held) + sign * value(m.cap)
  <2> HIDE DEF f4
  <2> QED BY <1>2, <1>3, <1>8, <1>9, <1>10, <1>11, <1>12
<1>14. f4 = [k \in BoardKinds |-> Worth(q, k)]
  <2>1. \A k \in BoardKinds : f0[k] = Worth(p, k)
    BY DEF f0
  <2>2. \A k \in BoardKinds : f1[k] = f0[k] + IF k = came THEN sign * value(came) ELSE 0
    BY DEF f1, PlusAt
  <2>3. \A k \in BoardKinds : f2[k] = f1[k] + IF k = went THEN -(sign * value(went)) ELSE 0
    BY DEF f2, PlusAt
  <2>4. \A k \in BoardKinds : f3[k] = f2[k] + IF k = held THEN sign * value(held) ELSE 0
    BY DEF f3, PlusAt
  <2>5. \A k \in BoardKinds : f4[k] = f3[k] + IF k = m.cap THEN sign * value(m.cap) ELSE 0
    BY DEF PlusAt
  <2> HIDE DEF f4
  <2>6. \A k \in BoardKinds : f4[k] = Worth(q, k)
    BY <1>7, <2>1, <2>2, <2>3, <2>4, <2>5
  <2> QED BY <1>11, <2>6
<1>15. eval_material(q) = Total(f4) /\ eval_material(p) = Total(f0)
  BY <1>14, MaterialIsTotal DEF f0
<1>16. MaterialGain(m) = value(came) - value(went) + value(held) + value(m.cap)
  <2>1. m.promo => m.piece \in BoardKinds /\ Comes(m) \in BoardKinds /\ Comes(m) = m.piece + promote
    BY StepOrDrop
  <2>2. (IF m.promo THEN MT_PRO(m.piece) ELSE 0) = value(came) - value(went)
    <3>1. CASE m.promo
      BY <2>1, <3>1 DEF MT_PRO, value, came, went
    <3>2. CASE ~m.promo
      BY <1>6, <3>2 DEF value, came, went
    <3> QED BY <3>1, <3>2
  <2>3. (IF m.cap # empty THEN MT_CAP(m.cap) ELSE 0) = value(held) + value(m.cap)
    <3>1. CASE m.cap # empty
      <4>1. m.cap \in BoardKinds /\ Unpromoted(m.cap) \in BoardKinds
        BY <3>1, StepOrDrop, ValuesAreNumbers, KindsAreNumbers
      <4> QED BY <3>1, <4>1, ValuesAreNumbers DEF MT_CAP, value, held
    <3>2. CASE m.cap = empty
      BY <1>6, <3>2 DEF value, held
    <3> QED BY <3>1, <3>2
  <2> QED BY <1>3, <2>2, <2>3 DEF MaterialGain
<1>17. q.material = p.material + sign * MaterialGain(m)
  <2>1. MaterialGain(m) \in Int
    BY <1>3, <1>16
  <2> QED BY <1>1, <1>2, <2>1 DEF MadeOf
<1> HIDE DEF f4
<1> QED BY <1>2, <1>3, <1>8, <1>13, <1>15, <1>16, <1>17

(* No pawn or knight stands where it could never move again.               *)
Alive(p) ==
  \A c \in Colour : /\ \A s \in OnBoard(p.board, c, {pawn}) : Row(c, s) > 0
                    /\ \A s \in OnBoard(p.board, c, {knight}) : Row(c, s) > 1

(* What holds of every position of a walk.                                 *)
Sane(p) == IsPosition(p) /\ Copies(p) /\ Alive(p) /\ p.material = eval_material(p)

(* A good move leaves no pawn or knight that could never move.             *)
LEMMA MovesLeaveNoneDead ==
  ASSUME NEW c \in Colour, NEW p, IsPosition(p), Alive(p), NEW m, Good(c, p, m), NEW q, q.board = BoardAfter(c, p, m)
  PROVE  Alive(q)
<1>1. MoveFacts(c, p, m)
  BY FittingMoves DEF Good
<1>2. ASSUME NEW e \in Colour, NEW k \in {pawn, knight}, NEW s \in OnBoard(q.board, e, {k})
      PROVE  (s = m.to /\ e = c /\ k = Comes(m)) \/ s \in OnBoard(p.board, e, {k})
  <2>1. s \in Square /\ q.board[s] = Signed(e, k)
    BY DEF OnBoard
  <2>2. k \in Kinds
    BY KindsApart
  <2>3. q.board[s] = IF s = m.to THEN Signed(c, Comes(m)) ELSE IF s \in Left(m) THEN empty ELSE p.board[s]
    BY <1>1, <2>1 DEF MoveFacts
  <2>4. CASE s = m.to
    <3>1. PICK j \in Kinds : j = Comes(m)
      BY <1>1 DEF MoveFacts
    <3>2. Signed(c, j) = Signed(e, k)
      BY <2>1, <2>3, <2>4, <3>1
    <3>3. c = e /\ j = k
      BY <2>2, <3>2, SignedIsOne
    <3> QED BY <2>4, <3>1, <3>3
  <2>5. CASE s # m.to
    <3>1. Signed(e, k) # empty
      BY <2>2 DEF Signed, Kinds, empty
    <3>2. p.board[s] = Signed(e, k)
      BY <2>1, <2>3, <2>5, <3>1
    <3> QED BY <2>1, <3>2 DEF OnBoard
  <2> QED BY <2>4, <2>5
<1>3. ASSUME NEW e \in Colour, NEW s \in OnBoard(q.board, e, {pawn}) PROVE Row(e, s) > 0
  <2>1. (s = m.to /\ e = c /\ pawn = Comes(m)) \/ s \in OnBoard(p.board, e, {pawn})
    BY <1>2
  <2> QED BY <2>1 DEF Good, Lives, Alive
<1>4. ASSUME NEW e \in Colour, NEW s \in OnBoard(q.board, e, {knight}) PROVE Row(e, s) > 1
  <2>1. (s = m.to /\ e = c /\ knight = Comes(m)) \/ s \in OnBoard(p.board, e, {knight})
    BY <1>2
  <2> QED BY <2>1 DEF Good, Lives, Alive
<1> QED BY <1>3, <1>4 DEF Alive

(* A good move leads to a sane position with the same pieces, and can be   *)
(* taken back from what was saved with it.                                 *)
LEMMA MovesKeepSane ==
  ASSUME NEW c \in Colour, NEW p, Sane(p), NEW m, Good(c, p, m), NEW q, q = make_move(c, p, m)
  PROVE  /\ Sane(q) /\ PieceCount(q) = PieceCount(p)
         /\ unmake_move(c, q, m, p.key, p.material) = p
<1>1. IsPosition(p) /\ Copies(p) /\ Alive(p) /\ p.material = eval_material(p) /\ Fits(c, p, m)
  BY DEF Sane, Good
<1>2. IsPosition(q) /\ Copies(q)
  BY <1>1, MakingKeepsCopies
<1>3. q.board = BoardAfter(c, p, m)
  <2>1. HasFields(p)
    BY <1>1, PositionHasFields
  <2>2. MadeOf(c, p, m, q)
    BY <2>1, MadeFields
  <2> QED BY <2>2 DEF MadeOf
<1>4. Alive(q)
  BY <1>1, <1>3, MovesLeaveNoneDead
<1>5. q.material = eval_material(q)
  BY <1>1, MaterialFollows
<1>6. PieceCount(q) = PieceCount(p)
  BY <1>1, NoPieceIsLost
<1>7. unmake_move(c, q, m, p.key, p.material) = p
  BY <1>1, TakingBackRestores
<1> QED BY <1>2, <1>4, <1>5, <1>6, <1>7 DEF Sane

(* Of a sane position exam_bb has nothing to complain.                     *)
LEMMA UnionsOfCopies ==
  ASSUME NEW p, IsPosition(p), Copies(p), NEW c \in Colour, NEW K \in SUBSET Kinds
  PROVE  OnBoard(p.board, c, K) = (IF king \in K THEN {p.sq_king[c]} ELSE {})
                                    \cup UNION {p.bb[c][k] : k \in K \ {king}}
<1> DEFINE rest == UNION {p.bb[c][k] : k \in K \ {king}}
<1>1. \A k \in K \ {king} : p.bb[c][k] = OnBoard(p.board, c, {k})
  BY DEF Copies, BoardKinds
<1>2. OnBoard(p.board, c, {king}) = {p.sq_king[c]}
  BY DEF Copies
<1>3. \A s : s \in OnBoard(p.board, c, K) <=> \E k \in K : s \in OnBoard(p.board, c, {k})
  BY DEF OnBoard
<1>4. \A s : s \in rest <=> \E k \in K \ {king} : s \in OnBoard(p.board, c, {k})
  BY <1>1
<1> HIDE DEF rest
<1>5. OnBoard(p.board, c, K) = (IF king \in K THEN {p.sq_king[c]} ELSE {}) \cup rest
  BY <1>2, <1>3, <1>4
<1> QED BY <1>5 DEF rest

(* What exam_bb (debug.c) demands of the copies.                           *)
LEMMA SanePassesTheExam ==
  ASSUME NEW p, Sane(p) PROVE exam_bb(p, PieceCount(p))
<1>1. IsPosition(p) /\ Copies(p) /\ Alive(p) /\ p.material = eval_material(p)
  BY DEF Sane
<1>2. \A c \in Colour : \A k \in BoardKinds : p.bb[c][k] = OnBoard(p.board, c, {k})
  BY <1>1 DEF Copies
<1>3. ASSUME NEW c \in Colour PROVE NoDeadPiece(c, p)
  BY <1>1, <1>2, KindsApart DEF NoDeadPiece, Alive
<1>4. ASSUME NEW c \in Colour PROVE UnionsAgree(c, p)
  <2>1. ASSUME NEW u \in DOMAIN Unions
        PROVE  p.union[c][u] = (IF king \in Unions[u] THEN {p.sq_king[c]} ELSE {})
                                 \cup UNION {p.bb[c][k] : k \in Unions[u] \ {king}}
    <3>1. p.union[c][u] = OnBoard(p.board, c, Unions[u]) /\ Unions[u] \in SUBSET Kinds
      BY <1>1, SetsOfKinds DEF Copies
    <3> QED BY <1>1, <3>1, UnionsOfCopies
  <2>2. p.pawn_atk[c] = {s + Ahead(c) : s \in p.bb[c][pawn]}
    <3>1. p.bb[c][pawn] = OnBoard(p.board, c, {pawn})
      BY <1>2, KindsApart
    <3> QED BY <1>1, <3>1 DEF Copies
  <2>3. p.occ[c] = {p.sq_king[c]} \cup UNION {p.bb[c][k] : k \in BoardKinds}
    <3>1. p.occ[c] = OnBoard(p.board, c, Kinds) /\ Kinds \in SUBSET Kinds
      BY <1>1 DEF Copies
    <3>2. OnBoard(p.board, c, Kinds) = (IF king \in Kinds THEN {p.sq_king[c]} ELSE {})
                                         \cup UNION {p.bb[c][k] : k \in Kinds \ {king}}
      BY <1>1, UnionsOfCopies
    <3>3. king \in Kinds
      BY KindsApart
    <3> QED BY <3>1, <3>2, <3>3 DEF BoardKinds
  <2> QED BY <2>1, <2>2, <2>3 DEF UnionsAgree
<1>5. BoardAgrees(p)
  <2>1. \A c \in Colour, k \in BoardKinds : \A s \in p.bb[c][k] : p.board[s] = Signed(c, k)
    BY <1>1, PieceOf
  <2>2. \A c \in Colour : p.board[p.sq_king[c]] = Signed(c, king)
    BY <1>1, PieceOf
  <2>3. p.rl90 = {s \in Square : p.board[s] # empty} /\ p.rl45 = p.rl90 /\ p.rr45 = p.rl90
    BY <1>1 DEF Copies
  <2> QED BY <2>1, <2>2, <2>3 DEF BoardAgrees
<1>6. ASSUME NEW k \in Hands
      PROVE  PieceCount(p)[k] = p.hand[black][k] + p.hand[white][k] + Cardinality(Standing(p, k))
  <2> DEFINE counted == {s \in Square : LET a == IF p.board[s] < 0 THEN -p.board[s] ELSE p.board[s]
                                        IN a # empty /\ Unpromoted(a) = k}
             found == Standing(p, k)
  <2>1. PieceCount(p)[k] = Cardinality(counted) + p.hand[black][k] + p.hand[white][k]
    BY DEF PieceCount
  <2>2. counted = With(p.board, OfKind(k))
    <3>1. \A s \in Square : p.board[s] \in Pieces
      BY <1>1 DEF IsPosition
    <3> QED BY <3>1 DEF With, OfKind
  <2>3. \A s : s \in found <=> \E c \in Colour, j \in BoardKinds : Unpromoted(j) = k /\ s \in p.bb[c][j]
    BY DEF Standing
  <2>4. \A c \in Colour, j \in BoardKinds : p.bb[c][j] = {s \in Square : p.board[s] = Signed(c, j)}
    BY <1>2 DEF OnBoard
  <2> HIDE DEF counted, found
  <2>5. Unpromoted(king) # k
    BY DEF Unpromoted, Hands, king, pawn, rook
  <2>6. ASSUME NEW s \in found PROVE s \in With(p.board, OfKind(k))
    <3>1. PICK c \in Colour, j \in BoardKinds : Unpromoted(j) = k /\ s \in Square /\ p.board[s] = Signed(c, j)
      BY <2>3, <2>4
    <3> QED BY <3>1, KindsAreNumbers, PiecesOfKind DEF With
  <2>7. ASSUME NEW s \in With(p.board, OfKind(k)) PROVE s \in found
    <3>1. s \in Square /\ p.board[s] \in OfKind(k)
      BY DEF With
    <3>2. p.board[s] \in Pieces /\ p.board[s] # empty
      BY <3>1, PiecesOfKind
    <3>3. PICK c \in Colour, j \in Kinds : p.board[s] = Signed(c, j)
      BY <3>2 DEF Pieces
    <3>4. Unpromoted(j) = k
      BY <3>1, <3>3, PiecesOfKind
    <3>5. j \in BoardKinds
      BY <2>5, <3>4 DEF BoardKinds
    <3> QED BY <2>3, <2>4, <3>1, <3>3, <3>4, <3>5
  <2>8. counted = found
    <3>1. PICK w : w = With(p.board, OfKind(k))
      OBVIOUS
    <3> QED BY <2>2, <2>6, <2>7, <3>1
  <2>9. p.hand[black][k] \in Int /\ p.hand[white][k] \in Int /\ Cardinality(counted) \in Int
    <3>1. counted \in SUBSET Square
      BY <2>2 DEF With
    <3> QED BY <1>1, <3>1, SquaresAreFinite DEF IsPosition, Colour
  <2>10. PieceCount(p)[k] = p.hand[black][k] + p.hand[white][k] + Cardinality(found)
    BY <2>1, <2>8, <2>9
  <2> QED BY <2>10 DEF found
<1>7. p.key = hash_func(p)
  BY <1>1 DEF Copies
<1>8. \A c \in Colour : NoDeadPiece(c, p) /\ UnionsAgree(c, p)
  BY <1>3, <1>4
<1>9. p.material = eval_material(p)
  BY <1>1
<1> QED BY <1>5, <1>6, <1>7, <1>8, <1>9, Zenon DEF exam_bb

(* What SetUp makes of each field.                                         *)
SetUpOf(b, h, q) ==
  /\ HasFields(q)
  /\ q.board = b /\ q.hand = h
  /\ q.bb = [c \in Colour |-> [k \in BoardKinds |-> OnBoard(b, c, {k})]]
  /\ q.occ = [c \in Colour |-> OnBoard(b, c, Kinds)]
  /\ q.union = [c \in Colour |-> [u \in DOMAIN Unions |-> OnBoard(b, c, Unions[u])]]
  /\ q.pawn_atk = [c \in Colour |-> {s + Ahead(c) : s \in OnBoard(b, c, {pawn})}]
  /\ q.rl90 = OnBoard(b, black, Kinds) \cup OnBoard(b, white, Kinds)
  /\ q.rr45 = q.rl90 /\ q.rl45 = q.rl90
  /\ q.sq_king = [c \in Colour |-> CHOOSE s \in Square : b[s] = Signed(c, king)]
  /\ q.key = hash_func(q) /\ q.material = eval_material(q)

(* What SetUp makes of each field.                                         *)
LEMMA SetUpFields ==
  ASSUME NEW b, NEW h, NEW q, q = SetUp(b, h) PROVE SetUpOf(b, h, q)
<1> DEFINE occupied(c) == OnBoard(b, c, Kinds)
           all == occupied(black) \cup occupied(white)
           copied == [c \in Colour |-> [k \in BoardKinds |-> OnBoard(b, c, {k})]]
           unions == [c \in Colour |-> [u \in DOMAIN Unions |-> OnBoard(b, c, Unions[u])]]
           attacks == [c \in Colour |-> {s + Ahead(c) : s \in OnBoard(b, c, {pawn})}]
           kings == [c \in Colour |-> CHOOSE s \in Square : b[s] = Signed(c, king)]
           occs == [c \in Colour |-> occupied(c)]
           p == [board |-> b, hand |-> h, bb |-> copied, occ |-> occs, union |-> unions,
                 pawn_atk |-> attacks, rl90 |-> all, rr45 |-> all, rl45 |-> all,
                 sq_king |-> kings, key |-> {}, material |-> 0]
<1>1. SetUp(b, h) = [p EXCEPT !.key = hash_func(p), !.material = eval_material(p)]
  BY Zenon DEF SetUp
<1>2. PICK a, d, u, t, g, o : a = all /\ d = copied /\ u = unions /\ t = attacks /\ g = kings /\ o = occs
  OBVIOUS
<1> HIDE DEF all, copied, unions, attacks, kings, occs
<1>3. PICK y, v : y = hash_func(p) /\ v = eval_material(p)
  OBVIOUS
<1>4. p.bb = d /\ p.sq_king = g /\ p.hand = h
  BY <1>2
<1>5. p = [board |-> b, hand |-> h, bb |-> d, occ |-> o, union |-> u,
           pawn_atk |-> t, rl90 |-> a, rr45 |-> a, rl45 |-> a, sq_king |-> g, key |-> {}, material |-> 0]
  BY <1>2
<1>6. /\ HasFields(q) /\ q.board = b /\ q.hand = h /\ q.bb = d /\ q.occ = o /\ q.union = u
      /\ q.pawn_atk = t /\ q.rl90 = a /\ q.rr45 = a /\ q.rl45 = a /\ q.sq_king = g
      /\ q.key = y /\ q.material = v
  <2>1. q = [p EXCEPT !.key = y, !.material = v]
    BY <1>1, <1>3
  <2> HIDE DEF p
  <2> QED BY <1>5, <2>1 DEF HasFields, Fields
<1> HIDE DEF p
<1>7. hash_func(q) = hash_func(p)
  BY <1>4, <1>6 DEF hash_func
<1>8. eval_material(q) = eval_material(p)
  <2>1. \A c, k : Count(q, c, k) = Count(p, c, k)
    BY <1>4, <1>6 DEF Count
  <2>2. \A k : Worth(q, k) = Worth(p, k)
    BY <2>1 DEF Worth
  <2> QED BY <2>2, Zenon DEF eval_material
<1> QED BY <1>2, <1>3, <1>6, <1>7, <1>8 DEF SetUpOf, all, copied, unions, attacks, kings, occs

(* A board with one king of each side is set up with the copies in step.   *)
OneKingEach(b) == \A c \in Colour : \E s \in Square : OnBoard(b, c, {king}) = {s}

LEMMA SetUpIsPosition ==
  ASSUME NEW b \in [Square -> Pieces], OneKingEach(b), NEW h \in [Colour -> [Hands -> Nat]],
         NEW q, q = SetUp(b, h)
  PROVE  IsPosition(q) /\ Copies(q) /\ q.board = b
<1>2. \A c \in Colour : \E s \in Square : OnBoard(b, c, {king}) = {s}
  BY DEF OneKingEach
<1>3. SetUpOf(b, h, q)
  BY SetUpFields
<1> USE DEF SetUpOf
<1>4. \A c, K : OnBoard(b, c, K) \in SUBSET Square
  BY DEF OnBoard
<1>5. ASSUME NEW c \in Colour
      PROVE q.sq_king[c] \in Square /\ OnBoard(b, c, {king}) = {q.sq_king[c]}
  <2>1. PICK s \in Square : OnBoard(b, c, {king}) = {s}
    BY <1>2
  <2>2. \A t \in Square : b[t] = Signed(c, king) <=> t = s
    BY <2>1 DEF OnBoard
  <2>3. q.sq_king[c] = s
    <3>1. q.sq_king[c] = CHOOSE t \in Square : b[t] = Signed(c, king)
      BY <1>3
    <3> QED BY <2>2, <3>1
  <2> QED BY <2>1, <2>3
<1>6. \A c \in Colour : \A k \in BoardKinds : q.bb[c][k] = OnBoard(b, c, {k})
  BY <1>3
<1>7. hash_func(q) = KeyOf(b)
  <2>1. q.board = b
    BY <1>3
  <2>2. /\ \A c \in Colour : \A k \in BoardKinds : q.bb[c][k] = OnBoard(q.board, c, {k})
        /\ \A c \in Colour : OnBoard(q.board, c, {king}) = {q.sq_king[c]}
    BY <1>5, <1>6, <2>1
  <2> QED BY <2>1, <2>2, KeyOfCopies
<1>8. q.key \in SUBSET (Colour \X Kinds \X Square)
  BY <1>3, <1>7 DEF KeyOf
<1>9. OnBoard(b, black, Kinds) \cup OnBoard(b, white, Kinds) = {s \in Square : b[s] # empty}
  <2>1. ASSUME NEW s \in Square
        PROVE b[s] # empty <=> s \in OnBoard(b, black, Kinds) \/ s \in OnBoard(b, white, Kinds)
    <3>1. b[s] # empty <=> \E c \in Colour, k \in Kinds : b[s] = Signed(c, k)
      BY <1>2, SignedIsOne DEF Pieces
    <3> QED BY <3>1 DEF OnBoard, Colour
  <2>2. \A s \in OnBoard(b, black, Kinds) \cup OnBoard(b, white, Kinds) : s \in Square
    BY <1>4
  <2> QED BY <2>1, <2>2
<1>10. IsPosition(q)
  <2>1. q.bb \in [Colour -> [BoardKinds -> SUBSET Square]]
    BY <1>3, <1>4
  <2>2. q.union \in [Colour -> [DOMAIN Unions -> SUBSET Square]]
    BY <1>3, <1>4
  <2>3. q.occ \in [Colour -> SUBSET Square]
    BY <1>3, <1>4
  <2>4. q.pawn_atk \in [Colour -> SUBSET Int]
    <3>1. ASSUME NEW c \in Colour PROVE {s + Ahead(c) : s \in OnBoard(b, c, {pawn})} \in SUBSET Int
      BY AheadIsOneRank, <1>4 DEF Square
    <3>2. PICK f : f = [c \in Colour |-> {s + Ahead(c) : s \in OnBoard(b, c, {pawn})}]
      OBVIOUS
    <3>3. f \in [Colour -> SUBSET Int]
      BY <3>1, <3>2
    <3>4. q.pawn_atk = f
      BY <1>3, <3>2, Zenon
    <3> QED BY <3>3, <3>4
  <2>5. q.sq_king \in [Colour -> Square]
    <3>1. q.sq_king = [c \in Colour |-> q.sq_king[c]]
      BY <1>3
    <3> QED BY <3>1, <1>5
  <2>6. q.rl90 \in SUBSET Square /\ q.rr45 \in SUBSET Square /\ q.rl45 \in SUBSET Square
    BY <1>3, <1>4
  <2> QED BY <1>2, <1>3, <1>8, <2>1, <2>2, <2>3, <2>4, <2>5, <2>6, Zenon DEF IsPosition
<1>11. Copies(q)
  <2>1. \A c \in Colour : \A u \in DOMAIN Unions : q.union[c][u] = OnBoard(b, c, Unions[u])
    BY <1>3
  <2>2. \A c \in Colour : q.occ[c] = OnBoard(b, c, Kinds)
    BY <1>3
  <2>3. \A c \in Colour : q.pawn_atk[c] = {s + Ahead(c) : s \in OnBoard(b, c, {pawn})}
    BY <1>3
  <2>4. q.rl90 = {s \in Square : b[s] # empty}
    BY <1>3, <1>9
  <2>5. q.board = b /\ q.rr45 = q.rl90 /\ q.rl45 = q.rl90 /\ q.key = hash_func(q)
    BY <1>3
  <2>6. \A c \in Colour : OnBoard(b, c, {king}) = {q.sq_king[c]}
    BY <1>5
  <2> HIDE DEF SetUpOf
  <2> QED BY <1>6, <2>1, <2>2, <2>3, <2>4, <2>5, <2>6, Zenon DEF Copies
<1> QED BY <1>3, <1>10, <1>11

(* A well-formed start is set up as a sane position.                       *)
LEMMA SetUpIsSane ==
  ASSUME NEW x, WellFormed(x), NEW q, q = SetUp(x.board, x.hand)
  PROVE  Sane(q) /\ PieceCount(q) = PieceCount(x)
<1>1. PICK b, h : b = x.board /\ h = x.hand
  OBVIOUS
<1>2. /\ b \in [Square -> Pieces]
      /\ h \in [Colour -> [Hands -> Nat]]
      /\ \A c \in Colour :
           /\ \E s \in Square : OnBoard(b, c, {king}) = {s}
           /\ \A s \in OnBoard(b, c, {pawn}) : Row(c, s) > 0
           /\ \A s \in OnBoard(b, c, {knight}) : Row(c, s) > 1
  <2>1. /\ x.board \in [Square -> Pieces]
        /\ x.hand \in [Colour -> [Hands -> Nat]]
        /\ \A c \in Colour :
             /\ \E s \in Square : OnBoard(x.board, c, {king}) = {s}
             /\ \A s \in OnBoard(x.board, c, {pawn}) : Row(c, s) > 0
             /\ \A s \in OnBoard(x.board, c, {knight}) : Row(c, s) > 1
    BY DEF WellFormed
  <2> QED BY <1>1, <2>1, Zenon
<1>3. SetUpOf(b, h, q)
  <2>1. q = SetUp(b, h)
    BY <1>1
  <2> QED BY <2>1, SetUpFields
<1> USE DEF SetUpOf
<1>4. IsPosition(q) /\ Copies(q)
  <2>1. OneKingEach(b) /\ q = SetUp(b, h)
    BY <1>1, <1>2 DEF OneKingEach
  <2> QED BY <1>2, <2>1, SetUpIsPosition
<1>5. Alive(q)
  BY <1>2, <1>3 DEF Alive
<1>6. PieceCount(q) = PieceCount(x)
  BY <1>1, <1>3 DEF PieceCount
<1> QED BY <1>3, <1>4, <1>5, <1>6 DEF Sane

(* Before ini_game there is no position.                                   *)
LEMMA NoPositionIsNone == ASSUME Sane(NoPosition) PROVE FALSE
<1>1. NoPosition = [f \in Fields |-> NoPosition[f]]
  BY DEF Sane, IsPosition, HasFields
<1>2. "key" \in DOMAIN NoPosition
  BY <1>1 DEF Fields
<1>3. "key" \notin DOMAIN NoPosition
  BY DEF NoPosition
<1> QED BY <1>2, <1>3

IsASequence(s) == \E S : s \in Seq(S)

(* The sides take turns.                                                   *)
LEMMA Parity == \A n, i \in Int : (n + 1 - i) % 2 = 0 <=> (n - i) % 2 # 0
  OBVIOUS

(* t is s with e at its end.                                               *)
Extended(s, e, t) ==
  /\ IsASequence(t) /\ Len(s) \in Nat /\ Len(t) = Len(s) + 1
  /\ \A i \in 1..Len(s) : t[i] = s[i]
  /\ t[Len(t)] = e

(* A sequence with one element more.                                       *)
LEMMA Appended ==
  ASSUME NEW s, IsASequence(s), NEW e PROVE Extended(s, e, Append(s, e))
<1> DEFINE t == Append(s, e)
<1>1. PICK S : s \in Seq(S)
  BY DEF IsASequence
<1>2. PICK T : T = S \cup {e}
  OBVIOUS
<1>3. Len(s) \in Nat
  BY <1>1
<1>4. s \in Seq(T)
  BY <1>1, <1>2
<1>5. e \in T
  BY <1>2
<1>6. t \in Seq(T) /\ Len(t) = Len(s) + 1 /\ (\A i \in 1..Len(s) : t[i] = s[i]) /\ t[Len(s) + 1] = e
  BY <1>4, <1>5, AppendProperties
<1> QED BY <1>3, <1>6 DEF IsASequence, Extended

(* A sequence without its last element.                                    *)
LEMMA Shortened ==
  ASSUME NEW s, IsASequence(s), s # <<>>, NEW t, t = SubSeq(s, 1, Len(s) - 1)
  PROVE  /\ IsASequence(t) /\ Len(s) \in Nat /\ Len(s) > 0 /\ Len(t) = Len(s) - 1
         /\ \A i \in 1..Len(t) : t[i] = s[i]
<1>1. PICK S : s \in Seq(S)
  BY DEF IsASequence
<1>2. Len(s) \in Nat /\ Len(s) > 0
  BY <1>1
<1>3. PICK n \in Nat : n = Len(s) - 1
  <2>1. Len(s) - 1 \in Nat
    BY <1>2
  <2> QED BY <2>1
<1>4. \A i \in 1..n : s[i] \in S
  BY <1>1, <1>2, <1>3
<1>5. t = SubSeq(s, 1, n)
  BY <1>3
<1>6. t \in Seq(S) /\ Len(t) = n /\ \A i \in 1..n : t[i] = s[i]
  <2>1. SubSeq(s, 1, n) \in Seq(S) /\ Len(SubSeq(s, 1, n)) = (IF 1 <= n THEN n - 1 + 1 ELSE 0)
        /\ \A i \in 1..n - 1 + 1 : SubSeq(s, 1, n)[i] = s[1 + i - 1]
    BY <1>4, SubSeqProperties
  <2> QED BY <1>5, <2>1
<1> QED BY <1>2, <1>3, <1>6 DEF IsASequence

(***************************************************************************)
(* A walk: x is the start, p the position, t the side to move, l the moves *)
(* made and r the positions before them.  The moves and what make_move     *)
(* saved with each are enough to go back to every one of those positions.  *)
(***************************************************************************)
Mover(t, n, i) == IF (n - i) % 2 = 0 THEN Flip(t) ELSE t
GoesBack(p, t, l, r, i) ==
  UnMakeMove(Mover(t, Len(l), i), IF i = Len(l) THEN p ELSE r[i + 1],
             l[i].move, l[i].key, l[i].material) = r[i]
Reached(x, p) == Sane(p) /\ PieceCount(p) = PieceCount(x)
Walk(x, p, t, l, r) ==
  /\ t \in Colour
  /\ p # NoPosition => Reached(x, p)
  /\ p = NoPosition => l = <<>>
  /\ IsASequence(l) /\ IsASequence(r) /\ Len(r) = Len(l)
  /\ \A i \in 1..Len(l) : Reached(x, r[i]) /\ GoesBack(p, t, l, r, i)

(* A walk begins at its start.                                             *)
LEMMA WalkBegins ==
  ASSUME NEW x, WellFormed(x), NEW t \in Colour
  PROVE  /\ Walk(x, NoPosition, t, <<>>, <<>>)
         /\ Walk(x, SetUp(x.board, x.hand), t, <<>>, <<>>)
<1>1. PICK p : p = SetUp(x.board, x.hand)
  OBVIOUS
<1>2. Reached(x, p)
  BY <1>1, SetUpIsSane DEF Reached
<1>3. p # NoPosition
  BY <1>2, NoPositionIsNone DEF Reached
<1>4. PICK l : l = <<>>
  OBVIOUS
<1>5. IsASequence(l) /\ Len(l) = 0
  BY <1>4 DEF IsASequence
<1>6. \A i \in 1..Len(l) : FALSE
  BY <1>5
<1>7. Walk(x, p, t, l, l)
  BY <1>2, <1>3, <1>5, <1>6, Zenon DEF Walk
<1>8. Walk(x, NoPosition, t, l, l)
  BY <1>4, <1>5, <1>6, Zenon DEF Walk
<1> QED BY <1>1, <1>4, <1>7, <1>8

(* The sequence of no elements.                                            *)
LEMMA EmptyOnly == ASSUME NEW s, IsASequence(s), Len(s) = 0 PROVE s = <<>>
  BY DEF IsASequence

(* The copies of the source for white do what those for black do.          *)
LEMMA MoveIsMade ==
  ASSUME NEW t \in Colour, NEW p, NEW m, NEW key, NEW material
  PROVE  /\ MakeMove(t, p, m) = make_move(t, p, m)
         /\ UnMakeMove(t, p, m, key, material) = unmake_move(t, p, m, key, material)
  BY Zenon DEF MakeMove, UnMakeMove, make_move_w, unmake_move_w, Colour

(* A generated move leads on, and can be taken back.                       *)
LEMMA WalkGoesOn ==
  ASSUME NEW x, NEW p, NEW t, NEW l, NEW r, Walk(x, p, t, l, r),
         p # NoPosition, ~InCheck(Flip(t), p), NEW m \in Generated(t, p), NEW q, q = MakeMove(t, p, m),
         NEW l2, l2 = Append(l, [move |-> m, key |-> p.key, material |-> p.material]),
         NEW r2, r2 = Append(r, p)
  PROVE  Walk(x, q, Flip(t), l2, r2)
<1>1. t \in Colour /\ Flip(t) \in Colour /\ Flip(Flip(t)) = t /\ Sane(p) /\ PieceCount(p) = PieceCount(x)
  BY Flips DEF Walk, Reached
<1>2. PICK e : e = [move |-> m, key |-> p.key, material |-> p.material]
  OBVIOUS
<1>3. e.move = m /\ e.key = p.key /\ e.material = p.material
  BY <1>2
<1>4. Good(t, p, m)
  BY <1>1, GeneratedAreGood DEF Sane
<1>5. q = make_move(t, p, m)
  BY <1>1, MoveIsMade
<1>6. /\ Sane(q) /\ PieceCount(q) = PieceCount(p)
      /\ unmake_move(t, q, m, p.key, p.material) = p
  BY <1>1, <1>4, <1>5, MovesKeepSane
<1>7. Reached(x, q) /\ q # NoPosition
  BY <1>1, <1>6, NoPositionIsNone DEF Reached
<1>8. UnMakeMove(t, q, e.move, e.key, e.material) = p
  BY <1>1, <1>3, <1>6, MoveIsMade
<1>9. /\ IsASequence(l2) /\ Len(l) \in Nat /\ Len(l2) = Len(l) + 1
      /\ \A i \in 1..Len(l) : l2[i] = l[i]
      /\ l2[Len(l2)] = e
  <2>1. l2 = Append(l, e) /\ IsASequence(l)
    BY <1>2 DEF Walk
  <2>2. Extended(l, e, l2)
    BY <2>1, Appended
  <2> QED BY <2>2 DEF Extended
<1>10. /\ IsASequence(r2) /\ Len(r2) = Len(r) + 1 /\ Len(r) = Len(l)
       /\ \A i \in 1..Len(r) : r2[i] = r[i]
       /\ r2[Len(r2)] = p
  <2>1. r2 = Append(r, p) /\ IsASequence(r) /\ Len(r) = Len(l)
    BY DEF Walk
  <2>2. Extended(r, p, r2)
    BY <2>1, Appended
  <2> QED BY <2>1, <2>2 DEF Extended
<1>11. PICK n \in Nat : n = Len(l)
  BY <1>9
<1>12. Len(l2) = n + 1 /\ Len(r2) = n + 1 /\ Len(l) = n /\ Len(r) = n
  BY <1>9, <1>10, <1>11
<1>13. ASSUME NEW i \in 1..(n + 1) PROVE Reached(x, r2[i]) /\ GoesBack(q, Flip(t), l2, r2, i)
  <2>1. CASE i = n + 1
    <3>1. r2[i] = p /\ l2[i] = e
      BY <1>9, <1>10, <1>12, <2>1
    <3>2. Mover(Flip(t), n + 1, i) = t
      BY <1>1, <2>1 DEF Mover
    <3>3. GoesBack(q, Flip(t), l2, r2, i)
      BY <1>8, <1>12, <2>1, <3>1, <3>2, Zenon DEF GoesBack
    <3> QED BY <1>1, <3>1, <3>3 DEF Reached
  <2>2. CASE i \in 1..n
    <3>1. r2[i] = r[i] /\ l2[i] = l[i] /\ i # n + 1
      BY <1>9, <1>10, <1>12, <2>2
    <3>2. Reached(x, r[i]) /\ GoesBack(p, t, l, r, i)
      BY <1>12, <2>2 DEF Walk
    <3>3. Mover(Flip(t), n + 1, i) = Mover(t, n, i)
      <4>1. (n + 1 - i) % 2 = 0 <=> (n - i) % 2 # 0
        BY <2>2, Parity
      <4> QED BY <1>1, <4>1 DEF Mover
    <3>4. r2[i + 1] = IF i = n THEN p ELSE r[i + 1]
      <4>1. CASE i = n
        BY <1>10, <1>12, <4>1
      <4>2. CASE i # n
        <5>1. i + 1 \in 1..n /\ r2[i + 1] = r[i + 1]
          BY <1>10, <1>12, <2>2, <4>2
        <5> QED BY <4>2, <5>1
      <4> QED BY <4>1, <4>2
    <3>5. UnMakeMove(Mover(t, n, i), IF i = n THEN p ELSE r[i + 1], l[i].move, l[i].key, l[i].material) = r[i]
      BY <1>12, <3>2 DEF GoesBack
    <3>6. UnMakeMove(Mover(Flip(t), n + 1, i), r2[i + 1], l2[i].move, l2[i].key, l2[i].material) = r2[i]
      BY <3>1, <3>3, <3>4, <3>5, Zenon
    <3>7. GoesBack(q, Flip(t), l2, r2, i)
      BY <1>12, <3>1, <3>6, Zenon DEF GoesBack
    <3> QED BY <3>1, <3>2, <3>7
  <2>3. i = n + 1 \/ i \in 1..n
    OBVIOUS
  <2> QED BY <2>1, <2>2, <2>3
<1> QED BY <1>1, <1>7, <1>9, <1>10, <1>12, <1>13 DEF Walk

(* A step back: the last move is unmade, with what was saved with it.      *)
WentBack(p, t, l, r, q, l2, r2) ==
  /\ q = UnMakeMove(Flip(t), p, l[Len(l)].move, l[Len(l)].key, l[Len(l)].material)
  /\ l2 = SubSeq(l, 1, Len(l) - 1)
  /\ r2 = SubSeq(r, 1, Len(r) - 1)

(* A move taken back leads to the position before it.                      *)
LEMMA WalkComesBack ==
  ASSUME NEW x, NEW p, NEW t, NEW l, NEW r, Walk(x, p, t, l, r), l # <<>>,
         NEW q, NEW l2, NEW r2, WentBack(p, t, l, r, q, l2, r2)
  PROVE  /\ q = r[Len(r)] /\ Len(l2) < Len(l)
         /\ Walk(x, q, Flip(t), l2, r2)
<1>0. /\ q = UnMakeMove(Flip(t), p, l[Len(l)].move, l[Len(l)].key, l[Len(l)].material)
      /\ l2 = SubSeq(l, 1, Len(l) - 1)
      /\ r2 = SubSeq(r, 1, Len(r) - 1)
  BY DEF WentBack
<1>1. t \in Colour /\ Flip(t) \in Colour /\ Flip(Flip(t)) = t
  BY Flips DEF Walk
<1>2. /\ IsASequence(l2) /\ Len(l) \in Nat /\ Len(l) > 0 /\ Len(l2) = Len(l) - 1
      /\ \A i \in 1..Len(l2) : l2[i] = l[i]
  BY <1>0, Shortened DEF Walk
<1>3. /\ IsASequence(r2) /\ Len(r) = Len(l) /\ Len(r2) = Len(r) - 1
      /\ \A i \in 1..Len(r2) : r2[i] = r[i]
  <2>1. IsASequence(r) /\ Len(r) = Len(l)
    BY DEF Walk
  <2>2. r # <<>>
    BY <1>2, <2>1
  <2> QED BY <1>0, <2>1, <2>2, Shortened
<1>4. PICK n \in Nat : n = Len(l) - 1
  BY <1>2
<1>5. Len(l) = n + 1 /\ Len(r) = n + 1 /\ Len(l2) = n /\ Len(r2) = n
  BY <1>2, <1>3, <1>4
<1>6. \A i \in 1..(n + 1) : Reached(x, r[i]) /\ GoesBack(p, t, l, r, i)
  BY <1>5 DEF Walk
<1>7. q = r[n + 1]
  <2>1. n + 1 \in 1..(n + 1) /\ Mover(t, n + 1, n + 1) = Flip(t)
    BY DEF Mover
  <2>2. GoesBack(p, t, l, r, n + 1)
    BY <1>6, <2>1
  <2> QED BY <1>0, <1>5, <2>1, <2>2, Zenon DEF GoesBack
<1>8. Reached(x, q) /\ q # NoPosition
  <2>1. Reached(x, r[n + 1])
    BY <1>6
  <2> QED BY <1>7, <2>1, NoPositionIsNone DEF Reached
<1>9. ASSUME NEW i \in 1..n PROVE Reached(x, r2[i]) /\ GoesBack(q, Flip(t), l2, r2, i)
  <2>1. r2[i] = r[i] /\ l2[i] = l[i] /\ i # n + 1
    BY <1>2, <1>3, <1>5
  <2>2. Reached(x, r[i]) /\ GoesBack(p, t, l, r, i)
    BY <1>6
  <2>3. Mover(Flip(t), n, i) = Mover(t, n + 1, i)
    <3>1. (n + 1 - i) % 2 = 0 <=> (n - i) % 2 # 0
      BY Parity
    <3> QED BY <1>1, <3>1 DEF Mover
  <2>4. r[i + 1] = IF i = n THEN q ELSE r2[i + 1]
    <3>1. CASE i = n
      BY <1>7, <3>1
    <3>2. CASE i # n
      <4>1. i + 1 \in 1..n /\ r2[i + 1] = r[i + 1]
        BY <1>3, <1>5, <3>2
      <4> QED BY <3>2, <4>1
    <3> QED BY <3>1, <3>2
  <2>5. UnMakeMove(Mover(t, n + 1, i), r[i + 1], l[i].move, l[i].key, l[i].material) = r[i]
    BY <1>0, <1>5, <2>1, <2>2, Zenon DEF GoesBack
  <2>6. UnMakeMove(Mover(Flip(t), n, i), IF i = n THEN q ELSE r2[i + 1],
                   l2[i].move, l2[i].key, l2[i].material) = r2[i]
    BY <2>1, <2>3, <2>4, <2>5, Zenon
  <2>7. GoesBack(q, Flip(t), l2, r2, i)
    BY <1>5, <2>6, Zenon DEF GoesBack
  <2> QED BY <2>1, <2>2, <2>7
<1>10. Len(l2) < Len(l) /\ q = r[Len(r)]
  BY <1>5, <1>7
<1> QED BY <1>1, <1>2, <1>3, <1>5, <1>8, <1>9, <1>10 DEF Walk

WalkInv == start \in Starts /\ Walk(start, pos, turn, line, seen)

(* The start.                                                              *)
LEMMA WalkInvInit == Init => WalkInv
  BY MovesAssumption, WalkBegins DEF Init, WalkInv, Playable

(* ini_game sets the start up.                                             *)
LEMMA WalkInvBegun ==
  ASSUME WalkInv, ini_game PROVE WalkInv'
<1>1. start \in Starts /\ WellFormed(start) /\ turn \in Colour
  BY MovesAssumption DEF WalkInv, Walk
<1>2. line = <<>> /\ seen = <<>>
  <2>1. pos = NoPosition
    BY DEF ini_game
  <2>2. line = <<>> /\ IsASequence(seen) /\ Len(seen) = Len(line)
    BY <2>1 DEF WalkInv, Walk
  <2>3. Len(seen) = 0
    BY <2>2
  <2> QED BY <2>2, <2>3, EmptyOnly
<1>3. pos' = SetUp(start.board, start.hand) /\ start' = start /\ turn' = turn /\ line' = line /\ seen' = seen
  BY DEF ini_game
<1>4. Walk(start, SetUp(start.board, start.hand), turn, <<>>, <<>>)
  BY <1>1, WalkBegins
<1>5. Walk(start, pos', turn, <<>>, <<>>)
  BY <1>3, <1>4
<1> QED BY <1>1, <1>2, <1>3, <1>5 DEF WalkInv

(* make_move.                                                              *)
LEMMA WalkInvMade ==
  ASSUME WalkInv, Make PROVE WalkInv' /\ Len(line') > Len(line)
<1>1. start \in Starts /\ Walk(start, pos, turn, line, seen)
  BY DEF WalkInv
<1>2. pos # NoPosition /\ ~InCheck(Flip(turn), pos)
  BY DEF Make, Sound
<1>3. PICK m \in Generated(turn, pos) :
        /\ pos' = MakeMove(turn, pos, m)
        /\ line' = Append(line, [move |-> m, key |-> pos.key, material |-> pos.material])
  BY DEF Make
<1>4. turn' = Flip(turn) /\ seen' = Append(seen, pos) /\ start' = start
  BY DEF Make
<1>5. Walk(start, pos', Flip(turn), line', seen')
  BY <1>1, <1>2, <1>3, <1>4, WalkGoesOn
<1>6. Len(line') > Len(line)
  <2>1. IsASequence(line)
    BY <1>1 DEF Walk
  <2>2. PICK e : line' = Append(line, e)
    BY <1>3
  <2>3. Extended(line, e, line')
    BY <2>1, <2>2, Appended
  <2> QED BY <2>3 DEF Extended
<1> QED BY <1>1, <1>4, <1>5, <1>6 DEF WalkInv

(* unmake_move.                                                            *)
LEMMA WalkInvUnmade ==
  ASSUME WalkInv, UnMake PROVE WalkInv' /\ pos' = seen[Len(seen)]
<1>1. start \in Starts /\ Walk(start, pos, turn, line, seen)
  BY DEF WalkInv
<1>2. line # <<>> /\ WentBack(pos, turn, line, seen, pos', line', seen')
  BY DEF UnMake, WentBack
<1>3. pos' = seen[Len(seen)] /\ Walk(start, pos', Flip(turn), line', seen')
  BY <1>1, <1>2, WalkComesBack
<1>4. turn' = Flip(turn) /\ start' = start
  BY DEF UnMake
<1> QED BY <1>1, <1>3, <1>4 DEF WalkInv

(* Nothing happens.                                                        *)
LEMMA WalkInvStutters ==
  ASSUME WalkInv, UNCHANGED vars PROVE WalkInv'
<1>1. start' = start /\ pos' = pos /\ turn' = turn /\ line' = line /\ seen' = seen
  BY DEF vars
<1> QED BY <1>1 DEF WalkInv

(* Every position of a walk is sane and has the pieces of the start, and   *)
(* from what make_move saved (tree_t) unmake_move leads back to every      *)
(* position before.                                                        *)
THEOREM EveryWalk == Spec => []WalkInv
<1>1. ASSUME WalkInv, [Next]_vars PROVE WalkInv'
  BY <1>1, WalkInvBegun, WalkInvMade, WalkInvUnmade, WalkInvStutters DEF Next
<1> QED BY <1>1, WalkInvInit, PTL DEF Spec

(* The assertion at the end of make_move and unmake_move (makemove.c:201,  *)
(* unmake.c:167) holds, whatever moves of the generators are made and      *)
(* taken back from whatever start: the bitboards, the unions, the          *)
(* occupancies, the key and the material agree with the board, and no      *)
(* piece is lost or gained.                                                *)
THEOREM TheCopiesAgree == Spec => []CopiesAgree
<1>1. ASSUME WalkInv PROVE CopiesAgree
  <2>1. pos # NoPosition => Sane(pos) /\ PieceCount(pos) = PieceCount(start)
    BY <1>1 DEF WalkInv, Walk, Reached
  <2> QED BY <2>1, SanePassesTheExam DEF CopiesAgree
<1> QED BY <1>1, EveryWalk, PTL

(* unmake_move restores every copy to what it was before the move          *)
(* (unmake.c), at any depth of the walk.                                   *)
THEOREM AMoveTakenBackIsUndone == Spec => TakenBackIsRestored
<1>1. ASSUME WalkInv, [Next]_vars
      PROVE  [Len(line') < Len(line) => pos' = seen[Len(seen)]]_vars
  <2>1. CASE ini_game
    <3>1. line' = line /\ IsASequence(line)
      BY <1>1, <2>1 DEF ini_game, WalkInv, Walk
    <3>2. Len(line) \in Nat
      BY <3>1 DEF IsASequence
    <3> QED BY <3>1, <3>2
  <2>2. CASE Make
    <3>1. Len(line') > Len(line) /\ IsASequence(line) /\ IsASequence(line')
      BY <1>1, <2>2, WalkInvMade DEF WalkInv, Walk
    <3>2. Len(line) \in Nat /\ Len(line') \in Nat
      BY <3>1 DEF IsASequence
    <3> QED BY <3>1, <3>2
  <2>3. CASE UnMake
    BY <1>1, <2>3, WalkInvUnmade
  <2>4. CASE UNCHANGED vars
    BY <2>4
  <2> QED BY <1>1, <2>1, <2>2, <2>3, <2>4 DEF Next
<1> QED BY <1>1, EveryWalk, PTL DEF Spec, TakenBackIsRestored

(* Where the search goes on, the generators (gencap.c, gennocap.c,         *)
(* gendrop.c, genevasn.c, movgenex.c) make only moves that fit the board:  *)
(* of a piece of the mover, or out of its hand, to a square that is empty  *)
(* or holds an enemy; never one that takes the king or leaves a pawn or a  *)
(* knight that could never move.                                           *)
THEOREM EveryMoveFits ==
  Spec => [](Sound => \A m \in Generated(turn, pos) : Good(turn, pos, m))
<1>1. ASSUME WalkInv, Sound PROVE \A m \in Generated(turn, pos) : Good(turn, pos, m)
  <2>1. Sane(pos) /\ turn \in Colour /\ ~InCheck(Flip(turn), pos)
    BY <1>1 DEF WalkInv, Walk, Reached, Sound
  <2> QED BY <2>1, GeneratedAreGood DEF Sane
<1>2. WalkInv => (Sound => \A m \in Generated(turn, pos) : Good(turn, pos, m))
  BY <1>1
<1> QED BY <1>2, EveryWalk, PTL

(***************************************************************************)
(* Rays and lines: what the tables of ini.c call a line between two        *)
(* squares is a ray of the rules.                                          *)
(***************************************************************************)

(* By rank and file: from (rs, fs) a line of steps (a, b) leads to (rt, ft). *)
Leads(a, b, rs, fs, rt, ft) ==
  /\ (a = 0 => rt = rs) /\ (a = 1 => rt > rs) /\ (a = -1 => rt < rs)
  /\ (b = 0 => ft = fs) /\ (b = 1 => ft > fs) /\ (b = -1 => ft < fs)
  /\ a = b => rt - rs = ft - fs
  /\ a + b = 0 => rt - rs = fs - ft
StepsLead(a, b, rs, fs, rt, ft) == \E i \in 1..8 : rt = rs + i * a /\ ft = fs + i * b
LeadsTo(d, s, t) == Leads(d[1], d[2], s \div 9, s % 9, t \div 9, t % 9)

(* So many steps away.                                                     *)
LEMMA SomeSteps ==
  ASSUME NEW a \in -1 .. 1, NEW b \in -1 .. 1, a # 0 \/ b # 0,
         NEW rs \in 0..8, NEW fs \in 0..8, NEW rt \in 0..8, NEW ft \in 0..8
  PROVE  Leads(a, b, rs, fs, rt, ft) <=> StepsLead(a, b, rs, fs, rt, ft)
<1>1. ASSUME NEW i \in 1..8, rt = rs + i * a, ft = fs + i * b PROVE Leads(a, b, rs, fs, rt, ft)
  <2>1. (a = 0 => i * a = 0) /\ (a = 1 => i * a = i) /\ (a = -1 => i * a = -i)
    OBVIOUS
  <2>2. (b = 0 => i * b = 0) /\ (b = 1 => i * b = i) /\ (b = -1 => i * b = -i)
    OBVIOUS
  <2>3. PICK x \in Int, y \in Int : x = i * a /\ y = i * b
    OBVIOUS
  <2>4. rt = rs + x /\ ft = fs + y
    BY <1>1, <2>3
  <2>5. (a = 0 => x = 0) /\ (a = 1 => x = i) /\ (a = -1 => x = -i)
    BY <2>1, <2>3
  <2>6. (b = 0 => y = 0) /\ (b = 1 => y = i) /\ (b = -1 => y = -i)
    BY <2>2, <2>3
  <2> QED BY <2>4, <2>5, <2>6 DEF Leads
<1>2. ASSUME Leads(a, b, rs, fs, rt, ft) PROVE \E i \in 1..8 : rt = rs + i * a /\ ft = fs + i * b
  <2>1. CASE a = 0
    <3>1. PICK i : i = IF b = 1 THEN ft - fs ELSE fs - ft
      OBVIOUS
    <3>2. i \in 1..8 /\ rt = rs + i * 0 /\ ft = fs + i * b
      <4>1. CASE b = 1
        BY <1>2, <2>1, <3>1, <4>1 DEF Leads
      <4>2. CASE b = -1
        BY <1>2, <2>1, <3>1, <4>2 DEF Leads
      <4> QED BY <2>1, <4>1, <4>2
    <3> QED BY <2>1, <3>2
  <2>2. CASE a = 1
    <3>1. PICK i : i = rt - rs
      OBVIOUS
    <3>2. i \in 1..8 /\ rt = rs + i * 1 /\ ft = fs + i * b
      <4>1. CASE b = 0
        BY <1>2, <2>2, <3>1, <4>1 DEF Leads
      <4>2. CASE b = 1
        BY <1>2, <2>2, <3>1, <4>2 DEF Leads
      <4>3. CASE b = -1
        <5>1. rt > rs /\ ft < fs /\ rt - rs = fs - ft
          BY <1>2, <2>2, <4>3 DEF Leads
        <5>2. i \in 1..8 /\ rt = rs + i /\ ft = fs - i
          BY <3>1, <5>1
        <5> QED BY <4>3, <5>2
      <4> QED BY <4>1, <4>2, <4>3
    <3> QED BY <2>2, <3>2
  <2>3. CASE a = -1
    <3>1. PICK i : i = rs - rt
      OBVIOUS
    <3>2. i \in 1..8 /\ rt = rs + i * (-1) /\ ft = fs + i * b
      <4>1. CASE b = 0
        BY <1>2, <2>3, <3>1, <4>1 DEF Leads
      <4>2. CASE b = 1
        BY <1>2, <2>3, <3>1, <4>2 DEF Leads
      <4>3. CASE b = -1
        BY <1>2, <2>3, <3>1, <4>3 DEF Leads
      <4> QED BY <4>1, <4>2, <4>3
    <3> QED BY <2>3, <3>2
  <2> QED BY <2>1, <2>2, <2>3
<1> QED BY <1>1, <1>2 DEF StepsLead

(* The eight directions.                                                   *)
LEMMA EightDirections ==
  ASSUME NEW d \in LineSteps
  PROVE  d = <<d[1], d[2]>> /\ d[1] \in -1 .. 1 /\ d[2] \in -1 .. 1 /\ (d[1] # 0 \/ d[2] # 0)
  BY DEF LineSteps, RankSteps, FileSteps, Diag1Steps, Diag2Steps

(* The squares of a ray are those its direction leads to.                  *)
LEMMA RayLeads ==
  ASSUME NEW s \in Square, NEW d \in LineSteps, NEW t
  PROVE  t \in Ray(s, d) <=> t \in Square /\ LeadsTo(d, s, t)
<1>1. PICK a \in -1 .. 1, b \in -1 .. 1 : d = <<a, b>> /\ a = d[1] /\ b = d[2] /\ (a # 0 \/ b # 0)
  BY EightDirections
<1>2. PICK steps : steps = {<<i * d[1], i * d[2]>> : i \in 1..8}
  OBVIOUS
<1>3. steps = {<<i * a, i * b>> : i \in 1..8}
  BY <1>1, <1>2
<1>4. Ray(s, d) = set_attacks(s, steps)
  BY <1>2 DEF Ray, Rays
<1>5. ASSUME t \in Ray(s, d) PROVE t \in Square /\ LeadsTo(d, s, t)
  <2>1. PICK x \in steps : OnTheBoard(airank(s) + x[1], aifile(s) + x[2]) /\ t = s + 9 * x[1] + x[2]
    BY <1>4, <1>5 DEF set_attacks
  <2>2. PICK i \in 1..8 : x = <<i * a, i * b>>
    BY <1>3, <2>1
  <2>3. x[1] = i * a /\ x[2] = i * b /\ x[1] \in Int /\ x[2] \in Int
    BY <2>2
  <2>4. t \in Square /\ t \div 9 = (s \div 9) + x[1] /\ t % 9 = (s % 9) + x[2]
    BY <2>1, <2>3, SquareMoved DEF OnTheBoard, airank, aifile
  <2>5. \E j \in 1..8 : t \div 9 = (s \div 9) + j * a /\ t % 9 = (s % 9) + j * b
    BY <2>3, <2>4
  <2>6. Leads(a, b, s \div 9, s % 9, t \div 9, t % 9)
    <3>1. PICK rs \in 0..8, fs \in 0..8, rt \in 0..8, ft \in 0..8 :
             rs = s \div 9 /\ fs = s % 9 /\ rt = t \div 9 /\ ft = t % 9
      BY <2>4, SquareParts
    <3>2. StepsLead(a, b, rs, fs, rt, ft)
      BY <2>5, <3>1 DEF StepsLead
    <3>3. Leads(a, b, rs, fs, rt, ft)
      BY <1>1, <3>2, SomeSteps
    <3> QED BY <3>1, <3>3
  <2> QED BY <1>1, <2>4, <2>6 DEF LeadsTo
<1>6. ASSUME t \in Square, LeadsTo(d, s, t) PROVE t \in Ray(s, d)
  <2>1. Leads(a, b, s \div 9, s % 9, t \div 9, t % 9)
    BY <1>1, <1>6 DEF LeadsTo
  <2>2. PICK i \in 1..8 : t \div 9 = (s \div 9) + i * a /\ t % 9 = (s % 9) + i * b
    <3>1. PICK rs \in 0..8, fs \in 0..8, rt \in 0..8, ft \in 0..8 :
             rs = s \div 9 /\ fs = s % 9 /\ rt = t \div 9 /\ ft = t % 9
      BY <1>6, SquareParts
    <3>2. Leads(a, b, rs, fs, rt, ft)
      BY <2>1, <3>1
    <3>3. StepsLead(a, b, rs, fs, rt, ft)
      BY <1>1, <3>2, SomeSteps
    <3> QED BY <3>1, <3>3 DEF StepsLead
  <2>3. PICK x : x = <<i * a, i * b>>
    OBVIOUS
  <2>4. x \in steps /\ x[1] = i * a /\ x[2] = i * b /\ x[1] \in Int /\ x[2] \in Int
    BY <1>3, <2>3
  <2>5. (s \div 9) + x[1] \in 0..8 /\ (s % 9) + x[2] \in 0..8
    BY <1>6, <2>2, <2>4, SquareParts
  <2>6. t = s + 9 * x[1] + x[2]
    <3>1. PICK y \in Int, z \in Int : y = x[1] /\ z = x[2]
      BY <2>4
    <3>2. t \div 9 = (s \div 9) + y /\ t % 9 = (s % 9) + z
      BY <2>2, <2>4, <3>1
    <3>3. t = s + 9 * y + z
      BY <1>6, <3>2, SquareParts DEF Square
    <3> QED BY <3>1, <3>3
  <2> QED BY <1>4, <2>4, <2>5, <2>6 DEF set_attacks, OnTheBoard, airank, aifile
<1> QED BY <1>5, <1>6

(* The kind of line, of 2..5, that the steps of a direction follow.        *)
KindOfLine(a, b) == IF b = 0 THEN 2 ELSE IF a = 0 THEN 3 ELSE IF a = b THEN 5 ELSE 4
LineAlong(d) == KindOfLine(d[1], d[2])

(* Squares are numbered rank by rank.                                      *)
LEMMA SquareOrder ==
  ASSUME NEW s \in Square, NEW u \in Square
  PROVE  /\ u > s <=> (u \div 9 > s \div 9 \/ (u \div 9 = s \div 9 /\ u % 9 > s % 9))
         /\ u = s <=> (u \div 9 = s \div 9 /\ u % 9 = s % 9)
<1>1. PICK rs \in 0..8, fs \in 0..8, ru \in 0..8, fu \in 0..8 :
         rs = s \div 9 /\ fs = s % 9 /\ ru = u \div 9 /\ fu = u % 9
  BY SquareParts
<1>2. s = 9 * rs + fs /\ u = 9 * ru + fu
  BY <1>1, SquareParts
<1>3. (u > s <=> (ru > rs \/ (ru = rs /\ fu > fs))) /\ (u = s <=> (ru = rs /\ fu = fs))
  BY <1>2
<1> QED BY <1>1, <1>3

(* By rank and file: two squares on a line of the kind e.                  *)
OnLine(e, rs, fs, rt, ft) ==
  CASE e = 2 -> fs = ft [] e = 3 -> rs = rt [] e = 4 -> rs + fs = rt + ft [] OTHER -> rs - fs = rt - ft

(* The tables of lines join two squares if they are on one.                *)
LEMMA JoinedOnLine ==
  ASSUME NEW s \in Square, NEW t \in Square, NEW e \in 2..5
  PROVE  Joined(e, s, t) <=> OnLine(e, s \div 9, s % 9, t \div 9, t % 9)
<1>1. e = 2 \/ e = 3 \/ e = 4 \/ e = 5
  OBVIOUS
<1> QED BY <1>1, JoinedBy DEF OnLine

(* Two squares are joined by one line only.                                *)
LEMMA OneLineOnly ==
  ASSUME NEW s \in Square, NEW t \in Square, s # t, NEW d \in 2..5, NEW e \in 2..5,
         Joined(d, s, t), Joined(e, s, t)
  PROVE  d = e
<1>1. PICK rs \in 0..8, fs \in 0..8, rt \in 0..8, ft \in 0..8 :
         rs = s \div 9 /\ fs = s % 9 /\ rt = t \div 9 /\ ft = t % 9
  BY SquareParts
<1>2. OnLine(d, rs, fs, rt, ft) /\ OnLine(e, rs, fs, rt, ft)
  BY <1>1, JoinedOnLine
<1>3. rs # rt \/ fs # ft
  BY <1>1, SquareOrder
<1>4. ASSUME d # e PROVE FALSE
  <2>1. (d = 2 => fs = ft) /\ (d = 3 => rs = rt) /\ (d = 4 => rs + fs = rt + ft) /\ (d = 5 => rs - fs = rt - ft)
    BY <1>2 DEF OnLine
  <2>2. (e = 2 => fs = ft) /\ (e = 3 => rs = rt) /\ (e = 4 => rs + fs = rt + ft) /\ (e = 5 => rs - fs = rt - ft)
    BY <1>2 DEF OnLine
  <2> QED BY <1>3, <1>4, <2>1, <2>2
<1> QED BY <1>4

(* A direction leads along its line, and every square of a line lies in    *)
(* one of its two directions.                                              *)
LEMMA DirectionsOfLines ==
  ASSUME NEW a \in -1 .. 1, NEW b \in -1 .. 1, a # 0 \/ b # 0,
         NEW rs \in 0..8, NEW fs \in 0..8, NEW rt \in 0..8, NEW ft \in 0..8
  PROVE  Leads(a, b, rs, fs, rt, ft) <=>
           /\ OnLine(KindOfLine(a, b), rs, fs, rt, ft)
           /\ a = 1 => rt > rs
           /\ a = -1 => rt < rs
           /\ a = 0 => (b = 1 => ft > fs) /\ (b = -1 => ft < fs)
<1>1. CASE b = 0
  <2>1. KindOfLine(a, b) = 2
    BY <1>1 DEF KindOfLine
  <2>2. CASE a = 1
    BY <1>1, <2>1, <2>2 DEF Leads, OnLine
  <2>3. CASE a = -1
    BY <1>1, <2>1, <2>3 DEF Leads, OnLine
  <2> QED BY <1>1, <2>2, <2>3
<1>2. CASE b # 0 /\ a = 0
  <2>1. KindOfLine(a, b) = 3
    BY <1>2 DEF KindOfLine
  <2>2. CASE b = 1
    BY <1>2, <2>1, <2>2 DEF Leads, OnLine
  <2>3. CASE b = -1
    BY <1>2, <2>1, <2>3 DEF Leads, OnLine
  <2> QED BY <1>2, <2>2, <2>3
<1>3. CASE b # 0 /\ a = b
  <2>1. KindOfLine(a, b) = 5
    BY <1>3 DEF KindOfLine
  <2>2. CASE a = 1
    BY <1>3, <2>1, <2>2 DEF Leads, OnLine
  <2>3. CASE a = -1
    BY <1>3, <2>1, <2>3 DEF Leads, OnLine
  <2> QED BY <1>3, <2>2, <2>3
<1>4. CASE b # 0 /\ a # 0 /\ a # b
  <2>1. KindOfLine(a, b) = 4
    BY <1>4 DEF KindOfLine
  <2>2. CASE a = 1
    <3>1. b = -1
      BY <1>4, <2>2
    <3> QED BY <3>1, <2>1, <2>2 DEF Leads, OnLine
  <2>3. CASE a = -1
    <3>1. b = 1
      BY <1>4, <2>3
    <3> QED BY <3>1, <2>1, <2>3 DEF Leads, OnLine
  <2> QED BY <1>4, <2>2, <2>3
<1> QED BY <1>1, <1>2, <1>3, <1>4

Later(ru, fu, rs, fs) == ru > rs \/ (ru = rs /\ fu > fs)

(* (ru, fu) is on the line, and in the order of squares between the two.   *)
Amid(a, b, rs, fs, ru, fu, rt, ft) ==
  /\ OnLine(KindOfLine(a, b), rs, fs, ru, fu)
  /\ ru # rs \/ fu # fs
  /\ ru # rt \/ fu # ft
  /\ Later(ru, fu, rs, fs) <=> Later(rt, ft, ru, fu)

(* What is between two squares of a line, in their order, is on the way    *)
(* from the one to the other.                                              *)
LEMMA OnTheWay ==
  ASSUME NEW a \in -1 .. 1, NEW b \in -1 .. 1, a # 0 \/ b # 0,
         NEW rs \in 0..8, NEW fs \in 0..8, NEW rt \in 0..8, NEW ft \in 0..8,
         NEW ru \in 0..8, NEW fu \in 0..8, Leads(a, b, rs, fs, rt, ft)
  PROVE  Amid(a, b, rs, fs, ru, fu, rt, ft)
         <=> Leads(a, b, rs, fs, ru, fu) /\ Leads(a, b, ru, fu, rt, ft)
<1> DEFINE e == KindOfLine(a, b)
<1>1. OnLine(e, rs, fs, rt, ft)
  BY DirectionsOfLines
<1>2. e \in 2..5
  BY DEF KindOfLine
<1>3. OnLine(e, rs, fs, ru, fu) <=> OnLine(e, ru, fu, rt, ft)
  BY <1>1, <1>2 DEF OnLine
<1>4. Leads(a, b, rs, fs, ru, fu) <=>
        /\ OnLine(e, rs, fs, ru, fu)
        /\ a = 1 => ru > rs
        /\ a = -1 => ru < rs
        /\ a = 0 => (b = 1 => fu > fs) /\ (b = -1 => fu < fs)
  BY DirectionsOfLines
<1>5. Leads(a, b, ru, fu, rt, ft) <=>
        /\ OnLine(e, ru, fu, rt, ft)
        /\ a = 1 => rt > ru
        /\ a = -1 => rt < ru
        /\ a = 0 => (b = 1 => ft > fu) /\ (b = -1 => ft < fu)
  BY DirectionsOfLines
<1>6. /\ a = 1 => rt > rs
      /\ a = -1 => rt < rs
      /\ a = 0 => (b = 1 => ft > fs) /\ (b = -1 => ft < fs)
  BY DirectionsOfLines
<1>7. OnLine(e, rs, fs, ru, fu) =>
        /\ a = 0 => ru = rs
        /\ a # 0 /\ ru = rs => fu = fs
        /\ a # 0 /\ ru = rt => fu = ft
  <2> SUFFICES ASSUME OnLine(e, rs, fs, ru, fu)
      PROVE  /\ a = 0 => ru = rs
             /\ a # 0 /\ ru = rs => fu = fs
             /\ a # 0 /\ ru = rt => fu = ft
    OBVIOUS
  <2>1. OnLine(e, ru, fu, rt, ft)
    BY <1>3
  <2>2. a = 0 => e = 3
    BY DEF KindOfLine
  <2>3. a # 0 => e # 3
    BY DEF KindOfLine
  <2> HIDE DEF e
  <2> QED BY <1>2, <2>1, <2>2, <2>3 DEF OnLine
<1>8. a = 0 => rt = rs
  BY DEF Leads
<1> HIDE DEF e
<1>9. CASE a = 0
  BY <1>3, <1>4, <1>5, <1>6, <1>7, <1>8, <1>9 DEF Amid, Later, e
<1>10. CASE a = 1
  BY <1>3, <1>4, <1>5, <1>6, <1>7, <1>10 DEF Amid, Later, e
<1>11. CASE a = -1
  BY <1>3, <1>4, <1>5, <1>6, <1>7, <1>11 DEF Amid, Later, e
<1> QED BY <1>9, <1>10, <1>11

(* The squares between two squares of a ray are those the ray passes.      *)
LEMMA ObstaclesOnRay ==
  ASSUME NEW s \in Square, NEW d \in LineSteps, NEW t \in Ray(s, d), NEW u \in Square
  PROVE  u \in abb_obstacle[s][t] <=> u \in Ray(s, d) /\ t \in Ray(u, d)
<1>1. PICK a \in -1 .. 1, b \in -1 .. 1 : d = <<a, b>> /\ a = d[1] /\ b = d[2] /\ (a # 0 \/ b # 0)
  BY EightDirections
<1>2. t \in Square /\ LeadsTo(d, s, t)
  BY RayLeads
<1>3. PICK rs \in 0..8, fs \in 0..8, rt \in 0..8, ft \in 0..8, ru \in 0..8, fu \in 0..8 :
         /\ rs = s \div 9 /\ fs = s % 9 /\ rt = t \div 9 /\ ft = t % 9
         /\ ru = u \div 9 /\ fu = u % 9
  BY <1>2, SquareParts
<1>4. Leads(a, b, rs, fs, rt, ft)
  BY <1>1, <1>2, <1>3 DEF LeadsTo
<1>5. PICK e \in 2..5 : e = KindOfLine(a, b)
  BY DEF KindOfLine
<1>6. OnLine(e, rs, fs, rt, ft)
  BY <1>1, <1>4, <1>5, DirectionsOfLines
<1>7. Joined(e, s, t)
  BY <1>2, <1>3, <1>6, JoinedOnLine
<1>8. (u = s <=> ru = rs /\ fu = fs) /\ (u = t <=> ru = rt /\ fu = ft) /\ (s = t <=> rs = rt /\ fs = ft)
      /\ (u > s <=> Later(ru, fu, rs, fs)) /\ (u < t <=> Later(rt, ft, ru, fu))
  <2>1. u > s <=> (u \div 9 > s \div 9 \/ (u \div 9 = s \div 9 /\ u % 9 > s % 9))
    BY SquareOrder
  <2>2. t > u <=> (t \div 9 > u \div 9 \/ (t \div 9 = u \div 9 /\ t % 9 > u % 9))
    BY <1>2, SquareOrder
  <2>3. (u = s <=> ru = rs /\ fu = fs) /\ (u = t <=> ru = rt /\ fu = ft) /\ (s = t <=> rs = rt /\ fs = ft)
    BY <1>2, <1>3, SquareOrder
  <2>4. t > u <=> u < t
    BY <1>2 DEF Square
  <2> QED BY <1>3, <2>1, <2>2, <2>3, <2>4 DEF Later
<1>9. s # t
  <2>1. rs # rt \/ fs # ft
    BY <1>1, <1>4 DEF Leads
  <2> QED BY <1>8, <2>1
<1>10. u \in abb_obstacle[s][t] <=> u # s /\ u # t /\ (u > s <=> u < t) /\ Joined(e, s, u)
  <2>1. abb_obstacle[s][t] = {v \in Square \ {s, t} : (v > s <=> v < t) /\ \E x \in 2..5 : Joined(x, s, t) /\ Joined(x, s, v)}
    BY <1>2 DEF abb_obstacle
  <2>2. \A x \in 2..5 : Joined(x, s, t) => x = e
    BY <1>2, <1>7, <1>9, OneLineOnly
  <2> QED BY <1>7, <2>1, <2>2
<1>11. Joined(e, s, u) <=> OnLine(KindOfLine(a, b), rs, fs, ru, fu)
  BY <1>3, <1>5, JoinedOnLine
<1>12. u \in Ray(s, d) <=> Leads(a, b, rs, fs, ru, fu)
  <2>1. u \in Ray(s, d) <=> LeadsTo(d, s, u)
    BY RayLeads
  <2> QED BY <1>1, <1>3, <2>1 DEF LeadsTo
<1>13. t \in Ray(u, d) <=> Leads(a, b, ru, fu, rt, ft)
  <2>1. t \in Ray(u, d) <=> LeadsTo(d, u, t)
    BY <1>2, RayLeads
  <2> QED BY <1>1, <1>3, <2>1 DEF LeadsTo
<1>14. Amid(a, b, rs, fs, ru, fu, rt, ft)
       <=> Leads(a, b, rs, fs, ru, fu) /\ Leads(a, b, ru, fu, rt, ft)
  BY <1>1, <1>4, OnTheWay
<1>15. (u # s <=> (ru # rs \/ fu # fs)) /\ (u # t <=> (ru # rt \/ fu # ft))
  BY <1>8
<1> QED BY <1>8, <1>10, <1>11, <1>12, <1>13, <1>14, <1>15, Zenon DEF Amid

(* The directions of a kind of line.                                       *)
StepsAlong(e) == {d \in LineSteps : LineAlong(d) = e}

(* The two directions of each line.                                        *)
LEMMA StepsOfLines ==
  /\ StepsAlong(direc_file) = FileSteps /\ StepsAlong(direc_rank) = RankSteps
  /\ StepsAlong(direc_diag1) = Diag1Steps /\ StepsAlong(direc_diag2) = Diag2Steps
<1> DEFINE N == <<-1, 0>>
           S == <<1, 0>>
           W == <<0, -1>>
           E == <<0, 1>>
           NE == <<-1, 1>>
           SW == <<1, -1>>
           NW == <<-1, -1>>
           SE == <<1, 1>>
<1>1. LineAlong(N) = 2 /\ LineAlong(S) = 2 /\ LineAlong(W) = 3 /\ LineAlong(E) = 3
  BY DEF LineAlong, KindOfLine
<1>2. LineAlong(NE) = 4 /\ LineAlong(SW) = 4 /\ LineAlong(NW) = 5 /\ LineAlong(SE) = 5
  BY DEF LineAlong, KindOfLine
<1>3. RankSteps = {E, W} /\ FileSteps = {S, N} /\ Diag1Steps = {SW, NE} /\ Diag2Steps = {SE, NW}
  BY DEF RankSteps, FileSteps, Diag1Steps, Diag2Steps
<1>4. direc_file = 2 /\ direc_rank = 3 /\ direc_diag1 = 4 /\ direc_diag2 = 5
  BY DEF direc_file, direc_rank, direc_diag1, direc_diag2
<1> HIDE DEF N, S, W, E, NE, SW, NW, SE
<1>5. \A d \in FileSteps : LineAlong(d) = 2
  BY <1>1, <1>3
<1>6. \A d \in RankSteps : LineAlong(d) = 3
  BY <1>1, <1>3
<1>7. \A d \in Diag1Steps : LineAlong(d) = 4
  BY <1>2, <1>3
<1>8. \A d \in Diag2Steps : LineAlong(d) = 5
  BY <1>2, <1>3
<1>9. 2 # 3 /\ 2 # 4 /\ 2 # 5 /\ 3 # 4 /\ 3 # 5 /\ 4 # 5
  OBVIOUS
<1> HIDE DEF LineAlong
<1> QED BY <1>4, <1>5, <1>6, <1>7, <1>8, <1>9 DEF StepsAlong, LineSteps

(* A square joined to another is in one direction of the line.             *)
LEMMA LinesLead ==
  ASSUME NEW e \in 2..5,
         NEW rs \in 0..8, NEW fs \in 0..8, NEW rt \in 0..8, NEW ft \in 0..8,
         rs # rt \/ fs # ft, OnLine(e, rs, fs, rt, ft)
  PROVE  \E a \in -1 .. 1, b \in -1 .. 1 :
           (a # 0 \/ b # 0) /\ KindOfLine(a, b) = e /\ Leads(a, b, rs, fs, rt, ft)
<1>1. CASE e = 2
  <2>1. fs = ft
    BY <1>1 DEF OnLine
  <2>2. CASE rt > rs
    <3>1. KindOfLine(1, 0) = e /\ Leads(1, 0, rs, fs, rt, ft)
      BY <1>1, <2>1, <2>2 DEF KindOfLine, Leads
    <3> QED BY <3>1
  <2>3. CASE rt < rs
    <3>1. KindOfLine(-1, 0) = e /\ Leads(-1, 0, rs, fs, rt, ft)
      BY <1>1, <2>1, <2>3 DEF KindOfLine, Leads
    <3> QED BY <3>1
  <2> QED BY <2>1, <2>2, <2>3
<1>2. CASE e = 3
  <2>1. rs = rt
    BY <1>2 DEF OnLine
  <2>2. CASE ft > fs
    <3>1. KindOfLine(0, 1) = e /\ Leads(0, 1, rs, fs, rt, ft)
      BY <1>2, <2>1, <2>2 DEF KindOfLine, Leads
    <3> QED BY <3>1
  <2>3. CASE ft < fs
    <3>1. KindOfLine(0, -1) = e /\ Leads(0, -1, rs, fs, rt, ft)
      BY <1>2, <2>1, <2>3 DEF KindOfLine, Leads
    <3> QED BY <3>1
  <2> QED BY <2>1, <2>2, <2>3
<1>3. CASE e = 4
  <2>1. rs + fs = rt + ft
    BY <1>3 DEF OnLine
  <2>2. CASE rt > rs
    <3>1. ft < fs /\ rt - rs = fs - ft
      BY <2>1, <2>2
    <3>2. KindOfLine(1, -1) = e /\ Leads(1, -1, rs, fs, rt, ft)
      BY <1>3, <3>1, <2>2 DEF KindOfLine, Leads
    <3> QED BY <3>2
  <2>3. CASE rt < rs
    <3>1. ft > fs /\ rt - rs = fs - ft
      BY <2>1, <2>3
    <3>2. KindOfLine(-1, 1) = e /\ Leads(-1, 1, rs, fs, rt, ft)
      BY <1>3, <3>1, <2>3 DEF KindOfLine, Leads
    <3> QED BY <3>2
  <2> QED BY <2>1, <2>2, <2>3
<1>4. CASE e = 5
  <2>1. rs - fs = rt - ft
    BY <1>4 DEF OnLine
  <2>2. CASE rt > rs
    <3>1. ft > fs /\ rt - rs = ft - fs
      BY <2>1, <2>2
    <3>2. KindOfLine(1, 1) = e /\ Leads(1, 1, rs, fs, rt, ft)
      BY <1>4, <3>1, <2>2 DEF KindOfLine, Leads
    <3> QED BY <3>2
  <2>3. CASE rt < rs
    <3>1. ft < fs /\ rt - rs = ft - fs
      BY <2>1, <2>3
    <3>2. KindOfLine(-1, -1) = e /\ Leads(-1, -1, rs, fs, rt, ft)
      BY <1>4, <3>1, <2>3 DEF KindOfLine, Leads
    <3> QED BY <3>2
  <2> QED BY <2>1, <2>2, <2>3
<1> QED BY <1>1, <1>2, <1>3, <1>4

(* Every pair but <<0, 0>> is a direction.                                 *)
LEMMA NinePairs ==
  ASSUME NEW a \in -1 .. 1, NEW b \in -1 .. 1, a # 0 \/ b # 0
  PROVE  <<a, b>> \in LineSteps
<1>1. (a = 0 \/ a = 1 \/ a = -1) /\ (b = 0 \/ b = 1 \/ b = -1)
  OBVIOUS
<1> QED BY <1>1 DEF LineSteps, RankSteps, FileSteps, Diag1Steps, Diag2Steps

(* A ray joins its squares, and it is clear if nothing is between.          *)
LEMMA RaysJoin ==
  ASSUME NEW p, NEW s \in Square, NEW d \in LineSteps, NEW t \in Ray(s, d)
  PROVE  /\ t \in Square /\ s # t /\ Joined(LineAlong(d), s, t) /\ LineAlong(d) \in 2..5
         /\ Clear(p.board, s, d, t) <=> abb_obstacle[s][t] \cap Occupied(p) = {}
<1>1. PICK a \in -1 .. 1, b \in -1 .. 1 : d = <<a, b>> /\ a = d[1] /\ b = d[2] /\ (a # 0 \/ b # 0)
  BY EightDirections
<1>2. t \in Square /\ LeadsTo(d, s, t)
  BY RayLeads
<1>3. PICK rs \in 0..8, fs \in 0..8, rt \in 0..8, ft \in 0..8 :
         rs = s \div 9 /\ fs = s % 9 /\ rt = t \div 9 /\ ft = t % 9
  BY <1>2, SquareParts
<1>4. Leads(a, b, rs, fs, rt, ft)
  BY <1>1, <1>2, <1>3 DEF LeadsTo
<1>5. OnLine(KindOfLine(a, b), rs, fs, rt, ft)
  BY <1>1, <1>4, DirectionsOfLines
<1>6. KindOfLine(a, b) = LineAlong(d) /\ LineAlong(d) \in 2..5
  BY <1>1 DEF LineAlong, KindOfLine
<1>7. Joined(LineAlong(d), s, t)
  BY <1>2, <1>3, <1>5, <1>6, JoinedOnLine
<1>8. s # t
  BY <1>1, <1>3, <1>4 DEF Leads
<1>9. Clear(p.board, s, d, t) <=> abb_obstacle[s][t] \cap Occupied(p) = {}
  <2>1. abb_obstacle[s][t] \subseteq Square
    BY <1>2, BetweenIsSquares
  <2>2. Ray(s, d) \subseteq Square
    BY RayLeads
  <2>3. \A u \in Square : u \in abb_obstacle[s][t] <=> u \in Ray(s, d) /\ t \in Ray(u, d)
    BY ObstaclesOnRay
  <2> QED BY <2>1, <2>2, <2>3 DEF Clear, Occupied
<1> QED BY <1>2, <1>6, <1>7, <1>8, <1>9

(***************************************************************************)
(* What a piece reaches over the tables is what it hits by the rules.      *)
(***************************************************************************)

(* What a slider reaches along a line (the tables of ini.c indexed with an *)
(* occupancy) is what a piece runs to in the two directions of the line    *)
(* with nothing in the way.                                                *)
LEMMA SlidingIsRunning ==
  ASSUME NEW p, NEW s \in Square, NEW e \in 2..5, NEW t
  PROVE  t \in Slide(e, s, Occupied(p)) <=>
           \E d \in StepsAlong(e) : t \in Ray(s, d) /\ Clear(p.board, s, d, t)
<1>1. ASSUME NEW d \in LineSteps, t \in Ray(s, d)
      PROVE  /\ t \in Square /\ s # t /\ Joined(LineAlong(d), s, t) /\ LineAlong(d) \in 2..5
             /\ Clear(p.board, s, d, t) <=> abb_obstacle[s][t] \cap Occupied(p) = {}
  BY <1>1, RaysJoin
<1>2. t \in Slide(e, s, Occupied(p)) <=>
        t \in Square /\ t # s /\ Joined(e, s, t) /\ abb_obstacle[s][t] \cap Occupied(p) = {}
  BY DEF Slide, Line
<1>3. ASSUME t \in Slide(e, s, Occupied(p))
      PROVE  \E d \in StepsAlong(e) : t \in Ray(s, d) /\ Clear(p.board, s, d, t)
  <2>1. t \in Square /\ t # s /\ Joined(e, s, t) /\ abb_obstacle[s][t] \cap Occupied(p) = {}
    BY <1>2, <1>3
  <2>2. PICK rs \in 0..8, fs \in 0..8, rt \in 0..8, ft \in 0..8 :
           rs = s \div 9 /\ fs = s % 9 /\ rt = t \div 9 /\ ft = t % 9
    BY <2>1, SquareParts
  <2>3. OnLine(e, rs, fs, rt, ft)
    BY <2>1, <2>2, JoinedOnLine
  <2>4. rs # rt \/ fs # ft
    BY <2>1, <2>2, SquareOrder
  <2>5. PICK a \in -1 .. 1, b \in -1 .. 1 :
           (a # 0 \/ b # 0) /\ KindOfLine(a, b) = e /\ Leads(a, b, rs, fs, rt, ft)
    BY <2>3, <2>4, LinesLead
  <2>6. PICK d : d = <<a, b>>
    OBVIOUS
  <2>7. d \in LineSteps
    BY <2>5, <2>6, NinePairs
  <2>8. LineAlong(d) = e
    BY <2>5, <2>6 DEF LineAlong
  <2>9. LeadsTo(d, s, t)
    BY <2>2, <2>5, <2>6 DEF LeadsTo
  <2>10. t \in Ray(s, d)
    BY <2>1, <2>7, <2>9, RayLeads
  <2> QED BY <1>1, <2>1, <2>7, <2>8, <2>10 DEF StepsAlong
<1>4. ASSUME NEW d \in StepsAlong(e), t \in Ray(s, d), Clear(p.board, s, d, t)
      PROVE  t \in Slide(e, s, Occupied(p))
  <2>1. d \in LineSteps /\ LineAlong(d) = e
    BY DEF StepsAlong
  <2> QED BY <1>1, <1>2, <1>4, <2>1
<1> QED BY <1>3, <1>4

(* Turned round, the directions of a line are the same.                    *)
LEMMA LinesTurned ==
  ASSUME NEW c
  PROVE  /\ Turned(c, FileSteps) = FileSteps /\ Turned(c, RankSteps) = RankSteps
         /\ Turned(c, Diag1Steps) = Diag1Steps /\ Turned(c, Diag2Steps) = Diag2Steps
<1>1. \A x, y \in Int : {<<-d[1], -d[2]>> : d \in {<<x, y>>, <<-x, -y>>}} = {<<-x, -y>>, <<x, y>>}
  OBVIOUS
<1>2. RankSteps = {<<0, 1>>, <<-0, -1>>} /\ FileSteps = {<<1, 0>>, <<-1, -0>>}
  BY DEF RankSteps, FileSteps
<1>3. Diag1Steps = {<<1, -1>>, <<-1, -(-1)>>} /\ Diag2Steps = {<<1, 1>>, <<-1, -1>>}
  BY DEF Diag1Steps, Diag2Steps
<1>4. \A x, y \in Int : Turned(c, {<<x, y>>, <<-x, -y>>}) = {<<x, y>>, <<-x, -y>>}
  BY <1>1 DEF Turned
<1> QED BY <1>2, <1>3, <1>4

(* Sets of directions are turned round one by one.                         *)
LEMMA SetsTurned ==
  ASSUME NEW c, NEW A, NEW B
  PROVE  Turned(c, A \cup B) = Turned(c, A) \cup Turned(c, B)
  BY DEF Turned

(* The steps and runs of the kinds of pieces, by the rules.                *)
LEMMA DirectionsOfKinds ==
  /\ StepDirections(pawn) = {<<-1, 0>>} /\ RunDirections(pawn) = {}
  /\ StepDirections(lance) = {} /\ RunDirections(lance) = {<<-1, 0>>}
  /\ StepDirections(knight) = KnightSteps /\ RunDirections(knight) = {}
  /\ StepDirections(silver) = SilverSteps /\ RunDirections(silver) = {}
  /\ \A k \in Golds : StepDirections(k) = GoldSteps /\ RunDirections(k) = {}
  /\ StepDirections(king) = LineSteps /\ RunDirections(king) = {}
  /\ StepDirections(bishop) = {} /\ RunDirections(bishop) = Diag1Steps \cup Diag2Steps
  /\ StepDirections(rook) = {} /\ RunDirections(rook) = RankSteps \cup FileSteps
  /\ StepDirections(horse) = LineSteps /\ RunDirections(horse) = Diag1Steps \cup Diag2Steps
  /\ StepDirections(dragon) = LineSteps /\ RunDirections(dragon) = RankSteps \cup FileSteps
<1>1. Golds = {5, 9, 10, 11, 12}
  BY DEF Golds, gold, promote, pawn, lance, knight, silver
<1> USE DEF pawn, lance, knight, silver, bishop, rook, king, horse, dragon
<1>2. StepDirections(pawn) = {<<-1, 0>>} /\ RunDirections(pawn) = {}
  BY <1>1 DEF StepDirections, RunDirections
<1>3. StepDirections(lance) = {} /\ RunDirections(lance) = {<<-1, 0>>}
  BY <1>1 DEF StepDirections, RunDirections
<1>4. StepDirections(knight) = KnightSteps /\ RunDirections(knight) = {}
  BY <1>1 DEF StepDirections, RunDirections
<1>5. StepDirections(silver) = SilverSteps /\ RunDirections(silver) = {}
  BY <1>1 DEF StepDirections, RunDirections
<1>6. \A k \in Golds : StepDirections(k) = GoldSteps /\ RunDirections(k) = {}
  BY <1>1 DEF StepDirections, RunDirections
<1>7. StepDirections(king) = LineSteps /\ RunDirections(king) = {}
  BY <1>1 DEF StepDirections, RunDirections
<1>8. StepDirections(bishop) = {} /\ RunDirections(bishop) = Diag1Steps \cup Diag2Steps
  BY <1>1 DEF StepDirections, RunDirections
<1>9. StepDirections(rook) = {} /\ RunDirections(rook) = RankSteps \cup FileSteps
  BY <1>1 DEF StepDirections, RunDirections
<1>10. StepDirections(horse) = LineSteps /\ RunDirections(horse) = Diag1Steps \cup Diag2Steps
  BY <1>1 DEF StepDirections, RunDirections
<1>11. StepDirections(dragon) = LineSteps /\ RunDirections(dragon) = RankSteps \cup FileSteps
  BY <1>1 DEF StepDirections, RunDirections
<1> QED BY <1>2, <1>3, <1>4, <1>5, <1>6, <1>7, <1>8, <1>9, <1>10, <1>11

(* A number on the board and its piece.                                    *)
LEMMA AbsOfSigned ==
  ASSUME NEW c \in Colour, NEW k \in Kinds
  PROVE  /\ Abs(Signed(c, k)) = k /\ Mine(c, Signed(c, k))
         /\ ~Mine(c, empty) /\ ~Mine(c, Signed(Flip(c), k))
<1>1. k \in Int /\ k > 0 /\ -k < 0 /\ -(-k) = k
  BY DEF Kinds
<1>2. CASE c = black
  BY <1>1, <1>2 DEF Signed, Abs, Mine, Flip, black, empty
<1>3. CASE c = white
  <2>1. Signed(c, k) = -k /\ Signed(Flip(c), k) = k
    BY <1>3 DEF Signed, Flip, black, white
  <2>2. Mine(c, -k) /\ ~Mine(c, k) /\ ~Mine(c, empty)
    BY <1>1, <1>3 DEF Mine, black, white, empty
  <2>3. Abs(-k) = k
    BY <1>1, Zenon DEF Abs
  <2> QED BY <2>1, <2>2, <2>3
<1> QED BY <1>2, <1>3 DEF Colour

(* The pieces of a side.                                                   *)
LEMMA MineIsSigned ==
  ASSUME NEW c \in Colour, NEW v \in Pieces
  PROVE  Mine(c, v) <=> \E k \in Kinds : v = Signed(c, k)
<1>1. ASSUME Mine(c, v) PROVE \E k \in Kinds : v = Signed(c, k)
  <2>1. v # empty
    <3>1. PICK k : k \in Kinds
      BY KindsApart
    <3> QED BY <1>1, <3>1, AbsOfSigned
  <2>2. PICK e \in Colour, k \in Kinds : v = Signed(e, k)
    BY <2>1 DEF Pieces
  <2>3. e = c
    <3>1. CASE e = Flip(c)
      BY <1>1, <2>2, <3>1, AbsOfSigned
    <3> QED BY <3>1, TwoColours
  <2> QED BY <2>2, <2>3
<1> QED BY <1>1, AbsOfSigned

(* What a piece hits by the rules depends on its kind and its side.        *)
LEMMA HitsOfPiece ==
  ASSUME NEW p, NEW c \in Colour, NEW k \in Kinds, NEW s \in Square, p.board[s] = Signed(c, k), NEW t
  PROVE  Hits(p.board, c, s, t) <=>
           \/ t \in set_attacks(s, Turned(c, StepDirections(k)))
           \/ \E d \in Turned(c, RunDirections(k)) : t \in Ray(s, d) /\ Clear(p.board, s, d, t)
<1>1. Abs(p.board[s]) = k
  BY AbsOfSigned
<1>2. Steps(p.board, c, s) = set_attacks(s, Turned(c, StepDirections(k)))
  BY <1>1 DEF Steps, StepTable
<1>3. Runs(p.board, c, s) = Turned(c, RunDirections(k))
  BY <1>1 DEF Runs, RunTable
<1> QED BY <1>2, <1>3 DEF Hits

(* One step up the board of each side.                                     *)
LEMMA UpTurned ==
  ASSUME NEW c
  PROVE  Turned(c, {<<-1, 0>>}) = {IF c = black THEN <<-1, 0>> ELSE <<1, 0>>}
<1>1. {<<-d[1], -d[2]>> : d \in {<<-1, 0>>}} = {<<1, 0>>}
  OBVIOUS
<1> QED BY <1>1 DEF Turned

(* The attacks off the copies slide over the occupied squares.             *)
LEMMA AttacksSlide ==
  ASSUME NEW p, IsPosition(p), Copies(p), NEW s
  PROVE  /\ AttackFile(p, s) = Slide(2, s, Occupied(p))
         /\ AttackRank(p, s) = Slide(3, s, Occupied(p))
         /\ AttackDiag1(p, s) = Slide(4, s, Occupied(p))
         /\ AttackDiag2(p, s) = Slide(5, s, Occupied(p))
<1>1. p.rl90 = Occupied(p) /\ p.rr45 = Occupied(p) /\ p.rl45 = Occupied(p)
  BY DEF Copies, Occupied
<1>2. p.occ[black] \cup p.occ[white] = Occupied(p)
  BY OccupiedIsBoth
<1>3. AttackFile(p, s) = Slide(2, s, Occupied(p))
  BY <1>1 DEF AttackFile, abb_file_attacks, direc_file
<1>4. AttackRank(p, s) = Slide(3, s, Occupied(p))
  BY <1>2 DEF AttackRank, ai_rook_attacks_r0, direc_rank
<1>5. AttackDiag1(p, s) = Slide(4, s, Occupied(p)) /\ AttackDiag2(p, s) = Slide(5, s, Occupied(p))
  BY <1>1 DEF AttackDiag1, AttackDiag2, abb_bishop_attacks_rr45, abb_bishop_attacks_rl45,
         direc_diag1, direc_diag2
<1> QED BY <1>3, <1>4, <1>5

RunsTo(b, s, dirs, t) == \E d \in dirs : t \in Ray(s, d) /\ Clear(b, s, d, t)

(* What bishops and rooks reach is what they run to.                       *)
LEMMA SlidersRun ==
  ASSUME NEW p, IsPosition(p), Copies(p), NEW c, NEW s \in Square, NEW t
  PROVE  /\ t \in AttackFile(p, s) <=> RunsTo(p.board, s, FileSteps, t)
         /\ t \in AttackBishop(p, s) <=> RunsTo(p.board, s, Turned(c, Diag1Steps \cup Diag2Steps), t)
         /\ t \in AttackRook(p, s) <=> RunsTo(p.board, s, Turned(c, RankSteps \cup FileSteps), t)
<1>1. \A e \in 2..5 : t \in Slide(e, s, Occupied(p)) <=> RunsTo(p.board, s, StepsAlong(e), t)
  BY SlidingIsRunning DEF RunsTo
<1>2. StepsAlong(2) = FileSteps /\ StepsAlong(3) = RankSteps
      /\ StepsAlong(4) = Diag1Steps /\ StepsAlong(5) = Diag2Steps
  BY StepsOfLines DEF direc_file, direc_rank, direc_diag1, direc_diag2
<1>3. \A A, B : RunsTo(p.board, s, A \cup B, t) <=> RunsTo(p.board, s, A, t) \/ RunsTo(p.board, s, B, t)
  BY DEF RunsTo
<1>4. Turned(c, Diag1Steps \cup Diag2Steps) = Diag1Steps \cup Diag2Steps
  BY LinesTurned, SetsTurned
<1>5. Turned(c, RankSteps \cup FileSteps) = RankSteps \cup FileSteps
  BY LinesTurned, SetsTurned
<1>6. t \in AttackFile(p, s) <=> RunsTo(p.board, s, FileSteps, t)
  BY <1>1, <1>2, AttacksSlide
<1>7. t \in AttackRank(p, s) <=> RunsTo(p.board, s, RankSteps, t)
  BY <1>1, <1>2, AttacksSlide
<1>8. t \in AttackDiag1(p, s) <=> RunsTo(p.board, s, Diag1Steps, t)
  BY <1>1, <1>2, AttacksSlide
<1>9. t \in AttackDiag2(p, s) <=> RunsTo(p.board, s, Diag2Steps, t)
  BY <1>1, <1>2, AttacksSlide
<1>10. t \in AttackBishop(p, s) <=> RunsTo(p.board, s, Turned(c, Diag1Steps \cup Diag2Steps), t)
  BY <1>3, <1>4, <1>8, <1>9 DEF AttackBishop
<1>11. t \in AttackRook(p, s) <=> RunsTo(p.board, s, Turned(c, RankSteps \cup FileSteps), t)
  BY <1>3, <1>5, <1>6, <1>7 DEF AttackRook
<1> QED BY <1>6, <1>10, <1>11

(* A ray up the board leads to lower squares, one down to higher ones.     *)
LEMMA UpAndDown ==
  ASSUME NEW s \in Square, NEW t
  PROVE  /\ t \in Ray(s, <<-1, 0>>) => t \in Square /\ t < s /\ Joined(2, s, t)
         /\ t \in Ray(s, <<1, 0>>) => t \in Square /\ t > s /\ Joined(2, s, t)
<1>1. ASSUME NEW a \in {-1, 1}, t \in Ray(s, <<a, 0>>)
      PROVE  t \in Square /\ (a = 1 => t > s) /\ (a = -1 => t < s) /\ Joined(2, s, t)
  <2>1. PICK d : d = <<a, 0>>
    OBVIOUS
  <2>2. d \in LineSteps /\ d[1] = a /\ d[2] = 0
    BY <2>1, NinePairs
  <2>3. t \in Square /\ Leads(a, 0, s \div 9, s % 9, t \div 9, t % 9)
    BY <1>1, <2>1, <2>2, RayLeads DEF LeadsTo
  <2>4. (a = 1 => t \div 9 > s \div 9) /\ (a = -1 => t \div 9 < s \div 9) /\ t % 9 = s % 9
    BY <2>3 DEF Leads
  <2>5. Joined(2, s, t)
    BY <2>3, <2>4, JoinedBy
  <2>6. (a = 1 => t > s) /\ (a = -1 => t < s)
    <3>1. PICK rs \in 0..8, fs \in 0..8, rt \in 0..8, ft \in 0..8 :
             rs = s \div 9 /\ fs = s % 9 /\ rt = t \div 9 /\ ft = t % 9
      BY <2>3, SquareParts
    <3>2. s = 9 * rs + fs /\ t = 9 * rt + ft
      BY <2>3, <3>1, SquareParts
    <3> QED BY <2>4, <3>1, <3>2
  <2> QED BY <2>3, <2>5, <2>6
<1> QED BY <1>1

(* What a lance reaches is what it runs to.                                *)
LEMMA LancesRun ==
  ASSUME NEW p, IsPosition(p), Copies(p), NEW c \in Colour, NEW s \in Square, NEW t
  PROVE  t \in AttackLance(c, p, s) <=> RunsTo(p.board, s, Turned(c, {<<-1, 0>>}), t)
<1>1. PICK up, down : up = <<-1, 0>> /\ down = <<1, 0>>
  OBVIOUS
<1>2. FileSteps = {down, up}
  BY <1>1 DEF FileSteps
<1>3. (t \in Ray(s, up) => t \in Square /\ t < s /\ Joined(2, s, t))
      /\ (t \in Ray(s, down) => t \in Square /\ t > s /\ Joined(2, s, t))
  BY <1>1, UpAndDown
<1>4. t \in AttackFile(p, s) <=> RunsTo(p.board, s, {down, up}, t)
  BY <1>2, SlidersRun
<1>5. abb_plus_rays[s] = {u \in s+1 .. 80 : \E d \in 2..5 : Joined(d, s, u)}
      /\ abb_minus_rays[s] = {u \in 0 .. s-1 : \E d \in 2..5 : Joined(d, s, u)}
  BY DEF abb_plus_rays, abb_minus_rays
<1>6. t \in abb_plus_rays[s] => t > s
  BY <1>5 DEF Square
<1>7. t \in abb_minus_rays[s] => t < s
  BY <1>5 DEF Square
<1>8. t \in Ray(s, up) => t \in abb_minus_rays[s] /\ ~(t > s)
  <2> SUFFICES ASSUME t \in Ray(s, up) PROVE t \in abb_minus_rays[s] /\ ~(t > s)
    OBVIOUS
  <2>1. t \in Square /\ t < s /\ Joined(2, s, t)
    BY <1>3
  <2>2. t \in 0 .. s-1 /\ ~(t > s)
    BY <2>1 DEF Square
  <2> QED BY <1>5, <2>1, <2>2
<1>9. t \in Ray(s, down) => t \in abb_plus_rays[s] /\ ~(t < s)
  <2> SUFFICES ASSUME t \in Ray(s, down) PROVE t \in abb_plus_rays[s] /\ ~(t < s)
    OBVIOUS
  <2>1. t \in Square /\ t > s /\ Joined(2, s, t)
    BY <1>3
  <2>2. t \in s+1 .. 80 /\ ~(t < s)
    BY <2>1 DEF Square
  <2> QED BY <1>5, <2>1, <2>2
<1>10. CASE c = black
  <2>1. Turned(c, {<<-1, 0>>}) = {up}
    BY <1>1, <1>10 DEF Turned
  <2>2. t \in AttackLance(c, p, s) <=> t \in abb_minus_rays[s] /\ t \in AttackFile(p, s)
    BY <1>10 DEF AttackLance, RaysAhead
  <2> QED BY <1>4, <1>7, <1>8, <1>9, <2>1, <2>2 DEF RunsTo
<1>11. CASE c = white
  <2>1. Turned(c, {<<-1, 0>>}) = {down}
    BY <1>1, <1>11, UpTurned DEF black, white
  <2>2. t \in AttackLance(c, p, s) <=> t \in abb_plus_rays[s] /\ t \in AttackFile(p, s)
    BY <1>11 DEF AttackLance, RaysAhead, black, white
  <2> QED BY <1>4, <1>6, <1>8, <1>9, <2>1, <2>2 DEF RunsTo
<1> QED BY <1>10, <1>11 DEF Colour

(* Turned round, the eight directions are the same.                        *)
LEMMA LineStepsTurned == ASSUME NEW c PROVE Turned(c, LineSteps) = LineSteps
<1>1. Turned(c, RankSteps \cup FileSteps) = RankSteps \cup FileSteps
  BY LinesTurned, SetsTurned
<1>2. Turned(c, RankSteps \cup FileSteps \cup Diag1Steps) = RankSteps \cup FileSteps \cup Diag1Steps
  <2>1. PICK A : A = RankSteps \cup FileSteps
    OBVIOUS
  <2>2. Turned(c, A \cup Diag1Steps) = A \cup Diag1Steps
    BY <1>1, <2>1, LinesTurned, SetsTurned
  <2> QED BY <2>1, <2>2
<1>3. PICK B : B = RankSteps \cup FileSteps \cup Diag1Steps
  OBVIOUS
<1>4. Turned(c, B \cup Diag2Steps) = B \cup Diag2Steps
  BY <1>2, <1>3, LinesTurned, SetsTurned
<1> QED BY <1>3, <1>4 DEF LineSteps

(* What a piece reaches over the tables and the copies is what it steps    *)
(* and runs to over the squares.                                           *)
LEMMA ReachIsRun ==
  ASSUME NEW p, IsPosition(p), Copies(p), NEW c \in Colour, NEW k \in Kinds, k # pawn, NEW s \in Square, NEW t
  PROVE  t \in Reach(c, p, k, s) <=>
           \/ t \in set_attacks(s, Turned(c, StepDirections(k)))
           \/ RunsTo(p.board, s, Turned(c, RunDirections(k)), t)
<1>2. Turned(c, {}) = {} /\ set_attacks(s, {}) = {} /\ ~RunsTo(p.board, s, {}, t)
  BY DEF Turned, set_attacks, RunsTo
<1>3. abb_king_attacks[s] = set_attacks(s, Turned(c, LineSteps))
  <2>1. Around = LineSteps
    <3>1. LineSteps \subseteq Around
      BY DEF Around, LineSteps, RankSteps, FileSteps, Diag1Steps, Diag2Steps
    <3>2. ASSUME NEW d \in Around PROVE d \in LineSteps
      <4>1. PICK a \in -1 .. 1, b \in -1 .. 1 : d = <<a, b>> /\ (a # 0 \/ b # 0)
        BY DEF Around
      <4> QED BY <4>1, NinePairs
    <3> QED BY <3>1, <3>2
  <2>2. Turned(c, LineSteps) = LineSteps
    BY LineStepsTurned
  <2> QED BY <2>1, <2>2 DEF abb_king_attacks
<1>4. CASE k = lance
  <2>1. t \in Reach(c, p, k, s) <=> RunsTo(p.board, s, Turned(c, {<<-1, 0>>}), t)
    BY <1>4, ReachOfKinds, LancesRun
  <2> QED BY <1>2, <1>4, <2>1, DirectionsOfKinds
<1>5. CASE k = knight
  <2>1. Knight(c, s) = set_attacks(s, Turned(c, KnightSteps))
    <3>1. CASE c = black
      BY <3>1 DEF Knight, abb_knight_attacks, abb_b_knight_attacks, Turned, black
    <3>2. CASE c = white
      BY <3>2 DEF Knight, abb_knight_attacks, abb_w_knight_attacks, white
    <3> QED BY <3>1, <3>2 DEF Colour
  <2>2. Reach(c, p, k, s) = Knight(c, s)
    BY <1>5, ReachOfKinds
  <2> QED BY <1>2, <1>5, <2>1, <2>2, DirectionsOfKinds
<1>6. CASE k = silver
  <2>1. Silver(c, s) = set_attacks(s, Turned(c, SilverSteps))
    BY DEF Silver, abb_silver_attacks
  <2>2. Reach(c, p, k, s) = Silver(c, s)
    BY <1>6, ReachOfKinds
  <2> QED BY <1>2, <1>6, <2>1, <2>2, DirectionsOfKinds
<1>7. CASE k \in Golds
  <2>1. Gold(c, s) = set_attacks(s, Turned(c, GoldSteps))
    BY DEF Gold, abb_gold_attacks
  <2>2. Reach(c, p, k, s) = Gold(c, s)
    BY <1>7, ReachOfKinds
  <2>3. StepDirections(k) = GoldSteps /\ RunDirections(k) = {}
    BY <1>7, DirectionsOfKinds
  <2> QED BY <1>2, <2>1, <2>2, <2>3
<1>8. CASE k = king
  <2>1. Reach(c, p, k, s) = abb_king_attacks[s]
    BY <1>8, ReachOfKinds
  <2>2. StepDirections(k) = LineSteps /\ RunDirections(k) = {}
    BY <1>8, DirectionsOfKinds
  <2> QED BY <1>2, <1>3, <2>1, <2>2
<1>9. CASE k = bishop
  <2>1. Reach(c, p, k, s) = AttackBishop(p, s)
    BY <1>9, ReachOfKinds
  <2>2. StepDirections(k) = {} /\ RunDirections(k) = Diag1Steps \cup Diag2Steps
    BY <1>9, DirectionsOfKinds
  <2> QED BY <1>2, <2>1, <2>2, SlidersRun
<1>10. CASE k = rook
  <2>1. Reach(c, p, k, s) = AttackRook(p, s)
    BY <1>10, ReachOfKinds
  <2>2. StepDirections(k) = {} /\ RunDirections(k) = RankSteps \cup FileSteps
    BY <1>10, DirectionsOfKinds
  <2> QED BY <1>2, <2>1, <2>2, SlidersRun
<1>11. CASE k = horse
  <2>1. Reach(c, p, k, s) = AttackBishop(p, s) \cup abb_king_attacks[s]
    BY <1>11, ReachOfKinds DEF AttackHorse
  <2>2. StepDirections(k) = LineSteps /\ RunDirections(k) = Diag1Steps \cup Diag2Steps
    BY <1>11, DirectionsOfKinds
  <2> QED BY <1>3, <2>1, <2>2, SlidersRun
<1>12. CASE k = dragon
  <2>1. Reach(c, p, k, s) = AttackRook(p, s) \cup abb_king_attacks[s]
    BY <1>12, ReachOfKinds DEF AttackDragon
  <2>2. StepDirections(k) = LineSteps /\ RunDirections(k) = RankSteps \cup FileSteps
    BY <1>12, DirectionsOfKinds
  <2> QED BY <1>3, <2>1, <2>2, SlidersRun
<1> QED BY <1>4, <1>5, <1>6, <1>7, <1>8, <1>9, <1>10, <1>11, <1>12, KindsOfPieces

(* This is what the piece there hits by the rules.                         *)
LEMMA ReachIsHits ==
  ASSUME NEW p, IsPosition(p), Copies(p), NEW c \in Colour, NEW k \in Kinds, k # pawn,
         NEW s \in Square, p.board[s] = Signed(c, k), NEW t
  PROVE  t \in Reach(c, p, k, s) <=> Hits(p.board, c, s, t)
BY HitsOfPiece, ReachIsRun DEF RunsTo

(* A pawn hits the square ahead of it.                                     *)
LEMMA PawnsHit ==
  ASSUME NEW p, NEW c \in Colour, NEW s \in Square, p.board[s] = Signed(c, pawn), NEW t \in Square
  PROVE  Hits(p.board, c, s, t) <=> t = s + Ahead(c)
<1>1. pawn \in Kinds
  BY KindsApart
<1>2. Hits(p.board, c, s, t) <=> t \in set_attacks(s, Turned(c, {<<-1, 0>>}))
  <2>1. Turned(c, {}) = {}
    BY DEF Turned
  <2> QED BY <1>1, <2>1, HitsOfPiece, DirectionsOfKinds
<1>3. PICK x \in Int, y \in Int : x = (IF c = black THEN -1 ELSE 1) /\ y = 0
  OBVIOUS
<1>4. Turned(c, {<<-1, 0>>}) = {<<x, y>>}
  <2>1. CASE c = black
    BY <1>3, <2>1, UpTurned
  <2>2. CASE c # black
    BY <1>3, <2>2, UpTurned
  <2> QED BY <2>1, <2>2
<1>5. t \in set_attacks(s, {<<x, y>>}) <=>
        (s \div 9) + x \in 0..8 /\ (s % 9) + y \in 0..8 /\ t = s + 9 * x + y
  <2>1. PICK d : d = <<x, y>>
    OBVIOUS
  <2>2. d[1] = x /\ d[2] = y
    BY <2>1
  <2>3. set_attacks(s, {d}) = {s + 9 * e[1] + e[2] : e \in {e \in {d} : OnTheBoard(airank(s) + e[1], aifile(s) + e[2])}}
    BY DEF set_attacks
  <2>4. t \in set_attacks(s, {d}) <=> OnTheBoard(airank(s) + x, aifile(s) + y) /\ t = s + 9 * x + y
    BY <2>2, <2>3
  <2> QED BY <2>1, <2>4 DEF OnTheBoard, airank, aifile
<1>6. 9 * x + y = Ahead(c) /\ s + 9 * x + y = s + Ahead(c)
  BY <1>3 DEF Ahead, Square
<1>7. t = s + 9 * x + y => (s \div 9) + x \in 0..8 /\ (s % 9) + y \in 0..8
  BY <1>3 DEF Square
<1> QED BY <1>2, <1>4, <1>5, <1>6, <1>7

(***************************************************************************)
(* A square is attacked if a piece hits it.                                *)
(***************************************************************************)

(* A piece found among the strikers of a square reaches the square.        *)
LEMMA StrikersReach ==
  ASSUME NEW p, IsPosition(p), Copies(p), NEW c \in Colour, NEW t \in Square, NEW s \in Strikers(c, p, t)
  PROVE  s \in Square /\ \E k \in Kinds \ {pawn} : p.board[s] = Signed(c, k) /\ t \in Reach(c, p, k, s)
<1> DEFINE d == Flip(c)
           Holds(k) == s \in Square /\ k \in Kinds \ {pawn} /\ p.board[s] = Signed(c, k) /\ t \in Reach(c, p, k, s)
<1>1. d \in Colour /\ Flip(d) = c
  BY Flips
<1>2. /\ knight \in BoardKinds /\ silver \in BoardKinds /\ lance \in BoardKinds
      /\ knight # pawn /\ silver # pawn /\ lance # pawn
  BY DEF BoardKinds, Kinds, king, knight, silver, lance, pawn
<1>3. Golds \subseteq Kinds \ {pawn} /\ {king, horse, dragon, bishop, rook} \subseteq Kinds \ {pawn}
  BY DEF Kinds, Golds, gold, promote, pawn, lance, knight, silver, bishop, rook, king, horse, dragon
<1>4. \A u \in DOMAIN Unions : p.union[c][u] = OnBoard(p.board, c, Unions[u])
  BY DEF Copies
<1>5. \A k \in BoardKinds : \A q \in p.bb[c][k] : q \in Square /\ p.board[q] = Signed(c, k)
  BY PieceOf
<1>6. BoardKinds \subseteq Kinds
  BY DEF BoardKinds
<1>7. CASE s \in p.bb[c][knight] \cap Knight(d, t)
  <2>1. t \in Knight(c, s) /\ s \in Square
    BY <1>1, <1>7, StepsAreMutual
  <2>2. Holds(knight)
    BY <1>2, <1>5, <1>6, <1>7, <2>1, ReachOfKinds
  <2> QED BY <2>2
<1>8. CASE s \in p.bb[c][silver] \cap Silver(d, t)
  <2>1. t \in Silver(c, s) /\ s \in Square
    BY <1>1, <1>8, StepsAreMutual
  <2>2. Holds(silver)
    BY <1>2, <1>5, <1>6, <1>8, <2>1, ReachOfKinds
  <2> QED BY <2>2
<1>9. CASE s \in p.union[c].tgold \cap Gold(d, t)
  <2>1. t \in Gold(c, s) /\ s \in Square
    BY <1>1, <1>9, StepsAreMutual
  <2>2. s \in OnBoard(p.board, c, Golds)
    BY <1>4, <1>9 DEF Unions
  <2>3. PICK k \in Golds : p.board[s] = Signed(c, k)
    BY <2>2 DEF OnBoard
  <2>4. Holds(k)
    <3>1. Reach(c, p, k, s) = Gold(c, s)
      BY ReachOfKinds
    <3>2. k \in Kinds \ {pawn}
      BY <1>3
    <3> QED BY <2>1, <2>3, <3>1, <3>2
  <2> QED BY <2>4
<1>10. CASE s \in p.union[c].hdk \cap abb_king_attacks[t]
  <2>1. t \in abb_king_attacks[s] /\ s \in Square
    BY <1>10, StepsAreMutual, <1>1
  <2>2. s \in OnBoard(p.board, c, {king, horse, dragon})
    BY <1>4, <1>10 DEF Unions
  <2>3. PICK k \in {king, horse, dragon} : p.board[s] = Signed(c, k)
    BY <2>2 DEF OnBoard
  <2>4. t \in Reach(c, p, k, s)
    <3>1. /\ Reach(c, p, king, s) = abb_king_attacks[s]
          /\ Reach(c, p, horse, s) = AttackBishop(p, s) \cup abb_king_attacks[s]
          /\ Reach(c, p, dragon, s) = AttackRook(p, s) \cup abb_king_attacks[s]
      BY ReachOfKinds DEF AttackHorse, AttackDragon
    <3> QED BY <2>1, <3>1
  <2>5. Holds(k)
    BY <1>3, <2>1, <2>3, <2>4
  <2> QED BY <2>5
<1>11. CASE s \in p.union[c].bh \cap AttackBishop(p, t)
  <2>1. s \in Square /\ t \in AttackBishop(p, s)
    BY <1>11, OnTheLines
  <2>2. s \in OnBoard(p.board, c, {bishop, horse})
    BY <1>4, <1>11 DEF Unions
  <2>3. PICK k \in {bishop, horse} : p.board[s] = Signed(c, k)
    BY <2>2 DEF OnBoard
  <2>4. t \in Reach(c, p, k, s)
    <3>1. /\ Reach(c, p, bishop, s) = AttackBishop(p, s)
          /\ Reach(c, p, horse, s) = AttackBishop(p, s) \cup abb_king_attacks[s]
      BY ReachOfKinds DEF AttackHorse
    <3> QED BY <2>1, <3>1
  <2>5. Holds(k)
    BY <1>3, <2>1, <2>3, <2>4
  <2> QED BY <2>5
<1>12. CASE s \in p.union[c].rd \cap (AttackRank(p, t) \cup AttackFile(p, t))
  <2>1. s \in Square /\ t \in AttackRook(p, s)
    BY <1>12, OnTheLines DEF AttackRook
  <2>2. s \in OnBoard(p.board, c, {rook, dragon})
    BY <1>4, <1>12 DEF Unions
  <2>3. PICK k \in {rook, dragon} : p.board[s] = Signed(c, k)
    BY <2>2 DEF OnBoard
  <2>4. t \in Reach(c, p, k, s)
    <3>1. /\ Reach(c, p, rook, s) = AttackRook(p, s)
          /\ Reach(c, p, dragon, s) = AttackRook(p, s) \cup abb_king_attacks[s]
      BY ReachOfKinds DEF AttackDragon
    <3> QED BY <2>1, <3>1
  <2>5. Holds(k)
    BY <1>3, <2>1, <2>3, <2>4
  <2> QED BY <2>5
<1>13. CASE s \in p.bb[c][lance] \cap RaysBehind(c)[t] \cap AttackFile(p, t)
  <2>1. RaysBehind(c) = RaysAhead(d) /\ RaysBehind(d) = RaysAhead(c)
    BY DEF RaysBehind, RaysAhead, Flip, Colour, black, white
  <2>2. s \in AttackLance(d, p, t)
    BY <1>13, <2>1 DEF AttackLance
  <2>3. s \in Square /\ t \in RaysBehind(d)[s] \cap AttackFile(p, s)
    BY <1>1, <2>2, LancesAreMutual
  <2>4. t \in AttackLance(c, p, s)
    BY <2>1, <2>3 DEF AttackLance
  <2>5. Holds(lance)
    BY <1>2, <1>5, <1>6, <1>13, <2>3, <2>4, ReachOfKinds
  <2> QED BY <2>5
<1> QED BY <1>7, <1>8, <1>9, <1>10, <1>11, <1>12, <1>13 DEF Strikers

(* is_black_attacked and is_white_attacked (attack.c) answer as the rules  *)
(* do, wherever the copies agree with the board.                           *)
LEMMA AttackedByTheRules ==
  ASSUME NEW p, IsPosition(p), Copies(p), NEW c \in Colour, NEW t \in Square
  PROVE  is_attacked_by(c, p, t) <=> Attacked(p.board, c, t)
<1>1. \A s \in Square : p.board[s] \in Pieces
  BY DEF IsPosition
<1>2. pawn \in Kinds
  BY KindsApart
<1>3. ASSUME t \in p.pawn_atk[c] PROVE Attacked(p.board, c, t)
  <2>1. PICK s : s = t - Ahead(c)
    OBVIOUS
  <2>2. s \in Square /\ t = s + Ahead(c) /\ p.board[s] = Signed(c, pawn)
    BY <1>3, <2>1, PieceOf
  <2>3. Mine(c, p.board[s]) /\ Hits(p.board, c, s, t)
    BY <1>2, <2>2, AbsOfSigned, PawnsHit
  <2> QED BY <2>2, <2>3 DEF Attacked
<1>4. ASSUME NEW s \in Strikers(c, p, t) PROVE Attacked(p.board, c, t)
  <2>1. PICK k \in Kinds \ {pawn} : s \in Square /\ p.board[s] = Signed(c, k) /\ t \in Reach(c, p, k, s)
    BY StrikersReach
  <2>2. Mine(c, p.board[s]) /\ Hits(p.board, c, s, t)
    BY <2>1, AbsOfSigned, ReachIsHits
  <2> QED BY <2>1, <2>2 DEF Attacked
<1>5. ASSUME Attacked(p.board, c, t) PROVE is_attacked_by(c, p, t)
  <2>1. PICK s \in Square : Mine(c, p.board[s]) /\ Hits(p.board, c, s, t)
    BY <1>5 DEF Attacked
  <2>2. PICK k \in Kinds : p.board[s] = Signed(c, k)
    BY <1>1, <2>1, MineIsSigned
  <2>3. CASE k = pawn
    <3>1. t = s + Ahead(c)
      BY <2>1, <2>2, <2>3, PawnsHit
    <3>2. s \in OnBoard(p.board, c, {pawn})
      BY <2>2, <2>3 DEF OnBoard
    <3>3. p.pawn_atk[c] = {q + Ahead(c) : q \in OnBoard(p.board, c, {pawn})}
      BY DEF Copies
    <3> QED BY <3>1, <3>2, <3>3 DEF is_attacked_by
  <2>4. CASE k # pawn
    <3>1. t \in Reach(c, p, k, s)
      BY <2>1, <2>2, <2>4, ReachIsHits
    <3> QED BY <2>2, <2>4, <3>1, WhatIsReachedIsAttacked
  <2> QED BY <2>3, <2>4
<1> QED BY <1>3, <1>4, <1>5 DEF is_attacked_by

(* The king of a side is where sq_king says.                               *)
LEMMA TheKingIsThere ==
  ASSUME NEW p, Copies(p), NEW c \in Colour
  PROVE  KingOf(p.board, c) = p.sq_king[c] /\ p.sq_king[c] \in Square
<1>1. OnBoard(p.board, c, {king}) = {p.sq_king[c]}
  BY DEF Copies
<1>2. Signed(c, king) = IF c = black THEN king ELSE -king
  BY DEF Signed
<1>3. OnBoard(p.board, c, {king}) = {s \in Square : p.board[s] = Signed(c, king)}
  BY DEF OnBoard
<1>4. \A s \in Square : p.board[s] = (IF c = black THEN king ELSE -king) <=> s = p.sq_king[c]
  BY <1>1, <1>2, <1>3
<1>5. p.sq_king[c] \in Square
  BY <1>1, <1>3
<1> QED BY <1>4, <1>5 DEF KingOf

(* InCheck (the macro of shogi.h) is check by the rules.                   *)
LEMMA CheckByTheRules ==
  ASSUME NEW p, IsPosition(p), Copies(p), NEW c \in Colour
  PROVE  InCheck(c, p) <=> Checked(p.board, c)
  BY Flips, TheKingIsThere, AttackedByTheRules DEF InCheck, Checked

(* The search takes a side to be in check (attack.c) just when the rules   *)
(* do, in every position of a walk: its own checks after a move and those  *)
(* it gives.                                                               *)
THEOREM CheckIsCheckByTheRules ==
  Spec => [](pos # NoPosition => \A c \in Colour : InCheck(c, pos) <=> Checked(pos.board, c))
<1>1. ASSUME WalkInv, pos # NoPosition
      PROVE  \A c \in Colour : InCheck(c, pos) <=> Checked(pos.board, c)
  <2>1. Sane(pos)
    BY <1>1 DEF WalkInv, Walk, Reached
  <2> QED BY <2>1, CheckByTheRules DEF Sane
<1>2. WalkInv => (pos # NoPosition => \A c \in Colour : InCheck(c, pos) <=> Checked(pos.board, c))
  BY <1>1
<1> QED BY <1>2, EveryWalk, PTL

(***************************************************************************)
(* The moves of the rules, one by one.                                     *)
(***************************************************************************)

(* A move of a piece on the board that the rules allow, but for the safety *)
(* of the king.                                                            *)
ByRules(c, p, k, s, t, f) ==
  /\ k \in Kinds /\ s \in Square /\ t \in Square /\ f \in BOOLEAN
  /\ p.board[s] = Signed(c, k)
  /\ Hits(p.board, c, s, t)
  /\ ~Mine(c, p.board[t])
  /\ f => k \in Promotable /\ (s \in Zone(c) \/ t \in Zone(c))
  /\ ~f => ~Stuck(c, k, t)

(* A piece hits squares of the board.                                      *)
LEMMA HitsSquares ==
  ASSUME NEW p, IsPosition(p), Copies(p), NEW c \in Colour, NEW k \in Kinds, NEW s \in Square,
         p.board[s] = Signed(c, k), NEW t
  PROVE  Hits(p.board, c, s, t) => t \in Square
<1>1. CASE k = pawn
  <2>1. Hits(p.board, c, s, t) => t \in set_attacks(s, Turned(c, {<<-1, 0>>}))
    <3>1. Turned(c, {}) = {}
      BY DEF Turned
    <3> QED BY <1>1, <3>1, HitsOfPiece, DirectionsOfKinds
  <2>2. PICK x, y : x = <<-1, 0>> /\ y = <<1, 0>>
    OBVIOUS
  <2>3. Turned(c, {<<-1, 0>>}) \subseteq {x, y}
    BY <2>2, UpTurned
  <2>4. x[1] \in Int /\ x[2] \in Int /\ y[1] \in Int /\ y[2] \in Int
    BY <2>2
  <2>5. ASSUME NEW S, S \subseteq {x, y}, t \in set_attacks(s, S) PROVE t \in Square
    <3>1. PICK d \in S : OnTheBoard(airank(s) + d[1], aifile(s) + d[2]) /\ t = s + 9 * d[1] + d[2]
      BY <2>5 DEF set_attacks
    <3>2. d[1] \in Int /\ d[2] \in Int
      BY <2>4, <2>5
    <3> QED BY <3>1, <3>2, SquareMoved DEF OnTheBoard, airank, aifile
  <2> QED BY <2>1, <2>3, <2>5
<1>2. CASE k # pawn
  BY <1>2, ReachIsHits, WhatIsReachedIsAttacked
<1> QED BY <1>1, <1>2

(* The moves of the rules, one by one.                                     *)
LEMMA BoardMovesAre ==
  ASSUME NEW p, IsPosition(p), Copies(p), NEW c \in Colour, NEW m
  PROVE  m \in BoardMoves(p.board, c) <=>
           \E k \in Kinds, s \in Square, t \in Square, f \in BOOLEAN :
             ByRules(c, p, k, s, t, f) /\ m = Board(p, k, f, s, t)
<1> DEFINE b == p.board
           Of(s, t, f) == [from |-> s, to |-> t, piece |-> Abs(b[s]), promo |-> f, cap |-> Abs(b[t])]
           May(x) == IF x.promo THEN x.piece \in Promotable /\ {x.from, x.to} \cap Zone(c) # {}
                     ELSE ~Stuck(c, x.piece, x.to)
<1>1. \A s, t : t \in Targets(b, c, s) <=> Hits(b, c, s, t)
  BY DEF Targets, Hits
<1>2. \A s \in Square : b[s] \in Pieces
  BY DEF IsPosition
<1>3. \A s \in Square : \A t, f, k : Abs(b[s]) = k => Of(s, t, f) = Board(p, k, f, s, t)
  BY DEF Board, Move, Kind, Abs
<1>4. \A s, t, f : Of(s, t, f).from = s /\ Of(s, t, f).to = t /\ Of(s, t, f).piece = Abs(b[s]) /\ Of(s, t, f).promo = f
  OBVIOUS
<1>5. BoardMoves(b, c) =
        UNION {{x \in {Of(s, t, f) : t \in {t \in Targets(b, c, s) : ~Mine(c, b[t])}, f \in BOOLEAN} : May(x)}
                 : s \in {s \in Square : Mine(c, b[s])}}
  BY DEF BoardMoves
<1> HIDE DEF Of, May
<1>6. ASSUME m \in BoardMoves(b, c)
      PROVE  \E k \in Kinds, s \in Square, t \in Square, f \in BOOLEAN :
               ByRules(c, p, k, s, t, f) /\ m = Board(p, k, f, s, t)
  <2>1. PICK s \in Square : Mine(c, b[s])
          /\ m \in {x \in {Of(s, t, f) : t \in {t \in Targets(b, c, s) : ~Mine(c, b[t])}, f \in BOOLEAN} : May(x)}
    BY <1>5, <1>6
  <2>2. PICK t \in Targets(b, c, s), f \in BOOLEAN : ~Mine(c, b[t]) /\ m = Of(s, t, f) /\ May(m)
    BY <2>1
  <2>3. PICK k \in Kinds : b[s] = Signed(c, k)
    BY <1>2, <2>1, MineIsSigned
  <2>4. Abs(b[s]) = k
    BY <2>3, AbsOfSigned
  <2>5. Hits(b, c, s, t)
    BY <1>1, <2>2
  <2>6. t \in Square
    BY <2>3, <2>5, HitsSquares
  <2>7. (f => k \in Promotable /\ (s \in Zone(c) \/ t \in Zone(c))) /\ (~f => ~Stuck(c, k, t))
    <3>1. m.from = s /\ m.to = t /\ m.piece = k /\ m.promo = f
      BY <1>4, <2>2, <2>4
    <3> QED BY <2>2, <3>1 DEF May
  <2>8. m = Board(p, k, f, s, t)
    BY <1>3, <2>2, <2>4
  <2>9. ByRules(c, p, k, s, t, f)
    BY <2>2, <2>3, <2>5, <2>6, <2>7 DEF ByRules
  <2> QED BY <2>6, <2>8, <2>9
<1>7. ASSUME NEW k \in Kinds, NEW s \in Square, NEW t \in Square, NEW f \in BOOLEAN,
             ByRules(c, p, k, s, t, f), m = Board(p, k, f, s, t)
      PROVE  m \in BoardMoves(b, c)
  <2>1. Abs(b[s]) = k /\ Mine(c, b[s])
    BY <1>7, AbsOfSigned DEF ByRules
  <2>2. m = Of(s, t, f)
    BY <1>3, <1>7, <2>1
  <2>3. t \in Targets(b, c, s) /\ ~Mine(c, b[t])
    BY <1>1, <1>7 DEF ByRules
  <2>4. May(m)
    <3>1. m.from = s /\ m.to = t /\ m.piece = k /\ m.promo = f
      BY <1>4, <2>1, <2>2
    <3> QED BY <1>7, <3>1 DEF May, ByRules
  <2>5. m \in {x \in {Of(s, y, f2) : y \in {y \in Targets(b, c, s) : ~Mine(c, b[y])}, f2 \in BOOLEAN} : May(x)}
    BY <2>2, <2>3, <2>4
  <2> QED BY <1>5, <2>1, <2>5
<1> QED BY <1>6, <1>7

(* A square in the way of a piece that hits another empties the hit: what  *)
(* a piece hits on one board it hits on another, unless something is       *)
(* between.                                                                *)
LEMMA HitsElsewhere ==
  ASSUME NEW p, NEW q, NEW c \in Colour, NEW k \in Kinds, NEW s \in Square, NEW t,
         p.board[s] = Signed(c, k), q.board[s] = Signed(c, k), Hits(q.board, c, s, t)
  PROVE  /\ Hits(p.board, c, s, t) <=> abb_obstacle[s][t] \cap Occupied(p) = {}
         /\ k \notin Running => abb_obstacle[s][t] = {}
<1> DEFINE steps == Turned(c, StepDirections(k))
           runs == Turned(c, RunDirections(k))
<1>1. Hits(p.board, c, s, t) <=>
        t \in set_attacks(s, steps) \/ \E d \in runs : t \in Ray(s, d) /\ Clear(p.board, s, d, t)
  BY HitsOfPiece
<1>2. t \in set_attacks(s, steps) \/ \E d \in runs : t \in Ray(s, d) /\ Clear(q.board, s, d, t)
  BY HitsOfPiece
<1>3. k = pawn \/ k \in {lance, knight, silver} \/ k \in Golds \/ k \in {king, bishop, rook, horse, dragon}
  BY KindsOfPieces
<1>4. \A d \in steps : \/ d[1] \in -1 .. 1 /\ d[2] \in -1 .. 1
                       \/ d[1] \in {-2, 2} /\ d[2] \in {-1, 1}
  <2> DEFINE Short(S) == \A d \in S : \/ d[1] \in -1 .. 1 /\ d[2] \in -1 .. 1
                                      \/ d[1] \in {-2, 2} /\ d[2] \in {-1, 1}
  <2>1. Short(Turned(c, {<<-1, 0>>}))
    BY UpTurned
  <2>2. Short(Turned(c, {}))
    BY DEF Turned
  <2>3. Short(Turned(c, KnightSteps))
    BY DEF Turned, KnightSteps
  <2>4. Short(Turned(c, SilverSteps))
    BY DEF Turned, SilverSteps
  <2>5. Short(Turned(c, GoldSteps))
    BY DEF Turned, GoldSteps
  <2>6. Short(Turned(c, LineSteps))
    <3>1. Turned(c, LineSteps) = LineSteps
      BY LineStepsTurned
    <3>2. \A d \in LineSteps : d[1] \in -1 .. 1 /\ d[2] \in -1 .. 1
      BY EightDirections
    <3> QED BY <3>1, <3>2
  <2> HIDE DEF Short
  <2>7. Short(steps)
    <3>1. CASE k \in Golds
      <4>1. StepDirections(k) = GoldSteps
        BY <3>1, DirectionsOfKinds
      <4> QED BY <2>5, <4>1
    <3>2. CASE k \notin Golds
      BY <1>3, <2>1, <2>2, <2>3, <2>4, <2>6, <3>2, DirectionsOfKinds
    <3> QED BY <3>1, <3>2
  <2> QED BY <2>7 DEF Short
<1>5. runs \subseteq LineSteps /\ (k \notin Running => runs = {})
  <2>1. Turned(c, {}) = {}
    BY DEF Turned
  <2>2. Turned(c, {<<-1, 0>>}) \subseteq LineSteps
    <3>1. {<<-1, 0>>, <<1, 0>>} \subseteq LineSteps
      BY DEF LineSteps, FileSteps
    <3> QED BY <3>1, UpTurned
  <2>3. Turned(c, Diag1Steps \cup Diag2Steps) \subseteq LineSteps
    BY LinesTurned, SetsTurned DEF LineSteps
  <2>4. Turned(c, RankSteps \cup FileSteps) \subseteq LineSteps
    BY LinesTurned, SetsTurned DEF LineSteps
  <2>5. CASE k \in Golds
    <3>1. RunDirections(k) = {}
      BY <2>5, DirectionsOfKinds
    <3> QED BY <2>1, <3>1
  <2>6. CASE k \in {pawn, knight, silver, king}
    <3>1. RunDirections(k) = {}
      BY <2>6, DirectionsOfKinds
    <3> QED BY <2>1, <3>1
  <2>7. CASE k \in {lance, bishop, rook, horse, dragon}
    <3>1. k \in Running
      BY <2>7 DEF Running
    <3> QED BY <2>2, <2>3, <2>4, <2>7, <3>1, DirectionsOfKinds
  <2> QED BY <1>3, <2>5, <2>6, <2>7
<1> HIDE DEF steps, runs
<1>6. t \in set_attacks(s, steps) => abb_obstacle[s][t] = {}
  BY <1>4, NothingBetweenSteps
<1>7. ASSUME NEW d \in runs, t \in Ray(s, d)
      PROVE  Clear(p.board, s, d, t) <=> abb_obstacle[s][t] \cap Occupied(p) = {}
  BY <1>5, <1>7, RaysJoin
<1> QED BY <1>1, <1>2, <1>5, <1>6, <1>7

(* The pieces of a side are on its occupied squares.                       *)
LEMMA MineInCopies ==
  ASSUME NEW p, IsPosition(p), Copies(p), NEW c \in Colour, NEW t \in Square
  PROVE  Mine(c, p.board[t]) <=> t \in p.occ[c]
<1>1. p.board[t] \in Pieces
  BY DEF IsPosition
<1>2. p.occ[c] = {s \in Square : p.board[s] \in {Signed(c, k) : k \in Kinds}}
  BY DEF Copies, OnBoard
<1> QED BY <1>1, <1>2, MineIsSigned

(* A drop that the rules allow, but for the safety of the king and for a   *)
(* pawn that mates.                                                        *)
DropByRules(c, p, k, t) ==
  /\ k \in Hands /\ t \in Square
  /\ p.hand[c][k] > 0
  /\ p.board[t] = empty
  /\ ~Stuck(c, k, t)
  /\ k = pawn => ~PawnOnFile(c, p, t)

(* IsPawnOnFile off the squares that pawns attack finds the files with a   *)
(* pawn: none stands on its last rank.                                     *)
LEMMA FilesWithPawns ==
  ASSUME NEW p, IsPosition(p), Copies(p), Alive(p), NEW c \in Colour, NEW t \in Square
  PROVE  PawnOnFile(c, p, t) <=> \E s \in Square : aifile(s) = aifile(t) /\ p.board[s] = Signed(c, pawn)
<1>1. p.pawn_atk[c] = {s + Ahead(c) : s \in OnBoard(p.board, c, {pawn})}
  BY DEF Copies
<1>2. OnBoard(p.board, c, {pawn}) = {s \in Square : p.board[s] = Signed(c, pawn)}
  BY DEF OnBoard
<1>3. ASSUME NEW s \in OnBoard(p.board, c, {pawn}) PROVE aifile(s + Ahead(c)) = aifile(s)
  <2>1. s \in Square /\ Row(c, s) > 0
    BY <1>2 DEF Alive
  <2>2. CASE c = black
    <3>1. (s \div 9) + (-1) \in 0..8 /\ (s % 9) + 0 \in 0..8
      BY <2>1, <2>2, SquareParts DEF Row, airank
    <3>2. s + Ahead(c) = s + 9 * (-1) + 0
      BY <2>1, <2>2 DEF Ahead, Square
    <3>3. -1 \in Int /\ 0 \in Int
      OBVIOUS
    <3>4. (s + Ahead(c)) % 9 = (s % 9) + 0
      BY <2>1, <3>1, <3>2, <3>3, SquareMoved
    <3> QED BY <2>1, <3>4, SquareParts DEF aifile
  <2>3. CASE c # black
    <3>1. (s \div 9) + 1 \in 0..8 /\ (s % 9) + 0 \in 0..8
      BY <2>1, <2>3, SquareParts DEF Row, airank
    <3>2. s + Ahead(c) = s + 9 * 1 + 0
      BY <2>1, <2>3 DEF Ahead, Square
    <3>4. (s + Ahead(c)) % 9 = (s % 9) + 0
      BY <2>1, <3>1, <3>2, SquareMoved
    <3> QED BY <2>1, <3>4, SquareParts DEF aifile
  <2> QED BY <2>2, <2>3
<1> QED BY <1>1, <1>2, <1>3 DEF PawnOnFile

(* The drops of the rules, one by one.                                     *)
LEMMA DropsAre ==
  ASSUME NEW p, IsPosition(p), Copies(p), Alive(p), NEW c \in Colour, NEW m
  PROVE  m \in Drops(p.board, p.hand, c) <=>
           \E k \in Hands, t \in Square : DropByRules(c, p, k, t) /\ m = DropMove(k, t)
<1> DEFINE b == p.board
           h == p.hand
           Of(k, t) == [from |-> 80 + k, to |-> t, piece |-> empty, promo |-> FALSE, cap |-> empty]
           May(x) == LET k == x.from - 80
                     IN /\ ~Stuck(c, k, x.to)
                        /\ k = pawn => \A s \in Square :
                             aifile(s) = aifile(x.to) => b[s] # (IF c = black THEN pawn ELSE -pawn)
<1>1. m \in Drops(b, h, c) <=>
        \E k \in {k \in Hands : h[c][k] > 0}, t \in {s \in Square : b[s] = empty} : m = Of(k, t) /\ May(m)
  BY DEF Drops
<1>2. \A k \in Hands : \A t : Of(k, t) = DropMove(k, t)
  <2>1. \A k \in Hands : Drop2From(k) = 80 + k
    BY DEF Drop2From, nsquare, Hands, pawn, rook
  <2> QED BY <2>1 DEF DropMove, Move
<1>3. ASSUME NEW k \in Hands, NEW t \in Square
      PROVE  May(Of(k, t)) <=> ~Stuck(c, k, t) /\ (k = pawn => ~PawnOnFile(c, p, t))
  <2>1. Of(k, t).from - 80 = k /\ Of(k, t).to = t
    <3>1. k \in Int
      BY DEF Hands, pawn, rook
    <3>2. (80 + k) - 80 = k
      BY <3>1
    <3>3. Of(k, t).from = 80 + k /\ Of(k, t).to = t
      OBVIOUS
    <3> HIDE DEF Of
    <3> QED BY <3>2, <3>3
  <2>2. Signed(c, pawn) = IF c = black THEN pawn ELSE -pawn
    BY DEF Signed
  <2>3. May(Of(k, t)) <=> /\ ~Stuck(c, k, t)
                          /\ k = pawn => \A s \in Square : aifile(s) = aifile(t) => b[s] # Signed(c, pawn)
    BY <2>1, <2>2
  <2> QED BY <2>3, FilesWithPawns
<1> HIDE DEF Of, May
<1> QED BY <1>1, <1>2, <1>3 DEF DropByRules

(* The moves of the rules, but for the safety of the king, with the test   *)
(* of attack.c for a pawn that mates.                                      *)
MovesByRules(c, p) ==
  BoardMoves(p.board, c) \cup
    {m \in Drops(p.board, p.hand, c) : m.from = Drop2From(pawn) => ~IsMatePawnDrop(c, p, m.to)}

(* What tells the moves of the rules.                                      *)
LEMMA MovesByRulesAre ==
  ASSUME NEW p, IsPosition(p), Copies(p), Alive(p), NEW c \in Colour, NEW m
  PROVE  m \in MovesByRules(c, p) <=>
           \/ \E k \in Kinds, s \in Square, t \in Square, f \in BOOLEAN :
                ByRules(c, p, k, s, t, f) /\ m = Board(p, k, f, s, t)
           \/ \E k \in Hands, t \in Square :
                /\ DropByRules(c, p, k, t) /\ m = DropMove(k, t)
                /\ k = pawn => ~IsMatePawnDrop(c, p, t)
<1>1. \A k \in Hands : \A t : DropMove(k, t).to = t /\ (DropMove(k, t).from = Drop2From(pawn) <=> k = pawn)
  BY DEF DropMove, Move, Drop2From, nsquare, Hands, pawn, rook
<1> QED BY <1>1, BoardMovesAre, DropsAre DEF MovesByRules

(***************************************************************************)
(* is_move_valid answers as the rules do.                                  *)
(***************************************************************************)

(* What a square holds as the target of a move of the rules.               *)
LEMMA TargetsHold ==
  ASSUME NEW p, IsPosition(p), Copies(p), NEW c \in Colour, NEW t \in Square, NEW v \in {empty} \cup Kinds
  PROVE  p.board[t] = Signed(Flip(c), v) <=> ~Mine(c, p.board[t]) /\ Kind(p, t) = v
<1>1. ASSUME p.board[t] = Signed(Flip(c), v) PROVE ~Mine(c, p.board[t]) /\ Kind(p, t) = v
  <2>1. Kind(p, t) = v
    BY <1>1, Flips, KindOfSigned
  <2>2. PICK k : k \in Kinds
    BY KindsApart
  <2>3. CASE v = empty
    BY <1>1, <2>1, <2>2, <2>3, SignedEmpty, AbsOfSigned
  <2>4. CASE v \in Kinds
    BY <1>1, <2>1, <2>4, AbsOfSigned
  <2> QED BY <2>3, <2>4
<1>2. ASSUME ~Mine(c, p.board[t]), Kind(p, t) = v PROVE p.board[t] = Signed(Flip(c), v)
  BY <1>2, MineInCopies, NotOwn
<1> QED BY <1>1, <1>2

(* The parts of a step.                                                    *)
LEMMA PartsOfSteps ==
  ASSUME NEW p, NEW k, NEW f, NEW s \in Square, NEW t, NEW m, m = Board(p, k, f, s, t)
  PROVE  /\ m.from = s /\ m.to = t /\ m.piece = k /\ m.promo = f /\ m.cap = Kind(p, t)
         /\ ~IsDrop(m)
<1>1. m.from = s /\ m.to = t /\ m.piece = k /\ m.promo = f /\ m.cap = Kind(p, t)
  BY DEF Board, Move
<1> QED BY <1>1 DEF IsDrop, Square, nsquare

(* The parts of a drop.                                                    *)
LEMMA PartsOfDrops ==
  ASSUME NEW k \in Hands, NEW t, NEW m, m = DropMove(k, t)
  PROVE  IsDrop(m) /\ From2Drop(m.from) = k /\ m.to = t
<1>1. m.from = Drop2From(k) /\ m.to = t
  BY DEF DropMove, Move
<1> QED BY <1>1 DEF IsDrop, Drop2From, From2Drop, Hands, pawn, rook, nsquare

(* A step of the rules on the board q passes is_move_valid on p just if it *)
(* is one there.                                                           *)
LEMMA StepsFromElsewhere ==
  ASSUME NEW p, IsPosition(p), Copies(p), Alive(p), NEW q, IsPosition(q), Copies(q), NEW c \in Colour,
         NEW k \in Kinds, NEW s \in Square, NEW t \in Square, NEW f \in BOOLEAN,
         ByRules(c, q, k, s, t, f), NEW m, m = Board(q, k, f, s, t)
  PROVE  is_move_valid(c, p, m) <=> m \in MovesByRules(c, p)
<1>1. m.from = s /\ m.to = t /\ m.piece = k /\ m.promo = f /\ m.cap = Kind(q, t) /\ ~IsDrop(m)
  BY PartsOfSteps
<1>2. PICK v \in {empty} \cup Kinds : v = Kind(q, t)
  BY MineInCopies, NotOwn DEF ByRules
<1>3. k # empty
  BY KindsAreNumbers
<1>4. is_move_valid(c, p, m) <=>
        /\ p.board[s] = Signed(c, k)
        /\ p.board[t] = Signed(Flip(c), v)
        /\ k \in Running => abb_obstacle[s][t] \cap Occupied(p) = {}
  <2>1. p.occ[black] \cup p.occ[white] = Occupied(p)
    BY OccupiedIsBoth
  <2> QED BY <1>1, <1>2, <1>3, <2>1 DEF is_move_valid
<1>5. m \in MovesByRules(c, p) <=> ByRules(c, p, k, s, t, f) /\ Kind(p, t) = v
  <2>1. ASSUME NEW k2 \in Kinds, NEW s2 \in Square, NEW t2 \in Square, NEW f2 \in BOOLEAN,
               ByRules(c, p, k2, s2, t2, f2), m = Board(p, k2, f2, s2, t2)
        PROVE  ByRules(c, p, k, s, t, f) /\ Kind(p, t) = v
    <3>1. m.from = s2 /\ m.to = t2 /\ m.piece = k2 /\ m.promo = f2 /\ m.cap = Kind(p, t2)
      BY <2>1, PartsOfSteps
    <3>2. s2 = s /\ t2 = t /\ k2 = k /\ f2 = f
      BY <1>1, <3>1
    <3> QED BY <1>1, <1>2, <2>1, <3>1, <3>2
  <2>2. ASSUME NEW k2 \in Hands, NEW t2 \in Square, m = DropMove(k2, t2) PROVE FALSE
    BY <1>1, <2>2, PartsOfDrops
  <2>3. Kind(p, t) = v => m = Board(p, k, f, s, t)
    BY <1>2 DEF Board
  <2> QED BY <2>1, <2>2, <2>3, MovesByRulesAre
<1>6. ByRules(c, p, k, s, t, f) <=>
        p.board[s] = Signed(c, k) /\ Hits(p.board, c, s, t) /\ ~Mine(c, p.board[t])
  BY DEF ByRules
<1>7. p.board[t] = Signed(Flip(c), v) <=> ~Mine(c, p.board[t]) /\ Kind(p, t) = v
  BY TargetsHold
<1>8. ASSUME p.board[s] = Signed(c, k)
      PROVE  Hits(p.board, c, s, t) <=> (k \in Running => abb_obstacle[s][t] \cap Occupied(p) = {})
  <2>1. q.board[s] = Signed(c, k) /\ Hits(q.board, c, s, t)
    BY DEF ByRules
  <2>2. /\ Hits(p.board, c, s, t) <=> abb_obstacle[s][t] \cap Occupied(p) = {}
        /\ k \notin Running => abb_obstacle[s][t] = {}
    BY <1>8, <2>1, HitsElsewhere
  <2> QED BY <2>2
<1> QED BY <1>4, <1>5, <1>6, <1>7, <1>8

(* So does a drop.                                                         *)
LEMMA DropsFromElsewhere ==
  ASSUME NEW p, IsPosition(p), Copies(p), Alive(p), NEW q, NEW c \in Colour,
         NEW k \in Hands, NEW t \in Square, DropByRules(c, q, k, t), NEW m, m = DropMove(k, t)
  PROVE  is_move_valid(c, p, m) <=> m \in MovesByRules(c, p)
<1>1. IsDrop(m) /\ From2Drop(m.from) = k /\ m.to = t
  BY PartsOfDrops
<1>2. is_move_valid(c, p, m) <=>
        /\ p.board[t] = empty /\ p.hand[c][k] > 0
        /\ k = pawn => ~PawnOnFile(c, p, t) /\ ~IsMatePawnDrop(c, p, t)
  BY <1>1 DEF is_move_valid
<1>3. m \in MovesByRules(c, p) <=> DropByRules(c, p, k, t) /\ (k = pawn => ~IsMatePawnDrop(c, p, t))
  <2>1. ASSUME NEW k2 \in Hands, NEW t2 \in Square, m = DropMove(k2, t2) PROVE k2 = k /\ t2 = t
    BY <1>1, <2>1, PartsOfDrops
  <2>2. ASSUME NEW k2, NEW s2 \in Square, NEW t2, NEW f2, m = Board(p, k2, f2, s2, t2) PROVE FALSE
    BY <1>1, <2>2, PartsOfSteps
  <2> QED BY <2>1, <2>2, MovesByRulesAre
<1> QED BY <1>2, <1>3 DEF DropByRules

(* A move the rules allow in another sane position, the mover's king and   *)
(* mating pawns apart, passes is_move_valid just if they allow it here.    *)
LEMMA MovesFromElsewhere ==
  ASSUME NEW p, Sane(p), NEW q, Sane(q), NEW c \in Colour, NEW m \in PseudoLegal(q.board, q.hand, c)
  PROVE  is_move_valid(c, p, m) <=> m \in MovesByRules(c, p)
<1>1. /\ IsPosition(p) /\ Copies(p) /\ Alive(p)
      /\ IsPosition(q) /\ Copies(q) /\ Alive(q)
  BY DEF Sane
<1>2. m \in BoardMoves(q.board, c) \/ m \in Drops(q.board, q.hand, c)
  BY DEF PseudoLegal
<1>3. CASE m \in BoardMoves(q.board, c)
  <2>1. m \in BoardMoves(q.board, c) <=>
          \E k \in Kinds, s \in Square, t \in Square, f \in BOOLEAN :
            ByRules(c, q, k, s, t, f) /\ m = Board(q, k, f, s, t)
    BY <1>1, BoardMovesAre
  <2>2. PICK k \in Kinds, s \in Square, t \in Square, f \in BOOLEAN :
               ByRules(c, q, k, s, t, f) /\ m = Board(q, k, f, s, t)
    BY <1>3, <2>1
  <2> QED BY <1>1, <2>2, StepsFromElsewhere
<1>4. CASE m \in Drops(q.board, q.hand, c)
  <2>1. PICK k \in Hands, t \in Square : DropByRules(c, q, k, t) /\ m = DropMove(k, t)
    BY <1>1, <1>4, DropsAre
  <2> QED BY <1>1, <2>1, DropsFromElsewhere
<1> QED BY <1>2, <1>3, <1>4

(* A move remembered from an earlier position of the walk passes           *)
(* is_move_valid (valid.c:7) just if the rules allow it here: but for the  *)
(* safety of the king, which the search tests when it has made the move,   *)
(* and with attack.c's test for a pawn drop that mates.                    *)
THEOREM RememberedMovesAreByTheRules ==
  Spec => [](Sound => \A m \in Remembered : is_move_valid(turn, pos, m) <=> m \in MovesByRules(turn, pos))
<1>1. ASSUME WalkInv, Sound, NEW m \in Remembered
      PROVE  is_move_valid(turn, pos, m) <=> m \in MovesByRules(turn, pos)
  <2>1. Sane(pos) /\ turn \in Colour /\ IsASequence(line) /\ IsASequence(seen) /\ Len(seen) = Len(line)
        /\ \A i \in 1..Len(line) : Sane(seen[i])
    BY <1>1 DEF WalkInv, Walk, Reached, Sound
  <2>2. PICK i \in DOMAIN seen : m \in PseudoLegal(seen[i].board, seen[i].hand, turn)
    BY DEF Remembered
  <2>3. DOMAIN seen = 1..Len(line)
    BY <2>1 DEF IsASequence
  <2>4. Sane(seen[i])
    BY <2>1, <2>2, <2>3
  <2> QED BY <2>1, <2>2, <2>4, MovesFromElsewhere
<1>2. WalkInv => (Sound => \A m \in Remembered : is_move_valid(turn, pos, m) <=> m \in MovesByRules(turn, pos))
  BY <1>1
<1> QED BY <1>2, EveryWalk, PTL

(***************************************************************************)
(* Every generated move is one of the rules.                               *)
(***************************************************************************)

(* Pawns, lances and knights go forward only: from the zone they do not    *)
(* leave it.                                                               *)
LEMMA ForwardOnly ==
  ASSUME NEW p, IsPosition(p), Copies(p), NEW c \in Colour, NEW k \in {pawn, lance, knight},
         NEW s \in Zone(c), p.board[s] = Signed(c, k), NEW t, Hits(p.board, c, s, t)
  PROVE  t \in Zone(c)
<1>1. s \in Square /\ Row(c, s) <= 2
  BY DEF Zone
<1>2. k \in Kinds
  BY KindsApart
<1>3. t \in Square
  BY <1>1, <1>2, HitsSquares
<1>4. \/ t \in set_attacks(s, Turned(c, StepDirections(k)))
      \/ \E d \in Turned(c, RunDirections(k)) : t \in Ray(s, d) /\ Clear(p.board, s, d, t)
  BY <1>1, <1>2, HitsOfPiece
<1>5. s \div 9 \in 0..8 /\ t \div 9 \in 0..8 /\ s % 9 \in 0..8 /\ t % 9 \in 0..8
  BY <1>1, <1>3, SquareParts
<1>6. (IF c = black THEN t \div 9 <= s \div 9 ELSE t \div 9 >= s \div 9) => Row(c, t) <= Row(c, s)
  BY <1>5 DEF Row, airank
<1>7. ASSUME NEW i \in Int, NEW j \in Int, t = s + 9 * i + j, OnTheBoard(airank(s) + i, aifile(s) + j)
      PROVE  t \div 9 = (s \div 9) + i
  BY <1>1, <1>7, SquareMoved DEF OnTheBoard, airank, aifile
<1>8. Turned(c, {}) = {}
  BY DEF Turned
<1>9. CASE k \in {pawn, knight}
  <2>1. StepDirections(k) \in {{<<-1, 0>>}, KnightSteps} /\ RunDirections(k) = {}
    BY <1>9, DirectionsOfKinds
  <2>2. t \in set_attacks(s, Turned(c, StepDirections(k)))
    BY <1>4, <1>8, <2>1
  <2>3. PICK d \in Turned(c, StepDirections(k)) : OnTheBoard(airank(s) + d[1], aifile(s) + d[2]) /\ t = s + 9 * d[1] + d[2]
    BY <2>2 DEF set_attacks
  <2>4. PICK a, b : a = -1 /\ b = 1
    OBVIOUS
  <2>5. d[1] \in Int /\ d[2] \in Int /\ (IF c = black THEN d[1] <= 0 ELSE d[1] >= 0)
    <3>1. CASE StepDirections(k) = {<<-1, 0>>}
      <4>1. d = IF c = black THEN <<-1, 0>> ELSE <<1, 0>>
        BY <2>3, <3>1, UpTurned
      <4> QED BY <4>1
    <3>2. CASE StepDirections(k) = KnightSteps
      <4>1. c = black => d \in {<<-2, -1>>, <<-2, 1>>}
        BY <2>3, <3>2 DEF Turned, KnightSteps
      <4>2. c # black => \E e \in {<<-2, -1>>, <<-2, 1>>} : d = <<-e[1], -e[2]>>
        BY <2>3, <3>2 DEF Turned, KnightSteps
      <4> QED BY <4>1, <4>2
    <3> QED BY <2>1, <3>1, <3>2
  <2>6. t \div 9 = (s \div 9) + d[1]
    BY <1>7, <2>3, <2>5
  <2>7. IF c = black THEN t \div 9 <= s \div 9 ELSE t \div 9 >= s \div 9
    BY <1>5, <2>5, <2>6
  <2>8. Row(c, t) \in Int /\ Row(c, s) \in Int
    BY <1>5 DEF Row, airank
  <2> QED BY <1>1, <1>3, <1>6, <2>7, <2>8 DEF Zone
<1>10. CASE k = lance
  <2>1. StepDirections(k) = {} /\ RunDirections(k) = {<<-1, 0>>}
    BY <1>10, DirectionsOfKinds
  <2>2. set_attacks(s, {}) = {}
    BY DEF set_attacks
  <2>3. t \in Ray(s, IF c = black THEN <<-1, 0>> ELSE <<1, 0>>)
    BY <1>4, <1>8, <2>1, <2>2, UpTurned
  <2>4. IF c = black THEN t < s ELSE t > s
    BY <1>1, <2>3, UpAndDown
  <2>5. IF c = black THEN t \div 9 <= s \div 9 ELSE t \div 9 >= s \div 9
    BY <1>1, <1>3, <1>5, <2>4, SquareOrder
  <2>8. Row(c, t) \in Int /\ Row(c, s) \in Int
    BY <1>5 DEF Row, airank
  <2> QED BY <1>1, <1>3, <1>6, <2>5, <2>8 DEF Zone
<1> QED BY <1>9, <1>10

(* Where a side may move: to the other side's squares and the empty ones.  *)
LEMMA MovableIs ==
  ASSUME NEW p, IsPosition(p), Copies(p), NEW c \in Colour, NEW t \in Square
  PROVE  /\ ~Mine(c, p.board[t]) <=> t \in Movable(c, p)
         /\ t \in Movable(c, p) <=> t \in p.occ[Flip(c)] \/ t \in Empty(p)
<1>1. t \in Movable(c, p) <=> t \notin p.occ[c]
  BY DEF Movable
<1>2. t \in p.occ[Flip(c)] => t \notin p.occ[c]
  BY FreeOfOwn
<1>3. t \in Empty(p) <=> t \notin p.occ[c] /\ t \notin p.occ[Flip(c)]
  BY DEF Empty, Flip, Colour, black, white
<1> QED BY <1>1, <1>2, <1>3, MineInCopies

(* The steps of a piece that its bitboard holds are by the rules.          *)
LEMMA GoIsByRules ==
  ASSUME NEW p, IsPosition(p), Copies(p), Alive(p), NEW c \in Colour, NEW k \in Kinds, k # pawn,
         NEW S, \A s \in S : s \in Square /\ p.board[s] = Signed(c, k),
         NEW T, T \subseteq Movable(c, p), NEW f \in BOOLEAN,
         f => k \in Promotable /\ \A s \in S : s \in Zone(c) \/ T \subseteq Zone(c),
         ~f => \A t \in T : ~Stuck(c, k, t)
  PROVE  Go(c, p, k, S, T, f) \subseteq MovesByRules(c, p)
<1> SUFFICES ASSUME NEW s \in S, NEW t \in Reach(c, p, k, s) \cap T
             PROVE  Board(p, k, f, s, t) \in MovesByRules(c, p)
  BY DEF Go
<1>1. s \in Square /\ p.board[s] = Signed(c, k)
  OBVIOUS
<1>2. Hits(p.board, c, s, t)
  BY <1>1, ReachIsHits
<1>3. t \in Square
  BY <1>1, <1>2, HitsSquares
<1>4. ~Mine(c, p.board[t])
  BY <1>3, MovableIs
<1>5. ByRules(c, p, k, s, t, f)
  BY <1>1, <1>2, <1>3, <1>4 DEF ByRules
<1> QED BY <1>1, <1>3, <1>5, MovesByRulesAre

(* And so are those of pawns.                                              *)
LEMMA PushIsByRules ==
  ASSUME NEW p, IsPosition(p), Copies(p), Alive(p), NEW c \in Colour,
         NEW T, T \subseteq Movable(c, p), NEW f \in BOOLEAN,
         f => T \subseteq Zone(c), ~f => \A t \in T : ~Stuck(c, pawn, t)
  PROVE  Push(c, p, T, f) \subseteq MovesByRules(c, p)
<1> SUFFICES ASSUME NEW t \in p.pawn_atk[c] \cap T
             PROVE  Board(p, pawn, f, t - Ahead(c), t) \in MovesByRules(c, p)
  BY DEF Push
<1>1. t - Ahead(c) \in Square /\ t = (t - Ahead(c)) + Ahead(c) /\ p.board[t - Ahead(c)] = Signed(c, pawn)
  BY PieceOf
<1>2. t \in Square
  BY DEF Movable
<1>3. Hits(p.board, c, t - Ahead(c), t)
  BY <1>1, <1>2, PawnsHit
<1>4. ~Mine(c, p.board[t])
  BY <1>2, MovableIs
<1>5. pawn \in Kinds /\ pawn \in Promotable
  BY KindsApart
<1>6. ByRules(c, p, pawn, t - Ahead(c), t, f)
  BY <1>1, <1>2, <1>3, <1>4, <1>5 DEF ByRules
<1> QED BY <1>1, <1>2, <1>5, <1>6, MovesByRulesAre

(* Which pieces get stuck where.                                           *)
LEMMA WhereStuck ==
  ASSUME NEW c, NEW t \in Square
  PROVE  /\ \A k \in Kinds \ {pawn, lance, knight} : ~Stuck(c, k, t)
         /\ Stuck(c, pawn, t) <=> ~(Row(c, t) >= 1)
         /\ Stuck(c, lance, t) <=> ~(Row(c, t) >= 1)
         /\ Stuck(c, knight, t) <=> t \in Deep(c)
         /\ Row(c, t) \in 0..8
         /\ t \in Zone(c) <=> Row(c, t) <= 2
         /\ t \in Deep(c) <=> Row(c, t) <= 1
<1>1. Row(c, t) \in 0..8
  BY SquareParts DEF Row, airank
<1>2. pawn # knight /\ lance # knight
  BY DEF pawn, lance, knight
<1> QED BY <1>1, <1>2 DEF Stuck, Zone, Deep

(* The steps of silvers, by the rules.                                     *)
LEMMA SilversByRules ==
  ASSUME NEW p, IsPosition(p), Copies(p), Alive(p), NEW c \in Colour, NEW T, T \subseteq Movable(c, p)
  PROVE  SilverMoves(c, p, p.bb[c][silver], T) \subseteq MovesByRules(c, p)
<1>1. silver \in Kinds /\ silver \in BoardKinds /\ silver # pawn /\ silver # knight /\ silver # lance /\ silver \in Promotable
  BY KindsApart DEF silver, lance
<1>2. \A s \in p.bb[c][silver] : s \in Square /\ p.board[s] = Signed(c, silver)
  BY <1>1, PieceOf
<1>3. \A t \in T : ~Stuck(c, silver, t)
  BY <1>1, WhereStuck DEF Movable
<1>4. Go(c, p, silver, p.bb[c][silver], T, FALSE) \subseteq MovesByRules(c, p)
  BY <1>1, <1>2, <1>3, GoIsByRules
<1>5. ASSUME NEW s \in p.bb[c][silver], NEW U, U \subseteq T, s \in Zone(c) \/ U \subseteq Zone(c)
      PROVE  Go(c, p, silver, {s}, U, TRUE) \subseteq MovesByRules(c, p)
  BY <1>1, <1>2, <1>5, GoIsByRules
<1>6. \A s \in p.bb[c][silver] : LET U == IF s \in Zone(c) THEN T ELSE T \cap Zone(c)
                                 IN U \subseteq T /\ (s \in Zone(c) \/ U \subseteq Zone(c))
  OBVIOUS
<1> QED BY <1>4, <1>5, <1>6 DEF SilverMoves

(* The steps of bishops and rooks that promote where they may.             *)
LEMMA ForcedByRules ==
  ASSUME NEW p, IsPosition(p), Copies(p), Alive(p), NEW c \in Colour, NEW k \in {bishop, rook},
         NEW s \in p.bb[c][k], NEW T, T \subseteq Movable(c, p)
  PROVE  ForcedPromotion(c, p, k, {s}, T) \subseteq MovesByRules(c, p)
<1>1. k \in Kinds \ {pawn, lance, knight} /\ k \in BoardKinds /\ k \in Promotable
  BY KindsApart DEF bishop, rook, lance
<1>2. \A x \in {s} : x \in Square /\ p.board[x] = Signed(c, k)
  BY <1>1, PieceOf
<1>3. \A t \in T : ~Stuck(c, k, t)
  BY <1>1, WhereStuck DEF Movable
<1>4. ASSUME NEW U, U \subseteq T PROVE Go(c, p, k, {s}, U, FALSE) \subseteq MovesByRules(c, p)
  BY <1>1, <1>2, <1>3, <1>4, GoIsByRules
<1>5. ASSUME NEW U, U \subseteq T, s \in Zone(c) \/ U \subseteq Zone(c)
      PROVE  Go(c, p, k, {s}, U, TRUE) \subseteq MovesByRules(c, p)
  BY <1>1, <1>2, <1>5, GoIsByRules
<1>6. LET U == IF s \in Zone(c) THEN T ELSE T \cap Zone(c)
      IN U \subseteq T /\ T \ U \subseteq T /\ (s \in Zone(c) \/ U \subseteq Zone(c))
  OBVIOUS
<1> QED BY <1>4, <1>5, <1>6 DEF ForcedPromotion

(* The steps of golds, kings, horses and dragons.                          *)
LEMMA OthersByRules ==
  ASSUME NEW p, IsPosition(p), Copies(p), Alive(p), NEW c \in Colour, NEW T, T \subseteq Movable(c, p)
  PROVE  /\ AsGold(c, p, T) \subseteq MovesByRules(c, p)
         /\ Go(c, p, king, {p.sq_king[c]}, T, FALSE) \subseteq MovesByRules(c, p)
         /\ \A k \in {horse, dragon, bishop, rook} : \A S \in SUBSET p.bb[c][k] :
              Go(c, p, k, S, T, FALSE) \subseteq MovesByRules(c, p)
<1>1. \A t \in T : t \in Square
  BY DEF Movable
<1>2. ASSUME NEW k \in Kinds \ {pawn, lance, knight}, NEW S, \A s \in S : s \in Square /\ p.board[s] = Signed(c, k)
      PROVE  Go(c, p, k, S, T, FALSE) \subseteq MovesByRules(c, p)
  <2>1. \A t \in T : ~Stuck(c, k, t)
    BY <1>1, <1>2, WhereStuck
  <2> QED BY <1>2, <2>1, GoIsByRules
<1>3. king \in Kinds \ {pawn, lance, knight} /\ Golds \subseteq Kinds \ {pawn, lance, knight}
      /\ {horse, dragon, bishop, rook} \subseteq (Kinds \ {pawn, lance, knight}) \cap BoardKinds
  BY DEF king, Kinds, BoardKinds, pawn, lance, knight, Golds, gold, promote, silver, horse, dragon, bishop, rook
<1>4. ASSUME NEW s \in p.union[c].tgold PROVE Go(c, p, Kind(p, s), {s}, T, FALSE) \subseteq MovesByRules(c, p)
  <2>1. p.union[c].tgold = OnBoard(p.board, c, Golds)
    BY DEF Copies, Unions
  <2>2. PICK k \in Golds : s \in Square /\ p.board[s] = Signed(c, k)
    BY <2>1 DEF OnBoard
  <2>3. k \in Kinds \ {pawn, lance, knight}
    BY <1>3
  <2>4. Kind(p, s) = k
    BY <2>2, <2>3, KindOfSigned
  <2>5. \A x \in {s} : x \in Square /\ p.board[x] = Signed(c, k)
    BY <2>2
  <2>6. Go(c, p, k, {s}, T, FALSE) \subseteq MovesByRules(c, p)
    BY <1>2, <2>3, <2>5
  <2> QED BY <2>4, <2>6
<1>5. AsGold(c, p, T) \subseteq MovesByRules(c, p)
  BY <1>4 DEF AsGold
<1>6. Go(c, p, king, {p.sq_king[c]}, T, FALSE) \subseteq MovesByRules(c, p)
  <2>1. \A s \in {p.sq_king[c]} : s \in Square /\ p.board[s] = Signed(c, king)
    BY PieceOf
  <2> QED BY <1>2, <1>3, <2>1
<1>7. ASSUME NEW k \in {horse, dragon, bishop, rook}, NEW S \in SUBSET p.bb[c][k]
      PROVE  Go(c, p, k, S, T, FALSE) \subseteq MovesByRules(c, p)
  <2>1. \A s \in S : s \in Square /\ p.board[s] = Signed(c, k)
    BY <1>3, PieceOf
  <2> QED BY <1>2, <1>3, <2>1
<1> QED BY <1>5, <1>6, <1>7

(* The steps of lances and knights.                                        *)
LEMMA FarByRules ==
  ASSUME NEW p, IsPosition(p), Copies(p), Alive(p), NEW c \in Colour, NEW k \in {lance, knight},
         NEW T, T \subseteq Movable(c, p)
  PROVE  /\ T \subseteq Zone(c) => Go(c, p, k, p.bb[c][k], T, TRUE) \subseteq MovesByRules(c, p)
         /\ (\A t \in T : ~Stuck(c, k, t)) => Go(c, p, k, p.bb[c][k], T, FALSE) \subseteq MovesByRules(c, p)
<1>1. k \in Kinds /\ k # pawn /\ k \in BoardKinds /\ k \in Promotable
  BY KindsApart
<1>2. \A s \in p.bb[c][k] : s \in Square /\ p.board[s] = Signed(c, k)
  BY <1>1, PieceOf
<1>3. ASSUME T \subseteq Zone(c) PROVE Go(c, p, k, p.bb[c][k], T, TRUE) \subseteq MovesByRules(c, p)
  BY <1>1, <1>2, <1>3, GoIsByRules
<1>4. ASSUME \A t \in T : ~Stuck(c, k, t) PROVE Go(c, p, k, p.bb[c][k], T, FALSE) \subseteq MovesByRules(c, p)
  BY <1>1, <1>2, <1>4, GoIsByRules
<1> QED BY <1>3, <1>4

(* The captures and promotions are moves of the rules.                     *)
LEMMA CapturesByRules ==
  ASSUME NEW p, IsPosition(p), Copies(p), Alive(p), NEW c \in Colour
  PROVE  gen_captures(c, p) \subseteq MovesByRules(c, p)
<1> DEFINE capture == p.occ[Flip(c)]
           R == MovesByRules(c, p)
<1>1. capture \subseteq Movable(c, p) /\ Movable(c, p) \subseteq Square
  BY FreeOfOwn DEF Movable
<1> HIDE DEF capture, R
<1>2. cap_steps(c, p) \subseteq R
  <2>1. Push(c, p, Movable(c, p) \cap Zone(c), TRUE) \subseteq R
    BY PushIsByRules DEF R
  <2>2. Push(c, p, capture \ Zone(c), FALSE) \subseteq R
    <3>1. capture \ Zone(c) \subseteq Movable(c, p)
      BY <1>1
    <3>2. \A t \in capture \ Zone(c) : ~Stuck(c, pawn, t)
      BY <1>1, WhereStuck
    <3> QED BY <3>1, <3>2, PushIsByRules DEF R
  <2>3. SilverMoves(c, p, p.bb[c][silver], capture) \subseteq R
    BY <1>1, SilversByRules DEF R
  <2>4. AsGold(c, p, capture) \subseteq R /\ Go(c, p, king, {p.sq_king[c]}, capture, FALSE) \subseteq R
    BY <1>1, OthersByRules DEF R
  <2> QED BY <2>1, <2>2, <2>3, <2>4 DEF cap_steps, capture
<1>3. cap_sliders(c, p) \subseteq R
  <2>1. \A k \in {bishop, rook} : \A s \in p.bb[c][k] : \A T \in SUBSET Movable(c, p) : ForcedPromotion(c, p, k, {s}, T) \subseteq R
    BY ForcedByRules DEF R
  <2>2. \A s : (IF s \in Zone(c) THEN Movable(c, p) ELSE capture \cup (Movable(c, p) \cap Zone(c))) \in SUBSET Movable(c, p)
    BY <1>1
  <2>3. \A k \in {bishop, rook} : \A s \in p.bb[c][k] :
          \A m \in ForcedPromotion(c, p, k, {s}, IF s \in Zone(c) THEN Movable(c, p) ELSE capture \cup (Movable(c, p) \cap Zone(c))) :
            m \in R
    BY <2>1, <2>2
  <2>4. \A m \in cap_sliders(c, p) : m \in R
    BY <2>3 DEF cap_sliders, capture
  <2> QED BY <2>4
<1>4. cap_promoted(c, p) \subseteq R
  <2>1. \A k \in {horse, dragon} : Go(c, p, k, p.bb[c][k], capture, FALSE) \subseteq R
    BY <1>1, OthersByRules DEF R
  <2> QED BY <2>1 DEF cap_promoted, capture
<1>5. ASSUME NEW k \in {lance, knight} PROVE cap_far(c, p, k) \subseteq R
  <2>1. Go(c, p, k, p.bb[c][k], Movable(c, p) \cap Zone(c), TRUE) \subseteq R
    BY FarByRules DEF R
  <2>2. Go(c, p, k, p.bb[c][k], capture \ Deep(c), FALSE) \subseteq R
    <3>1. capture \ Deep(c) \subseteq Movable(c, p)
      BY <1>1
    <3>2. \A t \in capture \ Deep(c) : ~Stuck(c, k, t)
      BY <1>1, WhereStuck
    <3> QED BY <3>1, <3>2, FarByRules DEF R
  <2> QED BY <2>1, <2>2 DEF cap_far, capture
<1> QED BY <1>2, <1>3, <1>4, <1>5 DEF gen_captures, R

(* The other moves of pieces on the board are moves of the rules.          *)
LEMMA QuietMovesByRules ==
  ASSUME NEW p, IsPosition(p), Copies(p), Alive(p), NEW c \in Colour
  PROVE  gen_nocaptures(c, p) \subseteq MovesByRules(c, p)
<1> DEFINE R == MovesByRules(c, p)
<1>1. Empty(p) \subseteq Movable(c, p) /\ Movable(c, p) \subseteq Square
  BY FreeOfOwn DEF Movable
<1> HIDE DEF R
<1>2. nocap_steps(c, p) \subseteq R
  <2>2. Push(c, p, Empty(p) \ Zone(c), FALSE) \subseteq R
    <3>1. Empty(p) \ Zone(c) \subseteq Movable(c, p)
      BY <1>1
    <3>2. \A t \in Empty(p) \ Zone(c) : ~Stuck(c, pawn, t)
      BY <1>1, WhereStuck
    <3> QED BY <3>1, <3>2, PushIsByRules DEF R
  <2>3. SilverMoves(c, p, p.bb[c][silver], Empty(p)) \subseteq R
    BY <1>1, SilversByRules DEF R
  <2>4. AsGold(c, p, Empty(p)) \subseteq R /\ Go(c, p, king, {p.sq_king[c]}, Empty(p), FALSE) \subseteq R
    BY <1>1, OthersByRules DEF R
  <2> QED BY <2>2, <2>3, <2>4 DEF nocap_steps
<1>3. nocap_sliders(c, p) \subseteq R
  <2>1. ASSUME NEW k \in {bishop, rook, horse, dragon}, NEW S \in SUBSET p.bb[c][k], NEW T \in SUBSET Empty(p)
        PROVE  Go(c, p, k, S, T, FALSE) \subseteq R
    <3>1. T \subseteq Movable(c, p)
      BY <1>1
    <3> QED BY <3>1, OthersByRules DEF R
  <2>2. ASSUME NEW k \in {lance, knight} PROVE Go(c, p, k, p.bb[c][k], Empty(p) \ Deep(c), FALSE) \subseteq R
    <3>1. Empty(p) \ Deep(c) \subseteq Movable(c, p)
      BY <1>1
    <3>2. \A t \in Empty(p) \ Deep(c) : ~Stuck(c, k, t)
      BY <1>1, WhereStuck
    <3> QED BY <3>1, <3>2, FarByRules DEF R
  <2> QED BY <2>1, <2>2 DEF nocap_sliders
<1> QED BY <1>2, <1>3 DEF gen_nocaptures, R

(* The promotions declined are moves of the rules.                         *)
LEMMA DeclinedByRules ==
  ASSUME NEW p, IsPosition(p), Copies(p), Alive(p), NEW c \in Colour, NEW T, T \subseteq Movable(c, p)
  PROVE  Declined(c, p, T) \subseteq MovesByRules(c, p)
<1> DEFINE second == {s \in Square : Row(c, s) = 1}
           third == {s \in Square : Row(c, s) = 2}
           R == MovesByRules(c, p)
<1> HIDE DEF R
<1>1. Push(c, p, T \cap (second \cup third), FALSE) \subseteq R
  <2>1. \A t \in T \cap (second \cup third) : ~Stuck(c, pawn, t)
    BY WhereStuck
  <2> QED BY <2>1, PushIsByRules DEF R
<1>2. ASSUME NEW k \in {bishop, rook}, NEW s \in p.bb[c][k], NEW U \in SUBSET T
      PROVE  Go(c, p, k, {s}, U, FALSE) \subseteq R
  <2>1. U \subseteq Movable(c, p) /\ {s} \in SUBSET p.bb[c][k]
    OBVIOUS
  <2> QED BY <2>1, OthersByRules DEF R
<1>3. Go(c, p, lance, p.bb[c][lance], T \cap second, FALSE) \subseteq R
  <2>1. \A t \in T \cap second : ~Stuck(c, lance, t)
    BY WhereStuck
  <2> QED BY <2>1, FarByRules DEF R
<1>4. \A s : (IF s \in Zone(c) THEN T ELSE T \cap Zone(c)) \in SUBSET T
  OBVIOUS
<1>5. \A k \in {bishop, rook} : \A s \in p.bb[c][k] :
        \A m \in Go(c, p, k, {s}, IF s \in Zone(c) THEN T ELSE T \cap Zone(c), FALSE) : m \in R
  BY <1>2, <1>4
<1>6. \A m \in Declined(c, p, T) : m \in R
  BY <1>1, <1>3, <1>5 DEF Declined
<1> QED BY <1>6 DEF R

(* The empty squares.                                                      *)
LEMMA EmptyIs ==
  ASSUME NEW p, IsPosition(p), Copies(p), NEW c \in Colour
  PROVE  \A t : t \in Empty(p) <=> t \in Square /\ p.board[t] = empty
<1>1. \A t \in Square : p.board[t] = empty => t \notin p.occ[c] /\ t \notin p.occ[Flip(c)]
  <2>1. \A t \in Square, e \in Colour : p.board[t] = empty => t \notin p.occ[e]
    BY MineInCopies, AbsOfSigned, KindsApart
  <2> QED BY <2>1, Flips
<1>2. Empty(p) = Square \ (p.occ[c] \cup p.occ[Flip(c)])
  BY DEF Empty, Flip, Colour, black, white
<1> QED BY <1>1, <1>2, FreeOfOwn

(* Drops onto some of the empty squares are the drops of the rules there.  *)
LEMMA DropsOnAre ==
  ASSUME NEW p, IsPosition(p), Copies(p), Alive(p), NEW c \in Colour, NEW T, T \subseteq Empty(p), NEW m
  PROVE  m \in DropsOn(c, p, T) <=>
           \E k \in Hands, t \in T :
             /\ DropByRules(c, p, k, t) /\ m = DropMove(k, t)
             /\ k = pawn => ~IsMatePawnDrop(c, p, t)
<1> DEFINE from == [k \in Hands |-> CASE k = knight -> 2 [] k \in {pawn, lance} -> 1 [] OTHER -> 0]
           may(k, t) == /\ Row(c, t) >= from[k]
                        /\ k = pawn => ~PawnOnFile(c, p, t) /\ ~IsMatePawnDrop(c, p, t)
<1>1. DropsOn(c, p, T) = {DropMove(x[1], x[2]) : x \in {x \in {k \in Hands : p.hand[c][k] > 0} \X T : may(x[1], x[2])}}
  BY DEF DropsOn
<1>2. ASSUME NEW k \in Hands, NEW t \in Square PROVE Row(c, t) >= from[k] <=> ~Stuck(c, k, t)
  <2>1. from[k] = IF k = knight THEN 2 ELSE IF k \in {pawn, lance} THEN 1 ELSE 0
    BY DEF knight, pawn, lance
  <2>2. Row(c, t) \in Int
    BY WhereStuck
  <2> HIDE DEF from
  <2> QED BY <2>1, <2>2 DEF Stuck
<1> HIDE DEF from
<1>3. \A t \in T : t \in Square /\ p.board[t] = empty
  BY EmptyIs
<1>4. m \in DropsOn(c, p, T) <=>
        \E k \in {k \in Hands : p.hand[c][k] > 0}, t \in T : may(k, t) /\ m = DropMove(k, t)
  <2> HIDE DEF may
  <2>1. ASSUME m \in DropsOn(c, p, T)
        PROVE  \E k \in {k \in Hands : p.hand[c][k] > 0}, t \in T : may(k, t) /\ m = DropMove(k, t)
    <3>1. PICK x \in {k \in Hands : p.hand[c][k] > 0} \X T : may(x[1], x[2]) /\ m = DropMove(x[1], x[2])
      BY <1>1, <2>1
    <3> QED BY <3>1
  <2>2. ASSUME NEW k \in {k \in Hands : p.hand[c][k] > 0}, NEW t \in T, may(k, t), m = DropMove(k, t)
        PROVE  m \in DropsOn(c, p, T)
    <3>1. PICK x : x = <<k, t>>
      OBVIOUS
    <3>2. x \in {k2 \in Hands : p.hand[c][k2] > 0} \X T /\ x[1] = k /\ x[2] = t
      BY <3>1
    <3> QED BY <1>1, <2>2, <3>2
  <2> QED BY <2>1, <2>2
<1> QED BY <1>2, <1>3, <1>4 DEF DropByRules

(* GenDrop makes the drops of the rules.                                   *)
LEMMA DropsByRules ==
  ASSUME NEW p, IsPosition(p), Copies(p), Alive(p), NEW c \in Colour, NEW m
  PROVE  m \in gen_drop(c, p) <=>
           \E k \in Hands, t \in Square :
             /\ DropByRules(c, p, k, t) /\ m = DropMove(k, t)
             /\ k = pawn => ~IsMatePawnDrop(c, p, t)
<1>1. m \in gen_drop(c, p) <=>
        \E k \in Hands, t \in Empty(p) :
          /\ DropByRules(c, p, k, t) /\ m = DropMove(k, t)
          /\ k = pawn => ~IsMatePawnDrop(c, p, t)
  BY DropsOnAre DEF gen_drop
<1>2. \A k, t : DropByRules(c, p, k, t) => t \in Empty(p)
  BY EmptyIs DEF DropByRules
<1>3. \A t \in Empty(p) : t \in Square
  BY EmptyIs
<1> QED BY <1>1, <1>2, <1>3

(***************************************************************************)
(* Every move of the rules is generated.                                   *)
(***************************************************************************)

(* What the steps of pieces comprise.                                      *)
LEMMA GoHas ==
  ASSUME NEW c, NEW p, NEW k, NEW S, NEW T, NEW f, NEW s \in S, NEW t \in T, t \in Reach(c, p, k, s)
  PROVE  Board(p, k, f, s, t) \in Go(c, p, k, S, T, f)
  BY DEF Go

(* What the steps of pawns comprise.                                       *)
LEMMA PushHas ==
  ASSUME NEW p, IsPosition(p), Copies(p), NEW c \in Colour, NEW T, NEW f, NEW s \in Square,
         p.board[s] = Signed(c, pawn), NEW t \in T, t = s + Ahead(c)
  PROVE  Board(p, pawn, f, s, t) \in Push(c, p, T, f)
<1>1. t \in p.pawn_atk[c]
  BY DEF Copies, OnBoard
<1>2. t - Ahead(c) = s
  BY AheadIsOneRank DEF Square
<1> QED BY <1>1, <1>2 DEF Push

(* What the steps of silvers comprise.                                     *)
LEMMA SilverHas ==
  ASSUME NEW c, NEW p, NEW S, NEW T, NEW f \in BOOLEAN, NEW s \in S, NEW t \in T, t \in Reach(c, p, silver, s),
         f => s \in Zone(c) \/ t \in Zone(c)
  PROVE  Board(p, silver, f, s, t) \in SilverMoves(c, p, S, T)
<1>1. CASE ~f
  BY <1>1, GoHas DEF SilverMoves
<1>2. CASE f
  <2>1. Board(p, silver, TRUE, s, t) \in Go(c, p, silver, {s}, IF s \in Zone(c) THEN T ELSE T \cap Zone(c), TRUE)
    BY <1>2, GoHas
  <2> QED BY <1>2, <2>1 DEF SilverMoves
<1> QED BY <1>1, <1>2

(* What the steps that promote where they may comprise.                    *)
LEMMA ForcedHas ==
  ASSUME NEW c, NEW p, NEW k, NEW S, NEW T, NEW f \in BOOLEAN, NEW s \in S, NEW t \in T, t \in Reach(c, p, k, s),
         f <=> s \in Zone(c) \/ t \in Zone(c)
  PROVE  Board(p, k, f, s, t) \in ForcedPromotion(c, p, k, S, T)
<1> DEFINE U == IF s \in Zone(c) THEN T ELSE T \cap Zone(c)
           at == Go(c, p, k, {s}, U, TRUE) \cup Go(c, p, k, {s}, T \ U, FALSE)
<1>1. at \subseteq ForcedPromotion(c, p, k, S, T)
  BY DEF ForcedPromotion
<1>2. CASE ~f
  <2>1. Board(p, k, FALSE, s, t) \in Go(c, p, k, {s}, T \ U, FALSE)
    BY <1>2, GoHas
  <2> QED BY <1>1, <1>2, <2>1
<1>3. CASE f
  <2>1. Board(p, k, TRUE, s, t) \in Go(c, p, k, {s}, U, TRUE)
    BY <1>3, GoHas
  <2> QED BY <1>1, <1>3, <2>1
<1> QED BY <1>2, <1>3

(* What the promotions declined comprise.                                  *)
LEMMA DeclinedHas ==
  ASSUME NEW c, NEW p, NEW T, NEW s, NEW t \in T
  PROVE  /\ \A k \in {bishop, rook} : s \in p.bb[c][k] /\ t \in Reach(c, p, k, s) /\ (s \in Zone(c) \/ t \in Zone(c))
              => Board(p, k, FALSE, s, t) \in Declined(c, p, T)
         /\ s \in p.bb[c][lance] /\ t \in Reach(c, p, lance, s) /\ t \in Square /\ Row(c, t) = 1
              => Board(p, lance, FALSE, s, t) \in Declined(c, p, T)
<1>1. ASSUME NEW k \in {bishop, rook}, s \in p.bb[c][k], t \in Reach(c, p, k, s), s \in Zone(c) \/ t \in Zone(c)
      PROVE  Board(p, k, FALSE, s, t) \in Declined(c, p, T)
  <2>1. Board(p, k, FALSE, s, t) \in Go(c, p, k, {s}, IF s \in Zone(c) THEN T ELSE T \cap Zone(c), FALSE)
    BY <1>1, GoHas
  <2>2. Board(p, k, FALSE, s, t)
          \in UNION {Go(c, p, k, {x}, IF x \in Zone(c) THEN T ELSE T \cap Zone(c), FALSE) : x \in p.bb[c][k]}
    BY <1>1, <2>1
  <2> QED BY <2>2 DEF Declined
<1>2. ASSUME s \in p.bb[c][lance], t \in Reach(c, p, lance, s), t \in Square, Row(c, t) = 1
      PROVE  Board(p, lance, FALSE, s, t) \in Declined(c, p, T)
  <2>1. Board(p, lance, FALSE, s, t) \in Go(c, p, lance, p.bb[c][lance], T \cap {x \in Square : Row(c, x) = 1}, FALSE)
    BY <1>2, GoHas
  <2> QED BY <2>1 DEF Declined
<1> QED BY <1>1, <1>2

(* The five generators out of check.                                       *)
BoardGenerators(c, p) ==
  gen_captures(c, p) \cup gen_nocaptures(c, p) \cup gen_cap_nopro_ex2(c, p) \cup gen_nocap_nopro_ex2(c, p)

(* A pawn's moves of the rules are generated.                              *)
LEMMA PawnsAreGenerated ==
  ASSUME NEW p, IsPosition(p), Copies(p), NEW c \in Colour,
         NEW s, NEW t, NEW f, ByRules(c, p, pawn, s, t, f)
  PROVE  Board(p, pawn, f, s, t) \in BoardGenerators(c, p)
<1>1. /\ s \in Square /\ t \in Square /\ f \in BOOLEAN
      /\ p.board[s] = Signed(c, pawn) /\ Hits(p.board, c, s, t) /\ ~Mine(c, p.board[t])
      /\ f => s \in Zone(c) \/ t \in Zone(c)
      /\ ~f => ~Stuck(c, pawn, t)
  BY DEF ByRules
<1>2. t = s + Ahead(c)
  BY <1>1, PawnsHit
<1>3. t \in Movable(c, p) /\ (t \in p.occ[Flip(c)] \/ t \in Empty(p))
  BY <1>1, MovableIs
<1>4. CASE f
  <2>1. t \in Zone(c)
    BY <1>1, <1>4, ForwardOnly
  <2>2. Board(p, pawn, TRUE, s, t) \in Push(c, p, Movable(c, p) \cap Zone(c), TRUE)
    BY <1>1, <1>2, <1>3, <2>1, PushHas
  <2> QED BY <1>1, <1>4, <2>2 DEF BoardGenerators, gen_captures, cap_steps
<1>5. CASE ~f /\ t \notin Zone(c)
  <2>1. CASE t \in p.occ[Flip(c)]
    <3>1. Board(p, pawn, FALSE, s, t) \in Push(c, p, p.occ[Flip(c)] \ Zone(c), FALSE)
      BY <1>1, <1>2, <1>5, <2>1, PushHas
    <3> QED BY <1>1, <1>5, <3>1 DEF BoardGenerators, gen_captures, cap_steps
  <2>2. CASE t \in Empty(p)
    <3>1. Board(p, pawn, FALSE, s, t) \in Push(c, p, Empty(p) \ Zone(c), FALSE)
      BY <1>1, <1>2, <1>5, <2>2, PushHas
    <3> QED BY <1>1, <1>5, <3>1 DEF BoardGenerators, gen_nocaptures, nocap_steps
  <2> QED BY <1>3, <2>1, <2>2
<1>6. CASE ~f /\ t \in Zone(c)
  <2>1. Row(c, t) = 1 \/ Row(c, t) = 2
    BY <1>1, <1>6, WhereStuck
  <2>2. ASSUME NEW T, t \in T PROVE Board(p, pawn, FALSE, s, t) \in Declined(c, p, T)
    <3>1. t \in T \cap ({x \in Square : Row(c, x) = 1} \cup {x \in Square : Row(c, x) = 2})
      BY <1>1, <2>1, <2>2
    <3>2. Board(p, pawn, FALSE, s, t)
            \in Push(c, p, T \cap ({x \in Square : Row(c, x) = 1} \cup {x \in Square : Row(c, x) = 2}), FALSE)
      BY <1>1, <1>2, <3>1, PushHas
    <3> QED BY <3>2 DEF Declined
  <2> QED BY <1>1, <1>3, <1>6, <2>2 DEF BoardGenerators, gen_cap_nopro_ex2, gen_nocap_nopro_ex2
<1> QED BY <1>1, <1>4, <1>5, <1>6

(* The moves of bishops and rooks are generated.                           *)
LEMMA SlidersAreGenerated ==
  ASSUME NEW p, IsPosition(p), Copies(p), NEW c \in Colour, NEW k \in {bishop, rook},
         NEW s, NEW t, NEW f, ByRules(c, p, k, s, t, f)
  PROVE  Board(p, k, f, s, t) \in BoardGenerators(c, p)
<1>1. /\ s \in Square /\ t \in Square /\ f \in BOOLEAN
      /\ p.board[s] = Signed(c, k) /\ Hits(p.board, c, s, t) /\ ~Mine(c, p.board[t])
      /\ f => s \in Zone(c) \/ t \in Zone(c)
  BY DEF ByRules
<1>2. k \in Kinds /\ k # pawn /\ k \in BoardKinds
  BY KindsApart
<1>3. t \in Reach(c, p, k, s) /\ s \in p.bb[c][k]
  BY <1>1, <1>2, ReachIsHits, PiecesInCopies
<1>4. t \in Movable(c, p) /\ (t \in p.occ[Flip(c)] \/ t \in Empty(p))
  BY <1>1, MovableIs
<1> DEFINE U == IF s \in Zone(c) THEN Movable(c, p) ELSE p.occ[Flip(c)] \cup (Movable(c, p) \cap Zone(c))
<1>5. ForcedPromotion(c, p, k, {s}, U) \subseteq cap_sliders(c, p)
  <2>1. \A m \in ForcedPromotion(c, p, k, {s}, U) : m \in cap_sliders(c, p)
    BY <1>3 DEF cap_sliders
  <2> QED BY <2>1
<1>6. CASE f
  <2>1. Board(p, k, f, s, t) \in ForcedPromotion(c, p, k, {s}, U)
    BY <1>1, <1>3, <1>4, <1>6, ForcedHas
  <2> QED BY <1>5, <2>1 DEF BoardGenerators, gen_captures
<1>7. CASE ~f /\ (s \in Zone(c) \/ t \in Zone(c))
  BY <1>1, <1>3, <1>4, <1>7, DeclinedHas DEF BoardGenerators, gen_cap_nopro_ex2, gen_nocap_nopro_ex2
<1>8. CASE ~f /\ s \notin Zone(c) /\ t \notin Zone(c)
  <2>1. CASE t \in p.occ[Flip(c)]
    <3>1. Board(p, k, f, s, t) \in ForcedPromotion(c, p, k, {s}, U)
      BY <1>1, <1>3, <1>8, <2>1, ForcedHas
    <3> QED BY <1>5, <3>1 DEF BoardGenerators, gen_captures
  <2>2. CASE t \in Empty(p)
    <3>1. Board(p, k, FALSE, s, t)
            \in Go(c, p, k, p.bb[c][k] \cap (Square \ Zone(c)), Empty(p) \cap (Square \ Zone(c)), FALSE)
      BY <1>1, <1>3, <1>8, <2>2, GoHas
    <3>2. Board(p, k, FALSE, s, t) \in nocap_sliders(c, p)
      BY <3>1 DEF nocap_sliders
    <3> QED BY <1>1, <1>8, <3>2 DEF BoardGenerators, gen_nocaptures
  <2> QED BY <1>4, <2>1, <2>2
<1> QED BY <1>1, <1>6, <1>7, <1>8

(* The moves of lances and knights are generated.                          *)
LEMMA FarAreGenerated ==
  ASSUME NEW p, IsPosition(p), Copies(p), NEW c \in Colour, NEW k \in {lance, knight},
         NEW s, NEW t, NEW f, ByRules(c, p, k, s, t, f)
  PROVE  Board(p, k, f, s, t) \in BoardGenerators(c, p)
<1>1. /\ s \in Square /\ t \in Square /\ f \in BOOLEAN
      /\ p.board[s] = Signed(c, k) /\ Hits(p.board, c, s, t) /\ ~Mine(c, p.board[t])
      /\ f => s \in Zone(c) \/ t \in Zone(c)
      /\ ~f => ~Stuck(c, k, t)
  BY DEF ByRules
<1>2. k \in Kinds /\ k # pawn /\ k \in BoardKinds
  BY KindsApart
<1>3. t \in Reach(c, p, k, s) /\ s \in p.bb[c][k]
  BY <1>1, <1>2, ReachIsHits, PiecesInCopies
<1>4. t \in Movable(c, p) /\ (t \in p.occ[Flip(c)] \/ t \in Empty(p))
  BY <1>1, MovableIs
<1>5. CASE f
  <2>1. t \in Zone(c)
    BY <1>1, <1>5, ForwardOnly
  <2>2. Board(p, k, TRUE, s, t) \in Go(c, p, k, p.bb[c][k], Movable(c, p) \cap Zone(c), TRUE)
    BY <1>3, <1>4, <2>1, GoHas
  <2>3. Board(p, k, f, s, t) \in cap_far(c, p, k)
    BY <1>1, <1>5, <2>2 DEF cap_far
  <2> QED BY <2>3 DEF BoardGenerators, gen_captures
<1>6. CASE ~f /\ t \notin Deep(c)
  <2>1. CASE t \in p.occ[Flip(c)]
    <3>1. Board(p, k, FALSE, s, t) \in Go(c, p, k, p.bb[c][k], p.occ[Flip(c)] \ Deep(c), FALSE)
      BY <1>3, <1>6, <2>1, GoHas
    <3>2. Board(p, k, f, s, t) \in cap_far(c, p, k)
      BY <1>1, <1>6, <3>1 DEF cap_far
    <3> QED BY <3>2 DEF BoardGenerators, gen_captures
  <2>2. CASE t \in Empty(p)
    <3>1. Board(p, k, FALSE, s, t) \in Go(c, p, k, p.bb[c][k], Empty(p) \ Deep(c), FALSE)
      BY <1>3, <1>6, <2>2, GoHas
    <3>2. Board(p, k, f, s, t) \in nocap_sliders(c, p)
      BY <1>1, <1>6, <3>1 DEF nocap_sliders
    <3> QED BY <3>2 DEF BoardGenerators, gen_nocaptures
  <2> QED BY <1>4, <2>1, <2>2
<1>7. CASE ~f /\ t \in Deep(c)
  <2>1. k = lance /\ Row(c, t) = 1
    BY <1>1, <1>7, WhereStuck
  <2> QED BY <1>1, <1>3, <1>4, <1>7, <2>1, DeclinedHas DEF BoardGenerators, gen_cap_nopro_ex2, gen_nocap_nopro_ex2
<1> QED BY <1>1, <1>5, <1>6, <1>7

(* The moves of the other pieces are generated.                            *)
LEMMA OthersAreGenerated ==
  ASSUME NEW p, IsPosition(p), Copies(p), NEW c \in Colour, NEW k \in {silver, king, horse, dragon} \cup Golds,
         NEW s, NEW t, NEW f, ByRules(c, p, k, s, t, f)
  PROVE  Board(p, k, f, s, t) \in BoardGenerators(c, p)
<1>1. /\ k \in Kinds /\ s \in Square /\ t \in Square /\ f \in BOOLEAN
      /\ p.board[s] = Signed(c, k) /\ Hits(p.board, c, s, t) /\ ~Mine(c, p.board[t])
      /\ f => k \in Promotable /\ (s \in Zone(c) \/ t \in Zone(c))
  BY DEF ByRules
<1>2. k # pawn
  BY KindsApart DEF silver, pawn
<1>3. t \in Reach(c, p, k, s)
  BY <1>1, <1>2, ReachIsHits
<1>4. t \in p.occ[Flip(c)] \/ t \in Empty(p)
  BY <1>1, MovableIs
<1>5. CASE k = silver
  <2>1. s \in p.bb[c][silver]
    BY <1>1, <1>5, PiecesInCopies, KindsApart
  <2>2. \A T : t \in T => Board(p, k, f, s, t) \in SilverMoves(c, p, p.bb[c][silver], T)
    BY <1>1, <1>3, <1>5, <2>1, SilverHas
  <2> QED BY <1>4, <2>2 DEF BoardGenerators, gen_captures, gen_nocaptures, cap_steps, nocap_steps
<1>6. CASE k # silver
  <2>0. ~f
    <3>1. k \notin Promotable
      BY <1>6 DEF Promotable, pawn, lance, knight, silver, bishop, rook, king, horse, dragon, Golds, gold, promote
    <3> QED BY <1>1, <3>1
  <2>1. CASE k \in Golds
    <3>1. s \in p.union[c].tgold /\ Kind(p, s) = k
      BY <1>1, <2>1, PiecesInCopies, KindOfSigned
    <3>2. ASSUME NEW T, t \in T PROVE Board(p, k, FALSE, s, t) \in AsGold(c, p, T)
      <4>1. Board(p, k, FALSE, s, t) \in Go(c, p, k, {s}, T, FALSE)
        BY <1>3, <3>2, GoHas
      <4> QED BY <3>1, <4>1 DEF AsGold
    <3> QED BY <1>1, <1>4, <2>0, <3>2 DEF BoardGenerators, gen_captures, gen_nocaptures, cap_steps, nocap_steps
  <2>2. CASE k = king
    <3>1. s = p.sq_king[c]
      BY <1>1, <2>2 DEF Copies, OnBoard
    <3>2. \A T : t \in T => Board(p, king, FALSE, s, t) \in Go(c, p, king, {p.sq_king[c]}, T, FALSE)
      BY <1>3, <2>2, <3>1, GoHas
    <3> QED BY <1>1, <1>4, <2>0, <2>2, <3>2 DEF BoardGenerators, gen_captures, gen_nocaptures, cap_steps, nocap_steps
  <2>3. CASE k \in {horse, dragon}
    <3>1. s \in p.bb[c][k]
      BY <1>1, <2>3, PiecesInCopies, KindsApart
    <3>2. \A T : t \in T => Board(p, k, FALSE, s, t) \in Go(c, p, k, p.bb[c][k], T, FALSE)
      BY <1>3, <3>1, GoHas
    <3>3. t \in p.occ[Flip(c)] => Board(p, k, FALSE, s, t) \in cap_promoted(c, p)
      BY <2>3, <3>2 DEF cap_promoted
    <3>4. t \in Empty(p) => Board(p, k, FALSE, s, t) \in nocap_sliders(c, p)
      BY <2>3, <3>2 DEF nocap_sliders
    <3> QED BY <1>1, <1>4, <2>0, <3>3, <3>4 DEF BoardGenerators, gen_captures, gen_nocaptures
  <2> QED BY <1>6, <2>1, <2>2, <2>3
<1> QED BY <1>5, <1>6

(* Out of check the generators make the moves of the rules.                *)
LEMMA GeneratedAreByRules ==
  ASSUME NEW p, IsPosition(p), Copies(p), Alive(p), NEW c \in Colour, ~InCheck(c, p)
  PROVE  Generated(c, p) = MovesByRules(c, p)
<1>1. Generated(c, p) = BoardGenerators(c, p) \cup gen_drop(c, p)
  <2>1. c = black \/ c = white
    BY DEF Colour
  <2> QED BY <2>1 DEF Generated, GenAll, GenEx2, GenCaptures, GenNoCaptures, GenDrop, GenCapNoProEx2, GenNoCapNoProEx2,
        w_cap_steps, w_cap_sliders, w_cap_far, w_nocap_steps, w_nocap_sliders, w_gen_drop,
        w_gen_cap_nopro_ex2, w_gen_nocap_nopro_ex2, BoardGenerators, gen_captures, gen_nocaptures, black, white
<1>2. BoardGenerators(c, p) \subseteq MovesByRules(c, p)
  <2>1. p.occ[Flip(c)] \subseteq Movable(c, p) /\ Empty(p) \subseteq Movable(c, p)
    BY FreeOfOwn DEF Movable
  <2> QED BY <2>1, CapturesByRules, QuietMovesByRules, DeclinedByRules
          DEF BoardGenerators, gen_cap_nopro_ex2, gen_nocap_nopro_ex2
<1>3. \A m : m \in MovesByRules(c, p) =>
        m \in gen_drop(c, p) \/ \E k \in Kinds, s \in Square, t \in Square, f \in BOOLEAN :
                                  ByRules(c, p, k, s, t, f) /\ m = Board(p, k, f, s, t)
  BY MovesByRulesAre, DropsByRules
<1>4. gen_drop(c, p) \subseteq MovesByRules(c, p)
  BY MovesByRulesAre, DropsByRules
<1>5. ASSUME NEW k \in Kinds, NEW s \in Square, NEW t \in Square, NEW f \in BOOLEAN, ByRules(c, p, k, s, t, f)
      PROVE  Board(p, k, f, s, t) \in BoardGenerators(c, p)
  <2>1. \/ k = pawn \/ k \in {lance, knight} \/ k \in {bishop, rook}
        \/ k \in {silver, king, horse, dragon} \cup Golds
    BY KindsOfPieces
  <2> QED BY <1>5, <2>1, PawnsAreGenerated, FarAreGenerated, SlidersAreGenerated, OthersAreGenerated
<1> QED BY <1>1, <1>2, <1>3, <1>4, <1>5

(* Out of check the generators (gencap.c, gennocap.c, gendrop.c, and       *)
(* movgenex.c for the promotions declined) find every move the rules       *)
(* allow, and no other: but for the safety of the king, which the search   *)
(* tests when it has made the move, and with attack.c's test for a pawn    *)
(* drop that mates.                                                        *)
THEOREM GeneratorsFollowTheRules ==
  Spec => [](Sound /\ ~InCheck(turn, pos) => Generated(turn, pos) = MovesByRules(turn, pos))
<1>1. ASSUME WalkInv, Sound, ~InCheck(turn, pos) PROVE Generated(turn, pos) = MovesByRules(turn, pos)
  <2>1. Sane(pos) /\ turn \in Colour
    BY <1>1 DEF WalkInv, Walk, Reached, Sound
  <2> QED BY <1>1, <2>1, GeneratedAreByRules DEF Sane
<1>2. WalkInv => (Sound /\ ~InCheck(turn, pos) => Generated(turn, pos) = MovesByRules(turn, pos))
  BY <1>1
<1> QED BY <1>2, EveryWalk, PTL

(***************************************************************************)
(* The moves the search goes on below.                                     *)
(***************************************************************************)

(* make_move puts the pieces where the rules do.                           *)
LEMMA AfterIsBoardAfter ==
  ASSUME NEW c, NEW p, NEW m, m.from \in Int
  PROVE  After(p.board, c, m) = BoardAfter(c, p, m)
<1>1. (m.from > 80) <=> IsDrop(m)
  BY DEF IsDrop, nsquare
<1>2. m.from - 80 = From2Drop(m.from)
  BY DEF From2Drop, nsquare
<1> DEFINE j == IF m.from > 80 THEN m.from - 80 ELSE IF m.promo THEN m.piece + promote ELSE m.piece
<1>3. j = Comes(m)
  BY <1>1, <1>2 DEF Comes
<1>4. After(p.board, c, m) = [s \in Square |-> IF s = m.to THEN (IF c = black THEN j ELSE -j)
                                               ELSE IF s = m.from THEN empty ELSE p.board[s]]
  BY DEF After
<1> HIDE DEF j
<1> QED BY <1>3, <1>4 DEF BoardAfter, Signed

(* A move of the rules fits the board, while the king of the other side is *)
(* not attacked.                                                           *)
LEMMA MovesByRulesAreGood ==
  ASSUME NEW p, IsPosition(p), Copies(p), Alive(p), NEW c \in Colour, KingIsSafe(c, p),
         NEW m \in BoardMoves(p.board, c) \cup Drops(p.board, p.hand, c)
  PROVE  Good(c, p, m) /\ m.from \in Int
<1>1. CASE m \in BoardMoves(p.board, c)
  <2>1. \A x : x \in BoardMoves(p.board, c) <=>
          \E k \in Kinds, s \in Square, t \in Square, f \in BOOLEAN :
            ByRules(c, p, k, s, t, f) /\ x = Board(p, k, f, s, t)
    BY BoardMovesAre
  <2>2. PICK k \in Kinds, s \in Square, t \in Square, f \in BOOLEAN :
               ByRules(c, p, k, s, t, f) /\ m = Board(p, k, f, s, t)
    BY <1>1, <2>1
  <2>3. p.board[s] = Signed(c, k) /\ Hits(p.board, c, s, t) /\ ~Mine(c, p.board[t])
        /\ (f => k \in Promotable) /\ (~f => ~Stuck(c, k, t))
    BY <2>2 DEF ByRules
  <2>4. Mine(c, p.board[s])
    BY <2>3, AbsOfSigned
  <2>5. is_attacked_by(c, p, t)
    BY <2>3, <2>4, AttackedByTheRules DEF Attacked
  <2>6. t \notin p.occ[c]
    BY <2>3, MineInCopies
  <2>7. k = pawn => t = s + Ahead(c)
    BY <2>3, PawnsHit
  <2>8. (k = pawn /\ ~f => Row(c, t) > 0) /\ (k = knight /\ ~f => Row(c, t) > 1)
    BY <2>3, WhereStuck
  <2>9. Good(c, p, m)
    BY <2>2, <2>3, <2>5, <2>6, <2>7, <2>8, BoardMoveIsGood
  <2>10. m.from = s
    BY <2>2, PartsOfSteps
  <2> QED BY <2>9, <2>10 DEF Square
<1>2. CASE m \in Drops(p.board, p.hand, c)
  <2>1. PICK k \in Hands, t \in Square : DropByRules(c, p, k, t) /\ m = DropMove(k, t)
    BY <1>2, DropsAre
  <2>2. m.from = Drop2From(k) /\ m.to = t /\ m.piece = empty /\ m.promo = FALSE /\ m.cap = empty
    BY <2>1 DEF DropMove, Move
  <2>3. Fits(c, p, m)
    BY <2>1, <2>2 DEF Fits, DropFits, DropByRules
  <2>4. Comes(m) = k
    BY <2>1, <2>2, PartsOfDrops DEF Comes
  <2>5. Lives(c, m)
    BY <2>1, <2>2, <2>4, WhereStuck DEF Lives, DropByRules
  <2>6. m.from \in Int
    BY <2>2 DEF Drop2From, nsquare, Hands, pawn, rook
  <2> QED BY <2>3, <2>5, <2>6 DEF Good
<1> QED BY <1>1, <1>2

(* The test of the search after a move is that of the rules.               *)
LEMMA SafetyIsTested ==
  ASSUME NEW p, IsPosition(p), Copies(p), NEW c \in Colour, NEW m, Fits(c, p, m), m.from \in Int
  PROVE  /\ InCheck(c, MakeMove(c, p, m)) <=> ~Safe(p.board, c, m)
         /\ InCheck(Flip(c), MakeMove(c, p, m)) <=> Checked(After(p.board, c, m), Flip(c))
<1>1. PICK q : q = make_move(c, p, m)
  OBVIOUS
<1>2. IsPosition(q) /\ Copies(q)
  BY <1>1, MakingKeepsCopies
<1>3. q.board = BoardAfter(c, p, m)
  <2>1. MadeOf(c, p, m, q)
    BY <1>1, PositionHasFields, MadeFields
  <2> QED BY <2>1 DEF MadeOf
<1>4. q.board = After(p.board, c, m)
  BY <1>3, AfterIsBoardAfter
<1>5. MakeMove(c, p, m) = q
  BY <1>1, MoveIsMade
<1> QED BY <1>2, <1>4, <1>5, Flips, CheckByTheRules DEF Safe

(* Of the generated moves out of check the search goes on below those that *)
(* the rules call safe.                                                    *)
LEMMA SafeOnesAreKept ==
  ASSUME NEW p, IsPosition(p), Copies(p), Alive(p), NEW c \in Colour, KingIsSafe(c, p), ~InCheck(c, p)
  PROVE  {m \in Generated(c, p) : ~InCheck(c, MakeMove(c, p, m))}
           = {m \in MovesByRules(c, p) : Safe(p.board, c, m)}
<1>1. Generated(c, p) = MovesByRules(c, p)
  BY GeneratedAreByRules
<1>2. ASSUME NEW m \in MovesByRules(c, p) PROVE InCheck(c, MakeMove(c, p, m)) <=> ~Safe(p.board, c, m)
  <2>1. m \in BoardMoves(p.board, c) \cup Drops(p.board, p.hand, c)
    BY DEF MovesByRules
  <2> QED BY <2>1, MovesByRulesAreGood, SafetyIsTested DEF Good
<1> QED BY <1>1, <1>2

(* Out of check, the generated moves that leave the own king unattacked,   *)
(* as the search tests it after a move of a piece on the board             *)
(* (search.c:403, search.c:690), are the moves of the rules that leave it  *)
(* safe: none is missed and none is illegal, given attack.c's test for a   *)
(* pawn drop that mates.                                                   *)
THEOREM GeneratorsFindTheSafeMoves ==
  Spec => [](Sound /\ ~InCheck(turn, pos) =>
               {m \in Generated(turn, pos) : ~InCheck(turn, MakeMove(turn, pos, m))}
                 = {m \in MovesByRules(turn, pos) : Safe(pos.board, turn, m)})
<1>1. ASSUME WalkInv, Sound, ~InCheck(turn, pos)
      PROVE  {m \in Generated(turn, pos) : ~InCheck(turn, MakeMove(turn, pos, m))}
               = {m \in MovesByRules(turn, pos) : Safe(pos.board, turn, m)}
  <2>1. Sane(pos) /\ turn \in Colour /\ ~InCheck(Flip(turn), pos)
    BY <1>1 DEF WalkInv, Walk, Reached, Sound
  <2>2. KingIsSafe(turn, pos)
    BY <2>1, Flips DEF KingIsSafe, InCheck
  <2> QED BY <1>1, <2>1, <2>2, SafeOnesAreKept DEF Sane
<1>2. WalkInv => (Sound /\ ~InCheck(turn, pos) =>
                    {m \in Generated(turn, pos) : ~InCheck(turn, MakeMove(turn, pos, m))}
                      = {m \in MovesByRules(turn, pos) : Safe(pos.board, turn, m)})
  BY <1>1
<1> QED BY <1>2, EveryWalk, PTL
==============================================================================
