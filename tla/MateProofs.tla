------------------------------ MODULE MateProofs ------------------------------
(***************************************************************************)
(* Where there is a mate by contact or by a knight, pawn drops apart,      *)
(* is_b_mate_in_1ply and is_w_mate_in_1ply (mate1ply.c) announce one:      *)
(* what they ask of the board without the piece that moves holds of every  *)
(* such mate, or of the same mate by a stronger piece of the hand or a     *)
(* promotion, and the squares and moves they do not try are never the only *)
(* ones.                                                                   *)
(***************************************************************************)
EXTENDS CheckProofs

(* The king of a mated side is attacked wherever it goes.                  *)
LEMMA MatedKing ==
  ASSUME NEW c \in Colour, NEW d, d = Flip(c), NEW b2, NEW q, NEW C, NEW K, StandsOn(q, b2, c, C, K),
         NEW h, Mated(b2, h, d), NEW u \in abb_king_attacks[K], \A k \in Kinds : b2[u] # Signed(d, k)
  PROVE  Attacked(Stepped(b2, d, K, u), c, u)
<1>1. d \in Colour /\ Flip(d) = c
  BY Flips
<1>2. IsPosition(q) /\ Copies(q) /\ q.board = b2 /\ K = q.sq_king[d]
  BY DEF StandsOn
<1>3. K \in Square /\ b2[K] = Signed(d, king)
  BY <1>1, <1>2, PieceOf
<1>4. king \in Kinds /\ king \in Kinds \ {pawn, lance, knight} /\ king # pawn
  BY KindsApart, KindsAreNumbers DEF king, lance
<1>5. u \in Square /\ u # K
  BY <1>3, StepsAreMutual, NotOnItself
<1>6. ByRules(d, q, king, K, u, FALSE)
  <2>1. Hits(b2, d, K, u)
    BY <1>1, <1>2, <1>3, <1>4, ReachOfKinds, ReachIsHits
  <2>2. ~Mine(d, b2[u])
    <3>1. b2[u] \in Pieces
      BY <1>2, <1>5 DEF IsPosition
    <3> QED BY <1>1, <3>1, MineIsSigned
  <2>3. ~Stuck(d, king, u)
    BY <1>4, <1>5, WhereStuck
  <2> QED BY <1>2, <1>3, <1>4, <1>5, <2>1, <2>2, <2>3 DEF ByRules
<1>7. PICK f, m : f = FALSE /\ m = Board(q, king, f, K, u)
  OBVIOUS
<1>8. m \in BoardMoves(q.board, d)
  BY <1>1, <1>2, <1>3, <1>4, <1>5, <1>6, <1>7, BoardMovesAre
<1>9. Checked(After(b2, d, m), d)
  BY <1>2, <1>8 DEF Mated, Safe
<1>10. After(b2, d, m) = Stepped(b2, d, K, u)
  <2>1. m.from = K /\ m.to = u /\ m.piece = king /\ m.promo = FALSE
    BY <1>3, <1>7, PartsOfSteps
  <2>2. ~(K > 80)
    BY <1>3 DEF Square
  <2> QED BY <2>1, <2>2 DEF After, Stepped, Moved, Signed
<1>11. KingOf(Stepped(b2, d, K, u), d) = u
  <2>1. OnBoard(b2, d, {king}) = {K}
    BY <1>1, <1>2 DEF Copies
  <2> QED BY <1>1, <1>3, <1>5, <2>1, TheKingMoved, SMTT(30) DEF Stepped
<1> QED BY <1>1, <1>9, <1>10, <1>11 DEF Checked
(* The board that the solver looks at, with the king on a square next to   *)
(* the one it stands on.                                                   *)
Chased(c, d, b1, b7, o, y, C, K, u) ==
  /\ b7 \in [Square -> Pieces] /\ b7[u] = Signed(d, king) /\ b7[K] = empty
  /\ b7[y] # empty /\ \A k \in Kinds : b7[y] # Signed(c, k)
  /\ \A s \in Square \ {y, K, u} : b7[s] = b1[s]
  /\ \A s \in Square \ {u} : b7[s] = Hunted(b1, d, y, K)[s]
  /\ StandsOn(o, b7, c, C, u)
LEMMA ChasedStands ==
  ASSUME NEW c \in Colour, NEW r, NEW b, NEW x, NEW y, NEW j, NEW C, NEW K, Arrives(c, r, b, x, y, j, C, K),
         NEW d, d = Flip(c), NEW b1, b1 = Emptied(b, x),
         NEW q, q = Occupying(d, ArrivedAt(c, r, y), K),
         NEW u \in abb_king_attacks[K], u # y
  PROVE  \E b7, o : /\ Chased(c, d, b1, b7, o, y, C, K, u)
                    /\ IsPosition(o) /\ Copies(o) /\ o.board = b7
                    /\ is_attacked_by(c, q, u) <=> Attacked(b7, c, u)
<1>1. PICK b2 : b2 = Moved(b, x, y, Signed(c, j))
  OBVIOUS
<1>2. Settled(c, d, b, b1, b2, x, y, j, C, K)
  BY <1>1, ArrivesApart
<1>3. /\ b1 \in [Square -> Pieces] /\ KingsOn(b1, c, C, K) /\ d \in Colour /\ d # c
      /\ b2 \in [Square -> Pieces] /\ j \in Kinds /\ b2[y] = Signed(c, j)
      /\ \A s \in Square : s # y => b2[s] = b1[s]
      /\ \A s \in Square : s # x => b1[s] = b[s]
      /\ y # C /\ K # C
  BY <1>2 DEF Settled
<1>4. /\ y \in Square /\ y # K /\ y # x /\ \A k \in Kinds : b[y] # Signed(c, k)
      /\ b \in [Square -> Pieces] /\ KingsOn(b, c, C, K) /\ ~Attacked(b, c, K)
  BY <1>1 DEF Arrives, Leaves
<1>5. /\ C \in Square /\ K \in Square /\ king \in Kinds /\ gold \in Kinds
      /\ \A s \in Square : (b1[s] = Signed(c, king) <=> s = C) /\ (b1[s] = Signed(d, king) <=> s = K)
  BY <1>3, KindsApart DEF KingsOn, Kinds, gold
<1>6. u \in Square /\ u # K /\ u # C
  <2>1. u \in Square /\ u # K
    BY <1>5, StepsAreMutual, NotOnItself
  <2> QED BY <1>4, <2>1, KingsApart
<1>7. PICK b6, b7 : b6 = Hunted(b1, d, y, K) /\ b7 = [s \in Square |-> IF s = u THEN Signed(d, king) ELSE b6[s]]
  OBVIOUS
<1>8. /\ \A s \in Square \ {y, K} : b6[s] = b1[s]
      /\ b6[K] = empty /\ b6[y] # empty /\ b6[y] \in Pieces
      /\ \A k \in Kinds : b6[y] # Signed(c, k)
      /\ b6[y] # Signed(d, king)
  <2>1. /\ \A k \in Kinds : Signed(d, gold) # Signed(c, k)
        /\ Signed(d, gold) # empty /\ Signed(d, gold) # Signed(d, king) /\ Signed(d, gold) \in Pieces
    BY <1>3, <1>5, KindsApart, SignedIsOne DEF Pieces, gold, king
  <2>2. b1[y] = b[y] /\ b1[y] # Signed(d, king) /\ b1[y] \in Pieces
    BY <1>3, <1>4, <1>5
  <2> QED BY <1>4, <1>5, <1>7, <2>1, <2>2 DEF Hunted, Marked
<1>9. Signed(d, king) \in Pieces /\ empty \in Pieces /\ Signed(d, king) # empty /\ Signed(c, king) # Signed(d, king)
      /\ empty # Signed(c, king)
  BY <1>3, <1>5, KindsApart, SignedIsOne DEF Pieces
<1>10. /\ b7 \in [Square -> Pieces] /\ b7[u] = Signed(d, king)
       /\ \A s \in Square \ {u} : b7[s] = b6[s]
  <2>1. \A s \in Square : b6[s] \in Pieces
    BY <1>3, <1>8, <1>9
  <2> QED BY <1>6, <1>7, <1>9, <2>1
<1>11. KingsOn(b7, c, C, u)
  <2>1. ASSUME NEW s \in Square PROVE (b7[s] = Signed(c, king) <=> s = C) /\ (b7[s] = Signed(d, king) <=> s = u)
    <3>1. CASE s = u
      BY <1>6, <1>9, <1>10, <3>1
    <3>2. CASE s # u /\ s = K
      BY <1>3, <1>5, <1>8, <1>9, <1>10, <3>2
    <3>3. CASE s # u /\ s = y
      BY <1>3, <1>5, <1>8, <1>10, <3>3
    <3>4. CASE s # u /\ s # K /\ s # y
      BY <1>5, <1>8, <1>10, <3>4
    <3> QED BY <3>1, <3>2, <3>3, <3>4
  <2> QED BY <1>5, <1>6, <2>1 DEF KingsOn
<1>12. PICK o : StandsOn(o, b7, c, C, u)
  BY <1>10, <1>11, BoardsStand
<1>13. IsPosition(o) /\ Copies(o) /\ o.board = b7
  BY <1>12 DEF StandsOn
<1>14. is_attacked_by(c, q, u) <=> Attacked(b7, c, u)
  <2>1. AsSeen(c, q, b6)
    BY <1>7, HuntedIsSeen
  <2> QED BY <1>6, <1>10, <1>13, <2>1, SeenAttacked
<1>15. Chased(c, d, b1, b7, o, y, C, K, u)
  <2>1. \A s \in Square \ {y, K, u} : b7[s] = b1[s]
    BY <1>8, <1>10
  <2>2. b7[y] = b6[y] /\ b7[K] = b6[K]
    BY <1>4, <1>5, <1>6, <1>10
  <2>3. \A s \in Square \ {u} : b7[s] = Hunted(b1, d, y, K)[s]
    BY <1>7, <1>10
  <2> QED BY <1>8, <1>10, <1>12, <2>1, <2>2, <2>3 DEF Chased
<1> QED BY <1>13, <1>14, <1>15

(* The squares next to the king, when the piece has come: where it is      *)
(* attacked, its side attacks when the king is lifted and y is filled, or  *)
(* the piece beats it past the king.                                       *)
LEMMA KingIsChased ==
  ASSUME NEW c \in Colour, NEW r, NEW b, NEW x, NEW y, NEW j, NEW C, NEW K, Arrives(c, r, b, x, y, j, C, K),
         NEW d, d = Flip(c), NEW b2, b2 = Moved(b, x, y, Signed(c, j)),
         NEW q, q = Occupying(d, ArrivedAt(c, r, y), K),
         NEW u \in abb_king_attacks[K], u # y, Attacked(Stepped(b2, d, K, u), c, u)
  PROVE  is_attacked_by(c, q, u) \/ Beats(c, Emptied(b, x), j, y, K, u)
<1>1. PICK b1 : b1 = Emptied(b, x)
  OBVIOUS
<1>2. Settled(c, d, b, b1, b2, x, y, j, C, K)
  BY <1>1, ArrivesApart
<1>3. /\ b1 \in [Square -> Pieces] /\ KingsOn(b1, c, C, K) /\ d \in Colour /\ d # c
      /\ b2 \in [Square -> Pieces] /\ j \in Kinds /\ b2[y] = Signed(c, j)
      /\ \A s \in Square : s # y => b2[s] = b1[s]
      /\ \A s \in Square : s # x => b1[s] = b[s]
      /\ y # C /\ K # C
  BY <1>2 DEF Settled
<1>4. /\ y \in Square /\ y # K /\ y # x /\ \A k \in Kinds : b[y] # Signed(c, k)
      /\ b \in [Square -> Pieces] /\ KingsOn(b, c, C, K) /\ ~Attacked(b, c, K)
  BY <1>1 DEF Arrives, Leaves
<1>5. /\ C \in Square /\ K \in Square /\ king \in Kinds /\ gold \in Kinds
      /\ \A s \in Square : (b1[s] = Signed(c, king) <=> s = C) /\ (b1[s] = Signed(d, king) <=> s = K)
  BY <1>3, KindsApart DEF KingsOn, Kinds, gold
<1>6. u \in Square /\ u # K /\ u # C
  <2>1. u \in Square /\ u # K
    BY <1>5, StepsAreMutual, NotOnItself
  <2> QED BY <1>4, <2>1, KingsApart
<1>7. PICK b7, o : /\ Chased(c, d, b1, b7, o, y, C, K, u)
                   /\ IsPosition(o) /\ Copies(o) /\ o.board = b7
                   /\ is_attacked_by(c, q, u) <=> Attacked(b7, c, u)
  BY <1>1, ChasedStands
<1>8. /\ b7 \in [Square -> Pieces] /\ b7[u] = Signed(d, king) /\ b7[K] = empty /\ b7[y] # empty
      /\ \A s \in Square \ {y, K, u} : b7[s] = b1[s]
  BY <1>7 DEF Chased
<1>9. PICK b4 : b4 = Stepped(b2, d, K, u)
  OBVIOUS
<1>10. Signed(d, king) \in Pieces /\ empty \in Pieces /\ \A k \in Kinds : Signed(c, k) # empty /\ Signed(c, k) # Signed(d, king)
  BY <1>3, <1>5, SignedIsOne DEF Pieces
<1>11. /\ b4[u] = Signed(d, king) /\ b4[K] = empty
       /\ \A s \in Square \ {u, K} : b4[s] = b2[s]
       /\ \A s \in Square : b4[s] \in Pieces
  BY <1>3, <1>5, <1>6, <1>9, <1>10 DEF Stepped, Moved
<1>12. PICK z \in Square, k \in Kinds : Strikes(b4, c, k, z, u)
  BY <1>9, <1>11, AttackedAre
<1>13. b4[z] = Signed(c, k) /\ Aims(c, k, z, u) /\ abb_obstacle[z][u] \cap Taken(b4) = {}
  BY <1>12 DEF Strikes
<1>14. z # u /\ z # K
  BY <1>10, <1>11, <1>13
<1>15. CASE z = y
  <2>1. k = j
    BY <1>3, <1>4, <1>11, <1>13, <1>14, <1>15, SignedIsOne
  <2>2. ASSUME NEW v \in abb_obstacle[y][u], v \in Taken(b1), v # K PROVE FALSE
    <3>1. v \in Square /\ v # y /\ v # u
      BY <1>4, <1>6, BetweenApart
    <3>2. b4[v] = b1[v]
      BY <1>3, <1>11, <2>2, <3>1
    <3> QED BY <1>13, <1>15, <2>2, <3>2 DEF Taken
  <2> QED BY <1>1, <1>13, <1>15, <2>1, <2>2 DEF Beats
<1>16. CASE z # y
  <2>1. b7[z] = b4[z]
    BY <1>3, <1>8, <1>11, <1>14, <1>16
  <2>2. \A s \in Square \ {u} : b7[s] # empty => b4[s] # empty
    BY <1>3, <1>4, <1>6, <1>8, <1>10, <1>11
  <2>3. Strikes(b7, c, k, z, u)
    BY <1>6, <1>12, <2>1, <2>2, StrikesAlike
  <2>4. Attacked(b7, c, u)
    BY <1>8, <2>3, AttackedAre
  <2> QED BY <1>7, <2>4
<1> QED BY <1>15, <1>16

(* Where the king could take the piece that has come, its side attacks the *)
(* square already: nothing is uncovered behind the king, which would have  *)
(* been in the way of the piece as well.                                   *)
LEMMA TakerIsAttacked ==
  ASSUME NEW c \in Colour, NEW r, NEW b, NEW x, NEW y, NEW j, NEW C, NEW K, Arrives(c, r, b, x, y, j, C, K),
         x \in Square => K \notin abb_obstacle[x][y],
         NEW d, d = Flip(c), NEW b2, b2 = Moved(b, x, y, Signed(c, j)), Attacked(Stepped(b2, d, K, y), c, y)
  PROVE  is_attacked_by(c, r, y)
<1>1. PICK b1 : b1 = Emptied(b, x)
  OBVIOUS
<1>2. Settled(c, d, b, b1, b2, x, y, j, C, K)
  BY <1>1, ArrivesApart
<1>3. /\ b1 \in [Square -> Pieces] /\ KingsOn(b1, c, C, K) /\ d \in Colour /\ d # c
      /\ b2 \in [Square -> Pieces] /\ j \in Kinds
      /\ \A s \in Square : s # y => b2[s] = b1[s]
      /\ \A s \in Square : s # x => b1[s] = b[s]
      /\ x \in Square => b1[x] = empty
      /\ x # K
  BY <1>2 DEF Settled
<1>4. /\ y \in Square /\ y # K /\ y # x /\ AsSeen(c, r, b1)
      /\ b \in [Square -> Pieces] /\ ~Attacked(b, c, K)
  BY <1>1 DEF Arrives, Leaves
<1>5. K \in Square /\ king \in Kinds
  BY <1>3, KindsApart DEF KingsOn
<1>6. PICK b4 : b4 = Stepped(b2, d, K, y)
  OBVIOUS
<1>7. Signed(d, king) \in Pieces /\ empty \in Pieces /\ \A k \in Kinds : Signed(c, k) # empty /\ Signed(c, k) # Signed(d, king)
  BY <1>3, <1>5, SignedIsOne DEF Pieces
<1>8. /\ b4[y] = Signed(d, king) /\ b4[K] = empty
      /\ \A s \in Square \ {y, K} : b4[s] = b1[s]
      /\ \A s \in Square : b4[s] \in Pieces
  BY <1>3, <1>4, <1>5, <1>6, <1>7 DEF Stepped, Moved
<1>9. PICK z \in Square, k \in Kinds : Strikes(b4, c, k, z, y)
  BY <1>6, <1>8, AttackedAre
<1>10. b4[z] = Signed(c, k) /\ Aims(c, k, z, y) /\ abb_obstacle[z][y] \cap Taken(b4) = {}
  BY <1>9 DEF Strikes
<1>11. z # y /\ z # K
  BY <1>7, <1>8, <1>10
<1>12. b1[z] = Signed(c, k) /\ b[z] = Signed(c, k)
  <2>1. b1[z] = Signed(c, k)
    BY <1>8, <1>10, <1>11
  <2> QED BY <1>3, <1>7, <2>1
<1>13. abb_obstacle[z][y] \cap Taken(b1) \subseteq {K}
  <2>1. ASSUME NEW v \in abb_obstacle[z][y], v \in Taken(b1), v # K PROVE FALSE
    <3>1. v \in Square /\ v # y
      BY <1>4, BetweenApart
    <3>2. b4[v] = b1[v]
      BY <1>8, <2>1, <3>1
    <3> QED BY <1>10, <2>1, <3>2 DEF Taken
  <2> QED BY <2>1
<1>14. CASE K \notin abb_obstacle[z][y]
  <2>1. Strikes(b1, c, k, z, y)
    BY <1>10, <1>12, <1>13, <1>14 DEF Strikes
  <2>2. Attacked(b1, c, y)
    BY <1>3, <2>1, AttackedAre
  <2>3. PICK q : StandsOn(q, b1, c, C, K)
    BY <1>3, BoardsStand
  <2>4. IsPosition(q) /\ Copies(q) /\ q.board = b1
    BY <2>3 DEF StandsOn
  <2> QED BY <1>4, <2>2, <2>4, SeenAttacked
<1>15. CASE K \in abb_obstacle[z][y]
  <2>1. Aims(c, k, z, K)
    BY <1>10, <1>15, AimFacts
  <2>2. abb_obstacle[z][K] \subseteq abb_obstacle[z][y] /\ K \notin abb_obstacle[z][K]
    <3>1. \A v \in abb_obstacle[z][K] : v \in Square /\ v # K
      BY <1>5, BetweenApart
    <3>2. \A v \in Square : v \in abb_obstacle[z][K] => v \in abb_obstacle[z][y]
      BY <1>4, <1>15, BetweenParted
    <3> QED BY <3>1, <3>2
  <2>3. ~Strikes(b, c, k, z, K)
    BY <1>4, AttackedAre
  <2>4. PICK v \in abb_obstacle[z][K] : v \in Taken(b)
    BY <1>12, <2>1, <2>3 DEF Strikes
  <2>5. v \notin Taken(b1)
    BY <1>13, <2>2
  <2>6. v = x /\ x \in Square
    BY <1>3, <2>4, <2>5 DEF Taken
  <2>7. x \in abb_obstacle[z][K] /\ x \in abb_obstacle[z][y]
    BY <2>2, <2>4, <2>6
  <2>8. K \notin abb_obstacle[z][x]
    BY <1>5, <2>6, <2>7, NotBothBetween
  <2>9. K \in abb_obstacle[z][x] \/ K = x \/ K \in abb_obstacle[x][y]
    BY <1>4, <1>5, <1>15, <2>7, BetweenParted
  <2> QED BY <1>3, <2>6, <2>8, <2>9
<1> QED BY <1>14, <1>15

(* What hits a square that is not its side's may move there, promoting     *)
(* where it has to.                                                        *)
LEMMA MayTake ==
  ASSUME NEW d \in Colour, NEW q, NEW k \in Kinds, NEW s \in Square, NEW t \in Square,
         q.board[s] = Signed(d, k), Hits(q.board, d, s, t), ~Mine(d, q.board[t])
  PROVE  \E f \in BOOLEAN : ByRules(d, q, k, s, t, f)
<1>1. CASE ~Stuck(d, k, t)
  BY <1>1 DEF ByRules
<1>2. CASE Stuck(d, k, t)
  <2>1. k \in {pawn, lance, knight}
    BY <1>2, WhereStuck
  <2>2. Row(d, t) \in 0..8 /\ Row(d, t) <= 2
    <3>1. Row(d, t) \in 0..8
      BY WhereStuck
    <3>2. k \in {pawn, lance} => ~(Row(d, t) >= 1)
      BY <1>2, WhereStuck
    <3>3. k = knight => Row(d, t) <= 1
      BY <1>2, WhereStuck
    <3> QED BY <2>1, <3>1, <3>2, <3>3
  <2>3. t \in Zone(d)
    BY <2>2, WhereStuck
  <2>4. k \in Promotable
    BY <2>1, KindsApart
  <2>5. ByRules(d, q, k, s, t, TRUE)
    BY <2>3, <2>4 DEF ByRules
  <2> QED BY <2>5
<1> QED BY <1>1, <1>2

(* What could take the piece that has come, if the solver finds it may     *)
(* leave its place, is not pinned when it has come.                        *)
LEMMA TakersAreFree ==
  ASSUME NEW c \in Colour, NEW r, NEW b, NEW x, NEW y, NEW j, NEW C, NEW K, Arrives(c, r, b, x, y, j, C, K),
         NEW d, d = Flip(c), NEW b2, b2 = Moved(b, x, y, Signed(c, j)), abb_obstacle[y][K] = {},
         NEW k \in Kinds \ {king}, NEW s \in Square, b2[s] = Signed(d, k), Hits(b2, d, s, y), ~IsDiscover(d, r, s, y)
  PROVE  ~Pinned(b2, c, s, K)
<1>1. PICK b1 : b1 = Emptied(b, x)
  OBVIOUS
<1>2. Settled(c, d, b, b1, b2, x, y, j, C, K)
  BY <1>1, ArrivesApart
<1>3. /\ b1 \in [Square -> Pieces] /\ KingsOn(b1, c, C, K) /\ d \in Colour /\ d # c /\ Flip(d) = c
      /\ b2 \in [Square -> Pieces] /\ j \in Kinds /\ b2[y] = Signed(c, j)
      /\ \A z \in Square : z # y => b2[z] = b1[z]
  BY <1>2 DEF Settled
<1>4. /\ y \in Square /\ y # K /\ AsSeen(c, r, b1) /\ r.sq_king[d] = K
  BY <1>1 DEF Arrives, Leaves
<1>5. K \in Square /\ king \in Kinds /\ b1[K] = Signed(d, king)
  BY <1>3, KindsApart DEF KingsOn
<1>6. /\ \A i \in Kinds, g \in Colour : Signed(g, i) # empty
      /\ \A i \in Kinds, l \in Kinds : Signed(c, i) # Signed(d, l)
      /\ Signed(d, king) # Signed(d, k)
  BY <1>3, <1>5, SignedIsOne
<1>7. s # y /\ s # K /\ b1[s] = Signed(d, k)
  <2>1. s # y
    BY <1>3, <1>6
  <2> QED BY <1>3, <1>5, <1>6, <2>1
<1>8. PICK o : StandsOn(o, b1, c, C, K)
  BY <1>3, BoardsStand
<1>9. IsPosition(o) /\ Copies(o) /\ o.board = b1 /\ o.sq_king[d] = K
  BY <1>3, <1>8 DEF StandsOn
<1>10. ~IsDiscover(d, o, s, y)
  <2>1. AsSeen(c, o, b1)
    BY <1>9, CopiesAreSeen
  <2> QED BY <1>3, <1>4, <1>9, <2>1, SeenAlike
<1>11. SUFFICES ASSUME NEW v \in Square, NEW i \in Kinds, Pins(b2, c, i, v, s, K) PROVE FALSE
  BY DEF Pinned
<1>12. b2[v] = Signed(c, i) /\ Aims(c, i, v, K) /\ abb_obstacle[v][K] \cap Taken(b2) = {s}
  BY <1>11 DEF Pins
<1>13. v # y /\ y \notin abb_obstacle[v][K]
  <2>1. v # y
    BY <1>12
  <2>2. y \in Taken(b2)
    BY <1>3, <1>4, <1>6 DEF Taken
  <2> QED BY <1>7, <1>12, <2>1, <2>2
<1>14. b1[v] = Signed(c, i) /\ abb_obstacle[v][K] \cap Taken(b1) = {s}
  <2>1. b1[v] = Signed(c, i)
    BY <1>3, <1>12, <1>13
  <2> QED BY <1>3, <1>12, <1>13, <2>1 DEF Taken
<1>15. Pins(b1, c, i, v, s, K)
  BY <1>12, <1>14 DEF Pins
<1>16. PICK e : e = adirec[K][s]
  OBVIOUS
<1>17. e # direc_misc /\ is_pinned_on(d, o, s, e)
  <2>1. K = o.sq_king[d] /\ K # s /\ o.board[s] # empty
    BY <1>3, <1>6, <1>7, <1>9
  <2>2. \E w \in Square, l \in Kinds : Pins(o.board, Flip(d), l, w, s, K)
    BY <1>3, <1>9, <1>15
  <2> QED BY <1>3, <1>5, <1>9, <1>16, <2>1, <2>2, PinnedIs
<1>18. e = adirec[K][y]
  BY <1>9, <1>10, <1>16, <1>17 DEF IsDiscover
<1>19. e \in 2..5 /\ Joined(e, K, s) /\ Joined(e, K, y)
  <2>1. e \in 2..5
    BY <1>5, <1>7, <1>16, <1>17, DirecIs
  <2>2. Joined(e, K, s)
    BY <1>5, <1>7, <1>16, <2>1, DirecIs
  <2>3. Joined(e, K, y)
    BY <1>4, <1>5, <1>18, <2>1, DirecIs
  <2> QED BY <2>1, <2>2, <2>3
<1>20. PICK T : T = Taken(b1)
  OBVIOUS
<1>21. K \in T /\ v \in T
  BY <1>3, <1>5, <1>6, <1>14, <1>20 DEF Taken
<1>22. abb_obstacle[s][y] \cap T = {}
  <2>1. abb_obstacle[s][y] \cap Taken(b2) = {}
    BY <1>3, HitsAre
  <2>2. \A w \in abb_obstacle[s][y] : w \in Square /\ w # y
    BY <1>4, BetweenApart
  <2> QED BY <1>3, <1>20, <2>1, <2>2 DEF Taken
<1>23. s \in abb_obstacle[v][K]
  BY <1>12
<1>24. y \in abb_obstacle[v][K]
  BY <1>4, <1>5, <1>7, <1>13, <1>19, <1>21, <1>22, <1>23, LineStaysShut, SMTT(30)
<1> QED BY <1>13, <1>24

(* Nothing can take what has come and mates alone, next to the king or as  *)
(* a knight.                                                               *)
LEMMA NothingTakes ==
  ASSUME NEW c \in Colour, NEW r, NEW b, NEW x, NEW y, NEW j, NEW C, NEW K, Arrives(c, r, b, x, y, j, C, K),
         NEW d, d = Flip(c), NEW b2, b2 = Moved(b, x, y, Signed(c, j)), abb_obstacle[y][K] = {},
         NEW h, Mated(b2, h, d), Giving(b2, c, K) = {y}
  PROVE  ~can_piece_capture(d, r, y)
<1>1. PICK b1 : b1 = Emptied(b, x)
  OBVIOUS
<1>2. Settled(c, d, b, b1, b2, x, y, j, C, K)
  BY <1>1, ArrivesApart
<1>3. /\ KingsOn(b2, c, C, K) /\ d \in Colour /\ d # c /\ Flip(d) = c
      /\ b2 \in [Square -> Pieces] /\ j \in Kinds /\ b2[y] = Signed(c, j)
      /\ \A s \in Square : s # y => b2[s] = b1[s]
      /\ \A s \in Square : s # x => b1[s] = b[s]
  BY <1>2 DEF Settled
<1>4. /\ y \in Square /\ y # K /\ AsSeen(d, r, b1) /\ r.board = b /\ r.sq_king[d] = K
      /\ x \in Square => \E k \in Kinds \ {king} : b[x] = Signed(c, k)
  BY <1>1 DEF Arrives, Leaves
<1>5. K \in Square /\ king \in Kinds /\ pawn \in Kinds \ {king} /\ b2[K] = Signed(d, king)
  BY <1>3, KindsApart, KindsAreNumbers DEF KingsOn
<1>6. PICK q : StandsOn(q, b2, c, C, K)
  BY <1>3, BoardsStand
<1>7. IsPosition(q) /\ Copies(q) /\ q.board = b2 /\ q.sq_king[d] = K
  BY <1>3, <1>6 DEF StandsOn
<1>8. SUFFICES ASSUME can_piece_capture(d, r, y) PROVE FALSE
  OBVIOUS
<1>9. PICK s : /\ s \in {z \in Square : z = y - Ahead(d) /\ r.board[z] = Signed(d, pawn)} \cup Strikers(d, r, y)
               /\ s # K /\ ~IsDiscover(d, r, s, y)
  BY <1>4, <1>8 DEF can_piece_capture
<1>10. \E k \in Kinds \ {king} : s \in Square /\ b2[s] = Signed(d, k) /\ Hits(b2, d, s, y)
  <2>1. CASE s \in Square /\ s = y - Ahead(d) /\ r.board[s] = Signed(d, pawn)
    <3>1. Ahead(d) \in Int /\ Ahead(d) # 0
      BY <1>3 DEF Ahead
    <3>2. y = s + Ahead(d) /\ s # y
      BY <1>4, <2>1, <3>1 DEF Square
    <3>3. s # x
      BY <1>3, <1>4, <1>5, <2>1, SignedIsOne
    <3>4. b2[s] = Signed(d, pawn)
      BY <1>3, <1>4, <2>1, <3>2, <3>3
    <3>5. Hits(q.board, d, s, y)
      <4>1. q.board[s] = Signed(d, pawn) /\ s \in Square /\ y \in Square /\ d \in Colour
        BY <1>3, <1>4, <1>7, <2>1, <3>4
      <4> QED BY <3>2, <4>1, PawnsHit
    <3> QED BY <1>5, <1>7, <2>1, <3>4, <3>5
  <2>2. CASE s \in Strikers(d, r, y)
    <3>1. Strikers(d, r, y) = Strikers(d, q, y)
      <4>1. \A z \in Square \ {y} : b1[z] = q.board[z]
        BY <1>3, <1>7
      <4> QED BY <1>3, <1>4, <1>7, <4>1, SeenAttacked
    <3>2. s \in Square /\ \E k \in Kinds \ {pawn} : q.board[s] = Signed(d, k) /\ Hits(q.board, d, s, y)
      BY <1>3, <1>4, <1>7, <2>2, <3>1, StrikersAre
    <3>3. PICK k \in Kinds \ {pawn} : b2[s] = Signed(d, k) /\ Hits(b2, d, s, y)
      BY <1>7, <3>2
    <3>4. k # king
      BY <1>3, <1>9, <3>2, <3>3 DEF KingsOn
    <3> QED BY <3>2, <3>3, <3>4
  <2> QED BY <1>9, <2>1, <2>2
<1>11. PICK k \in Kinds \ {king} : s \in Square /\ b2[s] = Signed(d, k) /\ Hits(b2, d, s, y)
  BY <1>10
<1>12. ~Pinned(b2, c, s, K)
  BY <1>9, <1>11, TakersAreFree, SMTT(30)
<1>13. Free(d, q, s)
  <2>1. q.board[s] # empty
    BY <1>3, <1>7, <1>11, SignedIsOne
  <2> QED BY <1>3, <1>7, <1>9, <1>11, <1>12, <2>1, FreeIs
<1>14. PICK f \in BOOLEAN : ByRules(d, q, k, s, y, f)
  <2>1. ~Mine(d, q.board[y])
    BY <1>3, <1>7, AbsOfSigned
  <2> QED BY <1>3, <1>4, <1>7, <1>11, <2>1, MayTake
<1>15. PICK m : m = Board(q, k, f, s, y)
  OBVIOUS
<1>16. Safe(b2, d, m)
  <2>1. Giving(q.board, Flip(d), K) = {y} /\ y \in UpTo(K, y)
    BY <1>3, <1>7 DEF UpTo
  <2> QED BY <1>3, <1>4, <1>7, <1>11, <1>13, <1>14, <1>15, <2>1, AnswersToOne, SMTT(30)
<1>17. m \in BoardMoves(q.board, d)
  <2>1. \E i \in Kinds, z \in Square, t \in Square, g \in BOOLEAN : ByRules(d, q, i, z, t, g) /\ m = Board(q, i, g, z, t)
    BY <1>4, <1>11, <1>14, <1>15
  <2> QED BY <1>3, <1>7, <2>1, BoardMovesAre
<1> QED BY <1>7, <1>16, <1>17 DEF Mated

(* What the solver must not let the king go to: the squares that the piece *)
(* beats.                                                                  *)
Catches(c, b1, j, y, K, R) == \A u \in abb_king_attacks[K] \ {y} : Beats(c, b1, j, y, K, u) => u \in R
(* can_w_king_escape and can_b_king_escape (mate1ply.c) see that a mated   *)
(* king has nowhere to go.                                                 *)
LEMMA KingIsCaught ==
  ASSUME NEW c \in Colour, NEW r, NEW b, NEW x, NEW y, NEW j, NEW C, NEW K, Arrives(c, r, b, x, y, j, C, K),
         NEW d, d = Flip(c), NEW b2, b2 = Moved(b, x, y, Signed(c, j)), NEW h, Mated(b2, h, d),
         NEW R, Catches(c, Emptied(b, x), j, y, K, R)
  PROVE  ~can_king_escape(d, r, y, R)
<1>1. PICK b1 : b1 = Emptied(b, x)
  OBVIOUS
<1>2. Settled(c, d, b, b1, b2, x, y, j, C, K)
  BY <1>1, ArrivesApart
<1>3. /\ KingsOn(b2, c, C, K) /\ d \in Colour /\ d # c /\ Flip(d) = c
      /\ b2 \in [Square -> Pieces] /\ j \in Kinds
      /\ \A s \in Square : s # y => b2[s] = b1[s]
      /\ \A s \in Square : s # x => b1[s] = b[s]
      /\ x \in Square => b1[x] = empty
  BY <1>2 DEF Settled
<1>4. r.sq_king[d] = K /\ K \in Square
  BY <1>3 DEF Arrives, Leaves, KingsOn
<1>5. PICK q : StandsOn(q, b2, c, C, K)
  BY <1>3, BoardsStand
<1>6. SUFFICES ASSUME can_king_escape(d, r, y, R) PROVE FALSE
  OBVIOUS
<1>7. PICK g : g = Occupying(d, ArrivedAt(c, r, y), K)
  OBVIOUS
<1>8. PICK u : u \in abb_king_attacks[K] /\ u # y /\ u \notin R /\ u \notin g.occ[d] /\ ~is_attacked_by(c, g, u)
  BY <1>3, <1>4, <1>6, <1>7 DEF can_king_escape, FreeSquare
<1>9. u \in Square /\ u # K
  BY <1>4, <1>8, StepsAreMutual, NotOnItself
<1>10. \A k \in Kinds : b2[u] # Signed(d, k)
  <2>1. g.occ[d] = OnBoard(b, d, Kinds) \ {K}
    BY <1>7, HuntedIsSeen
  <2>2. \A k \in Kinds : b[u] # Signed(d, k)
    BY <1>8, <1>9, <2>1 DEF OnBoard
  <2>3. b2[u] = b1[u]
    BY <1>3, <1>8, <1>9
  <2>4. CASE u = x
    BY <1>3, <1>9, <2>3, <2>4, SignedIsOne
  <2>5. CASE u # x
    BY <1>3, <1>9, <2>2, <2>3, <2>5
  <2> QED BY <2>4, <2>5
<1>11. Attacked(Stepped(b2, d, K, u), c, u)
  BY <1>5, <1>8, <1>10, MatedKing
<1>12. Beats(c, Emptied(b, x), j, y, K, u)
  BY <1>7, <1>8, <1>11, KingIsChased
<1> QED BY <1>8, <1>12 DEF Catches

(* What the solver asks of a piece that has come and mates.                *)
Seemly(c, r, y, K, R) == ~can_king_escape(Flip(c), r, y, R) /\ (y \in abb_king_attacks[K] => is_attacked_by(c, r, y))
LEMMA MateIsSolved ==
  ASSUME NEW c \in Colour, NEW r, NEW b, NEW x, NEW y, NEW j, NEW C, NEW K, Arrives(c, r, b, x, y, j, C, K),
         x \in Square => K \notin abb_obstacle[x][y], Aims(c, j, y, K), abb_obstacle[y][K] = {},
         NEW d, d = Flip(c), NEW b2, b2 = Moved(b, x, y, Signed(c, j)), NEW h, Mated(b2, h, d),
         NEW R, Catches(c, Emptied(b, x), j, y, K, R)
  PROVE  /\ Seemly(c, r, y, K, R)
         /\ ~can_piece_capture(d, r, y) \/ \E z \in Giving(b2, c, K) : z # y
<1>1. PICK b1 : b1 = Emptied(b, x)
  OBVIOUS
<1>2. Settled(c, d, b, b1, b2, x, y, j, C, K)
  BY <1>1, ArrivesApart
<1>3. /\ KingsOn(b2, c, C, K) /\ d \in Colour /\ d # c /\ Flip(d) = c
      /\ b2 \in [Square -> Pieces] /\ j \in Kinds /\ b2[y] = Signed(c, j)
  BY <1>2 DEF Settled
<1>4. y \in Square
  BY DEF Arrives
<1>5. ASSUME y \in abb_king_attacks[K] PROVE is_attacked_by(c, r, y)
  <2>1. PICK q : StandsOn(q, b2, c, C, K)
    BY <1>3, BoardsStand
  <2>2. \A k \in Kinds : b2[y] # Signed(d, k)
    BY <1>3, SignedIsOne
  <2>3. Attacked(Stepped(b2, d, K, y), c, y)
    BY <1>5, <2>1, <2>2, MatedKing
  <2> QED BY <2>3, TakerIsAttacked
<1>6. ~can_king_escape(d, r, y, R)
  BY KingIsCaught
<1>7. y \in Giving(b2, c, K)
  <2>1. Strikes(b2, c, j, y, K)
    BY <1>3 DEF Strikes
  <2> QED BY <1>3, <1>4, <2>1 DEF Giving
<1>8. ASSUME ~\E z \in Giving(b2, c, K) : z # y PROVE ~can_piece_capture(d, r, y)
  <2>1. Giving(b2, c, K) = {y}
    BY <1>7, <1>8
  <2> QED BY <2>1, NothingTakes
<1> QED BY <1>5, <1>6, <1>8 DEF Seemly

(* IsDiscoverBK and IsDiscoverWK hold back, of a side that is not in       *)
(* check, no step that leaves its king safe.                               *)
LEMMA DiscoveredIsUnsafe ==
  ASSUME NEW p, IsPosition(p), Copies(p), NEW c \in Colour, NEW k \in Kinds, k # king, NEW x \in Square, NEW y \in Square,
         NEW f \in BOOLEAN, ByRules(c, p, k, x, y, f), IsDiscover(c, p, x, y), NEW m, m = Board(p, k, f, x, y)
  PROVE  ~Safe(p.board, c, m)
<1>1. PICK d \in Colour : d = Flip(c) /\ d # c /\ Flip(d) = c
  BY Flips
<1>2. PICK K \in Square : K = p.sq_king[c]
  BY DEF IsPosition
<1>3. /\ Safe(p.board, c, m) <=> ~Opens(p.board, d, x, y, K)
      /\ x # K /\ p.board[x] # empty
  BY <1>1, <1>2, StepIsSafe
<1>4. PICK e : e = adirec[K][x]
  OBVIOUS
<1>5. e # direc_misc /\ e # adirec[K][y] /\ is_pinned_on(c, p, x, e)
  BY <1>2, <1>4 DEF IsDiscover
<1>6. PICK z \in Square, i \in Kinds : Pins(p.board, d, i, z, x, K)
  <2>1. \E z \in Square, i \in Kinds : Pins(p.board, Flip(c), i, z, x, K)
    BY <1>2, <1>3, <1>4, <1>5, PinnedIs
  <2> QED BY <1>1, <2>1
<1>7. p.board[z] = Signed(d, i) /\ Aims(d, i, z, K) /\ abb_obstacle[z][K] \cap Taken(p.board) = {x}
  BY <1>6 DEF Pins
<1>8. x \in abb_obstacle[z][K] /\ z # K
  BY <1>7, AimFacts
<1>9. PICK g \in 2..5 : Joined(g, z, x) /\ Joined(g, x, K)
  BY <1>2, <1>8, BetweenIs
<1>10. Joined(g, z, K) /\ Joined(g, K, x) /\ Joined(g, K, z)
  BY <1>9 DEF Joined
<1>11. e = g
  BY <1>2, <1>3, <1>4, <1>10, DirecIs
<1>12. z # y
  <2>1. adirec[K][z] = g
    BY <1>2, <1>8, <1>10, DirecIs
  <2> QED BY <1>5, <1>11, <2>1
<1>13. y \notin abb_obstacle[z][K]
  <2> SUFFICES ASSUME y \in abb_obstacle[z][K] PROVE FALSE
    OBVIOUS
  <2>1. PICK l \in 2..5 : Joined(l, z, y) /\ Joined(l, y, K)
    BY <1>2, BetweenIs
  <2>2. Joined(l, z, K) /\ Joined(l, K, y)
    BY <2>1 DEF Joined
  <2>3. l = g
    BY <1>2, <1>8, <1>10, <2>2, OneLineOnly
  <2>4. y # K
    BY <1>2, BetweenApart
  <2>5. adirec[K][y] = g
    BY <1>2, <2>2, <2>3, <2>4, DirecIs
  <2> QED BY <1>5, <1>11, <2>5
<1>14. Opens(p.board, d, x, y, K)
  <2>1. Remains(p.board, d, i, z, x, y, K)
    BY <1>7, <1>12, <1>13 DEF Remains
  <2> QED BY <2>1 DEF Opens
<1> QED BY <1>3, <1>14

(* A piece that gives check with the one that has moved was uncovered.     *)
LEMMA GiverIsUncovered ==
  ASSUME NEW b, IsBoard(b), NEW c \in Colour, NEW K \in Square, NEW x \in Square, NEW y \in Square, x # y,
         NEW j \in Kinds, NEW b2, b2 = Moved(b, x, y, Signed(c, j)), NEW z \in Giving(b2, c, K), z # y
  PROVE  Opens(b, c, x, y, K)
<1>1. Signed(c, j) \in Pieces /\ \A k \in Kinds : Signed(c, k) # empty
  BY SignedIsOne DEF Pieces
<1>2. /\ \A u \in Square \ {x, y} : b2[u] = b[u]
      /\ b2[y] = Signed(c, j) /\ b2[x] = empty
  BY <1>1 DEF Moved
<1>3. PICK i \in Kinds : z \in Square /\ b2[z] = Signed(c, i) /\ Aims(c, i, z, K)
                        /\ abb_obstacle[z][K] \cap Taken(b2) = {}
  BY DEF Giving, Strikes
<1>4. abb_obstacle[z][K] \cap Taken(b2) = {} /\ abb_obstacle[z][K] \subseteq Square
  BY <1>3, EitherEnd
<1>5. z # x /\ b[z] = Signed(c, i)
  <2>1. z # x
    BY <1>1, <1>2, <1>3
  <2> QED BY <1>2, <1>3, <2>1
<1>6. y \notin abb_obstacle[z][K]
  <2>1. y \in Taken(b2)
    BY <1>1, <1>2 DEF Taken
  <2> QED BY <1>4, <2>1
<1>7. abb_obstacle[z][K] \cap Taken(b) \subseteq {x}
  BY <1>2, <1>4, <1>6 DEF Taken
<1>8. Remains(b, c, i, z, x, y, K)
  BY <1>3, <1>5, <1>6, <1>7 DEF Remains
<1> QED BY <1>3, <1>8 DEF Opens

(* A step that mates passes what the solver asks of it.                    *)
LEMMA MatingStepPasses ==
  ASSUME NEW p, NEW c, Ready(c, p), NEW k \in Kinds \ {king}, NEW s \in Square, NEW t \in Square,
         NEW f \in BOOLEAN, ByRules(c, p, k, s, t, f),
         NEW r, r = Lifted(c, p, s), NEW j, j = Becoming(k, f), NEW K, K = p.sq_king[Flip(c)],
         Aims(c, j, t, K), abb_obstacle[t][K] = {},
         NEW R, Catches(c, Emptied(p.board, s), j, t, K, R),
         NEW m, m = Board(p, k, f, s, t), LegalMate(c, p, m)
  PROVE  MoveMates(c, r, s, t, R) /\ (t \in abb_king_attacks[K] => is_attacked_by(c, r, t))
<1>1. /\ IsPosition(p) /\ Copies(p) /\ Alive(p) /\ c \in Colour /\ KingIsSafe(c, p) /\ ~InCheck(c, p)
  BY DEF Ready
<1>2. PICK d \in Colour : d = Flip(c) /\ d # c /\ Flip(d) = c
  BY <1>1, Flips
<1>3. PICK b : b = p.board
  OBVIOUS
<1>4. PICK C : C = p.sq_king[c]
  OBVIOUS
<1>5. Comes(m) = j
  BY <1>1, StepGives
<1>6. /\ K \in Square /\ ~Attacked(b, c, K)
      /\ b[s] = Signed(c, k) /\ s # t /\ s # K /\ t # K
      /\ \A i \in Kinds : b[t] # Signed(c, i)
      /\ j \in Kinds /\ BecomesOf(k, j)
      /\ After(b, c, m) = Moved(b, s, t, Signed(c, j))
  BY <1>1, <1>3, <1>5, StepOnBoard
<1>7. j # king
  <2>1. k + promote # king
    BY DEF Kinds, king, promote
  <2> QED BY <1>6, <2>1 DEF BecomesOf
<1>8. IsBoard(b) /\ Hits(b, c, s, t)
  BY <1>1, <1>3 DEF IsPosition, IsBoard, ByRules
<1>9. Leaves(c, r, b, s, C, K)
  BY <1>1, <1>3, <1>4, <1>6, LiftedLeaves
<1>10. Arrives(c, r, b, s, t, j, C, K)
  BY <1>6, <1>7, <1>9 DEF Arrives
<1>11. PICK b1 : b1 = Emptied(b, s)
  OBVIOUS
<1>12. /\ AsSeen(c, r, b1) /\ AsSeen(d, r, b1) /\ r.sq_king[c] = C /\ r.sq_king[d] = K
  BY <1>2, <1>9, <1>11 DEF Leaves
<1>13. AsSeen(c, p, b) /\ AsSeen(d, p, b)
  BY <1>1, <1>2, <1>3, CopiesAreSeen
<1>14. \A u \in Square \ {s} : b1[u] = b[u]
  BY <1>11 DEF Emptied
<1>15. IsDiscover(d, r, s, t) <=> IsDiscover(d, p, s, t)
  <2>1. r.sq_king[Flip(c)] = p.sq_king[Flip(c)]
    BY <1>2, <1>12
  <2> QED BY <1>1, <1>2, <1>12, <1>13, <1>14, <2>1, SeenAlike
<1>16. IsDiscover(c, r, s, t) <=> IsDiscover(c, p, s, t)
  <2>1. r.sq_king[Flip(d)] = p.sq_king[Flip(d)]
    BY <1>2, <1>4, <1>12
  <2> QED BY <1>2, <1>12, <1>13, <1>14, <2>1, SeenAlike
<1>17. PICK b2, h : b2 = Moved(b, s, t, Signed(c, j)) /\ h = HandAfter(p.hand, c, m)
  OBVIOUS
<1>18. Mated(b2, h, d)
  BY <1>2, <1>3, <1>6, <1>17 DEF LegalMate, GivesMate
<1>19. K \notin abb_obstacle[s][t]
  <2>1. abb_obstacle[s][t] \cap Taken(b) = {}
    BY <1>1, <1>6, <1>8, HitsAre
  <2>2. K \in Taken(b)
    <3>1. b[K] = Signed(d, king) /\ king \in Kinds
      BY <1>1, <1>2, <1>3, PieceOf, KindsApart
    <3> QED BY <1>2, <1>6, <3>1, SignedIsOne DEF Taken
  <2> QED BY <2>1, <2>2
<1>20. /\ Seemly(c, r, t, K, R)
       /\ ~can_piece_capture(d, r, t) \/ \E z \in Giving(b2, c, K) : z # t
  BY <1>1, <1>2, <1>3, <1>10, <1>17, <1>18, <1>19, MateIsSolved, SMTT(30)
<1>21. ~IsDiscover(c, r, s, t)
  <2>1. Safe(p.board, c, m)
    BY DEF LegalMate, Legal
  <2> QED BY <1>1, <1>16, <2>1, DiscoveredIsUnsafe
<1>22. ASSUME can_piece_capture(d, r, t) PROVE IsDiscover(d, r, s, t)
  <2>1. PICK z : z \in Giving(b2, c, K) /\ z # t
    BY <1>20, <1>22
  <2>2. Opens(b, c, s, t, K)
    BY <1>1, <1>6, <1>8, <1>17, <2>1, GiverIsUncovered
  <2>3. IsDiscover(d, p, s, t)
    <3>1. K = p.sq_king[d]
      BY <1>2
    <3> QED BY <1>1, <1>2, <1>3, <1>6, <1>8, <2>2, <3>1, DiscoverIs
  <2> QED BY <1>15, <2>3
<1> QED BY <1>2, <1>20, <1>21, <1>22 DEF Seemly, MoveMates

(* So does a drop.                                                         *)
LEMMA MatingDropPasses ==
  ASSUME NEW p, NEW c, Ready(c, p), NEW k \in Hands \ {pawn}, NEW t \in Square, DropByRules(c, p, k, t),
         NEW K, K = p.sq_king[Flip(c)], Aims(c, k, t, K), abb_obstacle[t][K] = {},
         NEW R, Catches(c, p.board, k, t, K, R),
         NEW m, m = DropMove(k, t), LegalMate(c, p, m)
  PROVE  DropMates(c, p, t, R) /\ (t \in abb_king_attacks[K] => is_attacked_by(c, p, t))
<1>1. /\ IsPosition(p) /\ Copies(p) /\ Alive(p) /\ c \in Colour /\ KingIsSafe(c, p) /\ ~InCheck(c, p)
  BY DEF Ready
<1>2. PICK d \in Colour : d = Flip(c) /\ d # c /\ Flip(d) = c
  BY <1>1, Flips
<1>3. PICK b : b = p.board
  OBVIOUS
<1>4. PICK C \in Square : C = p.sq_king[c]
  BY <1>1 DEF IsPosition
<1>5. PICK x : x = Drop2From(k)
  OBVIOUS
<1>6. t # C /\ p.board[t] = empty /\ x \notin Square
  BY <1>1, <1>2, <1>4, <1>5, DropIsSafe
<1>7. K \in Square /\ p.board[K] = Signed(d, king)
  BY <1>1, <1>2, PieceOf
<1>8. k \in Kinds \ {king} /\ king \in Kinds
  BY KindsAreNumbers
<1>9. t # K
  BY <1>2, <1>6, <1>7, <1>8, SignedIsOne
<1>10. \A i \in Kinds : b[t] # Signed(c, i)
  BY <1>1, <1>3, <1>6, SignedIsOne
<1>11. Leaves(c, p, b, x, C, K) /\ Emptied(b, x) = b
  BY <1>1, <1>3, <1>4, <1>6, NothingLeaves
<1>12. Arrives(c, p, b, x, t, k, C, K)
  BY <1>6, <1>8, <1>9, <1>10, <1>11 DEF Arrives
<1>13. m.from = x /\ m.to = t
  BY <1>5 DEF DropMove, Move
<1>14. After(b, c, m) = Moved(b, x, t, Signed(c, k))
  <2>1. m.from > 80 /\ m.from - 80 = k
    BY <1>5, <1>13 DEF Drop2From, Hands, nsquare, pawn, rook
  <2> QED BY <1>13, <2>1 DEF After, Moved, Signed
<1>15. PICK b2, h : b2 = Moved(b, x, t, Signed(c, k)) /\ h = HandAfter(p.hand, c, m)
  OBVIOUS
<1>16. Mated(b2, h, d)
  BY <1>2, <1>3, <1>14, <1>15 DEF LegalMate, GivesMate
<1>17. /\ Seemly(c, p, t, K, R)
       /\ ~can_piece_capture(d, p, t) \/ \E z \in Giving(b2, c, K) : z # t
  BY <1>1, <1>2, <1>3, <1>6, <1>11, <1>12, <1>15, <1>16, MateIsSolved, SMTT(30)
<1>18. ASSUME NEW z \in Giving(b2, c, K), z # t PROVE FALSE
  <2>1. PICK i \in Kinds : z \in Square /\ Strikes(b2, c, i, z, K)
    BY <1>18 DEF Giving
  <2>2. /\ b2[z] = Signed(c, i) /\ Aims(c, i, z, K)
        /\ abb_obstacle[z][K] \cap Taken(b2) = {} /\ abb_obstacle[z][K] \subseteq Square
    BY <1>7, <2>1, EitherEnd DEF Strikes
  <2>3. \A u \in Square \ {t} : b2[u] = b[u]
    BY <1>6, <1>15 DEF Moved
  <2>4. Strikes(b, c, i, z, K)
    <3>1. b[z] = Signed(c, i)
      BY <1>18, <2>1, <2>2, <2>3
    <3>2. abb_obstacle[z][K] \cap Taken(b) = {}
      BY <1>3, <1>6, <2>2, <2>3 DEF Taken
    <3> QED BY <2>2, <3>1, <3>2 DEF Strikes
  <2>5. \A s \in Square : b[s] \in Pieces
    BY <1>1, <1>3 DEF IsPosition
  <2>6. Attacked(b, c, K)
    BY <1>1, <2>1, <2>4, <2>5, AttackedAre
  <2>7. ~Attacked(b, c, K)
    BY <1>1, <1>11 DEF Leaves
  <2> QED BY <2>6, <2>7
<1> QED BY <1>2, <1>17, <1>18 DEF Seemly, DropMates

(* Where a square lies from another: ranks as the side c counts them, and  *)
(* files.                                                                  *)
Away(c, s, t, i, j) ==
  /\ i = Row(c, t) - Row(c, s) /\ j = aifile(t) - aifile(s)
  /\ Row(c, s) \in 0..8 /\ Row(c, t) \in 0..8 /\ aifile(s) \in 0..8 /\ aifile(t) \in 0..8
(* A step leads by the difference of ranks and files.                      *)
LEMMA StepDifference ==
  ASSUME NEW s \in Square, NEW t \in Square, NEW steps \in SUBSET (Int \X Int)
  PROVE  t \in set_attacks(s, steps) <=> <<t \div 9 - s \div 9, (t % 9) - (s % 9)>> \in steps
<1>1. /\ s \div 9 \in 0..8 /\ s % 9 \in 0..8 /\ t \div 9 \in 0..8 /\ t % 9 \in 0..8
      /\ s = 9 * (s \div 9) + (s % 9) /\ t = 9 * (t \div 9) + (t % 9)
  BY DEF Square
<1>2. PICK a, b : a = t \div 9 - s \div 9 /\ b = (t % 9) - (s % 9)
  OBVIOUS
<1>3. ASSUME t \in set_attacks(s, steps) PROVE <<a, b>> \in steps
  <2>1. PICK d \in steps : t \div 9 = (s \div 9) + d[1] /\ t % 9 = (s % 9) + d[2]
    BY <1>3, StepsLeadTo
  <2>2. d = <<d[1], d[2]>> /\ d[1] \in Int /\ d[2] \in Int
    OBVIOUS
  <2>3. d[1] = a /\ d[2] = b
    BY <1>1, <1>2, <2>1, <2>2
  <2> QED BY <2>1, <2>2, <2>3
<1>4. ASSUME <<a, b>> \in steps PROVE t \in set_attacks(s, steps)
  <2>1. OnTheBoard(airank(s) + a, aifile(s) + b)
    BY <1>1, <1>2 DEF OnTheBoard, airank, aifile
  <2>2. t = s + 9 * a + b
    <3>1. PICK rs, fs, rt, ft : rs = s \div 9 /\ fs = s % 9 /\ rt = t \div 9 /\ ft = t % 9
      OBVIOUS
    <3>2. s = 9 * rs + fs /\ t = 9 * rt + ft /\ a = rt - rs /\ b = ft - fs
      BY <1>1, <1>2, <3>1
    <3>3. rs \in 0..8 /\ fs \in 0..8 /\ rt \in 0..8 /\ ft \in 0..8
      BY <1>1, <3>1
    <3> QED BY <3>2, <3>3
  <2>3. PICK d \in steps : d = <<a, b>>
    BY <1>4
  <2>4. d[1] = a /\ d[2] = b
    BY <2>3
  <2> QED BY <2>1, <2>2, <2>4 DEF set_attacks
<1> QED BY <1>2, <1>3, <1>4
(* Steps of white are those of black turned round.                         *)
LEMMA TurnedBy ==
  ASSUME NEW c \in Colour, NEW steps \in SUBSET (Int \X Int), NEW a \in Int, NEW b \in Int
  PROVE  /\ Turned(c, steps) \in SUBSET (Int \X Int)
         /\ <<a, b>> \in Turned(c, steps) <=> IF c = black THEN <<a, b>> \in steps ELSE <<-a, -b>> \in steps
<1>1. CASE c = black
  BY <1>1 DEF Turned
<1>2. CASE c # black
  <2>1. Turned(c, steps) = {<<-d[1], -d[2]>> : d \in steps}
    BY <1>2 DEF Turned
  <2>2. \A d \in steps : d = <<d[1], d[2]>> /\ d[1] \in Int /\ d[2] \in Int
    OBVIOUS
  <2>3. Turned(c, steps) \in SUBSET (Int \X Int)
    BY <2>1, <2>2
  <2>4. ASSUME <<a, b>> \in Turned(c, steps) PROVE <<-a, -b>> \in steps
    <3>1. PICK d \in steps : <<a, b>> = <<-d[1], -d[2]>>
      BY <2>1, <2>4
    <3>2. d[1] = -a /\ d[2] = -b
      BY <2>2, <3>1
    <3> QED BY <2>2, <3>1, <3>2
  <2>5. ASSUME <<-a, -b>> \in steps PROVE <<a, b>> \in Turned(c, steps)
    <3>1. PICK d \in steps : d = <<-a, -b>>
      BY <2>5
    <3>2. -d[1] = a /\ -d[2] = b
      BY <3>1
    <3> QED BY <2>1, <3>1, <3>2
  <2> QED BY <1>2, <2>3, <2>4, <2>5
<1> QED BY <1>1, <1>2
(* The squares that steps reach, by rank and file.                         *)
LEMMA StepShapes ==
  ASSUME NEW c \in Colour, NEW s \in Square, NEW t \in Square, NEW i, NEW j, Away(c, s, t, i, j)
  PROVE  /\ i \in -8..8 /\ j \in -8..8
         /\ t \in Gold(c, s) <=> (i = -1 /\ j \in -1..1) \/ (i = 0 /\ j \in {-1, 1}) \/ (i = 1 /\ j = 0)
         /\ t \in Silver(c, s) <=> (i = -1 /\ j \in -1..1) \/ (i = 1 /\ j \in {-1, 1})
         /\ t \in Knight(c, s) <=> i = -2 /\ j \in {-1, 1}
         /\ t \in abb_king_attacks[s] <=> NextTo(i, j)
         /\ t = s + Ahead(c) <=> i = -1 /\ j = 0
         /\ t = s <=> i = 0 /\ j = 0
<1>1. PICK a, b : a = t \div 9 - s \div 9 /\ b = (t % 9) - (s % 9)
  OBVIOUS
<1>2. /\ s \div 9 \in 0..8 /\ s % 9 \in 0..8 /\ t \div 9 \in 0..8 /\ t % 9 \in 0..8
      /\ s = 9 * (s \div 9) + (s % 9) /\ t = 9 * (t \div 9) + (t % 9)
  BY DEF Square
<1>3. /\ i \in -8..8 /\ j \in -8..8 /\ a \in -8..8 /\ b \in -8..8 /\ j = b
      /\ c = black => i = a
      /\ c # black => i = -a
  <2>1. PICK rs, fs, rt, ft : rs = s \div 9 /\ fs = s % 9 /\ rt = t \div 9 /\ ft = t % 9
    OBVIOUS
  <2>2. a = rt - rs /\ b = ft - fs
    BY <1>1, <2>1
  <2>3. j = ft - fs
    BY <2>1 DEF Away, aifile
  <2>4. i = (IF c = black THEN rt ELSE 8 - rt) - (IF c = black THEN rs ELSE 8 - rs)
    BY <2>1 DEF Away, Row, airank
  <2>5. rs \in 0..8 /\ fs \in 0..8 /\ rt \in 0..8 /\ ft \in 0..8
    BY <1>2, <2>1
  <2> QED BY <2>2, <2>3, <2>4, <2>5
<1>4. c = black \/ c = white
  BY DEF Colour
<1>5. /\ GoldSteps \in SUBSET (Int \X Int) /\ SilverSteps \in SUBSET (Int \X Int)
      /\ KnightSteps \in SUBSET (Int \X Int) /\ Around \in SUBSET (Int \X Int)
  BY DEF GoldSteps, SilverSteps, KnightSteps, Around
<1>6. ASSUME NEW S \in SUBSET (Int \X Int)
      PROVE  t \in set_attacks(s, Turned(c, S)) <=> IF c = black THEN <<a, b>> \in S ELSE <<-a, -b>> \in S
  BY <1>1, <1>3, <1>6, TurnedBy, StepDifference
<1>7. t \in Gold(c, s) <=> (i = -1 /\ j \in -1..1) \/ (i = 0 /\ j \in {-1, 1}) \/ (i = 1 /\ j = 0)
  <2>1. Gold(c, s) = set_attacks(s, Turned(c, GoldSteps))
    BY DEF Gold, abb_gold_attacks
  <2> QED BY <1>3, <1>5, <1>6, <2>1 DEF GoldSteps
<1>8. t \in Silver(c, s) <=> (i = -1 /\ j \in -1..1) \/ (i = 1 /\ j \in {-1, 1})
  <2>1. Silver(c, s) = set_attacks(s, Turned(c, SilverSteps))
    BY DEF Silver, abb_silver_attacks
  <2> QED BY <1>3, <1>5, <1>6, <2>1 DEF SilverSteps
<1>9. t \in Knight(c, s) <=> i = -2 /\ j \in {-1, 1}
  <2>1. Knight(c, s) = set_attacks(s, Turned(c, KnightSteps))
    BY <1>4 DEF Knight, abb_knight_attacks, abb_b_knight_attacks, abb_w_knight_attacks, black, white, Turned
  <2> QED BY <1>3, <1>5, <1>6, <2>1 DEF KnightSteps
<1>10. t \in abb_king_attacks[s] <=> NextTo(i, j)
  <2>1. abb_king_attacks[s] = set_attacks(s, Around)
    BY DEF abb_king_attacks
  <2>2. t \in abb_king_attacks[s] <=> <<a, b>> \in Around
    BY <1>1, <1>5, <2>1, StepDifference
  <2>3. <<a, b>> \in Around <=> NextTo(a, b)
    BY <1>3 DEF Around, NextTo
  <2>4. NextTo(a, b) <=> NextTo(i, j)
    BY <1>3 DEF NextTo
  <2> QED BY <2>2, <2>3, <2>4
<1>11. t = s + Ahead(c) <=> i = -1 /\ j = 0
  BY <1>1, <1>2, <1>3, <1>4 DEF Ahead, black, white
<1>12. t = s <=> i = 0 /\ j = 0
  BY <1>1, <1>2, <1>3
<1> QED BY <1>3, <1>7, <1>8, <1>9, <1>10, <1>11, <1>12

(* Any two squares are some ranks and files apart.                         *)
LEMMA AwayIs ==
  ASSUME NEW c \in Colour, NEW s \in Square, NEW t \in Square
  PROVE  \E i, j : Away(c, s, t, i, j)
<1>1. /\ s \div 9 \in 0..8 /\ s % 9 \in 0..8 /\ t \div 9 \in 0..8 /\ t % 9 \in 0..8
  BY DEF Square
<1>2. Row(c, s) \in 0..8 /\ Row(c, t) \in 0..8 /\ aifile(s) \in 0..8 /\ aifile(t) \in 0..8
  BY <1>1 DEF Row, airank, aifile
<1> QED BY <1>2 DEF Away
(* The lines that join squares.                                            *)
LEMMA LineShapes ==
  ASSUME NEW c \in Colour, NEW s \in Square, NEW t \in Square, NEW i, NEW j, Away(c, s, t, i, j)
  PROVE  /\ Joined(2, s, t) <=> j = 0
         /\ Joined(3, s, t) <=> i = 0
         /\ Joined(4, s, t) \/ Joined(5, s, t) <=> i = j \/ i = -j
         /\ t \in RaysAhead(c)[s] /\ j = 0 => i < 0
         /\ Joined(2, t, s) <=> j = 0
<1>1. PICK rs, fs, rt, ft : rs = s \div 9 /\ fs = s % 9 /\ rt = t \div 9 /\ ft = t % 9
  OBVIOUS
<1>2. rs \in 0..8 /\ fs \in 0..8 /\ rt \in 0..8 /\ ft \in 0..8
  BY <1>1 DEF Square
<1>3. j = ft - fs
  BY <1>1 DEF Away, aifile
<1>4. i = (IF c = black THEN rt ELSE 8 - rt) - (IF c = black THEN rs ELSE 8 - rs)
  BY <1>1 DEF Away, Row, airank
<1>5. \A e \in 2..5 : Joined(e, s, t) <=> OnLine(e, rs, fs, rt, ft)
  BY <1>1, JoinedOnLine
<1>6. Joined(2, s, t) <=> j = 0
  BY <1>2, <1>3, <1>5 DEF OnLine
<1>7. Joined(3, s, t) <=> i = 0
  BY <1>2, <1>4, <1>5 DEF OnLine
<1>8. Joined(4, s, t) \/ Joined(5, s, t) <=> i = j \/ i = -j
  <2>1. Joined(4, s, t) \/ Joined(5, s, t) <=> rs + fs = rt + ft \/ rs - fs = rt - ft
    BY <1>5 DEF OnLine
  <2> QED BY <1>2, <1>3, <1>4, <2>1
<1>9. ASSUME t \in RaysAhead(c)[s], j = 0 PROVE i < 0
  <2>1. /\ t > s <=> (rt > rs \/ (rt = rs /\ ft > fs))
        /\ t = s <=> (rt = rs /\ ft = fs)
    BY <1>1, SquareOrder
  <2>2. IF c = black THEN t < s ELSE t > s
    BY <1>9 DEF RaysAhead, abb_minus_rays, abb_plus_rays, Square
  <2>3. s \in Int /\ t \in Int
    BY DEF Square
  <2> QED BY <1>2, <1>3, <1>4, <1>9, <2>1, <2>2, <2>3
<1>10. Joined(2, t, s) <=> j = 0
  <2>1. Joined(2, t, s) <=> OnLine(2, rt, ft, rs, fs)
    BY <1>1, JoinedOnLine
  <2> QED BY <1>2, <1>3, <2>1 DEF OnLine
<1> QED BY <1>6, <1>7, <1>8, <1>9, <1>10
(* What each piece aims at.                                                *)
LEMMA AimShapes ==
  ASSUME NEW c \in Colour, NEW k \in Kinds, NEW s \in Square, NEW t \in Square, Aims(c, k, s, t),
         NEW i, NEW j, Away(c, s, t, i, j)
  PROVE  /\ k \in Golds => t \in Gold(c, s)
         /\ k = silver => t \in Silver(c, s)
         /\ k = knight => t \in Knight(c, s)
         /\ k = pawn => i = -1 /\ j = 0
         /\ k = lance => i < 0 /\ j = 0
         /\ k = bishop => i = j \/ i = -j
         /\ k = rook => i = 0 \/ j = 0
         /\ k = horse => t \in abb_king_attacks[s] \/ i = j \/ i = -j
         /\ k = dragon => t \in abb_king_attacks[s] \/ i = 0 \/ j = 0
<1>1. \/ t \in set_attacks(s, Turned(c, StepDirections(k)))
      \/ \E d \in Turned(c, RunDirections(k)) : t \in Ray(s, d)
  BY DEF Aims
<1>2. Turned(c, {}) = {}
  BY DEF Turned
<1>3. set_attacks(s, {}) = {}
  BY DEF set_attacks
<1>4. k \in Golds => t \in Gold(c, s)
  BY <1>1, <1>2, DirectionsOfKinds DEF Gold, abb_gold_attacks
<1>5. k = silver => t \in Silver(c, s)
  BY <1>1, <1>2, DirectionsOfKinds DEF Silver, abb_silver_attacks
<1>6. k = knight => t \in Knight(c, s)
  <2>1. Knight(c, s) = set_attacks(s, Turned(c, KnightSteps))
    BY DEF Colour, Knight, abb_knight_attacks, abb_b_knight_attacks, abb_w_knight_attacks, black, white, Turned
  <2> QED BY <1>1, <1>2, <2>1, DirectionsOfKinds
<1>7. k = pawn => i = -1 /\ j = 0
  <2>1. HAVE k = pawn
  <2>2. t \in set_attacks(s, Turned(c, {<<-1, 0>>}))
    BY <1>1, <1>2, <2>1, DirectionsOfKinds
  <2>3. t = s + Ahead(c)
    <3>1. PICK b : b = [u \in Square |-> empty]
      OBVIOUS
    <3>2. abb_obstacle[s][t] \cap Taken(b) = {}
      BY <3>1 DEF Taken
    <3>3. Sees(b, c, pawn, s, t)
      BY <2>1, <3>2 DEF Sees
    <3> QED BY <3>3, PawnsSee
  <2> QED BY <2>3, StepShapes
<1>8. \A h \in {lance, bishop, rook} : Aims(c, h, s, t) => RunsAlong(c, h, s, t)
  BY SlidersAim
<1>9. Aims(c, lance, s, t) => i < 0 /\ j = 0
  <2>1. HAVE Aims(c, lance, s, t)
  <2>2. Joined(2, s, t) /\ t \in RaysAhead(c)[s]
    BY <1>8, <2>1 DEF RunsAlong, lance, rook, dragon, bishop, horse, promote
  <2> QED BY <2>2, LineShapes
<1>10. Aims(c, bishop, s, t) => i = j \/ i = -j
  <2>1. HAVE Aims(c, bishop, s, t)
  <2>2. Joined(4, s, t) \/ Joined(5, s, t)
    BY <1>8, <2>1 DEF RunsAlong, lance, rook, dragon, bishop, horse, promote
  <2> QED BY <2>2, LineShapes
<1>11. Aims(c, rook, s, t) => i = 0 \/ j = 0
  <2>1. HAVE Aims(c, rook, s, t)
  <2>2. Joined(2, s, t) \/ Joined(3, s, t)
    BY <1>8, <2>1 DEF RunsAlong, lance, rook, dragon, bishop, horse, promote
  <2> QED BY <2>2, LineShapes
<1>12. ASSUME t \in set_attacks(s, Turned(c, LineSteps)) PROVE t \in abb_king_attacks[s]
  <2>1. LineSteps \subseteq Around
    BY DEF LineSteps, RankSteps, FileSteps, Diag1Steps, Diag2Steps, Around
  <2>2. t \in set_attacks(s, LineSteps)
    BY <1>12, LineStepsTurned
  <2> QED BY <2>1, <2>2 DEF set_attacks, abb_king_attacks
<1>13. k = horse => t \in abb_king_attacks[s] \/ Aims(c, bishop, s, t)
  <2>1. RunDirections(horse) = RunDirections(bishop) /\ StepDirections(horse) = LineSteps
    BY DirectionsOfKinds
  <2> QED BY <1>1, <1>12, <2>1 DEF Aims
<1>14. k = dragon => t \in abb_king_attacks[s] \/ Aims(c, rook, s, t)
  <2>1. RunDirections(dragon) = RunDirections(rook) /\ StepDirections(dragon) = LineSteps
    BY DirectionsOfKinds
  <2> QED BY <1>1, <1>12, <2>1 DEF Aims
<1>15. /\ k = lance => Aims(c, lance, s, t)
       /\ k = bishop => Aims(c, bishop, s, t)
       /\ k = rook => Aims(c, rook, s, t)
  OBVIOUS
<1> QED BY <1>4, <1>5, <1>6, <1>7, <1>9, <1>10, <1>11, <1>13, <1>14, <1>15

(* A square next to the king that a piece aims at.                         *)
LEMMA AimedNear ==
  ASSUME NEW c \in Colour, NEW y \in Square, NEW K \in Square, NEW a, NEW b, Away(c, y, K, a, b),
         NEW u \in abb_king_attacks[K], u # y
  PROVE  u \in Square /\ \E i, j : Away(c, y, u, i, j) /\ NextTo(i - a, j - b) /\ (i # 0 \/ j # 0)
<1>1. u \in Square
  BY StepsAreMutual
<1>2. PICK i, j : Away(c, y, u, i, j)
  BY <1>1, AwayIs
<1>3. Away(c, K, u, i - a, j - b)
  <2>1. PICK r1, r2, r3, f1, f2, f3 : /\ r1 = Row(c, y) /\ r2 = Row(c, K) /\ r3 = Row(c, u)
                                      /\ f1 = aifile(y) /\ f2 = aifile(K) /\ f3 = aifile(u)
    OBVIOUS
  <2>2. /\ r1 \in 0..8 /\ r2 \in 0..8 /\ r3 \in 0..8 /\ f1 \in 0..8 /\ f2 \in 0..8 /\ f3 \in 0..8
        /\ a = r2 - r1 /\ b = f2 - f1 /\ i = r3 - r1 /\ j = f3 - f1
    BY <1>2, <2>1 DEF Away
  <2>3. i - a = r3 - r2 /\ j - b = f3 - f2
    BY <2>2
  <2> QED BY <2>1, <2>2, <2>3 DEF Away
<1>4. NextTo(i - a, j - b)
  BY <1>1, <1>3, StepShapes
<1>5. i # 0 \/ j # 0
  BY <1>1, <1>2, StepShapes
<1> QED BY <1>1, <1>2, <1>4, <1>5
(* The squares next to the king that each piece beats.                     *)
LEMMA StepsCatch ==
  ASSUME NEW c \in Colour, NEW b1, NEW y \in Square, NEW K \in Square, NEW a, NEW b, Away(c, y, K, a, b)
  PROVE  /\ \A k \in Golds : Catches(c, b1, k, y, K, Gold(c, y))
         /\ Catches(c, b1, silver, y, K, Silver(c, y))
         /\ a = -1 => Catches(c, b1, silver, y, K, Gold(c, y))
         /\ a = -2 /\ b \in {-1, 1} => Catches(c, b1, knight, y, K, {})
         /\ a = -1 /\ b = 0 => \A R : Catches(c, b1, pawn, y, K, R)
<1>1. ASSUME NEW k \in Kinds, NEW u \in abb_king_attacks[K] \ {y}, Beats(c, b1, k, y, K, u)
      PROVE  /\ k \in Golds => u \in Gold(c, y)
             /\ k = silver => u \in Silver(c, y) /\ (a = -1 => u \in Gold(c, y))
             /\ k = knight => ~(a = -2 /\ b \in {-1, 1})
             /\ k = pawn => ~(a = -1 /\ b = 0)
  <2>1. PICK i, j : u \in Square /\ Away(c, y, u, i, j) /\ NextTo(i - a, j - b)
    BY <1>1, AimedNear
  <2>2. Aims(c, k, y, u)
    BY <1>1 DEF Beats
  <2>3. /\ k \in Golds => u \in Gold(c, y)
        /\ k = silver => u \in Silver(c, y)
        /\ k = knight => u \in Knight(c, y)
        /\ k = pawn => i = -1 /\ j = 0
    BY <2>1, <2>2, AimShapes
  <2>4. a \in -8..8 /\ b \in -8..8 /\ i \in -8..8 /\ j \in -8..8
    BY <2>1 DEF Away
  <2>5. k = silver /\ a = -1 => u \in Gold(c, y)
    BY <2>1, <2>3, <2>4, StepShapes DEF NextTo
  <2>6. k = knight => i = -2 /\ j \in {-1, 1}
    BY <2>1, <2>3, StepShapes
  <2>7. k = pawn => ~(a = -1 /\ b = 0)
    BY <2>1, <2>3, <2>4 DEF NextTo
  <2>8. ASSUME k = knight, a = -2, b \in {-1, 1} PROVE FALSE
    <3>1. i = -2 /\ j \in {-1, 1}
      BY <2>6, <2>8
    <3> QED BY <2>1, <2>4, <2>8, <3>1 DEF NextTo
  <2> QED BY <2>3, <2>5, <2>7, <2>8
<1>2. {silver, knight, pawn} \subseteq Kinds /\ Golds \subseteq Kinds
  BY Becomings, KindsAreNumbers
<1> QED BY <1>1, <1>2 DEF Catches

(* The same for pieces that run, over the tables the solver passes.        *)
LEMMA SlidersCatch ==
  ASSUME NEW c \in Colour, NEW b1, NEW y \in Square, NEW K \in Square, NEW a, NEW b, Away(c, y, K, a, b)
  PROVE  /\ Catches(c, b1, lance, y, K, Line[direc_file][y]) /\ Catches(c, b1, lance, y, K, Cross(y))
         /\ a = -1 /\ b = 0 /\ Row(c, K) = 0 => \A R : Catches(c, b1, lance, y, K, R)
         /\ Catches(c, b1, rook, y, K, Cross(y)) /\ Catches(c, b1, bishop, y, K, Saltire(y))
         /\ Catches(c, b1, bishop, y, K, HorseReach[y]) /\ Catches(c, b1, horse, y, K, HorseReach[y])
         /\ a = 1 /\ b = 0 => \A k \in Golds : Catches(c, b1, k, y, K, Cross(y))
         /\ a = 1 /\ b \in {-1, 1} => Catches(c, b1, silver, y, K, Saltire(y))
<1>1. ASSUME NEW k \in Kinds, NEW u \in abb_king_attacks[K] \ {y}, Beats(c, b1, k, y, K, u)
      PROVE  /\ k = lance => u \in Line[direc_file][y] /\ u \in Cross(y) /\ ~(a = -1 /\ b = 0 /\ Row(c, K) = 0)
             /\ k = rook => u \in Cross(y)
             /\ k = bishop => u \in Saltire(y) /\ u \in HorseReach[y]
             /\ k = horse => u \in HorseReach[y]
             /\ k \in Golds /\ a = 1 /\ b = 0 => u \in Cross(y)
             /\ k = silver /\ a = 1 /\ b \in {-1, 1} => u \in Saltire(y)
  <2>1. PICK i, j : u \in Square /\ Away(c, y, u, i, j) /\ NextTo(i - a, j - b) /\ (i # 0 \/ j # 0)
    BY <1>1, AimedNear
  <2>2. Aims(c, k, y, u)
    BY <1>1 DEF Beats
  <2>3. /\ a \in -8..8 /\ b \in -8..8 /\ i \in -8..8 /\ j \in -8..8 /\ u # y
        /\ i = Row(c, u) - Row(c, y) /\ a = Row(c, K) - Row(c, y)
        /\ Row(c, u) \in 0..8 /\ Row(c, y) \in 0..8 /\ Row(c, K) \in 0..8
    <3>1. /\ a \in -8..8 /\ b \in -8..8 /\ i \in -8..8 /\ j \in -8..8
      BY <2>1, StepShapes
    <3> QED BY <2>1, <3>1 DEF Away
  <2>4. /\ u \in Line[direc_file][y] <=> j = 0
        /\ u \in Cross(y) <=> i = 0 \/ j = 0
        /\ u \in Saltire(y) <=> i = j \/ i = -j
    <3>1. \A e \in 2..5 : u \in Line[e][y] <=> Joined(e, y, u)
      BY <2>1, <2>3 DEF Line
    <3>2. /\ Joined(2, y, u) <=> j = 0
          /\ Joined(3, y, u) <=> i = 0
          /\ Joined(4, y, u) \/ Joined(5, y, u) <=> i = j \/ i = -j
      BY <2>1, LineShapes
    <3> QED BY <3>1, <3>2 DEF Cross, Saltire, direc_file, direc_rank, direc_diag1, direc_diag2
  <2>5. HorseReach[y] = Saltire(y) \cup abb_king_attacks[y]
    BY DEF HorseReach
  <2>6. k = lance => i < 0 /\ j = 0
    BY <2>1, <2>2, AimShapes
  <2>7. k = lance => ~(a = -1 /\ b = 0 /\ Row(c, K) = 0)
    BY <2>1, <2>3, <2>6 DEF NextTo
  <2>8. k = rook => i = 0 \/ j = 0
    BY <2>1, <2>2, AimShapes
  <2>9. /\ k = bishop => i = j \/ i = -j
        /\ k = horse => u \in abb_king_attacks[y] \/ i = j \/ i = -j
    BY <2>1, <2>2, AimShapes
  <2>10. k \in Golds /\ a = 1 /\ b = 0 => i = 0 \/ j = 0
    <3>1. HAVE k \in Golds /\ a = 1 /\ b = 0
    <3>2. u \in Gold(c, y)
      BY <2>1, <2>2, <3>1, AimShapes
    <3>3. (i = -1 /\ j \in -1..1) \/ (i = 0 /\ j \in {-1, 1}) \/ (i = 1 /\ j = 0)
      BY <2>1, <3>2, StepShapes
    <3> QED BY <2>1, <2>3, <3>1, <3>3 DEF NextTo
  <2>11. k = silver /\ a = 1 /\ b \in {-1, 1} => i = j \/ i = -j
    <3>1. HAVE k = silver /\ a = 1 /\ b \in {-1, 1}
    <3>2. u \in Silver(c, y)
      BY <2>1, <2>2, <3>1, AimShapes
    <3>3. (i = -1 /\ j \in -1..1) \/ (i = 1 /\ j \in {-1, 1})
      BY <2>1, <3>2, StepShapes
    <3> QED BY <2>1, <2>3, <3>1, <3>3 DEF NextTo
  <2> QED BY <2>4, <2>5, <2>6, <2>7, <2>8, <2>9, <2>10, <2>11
<1>2. {lance, rook, bishop, horse, silver} \subseteq Kinds /\ Golds \subseteq Kinds
  BY Becomings
<1> QED BY <1>1, <1>2 DEF Catches
(* A dragon, over the lines the solver looks up, and a rook.               *)
LEMMA DragonsCatch ==
  ASSUME NEW c \in Colour, NEW q, NEW b1, AsSeen(c, q, b1), NEW K \in Square, NEW y \in abb_king_attacks[K],
         NEW R, R = DragonReach(K, q)[y], NEW a, NEW b, Away(c, y, K, a, b)
  PROVE  /\ Catches(c, b1, dragon, y, K, R)
         /\ a = 0 \/ b = 0 => Catches(c, b1, rook, y, K, R)
<1>1. y \in Square /\ y # K /\ K \in abb_king_attacks[y]
  BY NearIsOpen
<1>2. NextTo(a, b) /\ a \in -8..8 /\ b \in -8..8
  BY <1>1, StepShapes
<1>3. R = IF adirec[K][y] \in {direc_file, direc_rank}
          THEN Cross(y) \cup abb_king_attacks[y] ELSE AttackDragon(q, y)
  BY <1>1 DEF DragonReach
<1>4. adirec[K][y] \in 2..5 /\ Joined(adirec[K][y], K, y) /\ Joined(adirec[K][y], y, K)
  <2>1. \E e \in 2..5 : Joined(e, y, K)
    <3>1. /\ Joined(2, y, K) <=> b = 0
          /\ Joined(3, y, K) <=> a = 0
          /\ Joined(4, y, K) \/ Joined(5, y, K) <=> a = b \/ a = -b
      BY <1>1, LineShapes
    <3> QED BY <1>2, <3>1 DEF NextTo
  <2>2. \A e \in 2..5 : Joined(e, y, K) <=> Joined(e, K, y)
    BY <1>1 DEF Joined
  <2>3. adirec[K][y] = CHOOSE e \in 2..5 : Joined(e, K, y)
    BY <1>1, <2>1, <2>2 DEF adirec
  <2> QED BY <2>1, <2>2, <2>3
<1>5. adirec[K][y] \in {direc_file, direc_rank} <=> a = 0 \/ b = 0
  <2>1. /\ Joined(2, y, K) <=> b = 0
        /\ Joined(3, y, K) <=> a = 0
    BY <1>1, LineShapes
  <2>2. \A e \in {2, 3} : Joined(e, y, K) => adirec[K][y] = e
    BY <1>1, <1>4, OneLineOnly
  <2> QED BY <1>4, <2>1, <2>2 DEF direc_file, direc_rank
<1>6. ASSUME NEW k \in Kinds, NEW u \in abb_king_attacks[K] \ {y}, Beats(c, b1, k, y, K, u),
             k = dragon \/ (k = rook /\ (a = 0 \/ b = 0))
      PROVE  u \in R
  <2>1. PICK i, j : u \in Square /\ Away(c, y, u, i, j) /\ (i # 0 \/ j # 0)
    BY <1>1, <1>6, AimedNear
  <2>2. Aims(c, k, y, u) /\ u # y
    BY <1>6 DEF Beats
  <2>3. u \in abb_king_attacks[y] \/ i = 0 \/ j = 0
    <3>1. /\ k = rook => i = 0 \/ j = 0
          /\ k = dragon => u \in abb_king_attacks[y] \/ i = 0 \/ j = 0
      BY <1>1, <2>1, <2>2, AimShapes
    <3> QED BY <1>6, <3>1
  <2>4. /\ Joined(2, y, u) <=> j = 0
        /\ Joined(3, y, u) <=> i = 0
    BY <1>1, <2>1, LineShapes
  <2>5. \A e \in {2, 3} : u \in Line[e][y] <=> Joined(e, y, u)
    BY <1>1, <2>1, <2>2 DEF Line
  <2>6. CASE a = 0 \/ b = 0
    BY <1>3, <1>5, <2>3, <2>4, <2>5, <2>6 DEF Cross, direc_file, direc_rank
  <2>7. CASE ~(a = 0 \/ b = 0)
    <3>1. R = AttackDragon(q, y)
      BY <1>3, <1>5, <2>7
    <3>2. SUFFICES ASSUME NEW e \in {2, 3}, Joined(e, y, u) PROVE u \in Slide(e, y, Taken(b1))
      BY <2>3, <2>4, <3>1, SeenLines DEF AttackDragon, AttackRook
    <3>3. K \notin abb_obstacle[y][u]
      <4>1. ASSUME K \in abb_obstacle[y][u] PROVE FALSE
        <5>1. PICK d \in 2..5 : Joined(d, y, u) /\ Joined(d, y, K)
          BY <1>1, <2>1, <4>1 DEF abb_obstacle
        <5>2. d = e
          BY <1>1, <2>1, <2>2, <3>2, <5>1, OneLineOnly
        <5>3. /\ Joined(2, y, K) <=> b = 0
              /\ Joined(3, y, K) <=> a = 0
          BY <1>1, LineShapes
        <5> QED BY <2>7, <3>2, <5>1, <5>2, <5>3
      <4> QED BY <4>1
    <3>4. abb_obstacle[y][u] \cap Taken(b1) = {}
      BY <1>6, <3>3 DEF Beats
    <3> QED BY <2>5, <3>2, <3>4 DEF Slide
  <2> QED BY <2>6, <2>7
<1>7. {dragon, rook} \subseteq Kinds
  BY Becomings
<1> QED BY <1>6, <1>7 DEF Catches

(* Seen from the other end.                                                *)
LEMMA AwayBack ==
  ASSUME NEW c \in Colour, NEW s \in Square, NEW t \in Square, NEW i, NEW j, Away(c, s, t, i, j)
  PROVE  Flip(c) \in Colour /\ Away(Flip(c), t, s, i, -j) /\ Away(c, t, s, -i, -j)
<1>1. Flip(c) \in Colour /\ (c = black <=> Flip(c) # black)
  BY DEF Flip, Colour, black, white
<1>2. PICK r1, r2, f1, f2 : r1 = airank(s) /\ r2 = airank(t) /\ f1 = aifile(s) /\ f2 = aifile(t)
  OBVIOUS
<1>3. r1 \in 0..8 /\ r2 \in 0..8 /\ f1 \in 0..8 /\ f2 \in 0..8
  BY <1>2 DEF airank, aifile, Square
<1>4. /\ Row(c, s) = (IF c = black THEN r1 ELSE 8 - r1)
      /\ Row(c, t) = (IF c = black THEN r2 ELSE 8 - r2)
      /\ Row(Flip(c), s) = (IF c = black THEN 8 - r1 ELSE r1)
      /\ Row(Flip(c), t) = (IF c = black THEN 8 - r2 ELSE r2)
  BY <1>1, <1>2 DEF Row
<1>5. i = (IF c = black THEN r2 - r1 ELSE r1 - r2) /\ j = f2 - f1
  BY <1>2, <1>3, <1>4 DEF Away
<1>6. /\ i = Row(Flip(c), s) - Row(Flip(c), t) /\ -i = Row(c, s) - Row(c, t)
      /\ -j = f1 - f2
      /\ Row(c, s) \in 0..8 /\ Row(c, t) \in 0..8 /\ Row(Flip(c), s) \in 0..8 /\ Row(Flip(c), t) \in 0..8
  BY <1>3, <1>4, <1>5
<1> QED BY <1>1, <1>2, <1>3, <1>6 DEF Away
(* The squares that steps of the other side reach from t.                  *)
LEMMA BackShapes ==
  ASSUME NEW c \in Colour, NEW s \in Square, NEW t \in Square, NEW i, NEW j, Away(c, s, t, i, j)
  PROVE  /\ i \in -8..8 /\ j \in -8..8
         /\ s \in Gold(Flip(c), t) <=> t \in Gold(c, s)
         /\ s \in Silver(Flip(c), t) <=> t \in Silver(c, s)
         /\ s \in Knight(Flip(c), t) <=> t \in Knight(c, s)
         /\ s \in abb_king_attacks[t] <=> t \in abb_king_attacks[s]
         /\ s \in Gold(c, t) <=> (i = 1 /\ j \in -1..1) \/ (i = 0 /\ j \in {-1, 1}) \/ (i = -1 /\ j = 0)
         /\ s \in Silver(c, t) <=> (i = 1 /\ j \in -1..1) \/ (i = -1 /\ j \in {-1, 1})
         /\ s \in BothGold(t) <=> (i = 0 /\ j \in {-1, 1}) \/ (i \in {-1, 1} /\ j = 0)
         /\ s \in BothSilver(t) <=> i \in {-1, 1} /\ j \in {-1, 1}
<1>1. PICK d \in Colour : d = Flip(c) /\ Away(d, t, s, i, -j) /\ Away(c, t, s, -i, -j)
  BY AwayBack
<1>2. /\ i \in -8..8 /\ j \in -8..8
      /\ t \in Gold(c, s) <=> (i = -1 /\ j \in -1..1) \/ (i = 0 /\ j \in {-1, 1}) \/ (i = 1 /\ j = 0)
      /\ t \in Silver(c, s) <=> (i = -1 /\ j \in -1..1) \/ (i = 1 /\ j \in {-1, 1})
      /\ t \in Knight(c, s) <=> i = -2 /\ j \in {-1, 1}
      /\ t \in abb_king_attacks[s] <=> NextTo(i, j)
  BY StepShapes
<1>3. /\ s \in Gold(d, t) <=> (i = -1 /\ -j \in -1..1) \/ (i = 0 /\ -j \in {-1, 1}) \/ (i = 1 /\ -j = 0)
      /\ s \in Silver(d, t) <=> (i = -1 /\ -j \in -1..1) \/ (i = 1 /\ -j \in {-1, 1})
      /\ s \in Knight(d, t) <=> i = -2 /\ -j \in {-1, 1}
      /\ s \in abb_king_attacks[t] <=> NextTo(i, -j)
  BY <1>1, StepShapes
<1>4. /\ s \in Gold(c, t) <=> (-i = -1 /\ -j \in -1..1) \/ (-i = 0 /\ -j \in {-1, 1}) \/ (-i = 1 /\ -j = 0)
      /\ s \in Silver(c, t) <=> (-i = -1 /\ -j \in -1..1) \/ (-i = 1 /\ -j \in {-1, 1})
  BY <1>1, StepShapes
<1>5. /\ s \in Gold(c, t) <=> (i = 1 /\ j \in -1..1) \/ (i = 0 /\ j \in {-1, 1}) \/ (i = -1 /\ j = 0)
      /\ s \in Silver(c, t) <=> (i = 1 /\ j \in -1..1) \/ (i = -1 /\ j \in {-1, 1})
  BY <1>2, <1>4
<1>6. /\ s \in Gold(d, t) <=> t \in Gold(c, s)
      /\ s \in Silver(d, t) <=> t \in Silver(c, s)
      /\ s \in Knight(d, t) <=> t \in Knight(c, s)
  BY <1>2, <1>3
<1>7. s \in abb_king_attacks[t] <=> t \in abb_king_attacks[s]
  BY <1>2, <1>3 DEF NextTo
<1>8. /\ s \in BothGold(t) <=> s \in Gold(c, t) /\ s \in Gold(d, t)
      /\ s \in BothSilver(t) <=> s \in Silver(c, t) /\ s \in Silver(d, t)
  BY <1>1 DEF BothGold, BothSilver, Flip, Colour, black, white
<1>9. s \in BothGold(t) <=> (i = 0 /\ j \in {-1, 1}) \/ (i \in {-1, 1} /\ j = 0)
  BY <1>2, <1>5, <1>6, <1>8
<1>10. s \in BothSilver(t) <=> i \in {-1, 1} /\ j \in {-1, 1}
  BY <1>2, <1>5, <1>6, <1>8
<1> QED BY <1>1, <1>2, <1>5, <1>6, <1>7, <1>9, <1>10
(* Where a piece that gives check by contact, or as a knight, stands.      *)
Contacts(c, j, t, K, a, b) ==
  /\ t \in Square /\ K \in Square /\ Away(c, t, K, a, b)
  /\ Aims(c, j, t, K) /\ abb_obstacle[t][K] = {}
  /\ a \in -8..8 /\ b \in -8..8
  /\ j \in Golds => t \in Gold(Flip(c), K)
  /\ j = silver => t \in Silver(Flip(c), K)
  /\ j = knight => t \in Knight(Flip(c), K) /\ a = -2 /\ b \in {-1, 1}
  /\ j # knight => t \in abb_king_attacks[K] /\ NextTo(a, b)
  /\ j \in {pawn, lance} => a = -1 /\ b = 0
  /\ j = rook => t \in BothGold(K) /\ (a = 0 \/ b = 0)
  /\ j = bishop => t \in BothSilver(K)
(* A piece that sees the king from there is in contact, as one or the other*)
(* kind.                                                                   *)
LEMMA ContactShapes ==
  ASSUME NEW bd, NEW c \in Colour, NEW j \in Kinds \ {king}, NEW t \in Square, NEW K \in Square,
         Sees(bd, c, j, t, K), t \in abb_king_attacks[K] \cup Knight(Flip(c), K)
  PROVE  \E a, b : Contacts(c, j, t, K, a, b)
<1>1. Aims(c, j, t, K)
  BY DEF Sees
<1>2. PICK a, b : Away(c, t, K, a, b)
  BY AwayIs
<1>3. /\ a \in -8..8 /\ b \in -8..8
      /\ K \in Gold(c, t) <=> (a = -1 /\ b \in -1..1) \/ (a = 0 /\ b \in {-1, 1}) \/ (a = 1 /\ b = 0)
      /\ K \in Silver(c, t) <=> (a = -1 /\ b \in -1..1) \/ (a = 1 /\ b \in {-1, 1})
      /\ K \in Knight(c, t) <=> a = -2 /\ b \in {-1, 1}
      /\ K \in abb_king_attacks[t] <=> NextTo(a, b)
  BY <1>2, StepShapes
<1>4. /\ t \in Gold(Flip(c), K) <=> K \in Gold(c, t)
      /\ t \in Silver(Flip(c), K) <=> K \in Silver(c, t)
      /\ t \in Knight(Flip(c), K) <=> K \in Knight(c, t)
      /\ t \in abb_king_attacks[K] <=> K \in abb_king_attacks[t]
      /\ t \in BothGold(K) <=> (a = 0 /\ b \in {-1, 1}) \/ (a \in {-1, 1} /\ b = 0)
      /\ t \in BothSilver(K) <=> a \in {-1, 1} /\ b \in {-1, 1}
  BY <1>2, BackShapes
<1>5. NextTo(a, b) \/ (a = -2 /\ b \in {-1, 1})
  BY <1>3, <1>4
<1>6. /\ j \in Golds => K \in Gold(c, t)
      /\ j = silver => K \in Silver(c, t)
      /\ j = knight => K \in Knight(c, t)
      /\ j = pawn => a = -1 /\ b = 0
      /\ j = lance => a < 0 /\ b = 0
      /\ j = bishop => a = b \/ a = -b
      /\ j = rook => a = 0 \/ b = 0
      /\ j = horse => K \in abb_king_attacks[t] \/ a = b \/ a = -b
      /\ j = dragon => K \in abb_king_attacks[t] \/ a = 0 \/ b = 0
  BY <1>1, <1>2, AimShapes
<1>7. j \in Golds \cup {silver, knight, pawn, lance, bishop, rook, horse, dragon}
  BY KindsAreNumbers DEF Kinds, Golds, silver, knight, pawn, lance, bishop, rook, horse, dragon, king, gold, promote
<1>8. NextTo(a, b) => ~(a = -2)
  BY DEF NextTo
<1>9. j # knight => NextTo(a, b)
  <2>1. HAVE j # knight
  <2>2. a = -2 /\ b \in {-1, 1} => ~(a < 0 /\ b = 0) /\ a # b /\ a # -b /\ a # 0 /\ b # 0
    BY <1>3
  <2>3. CASE j \in Golds
    BY <1>3, <1>5, <1>6, <2>3
  <2>4. CASE j \in {silver, pawn, lance, bishop, rook}
    BY <1>3, <1>5, <1>6, <2>2, <2>4
  <2>5. CASE j \in {horse, dragon}
    BY <1>3, <1>5, <1>6, <2>2, <2>5
  <2> QED BY <1>7, <2>1, <2>3, <2>4, <2>5
<1>10. j \in {pawn, lance} => a = -1 /\ b = 0
  <2>1. HAVE j \in {pawn, lance}
  <2>2. j # knight
    BY <2>1 DEF pawn, lance, knight
  <2> QED BY <1>3, <1>6, <1>9, <2>1, <2>2 DEF NextTo
<1>11. j = rook => t \in BothGold(K) /\ (a = 0 \/ b = 0)
  <2>1. HAVE j = rook
  <2>2. j # knight
    BY <2>1 DEF rook, knight
  <2> QED BY <1>3, <1>4, <1>6, <1>9, <2>1, <2>2 DEF NextTo
<1>12. j = bishop => t \in BothSilver(K)
  <2>1. HAVE j = bishop
  <2>2. j # knight
    BY <2>1 DEF bishop, knight
  <2> QED BY <1>3, <1>4, <1>6, <1>9, <2>1, <2>2 DEF NextTo
<1>13. abb_obstacle[t][K] = {}
  <2>1. CASE j = knight
    <3>1. K \in Knight(c, t)
      BY <1>6, <2>1
    <3> QED BY <3>1, StepsAim
  <2>2. CASE j # knight
    <3>1. t \in abb_king_attacks[K]
      BY <1>3, <1>4, <1>9, <2>2
    <3> QED BY <3>1, NearIsOpen
  <2> QED BY <2>1, <2>2
<1> QED BY <1>1, <1>2, <1>3, <1>4, <1>6, <1>9, <1>10, <1>11, <1>12, <1>13 DEF Contacts

(* A step that mates by contact or as a knight.                            *)
Played(c, p, k, s, t, f, K, a, b) ==
  /\ Ready(c, p) /\ k \in Kinds \ {king} /\ s \in Square /\ t \in Square /\ f \in BOOLEAN
  /\ ByRules(c, p, k, s, t, f) /\ K = p.sq_king[Flip(c)]
  /\ LegalMate(c, p, Board(p, k, f, s, t)) /\ Contacts(c, Becoming(k, f), t, K, a, b)
(* What such a step is.                                                    *)
LEMMA PlayedIs ==
  ASSUME NEW c, NEW p, NEW k, NEW s, NEW t, NEW f, NEW K, NEW a, NEW b, Played(c, p, k, s, t, f, K, a, b)
  PROVE  /\ Ready(c, p) /\ IsPosition(p) /\ Copies(p) /\ c \in Colour /\ KingIsSafe(c, p)
         /\ k \in Kinds \ {king} /\ s \in Square /\ t \in Square /\ K \in Square /\ f \in BOOLEAN
         /\ K = Target(c, p) /\ K = p.sq_king[Flip(c)] /\ GoldChecks(c, p) = Gold(Flip(c), K)
         /\ p.board[s] = Signed(c, k) /\ Kind(p, s) = k
         /\ t \in Movable(c, p) /\ (k # pawn => t \in Reach(c, p, k, s))
         /\ f => k \in Promotable /\ (s \in Zone(c) \/ t \in Zone(c))
         /\ ~f => ~Stuck(c, k, t)
         /\ StepOf(c, p, k, s, t)
         /\ ~Attacked(p.board, c, K)
         /\ Away(c, t, K, a, b) /\ Contacts(c, Becoming(k, f), t, K, a, b)
<1>1. /\ Ready(c, p) /\ IsPosition(p) /\ Copies(p) /\ Alive(p) /\ c \in Colour /\ KingIsSafe(c, p)
      /\ k \in Kinds \ {king} /\ s \in Square /\ t \in Square /\ f \in BOOLEAN
      /\ ByRules(c, p, k, s, t, f) /\ K = p.sq_king[Flip(c)]
      /\ Contacts(c, Becoming(k, f), t, K, a, b)
  BY DEF Played, Ready
<1>2. /\ p.board[s] = Signed(c, k) /\ Hits(p.board, c, s, t) /\ ~Mine(c, p.board[t])
      /\ f => k \in Promotable /\ (s \in Zone(c) \/ t \in Zone(c))
      /\ ~f => ~Stuck(c, k, t)
  BY <1>1 DEF ByRules
<1>3. Kind(p, s) = k
  BY <1>1, <1>2, KindOfSigned
<1>4. t \in Movable(c, p)
  BY <1>1, <1>2, MovableIs
<1>5. k # pawn => t \in Reach(c, p, k, s)
  BY <1>1, <1>2, ReachIsHits
<1>6. K \in Square /\ Away(c, t, K, a, b)
  BY <1>1 DEF Contacts
<1>7. ~Attacked(p.board, c, K)
  <2>1. PICK m : m = Board(p, k, f, s, t)
    OBVIOUS
  <2>2. PICK j : j = Comes(m)
    OBVIOUS
  <2> QED BY <1>1, <2>1, <2>2, StepOnBoard
<1>8. K = Target(c, p) /\ GoldChecks(c, p) = Gold(Flip(c), K)
  BY <1>1 DEF Target, GoldChecks
<1>9. StepOf(c, p, k, s, t)
  BY <1>1, <1>2 DEF StepOf
<1> QED BY <1>1, <1>2, <1>3, <1>4, <1>5, <1>6, <1>7, <1>8, <1>9
(* It passes the tests of the solver.                                      *)
LEMMA PlayedMates ==
  ASSUME NEW c, NEW p, NEW k, NEW s, NEW t, NEW f, NEW K, NEW a, NEW b, Played(c, p, k, s, t, f, K, a, b),
         NEW R, Catches(c, Emptied(p.board, s), Becoming(k, f), t, K, R)
  PROVE  /\ MoveMates(c, Lifted(c, p, s), s, t, R)
         /\ t \in abb_king_attacks[K] => is_attacked_by(c, Lifted(c, p, s), t)
<1>1. PICK j, r, m : j = Becoming(k, f) /\ r = Lifted(c, p, s) /\ m = Board(p, k, f, s, t)
  OBVIOUS
<1>2. /\ Ready(c, p) /\ k \in Kinds \ {king} /\ s \in Square /\ t \in Square /\ f \in BOOLEAN
      /\ ByRules(c, p, k, s, t, f) /\ K = p.sq_king[Flip(c)]
      /\ LegalMate(c, p, m) /\ Aims(c, j, t, K) /\ abb_obstacle[t][K] = {}
  BY <1>1 DEF Played, Contacts
<1>3. Catches(c, Emptied(p.board, s), j, t, K, R)
  BY <1>1
<1> QED BY <1>1, <1>2, <1>3, MatingStepPasses, SMTT(30)
(* The solver comes upon the square, with this promotion or without it.    *)
LEMMA MateIsComing ==
  ASSUME NEW c, NEW p, NEW k, NEW s, NEW t, NEW f, NEW K, NEW a, NEW b, Played(c, p, k, s, t, f, K, a, b),
         k # pawn, t \in abb_king_attacks[K], NEW T, t \in T, NEW g, NEW reach,
         Catches(c, Emptied(p.board, s), Becoming(k, f), t, K, reach[t])
  PROVE  Coming(c, p, s, T, g, reach) # {}
<1>1. PICK R : R = reach[t]
  OBVIOUS
<1>2. MoveMates(c, Lifted(c, p, s), s, t, reach[t]) /\ is_attacked_by(c, Lifted(c, p, s), t)
  BY PlayedMates
<1>3. Kind(p, s) = k /\ t \in Movable(c, p) /\ t \in Reach(c, p, k, s)
  BY PlayedIs
<1>4. t \in MatingSquares(c, Lifted(c, p, s), s, T \cap Reach(c, p, Kind(p, s), s) \cap Movable(c, p), reach)
  BY <1>2, <1>3 DEF MatingSquares
<1> QED BY <1>4 DEF Coming
(* The solver asks each of its parts.                                      *)
LEMMA AnyPartWillDo ==
  ASSUME NEW c \in Colour, NEW p
  PROVE  \A m : m \in IsMateIn1Ply(c, p) <=>
           \/ m \in mate_by_drop(c, p) \/ m \in mate_by_dragon(c, p) \/ m \in mate_by_rook(c, p)
           \/ m \in mate_by_horse(c, p) \/ m \in mate_by_bishop(c, p) \/ m \in mate_by_gold(c, p)
           \/ m \in mate_by_silver(c, p) \/ m \in mate_by_knight(c, p) \/ m \in mate_by_lance(c, p)
           \/ m \in mate_by_pawn(c, p)
<1>1. IsMateIn1Ply(c, p) = is_mate_in_1ply(c, p)
  <2>1. CASE c = white
    BY <2>1 DEF IsMateIn1Ply, is_mate_in_1ply, w_mate_by_drop, w_mate_by_dragon, w_mate_by_rook, w_mate_by_horse,
                w_mate_by_bishop, w_mate_by_gold, w_mate_by_silver, w_mate_by_knight, w_mate_by_lance,
                w_mate_by_pawn
  <2>2. CASE c = black
    BY <2>2 DEF IsMateIn1Ply, black, white
  <2> QED BY <2>1, <2>2 DEF Colour
<1> QED BY <1>1 DEF is_mate_in_1ply
(* Dragons and horses.                                                     *)
LEMMA DragonComes ==
  ASSUME NEW c, NEW p, NEW k, NEW s, NEW t, NEW f, NEW K, NEW a, NEW b, Played(c, p, k, s, t, f, K, a, b),
         k \in {horse, dragon}
  PROVE  IsMateIn1Ply(c, p) # {}
<1>1. /\ IsPosition(p) /\ Copies(p) /\ c \in Colour /\ s \in Square /\ K \in Square /\ t \in Square
      /\ p.board[s] = Signed(c, k) /\ K = Target(c, p) /\ Away(c, t, K, a, b) /\ f \in BOOLEAN
      /\ f => k \in Promotable
  BY PlayedIs
<1>2. f = FALSE /\ Becoming(k, f) = k
  <2>1. k \notin Promotable
    BY DEF Promotable, pawn, lance, knight, silver, bishop, rook, horse, dragon
  <2> QED BY <1>1, <2>1, Becomings
<1>3. t \in abb_king_attacks[K]
  <2>1. k # knight
    BY DEF knight, horse, dragon
  <2>2. Contacts(c, k, t, K, a, b)
    BY <1>2 DEF Played
  <2> QED BY <2>1, <2>2 DEF Contacts
<1>4. s \in p.bb[c][k]
  BY <1>1, PiecesHeld, Becomings
<1>5. CASE k = horse
  <2>1. Catches(c, Emptied(p.board, s), Becoming(k, f), t, K, HorseReach[t])
    BY <1>1, <1>2, <1>5, SlidersCatch
  <2>2. k # pawn
    BY <1>5 DEF horse, pawn
  <2>3. Coming(c, p, s, abb_king_attacks[Target(c, p)], FALSE, HorseReach) # {}
    BY <1>1, <1>3, <2>1, <2>2, MateIsComing
  <2>4. mate_by_horse(c, p) # {}
    BY <1>4, <1>5, <2>3 DEF mate_by_horse
  <2> QED BY <1>1, <2>4, AnyPartWillDo
<1>6. CASE k = dragon
  <2>1. PICK q, b1 : q = Lifted(c, p, s) /\ b1 = Emptied(p.board, s)
    OBVIOUS
  <2>2. AsSeen(c, q, b1)
    <3>1. Comer(c, p, k, s, K)
      <4>1. k \in Kinds \ {pawn, king}
        BY <1>6, Becomings
      <4> QED BY <1>1, <4>1 DEF Comer, Played
    <3> QED BY <2>1, <3>1, ComerIsLifted
  <2>3. RookReach(c, p, s)[t] = DragonReach(K, q)[t]
    BY <1>1, <2>1 DEF RookReach
  <2>4. Catches(c, b1, dragon, t, K, RookReach(c, p, s)[t])
    BY <1>1, <1>3, <2>2, <2>3, DragonsCatch
  <2>5. Catches(c, Emptied(p.board, s), Becoming(k, f), t, K, RookReach(c, p, s)[t])
    BY <1>2, <1>6, <2>1, <2>4
  <2>6. k # pawn
    BY <1>6 DEF dragon, pawn
  <2>7. Coming(c, p, s, abb_king_attacks[Target(c, p)], FALSE, RookReach(c, p, s)) # {}
    BY <1>1, <1>3, <2>5, <2>6, MateIsComing
  <2>8. mate_by_dragon(c, p) # {}
    BY <1>4, <1>6, <2>7 DEF mate_by_dragon
  <2> QED BY <1>1, <2>8, AnyPartWillDo
<1> QED BY <1>5, <1>6

(* Rooks and bishops.                                                      *)
LEMMA RookComes ==
  ASSUME NEW c, NEW p, NEW s, NEW t, NEW f, NEW K, NEW a, NEW b, Played(c, p, rook, s, t, f, K, a, b)
  PROVE  IsMateIn1Ply(c, p) # {}
<1>1. /\ IsPosition(p) /\ Copies(p) /\ c \in Colour /\ s \in Square /\ K \in Square /\ t \in Square
      /\ p.board[s] = Signed(c, rook) /\ K = Target(c, p) /\ K = p.sq_king[Flip(c)] /\ Ready(c, p)
      /\ Away(c, t, K, a, b) /\ f \in BOOLEAN
      /\ f => s \in Zone(c) \/ t \in Zone(c)
      /\ Contacts(c, Becoming(rook, f), t, K, a, b)
  BY PlayedIs
<1>2. /\ f => Becoming(rook, f) = dragon
      /\ ~f => Becoming(rook, f) = rook
  BY <1>1, Becomings
<1>3. t \in abb_king_attacks[K] /\ (~f => t \in BothGold(K) /\ (a = 0 \/ b = 0))
  <2>1. rook # knight /\ dragon # knight
    BY DEF knight, rook, dragon
  <2> QED BY <1>1, <1>2, <2>1 DEF Contacts
<1>4. s \in p.bb[c][rook]
  BY <1>1, PiecesHeld, Becomings
<1>5. rook # pawn /\ rook \in Kinds \ {pawn, king}
  BY Becomings DEF rook, pawn
<1>6. PICK near, cross, reach : near = abb_king_attacks[K] /\ cross = BothGold(K) /\ reach = [u \in Square |-> Cross(u)]
  OBVIOUS
<1>7. PICK q, b1 : q = Lifted(c, p, s) /\ b1 = Emptied(p.board, s)
  OBVIOUS
<1>8. Catches(c, b1, Becoming(rook, f), t, K, RookReach(c, p, s)[t])
  <2>1. AsSeen(c, q, b1)
    <3>1. Comer(c, p, rook, s, K)
      BY <1>1, <1>5 DEF Comer
    <3> QED BY <1>7, <3>1, ComerIsLifted
  <2>2. RookReach(c, p, s)[t] = DragonReach(K, q)[t]
    BY <1>1, <1>7 DEF RookReach
  <2>3. /\ Catches(c, b1, dragon, t, K, RookReach(c, p, s)[t])
        /\ a = 0 \/ b = 0 => Catches(c, b1, rook, t, K, RookReach(c, p, s)[t])
    BY <1>1, <1>3, <2>1, <2>2, DragonsCatch
  <2> QED BY <1>1, <1>2, <1>3, <2>3
<1>9. /\ Coming(c, p, s, Promoting(c, s, near), TRUE, RookReach(c, p, s)) \subseteq mate_by_rook(c, p)
      /\ Coming(c, p, s, Plainly(c, s, cross), FALSE, reach) \subseteq mate_by_rook(c, p)
  <2> DEFINE Comers(u) == Coming(c, p, u, Promoting(c, u, near), TRUE, RookReach(c, p, u))
                            \cup Coming(c, p, u, Plainly(c, u, cross), FALSE, reach)
  <2>1. mate_by_rook(c, p) = UNION {Comers(u) : u \in p.bb[c][rook]}
    BY <1>1, <1>6 DEF mate_by_rook
  <2>2. /\ Coming(c, p, s, Promoting(c, s, near), TRUE, RookReach(c, p, s)) \subseteq Comers(s)
        /\ Coming(c, p, s, Plainly(c, s, cross), FALSE, reach) \subseteq Comers(s)
    OBVIOUS
  <2> HIDE DEF Comers
  <2>3. Comers(s) \subseteq mate_by_rook(c, p)
    BY <1>4, <2>1
  <2> QED BY <2>2, <2>3
<1>10. CASE t \in Promoting(c, s, near)
  <2>1. Coming(c, p, s, Promoting(c, s, near), TRUE, RookReach(c, p, s)) # {}
    BY <1>3, <1>5, <1>7, <1>8, <1>10, MateIsComing
  <2> QED BY <1>1, <1>9, <2>1, AnyPartWillDo
<1>11. CASE t \notin Promoting(c, s, near)
  <2>1. s \notin Zone(c) /\ t \notin Zone(c)
    BY <1>3, <1>6, <1>11 DEF Promoting
  <2>2. ~f /\ t \in Plainly(c, s, cross)
    BY <1>1, <1>3, <1>6, <2>1 DEF Plainly
  <2>3. Catches(c, Emptied(p.board, s), Becoming(rook, f), t, K, reach[t])
    <3>1. Catches(c, b1, rook, t, K, Cross(t))
      BY <1>1, SlidersCatch
    <3> QED BY <1>1, <1>2, <1>6, <1>7, <2>2, <3>1
  <2>4. Coming(c, p, s, Plainly(c, s, cross), FALSE, reach) # {}
    BY <1>3, <1>5, <2>2, <2>3, MateIsComing
  <2> QED BY <1>1, <1>9, <2>4, AnyPartWillDo
<1> QED BY <1>10, <1>11
(* Bishops.                                                                *)
LEMMA BishopComes ==
  ASSUME NEW c, NEW p, NEW s, NEW t, NEW f, NEW K, NEW a, NEW b, Played(c, p, bishop, s, t, f, K, a, b)
  PROVE  IsMateIn1Ply(c, p) # {}
<1>1. /\ IsPosition(p) /\ Copies(p) /\ c \in Colour /\ s \in Square /\ K \in Square /\ t \in Square
      /\ p.board[s] = Signed(c, bishop) /\ K = Target(c, p) /\ K = p.sq_king[Flip(c)] /\ Ready(c, p)
      /\ Away(c, t, K, a, b) /\ f \in BOOLEAN
      /\ f => s \in Zone(c) \/ t \in Zone(c)
      /\ Contacts(c, Becoming(bishop, f), t, K, a, b)
  BY PlayedIs
<1>2. /\ f => Becoming(bishop, f) = horse
      /\ ~f => Becoming(bishop, f) = bishop
  BY <1>1, Becomings
<1>3. t \in abb_king_attacks[K] /\ (~f => t \in BothSilver(K))
  <2>1. bishop # knight /\ horse # knight
    BY DEF knight, bishop, horse
  <2> QED BY <1>1, <1>2, <2>1 DEF Contacts
<1>4. s \in p.bb[c][bishop]
  BY <1>1, PiecesHeld, Becomings
<1>5. bishop # pawn
  BY DEF bishop, pawn
<1>6. PICK near, saltire, reach :
        near = abb_king_attacks[K] /\ saltire = BothSilver(K) /\ reach = [u \in Square |-> Saltire(u)]
  OBVIOUS
<1>7. PICK b1 : b1 = Emptied(p.board, s)
  OBVIOUS
<1>8. Catches(c, b1, Becoming(bishop, f), t, K, HorseReach[t])
  <2>1. Catches(c, b1, bishop, t, K, HorseReach[t]) /\ Catches(c, b1, horse, t, K, HorseReach[t])
    BY <1>1, SlidersCatch
  <2> QED BY <1>1, <1>2, <2>1
<1>9. /\ Coming(c, p, s, Promoting(c, s, near), TRUE, HorseReach) \subseteq mate_by_bishop(c, p)
      /\ Coming(c, p, s, Plainly(c, s, saltire), FALSE, reach) \subseteq mate_by_bishop(c, p)
  <2> DEFINE Comers(u) == Coming(c, p, u, Promoting(c, u, near), TRUE, HorseReach)
                            \cup Coming(c, p, u, Plainly(c, u, saltire), FALSE, reach)
  <2>1. mate_by_bishop(c, p) = UNION {Comers(u) : u \in p.bb[c][bishop]}
    BY <1>1, <1>6 DEF mate_by_bishop
  <2>2. /\ Coming(c, p, s, Promoting(c, s, near), TRUE, HorseReach) \subseteq Comers(s)
        /\ Coming(c, p, s, Plainly(c, s, saltire), FALSE, reach) \subseteq Comers(s)
    OBVIOUS
  <2> HIDE DEF Comers
  <2>3. Comers(s) \subseteq mate_by_bishop(c, p)
    BY <1>4, <2>1
  <2> QED BY <2>2, <2>3
<1>10. CASE t \in Promoting(c, s, near)
  <2>1. Coming(c, p, s, Promoting(c, s, near), TRUE, HorseReach) # {}
    BY <1>3, <1>5, <1>7, <1>8, <1>10, MateIsComing
  <2> QED BY <1>1, <1>9, <2>1, AnyPartWillDo
<1>11. CASE t \notin Promoting(c, s, near)
  <2>1. s \notin Zone(c) /\ t \notin Zone(c)
    BY <1>3, <1>6, <1>11 DEF Promoting
  <2>2. ~f /\ t \in Plainly(c, s, saltire)
    BY <1>1, <1>3, <1>6, <2>1 DEF Plainly
  <2>3. Catches(c, Emptied(p.board, s), Becoming(bishop, f), t, K, reach[t])
    <3>1. Catches(c, b1, bishop, t, K, Saltire(t))
      BY <1>1, SlidersCatch
    <3> QED BY <1>1, <1>2, <1>6, <1>7, <2>2, <3>1
  <2>4. Coming(c, p, s, Plainly(c, s, saltire), FALSE, reach) # {}
    BY <1>3, <1>5, <2>2, <2>3, MateIsComing
  <2> QED BY <1>1, <1>9, <2>4, AnyPartWillDo
<1> QED BY <1>10, <1>11
(* Golds: those that do not already give check.                            *)
LEMMA NotYetThere ==
  ASSUME NEW c, NEW p, NEW k, NEW s, NEW t, NEW f, NEW K, NEW a, NEW b, Played(c, p, k, s, t, f, K, a, b)
  PROVE  /\ s # K
         /\ k \in Golds => s \notin Gold(Flip(c), K)
         /\ k = silver => s \notin Silver(Flip(c), K)
<1>1. /\ IsPosition(p) /\ Copies(p) /\ c \in Colour /\ s \in Square /\ K \in Square
      /\ k \in Kinds \ {king} /\ p.board[s] = Signed(c, k) /\ K = p.sq_king[Flip(c)]
      /\ ~Attacked(p.board, c, K)
  BY PlayedIs
<1>2. s # K
  <2>1. Flip(c) \in Colour /\ Flip(c) # c
    BY <1>1, Flips
  <2>2. p.board[K] = Signed(Flip(c), king) /\ king \in Kinds
    BY <1>1, <2>1, PieceOf, KindsApart
  <2> QED BY <1>1, <2>1, <2>2, SignedIsOne
<1>3. ASSUME Aims(c, k, s, K), abb_obstacle[s][K] = {} PROVE FALSE
  <2>1. Strikes(p.board, c, k, s, K)
    BY <1>1, <1>3 DEF Strikes
  <2>2. \A u \in Square : p.board[u] \in Pieces
    BY <1>1 DEF IsPosition
  <2> QED BY <1>1, <2>1, <2>2, AttackedAre
<1>4. PICK i, j : Away(c, s, K, i, j)
  BY <1>1, AwayIs
<1>5. /\ s \in Gold(Flip(c), K) <=> K \in Gold(c, s)
      /\ s \in Silver(Flip(c), K) <=> K \in Silver(c, s)
  BY <1>1, <1>4, BackShapes
<1>6. /\ \A h \in Golds : K \in Gold(c, s) => Aims(c, h, s, K) /\ abb_obstacle[s][K] = {}
      /\ K \in Silver(c, s) => Aims(c, silver, s, K) /\ abb_obstacle[s][K] = {}
  BY <1>1, StepsAim
<1> QED BY <1>2, <1>3, <1>5, <1>6
(* Golds and promoted pieces that move as golds.                           *)
LEMMA GoldComes ==
  ASSUME NEW c, NEW p, NEW k \in Golds, NEW s, NEW t, NEW f, NEW K, NEW a, NEW b, Played(c, p, k, s, t, f, K, a, b)
  PROVE  IsMateIn1Ply(c, p) # {}
<1>1. /\ IsPosition(p) /\ Copies(p) /\ c \in Colour /\ s \in Square /\ K \in Square /\ t \in Square
      /\ p.board[s] = Signed(c, k) /\ K = Target(c, p) /\ GoldChecks(c, p) = Gold(Flip(c), K)
      /\ Away(c, t, K, a, b) /\ f \in BOOLEAN /\ t \in Reach(c, p, k, s)
      /\ f => k \in Promotable
      /\ Contacts(c, Becoming(k, f), t, K, a, b)
  <2>1. k # pawn
    BY DEF Golds, gold, promote, pawn, lance, knight, silver
  <2> QED BY <2>1, PlayedIs
<1>2. f = FALSE /\ Becoming(k, f) = k
  <2>1. k \notin Promotable
    BY DEF Promotable, Golds, gold, promote, pawn, lance, knight, silver, bishop, rook
  <2> QED BY <1>1, <2>1, Becomings
<1>3. t \in abb_king_attacks[K] /\ t \in Gold(Flip(c), K) /\ k # knight /\ k # pawn
  <2>1. k # knight /\ k # pawn
    BY DEF Golds, gold, promote, pawn, lance, knight, silver
  <2> QED BY <1>1, <1>2, <2>1 DEF Contacts
<1>4. s \in p.union[c].tgold
  BY <1>1, PiecesHeld
<1>5. s \in chk_tbl_gold[c][K]
  <2>1. t \in Gold(c, s)
    <3>1. k \in Golds /\ t \in Reach(c, p, k, s)
      BY <1>1
    <3> QED BY <3>1, ReachOfKinds
  <2>2. s \in Gold(Flip(c), t)
    <3>1. PICK i, j : Away(c, s, t, i, j)
      BY <1>1, AwayIs
    <3> QED BY <1>1, <2>1, <3>1, BackShapes
  <2>3. s # K /\ s \notin Gold(Flip(c), K)
    BY NotYetThere
  <2>4. chk_tbl_gold[c][K] = ComesTo(abb_gold_attacks[Flip(c)], Gold(Flip(c), K)) \ ({K} \cup Gold(Flip(c), K))
    BY <1>1 DEF chk_tbl_gold, Gold
  <2>5. s \in ComesTo(abb_gold_attacks[Flip(c)], Gold(Flip(c), K))
    BY <1>3, <2>2 DEF ComesTo, Gold
  <2> QED BY <2>3, <2>4, <2>5
<1>6. PICK reach : reach = abb_gold_attacks[c]
  OBVIOUS
<1>7. Catches(c, Emptied(p.board, s), Becoming(k, f), t, K, reach[t])
  <2>1. Catches(c, Emptied(p.board, s), k, t, K, Gold(c, t))
    BY <1>1, StepsCatch
  <2> QED BY <1>2, <1>6, <2>1 DEF Gold
<1>8. Coming(c, p, s, GoldChecks(c, p), FALSE, reach) # {}
  BY <1>1, <1>3, <1>7, MateIsComing
<1>9. mate_by_gold(c, p) # {}
  BY <1>1, <1>4, <1>5, <1>6, <1>8 DEF mate_by_gold
<1> QED BY <1>1, <1>9, AnyPartWillDo

(* Silvers.                                                                *)
LEMMA SilverTable ==
  ASSUME NEW c \in Colour, NEW s \in Square, NEW t \in Square, NEW K \in Square, t \in Silver(c, s),
         s # K, s \notin Silver(Flip(c), K),
         \/ t \in Silver(Flip(c), K)
         \/ t \in Gold(Flip(c), K) /\ (s \in Zone(c) \/ t \in Zone(c))
  PROVE  s \in chk_tbl_silver[c][K]
<1>1. PICK i, j : Away(c, s, t, i, j)
  BY AwayIs
<1>2. s \in Silver(Flip(c), t)
  BY <1>1, BackShapes
<1>3. PICK g, v, fourth : /\ g = abb_gold_attacks[Flip(c)] /\ v = abb_silver_attacks[Flip(c)]
                          /\ fourth = {u \in Square : Row(c, u) \in 3..5}
  OBVIOUS
<1>4. chk_tbl_silver[c][K] = (ComesTo(v, v[K]) \cup ComesTo(v, g[K] \cap Zone(c))
                                \cup (ComesTo(v, g[K] \cap fourth) \cap Zone(c))) \ ({K} \cup v[K])
  BY <1>3 DEF chk_tbl_silver
<1>5. s \in v[t] /\ s \notin v[K] /\ v[K] = Silver(Flip(c), K) /\ g[K] = Gold(Flip(c), K)
  BY <1>2, <1>3 DEF Silver, Gold
<1>6. CASE t \in Silver(Flip(c), K)
  <2>1. s \in ComesTo(v, v[K])
    BY <1>5, <1>6 DEF ComesTo
  <2> QED BY <1>4, <1>5, <2>1
<1>7. CASE t \in Gold(Flip(c), K) /\ t \in Zone(c)
  <2>1. s \in ComesTo(v, g[K] \cap Zone(c))
    BY <1>5, <1>7 DEF ComesTo
  <2> QED BY <1>4, <1>5, <2>1
<1>8. CASE t \in Gold(Flip(c), K) /\ t \notin Zone(c) /\ s \in Zone(c)
  <2>1. Row(c, t) \in 3..5
    <3>1. Row(c, s) <= 2 /\ ~(Row(c, t) <= 2)
      BY <1>8 DEF Zone
    <3>2. i \in -1..1
      BY <1>1, StepShapes
    <3>3. i = Row(c, t) - Row(c, s) /\ Row(c, s) \in 0..8 /\ Row(c, t) \in 0..8
      BY <1>1 DEF Away
    <3> QED BY <3>1, <3>2, <3>3
  <2>2. s \in ComesTo(v, g[K] \cap fourth) \cap Zone(c)
    BY <1>3, <1>5, <1>8, <2>1 DEF ComesTo
  <2> QED BY <1>4, <1>5, <2>2
<1> QED BY <1>6, <1>7, <1>8
(* The solver finds a mate by a silver.                                    *)
LEMMA SilverComes ==
  ASSUME NEW c, NEW p, NEW s, NEW t, NEW f, NEW K, NEW a, NEW b, Played(c, p, silver, s, t, f, K, a, b)
  PROVE  IsMateIn1Ply(c, p) # {}
<1>1. /\ IsPosition(p) /\ Copies(p) /\ c \in Colour /\ s \in Square /\ K \in Square /\ t \in Square
      /\ p.board[s] = Signed(c, silver) /\ K = Target(c, p) /\ GoldChecks(c, p) = Gold(Flip(c), K)
      /\ Away(c, t, K, a, b) /\ f \in BOOLEAN /\ t \in Reach(c, p, silver, s)
      /\ f => s \in Zone(c) \/ t \in Zone(c)
      /\ Contacts(c, Becoming(silver, f), t, K, a, b)
  <2>1. silver # pawn
    BY DEF silver, pawn
  <2> QED BY <2>1, PlayedIs
<1>2. /\ f => Becoming(silver, f) \in Golds
      /\ ~f => Becoming(silver, f) = silver
  BY <1>1, Becomings
<1>3. silver # knight /\ silver # pawn /\ knight \notin Golds
  BY DEF silver, knight, pawn, Golds, gold, promote, lance
<1>4. /\ t \in abb_king_attacks[K]
      /\ f => t \in Gold(Flip(c), K)
      /\ ~f => t \in Silver(Flip(c), K)
  BY <1>1, <1>2, <1>3 DEF Contacts
<1>5. s \in p.bb[c][silver]
  BY <1>1, PiecesHeld, Becomings
<1>6. s \in chk_tbl_silver[c][K]
  <2>1. t \in Silver(c, s)
    BY <1>1, ReachOfKinds
  <2>2. s # K /\ s \notin Silver(Flip(c), K)
    BY NotYetThere
  <2> QED BY <1>1, <1>4, <2>1, <2>2, SilverTable
<1>7. PICK reach, plain : reach = abb_gold_attacks[c] /\ plain = abb_silver_attacks[c]
  OBVIOUS
<1>8. PICK P, Q : P = Promoting(c, s, Gold(Flip(c), K)) /\ Q = Silver(Flip(c), K) \ P
  OBVIOUS
<1>9. /\ Coming(c, p, s, P, TRUE, reach) \subseteq mate_by_silver(c, p)
      /\ Coming(c, p, s, Q, FALSE, plain) \subseteq mate_by_silver(c, p)
  <2> DEFINE Comers(u) == Coming(c, p, u, Promoting(c, u, Gold(Flip(c), K)), TRUE, reach)
                            \cup Coming(c, p, u, Silver(Flip(c), K) \ Promoting(c, u, Gold(Flip(c), K)), FALSE, plain)
  <2>1. mate_by_silver(c, p) = UNION {Comers(u) : u \in p.bb[c][silver] \cap chk_tbl_silver[c][K]}
    BY <1>1, <1>7 DEF mate_by_silver
  <2>2. Coming(c, p, s, P, TRUE, reach) \subseteq Comers(s) /\ Coming(c, p, s, Q, FALSE, plain) \subseteq Comers(s)
    BY <1>8
  <2> HIDE DEF Comers
  <2>3. Comers(s) \subseteq mate_by_silver(c, p)
    BY <1>5, <1>6, <2>1
  <2> QED BY <2>2, <2>3
<1>10. /\ \A k \in Golds : Catches(c, Emptied(p.board, s), k, t, K, reach[t])
       /\ Catches(c, Emptied(p.board, s), silver, t, K, plain[t])
       /\ a = -1 => Catches(c, Emptied(p.board, s), silver, t, K, reach[t])
  BY <1>1, <1>7, StepsCatch DEF Gold, Silver
<1>11. CASE t \in P
  <2>1. ~f => a = -1
    <3>1. HAVE ~f
    <3>2. t \in Gold(Flip(c), K)
      BY <1>8, <1>11, PromotingSplits
    <3>3. K \in Gold(c, t) /\ K \in Silver(c, t)
      BY <1>1, <1>4, <3>1, <3>2, BackShapes
    <3>4. /\ (a = -1 /\ b \in -1..1) \/ (a = 0 /\ b \in {-1, 1}) \/ (a = 1 /\ b = 0)
          /\ (a = -1 /\ b \in -1..1) \/ (a = 1 /\ b \in {-1, 1})
      BY <1>1, <3>3, StepShapes
    <3> QED BY <3>4
  <2>2. Catches(c, Emptied(p.board, s), Becoming(silver, f), t, K, reach[t])
    BY <1>1, <1>2, <1>10, <2>1
  <2>3. Coming(c, p, s, P, TRUE, reach) # {}
    BY <1>3, <1>4, <1>11, <2>2, MateIsComing
  <2> QED BY <1>1, <1>9, <2>3, AnyPartWillDo
<1>12. CASE t \notin P
  <2>1. ~f
    BY <1>1, <1>4, <1>8, <1>12 DEF Promoting
  <2>2. t \in Q
    BY <1>4, <1>8, <1>12, <2>1
  <2>3. Catches(c, Emptied(p.board, s), Becoming(silver, f), t, K, plain[t])
    BY <1>2, <1>10, <2>1
  <2>4. Coming(c, p, s, Q, FALSE, plain) # {}
    BY <1>3, <1>4, <2>2, <2>3, MateIsComing
  <2> QED BY <1>1, <1>9, <2>4, AnyPartWillDo
<1> QED BY <1>11, <1>12
(* Knights.                                                                *)
LEMMA KnightComes ==
  ASSUME NEW c, NEW p, NEW s, NEW t, NEW f, NEW K, NEW a, NEW b, Played(c, p, knight, s, t, f, K, a, b)
  PROVE  IsMateIn1Ply(c, p) # {}
<1>1. /\ IsPosition(p) /\ Copies(p) /\ c \in Colour /\ s \in Square /\ K \in Square /\ t \in Square
      /\ p.board[s] = Signed(c, knight) /\ K = Target(c, p) /\ GoldChecks(c, p) = Gold(Flip(c), K)
      /\ Away(c, t, K, a, b) /\ f \in BOOLEAN /\ t \in Reach(c, p, knight, s) /\ t \in Movable(c, p)
      /\ f => s \in Zone(c) \/ t \in Zone(c)
      /\ Contacts(c, Becoming(knight, f), t, K, a, b)
  <2>1. knight # pawn
    BY DEF knight, pawn
  <2> QED BY <2>1, PlayedIs
<1>2. /\ f => Becoming(knight, f) \in Golds
      /\ ~f => Becoming(knight, f) = knight
  BY <1>1, Becomings
<1>3. knight # pawn /\ knight \notin Golds
  BY DEF knight, pawn, Golds, gold, promote, lance, silver
<1>4. /\ f => t \in Gold(Flip(c), K) /\ t \in abb_king_attacks[K]
      /\ ~f => t \in Knight(Flip(c), K) /\ a = -2 /\ b \in {-1, 1}
  BY <1>1, <1>2, <1>3 DEF Contacts
<1>5. s \in p.bb[c][knight]
  BY <1>1, PiecesHeld, Becomings
<1>6. t \in Knight(c, s) /\ Row(c, t) = Row(c, s) - 2 /\ Row(c, s) \in 0..8 /\ Row(c, t) \in 0..8
  BY <1>1, ReachOfKinds, KnightsGoAhead
<1>7. f => t \in Zone(c)
  <2>1. \A u \in Square : u \in Zone(c) <=> Row(c, u) <= 2
    BY DEF Zone
  <2> QED BY <1>1, <1>6, <2>1
<1>8. s \in chk_tbl_knight[c][K]
  <2>1. PICK n, g : n = abb_knight_attacks[Flip(c) + 1] /\ g = abb_gold_attacks[Flip(c)]
    OBVIOUS
  <2>2. chk_tbl_knight[c][K] = ComesTo(n, n[K]) \cup ComesTo(n, g[K] \cap Zone(c))
    BY <1>1, <2>1 DEF chk_tbl_knight
  <2>3. s \in n[t]
    <3>1. PICK i, j : Away(c, s, t, i, j)
      BY <1>1, AwayIs
    <3>2. s \in Knight(Flip(c), t)
      BY <1>1, <1>6, <3>1, BackShapes
    <3> QED BY <2>1, <3>2 DEF Knight
  <2>4. t \in n[K] \/ t \in g[K] \cap Zone(c)
    BY <1>1, <1>4, <1>7, <2>1 DEF Knight, Gold
  <2> QED BY <2>2, <2>3, <2>4 DEF ComesTo
<1>9. PICK golds, reach : golds = Gold(Flip(c), K) \cap Zone(c) \cap Movable(c, p) /\ reach = abb_gold_attacks[c]
  OBVIOUS
<1>10. /\ Knight(c, s) \cap golds # {} => Coming(c, p, s, golds, TRUE, reach) \subseteq mate_by_knight(c, p)
       /\ Knight(c, s) \cap golds = {} => Plain(c, p, s) \subseteq mate_by_knight(c, p)
  <2> DEFINE Comers(u) == IF Knight(c, u) \cap golds # {} THEN Coming(c, p, u, golds, TRUE, reach) ELSE Plain(c, p, u)
  <2>1. mate_by_knight(c, p) = UNION {Comers(u) : u \in p.bb[c][knight] \cap chk_tbl_knight[c][K]}
    BY <1>1, <1>9 DEF mate_by_knight
  <2>2. /\ Knight(c, s) \cap golds # {} => Coming(c, p, s, golds, TRUE, reach) \subseteq Comers(s)
        /\ Knight(c, s) \cap golds = {} => Plain(c, p, s) \subseteq Comers(s)
    OBVIOUS
  <2> HIDE DEF Comers
  <2>3. Comers(s) \subseteq mate_by_knight(c, p)
    BY <1>5, <1>8, <2>1
  <2> QED BY <2>2, <2>3
<1>11. CASE f
  <2>1. t \in Knight(c, s) \cap golds
    BY <1>1, <1>4, <1>6, <1>7, <1>9, <1>11
  <2>2. Catches(c, Emptied(p.board, s), Becoming(knight, f), t, K, reach[t])
    <3>1. \A k \in Golds : Catches(c, Emptied(p.board, s), k, t, K, Gold(c, t))
      BY <1>1, StepsCatch
    <3> QED BY <1>2, <1>9, <1>11, <3>1 DEF Gold
  <2>3. Coming(c, p, s, golds, TRUE, reach) # {}
    BY <1>3, <1>4, <1>11, <2>1, <2>2, MateIsComing
  <2> QED BY <1>1, <1>10, <2>1, <2>3, AnyPartWillDo
<1>12. CASE ~f
  <2>1. Knight(c, s) \cap golds = {}
    <3>1. SUFFICES ASSUME NEW u \in Knight(c, s), u \in golds PROVE FALSE
      OBVIOUS
    <3>2. u \in Square /\ u \in Gold(Flip(c), K)
      BY <1>9, <3>1 DEF Movable
    <3>3. Row(c, u) = Row(c, t)
      BY <1>1, <1>6, <3>1, <3>2, KnightsGoAhead
    <3>4. PICK i, j : Away(c, u, K, i, j)
      BY <1>1, <3>2, AwayIs
    <3>5. K \in Gold(c, u)
      BY <1>1, <3>2, <3>4, BackShapes
    <3>6. i \in -1..1
      BY <1>1, <3>2, <3>4, <3>5, StepShapes
    <3>7. i = a
      BY <1>1, <3>3, <3>4 DEF Away
    <3> QED BY <1>4, <1>12, <3>6, <3>7
  <2>2. MoveMates(c, Lifted(c, p, s), s, t, {})
    <3>1. PICK R : R = {}
      OBVIOUS
    <3>2. Catches(c, Emptied(p.board, s), Becoming(knight, f), t, K, R)
      BY <1>1, <1>2, <1>4, <1>12, <3>1, StepsCatch
    <3> QED BY <3>1, <3>2, PlayedMates
  <2>3. Plain(c, p, s) # {}
    BY <1>1, <1>4, <1>6, <1>12, <2>2 DEF Plain
  <2> QED BY <1>1, <1>10, <2>1, <2>3, AnyPartWillDo
<1> QED BY <1>1, <1>11, <1>12

(* Behind a square, as the side c counts the ranks.                        *)
LEMMA BehindIs ==
  ASSUME NEW c \in Colour, NEW u \in Square, NEW s \in Square, Row(c, u) < Row(c, s), aifile(s) = aifile(u)
  PROVE  s \in Ray(u, IF c = black THEN <<1, 0>> ELSE <<-1, 0>>)
<1>1. PICK ru, fu, rs, fs : ru = u \div 9 /\ fu = u % 9 /\ rs = s \div 9 /\ fs = s % 9
  OBVIOUS
<1>2. ru \in 0..8 /\ fu \in 0..8 /\ rs \in 0..8 /\ fs \in 0..8
  BY <1>1 DEF Square
<1>3. fs = fu
  BY <1>1 DEF aifile
<1>4. (IF c = black THEN ru ELSE 8 - ru) < (IF c = black THEN rs ELSE 8 - rs)
  BY <1>1 DEF Row, airank
<1>5. CASE c = black
  <2>1. PICK d : d = <<1, 0>>
    OBVIOUS
  <2>2. d[1] = 1 /\ d[2] = 0 /\ d \in LineSteps
    BY <2>1 DEF LineSteps, FileSteps, RankSteps
  <2>3. Leads(1, 0, ru, fu, rs, fs)
    BY <1>2, <1>3, <1>4, <1>5 DEF Leads
  <2>4. LeadsTo(d, u, s)
    BY <1>1, <2>2, <2>3 DEF LeadsTo
  <2> QED BY <1>5, <2>1, <2>2, <2>4, RayLeads
<1>6. CASE c # black
  <2>1. PICK d : d = <<-1, 0>>
    OBVIOUS
  <2>2. d[1] = -1 /\ d[2] = 0 /\ d \in LineSteps
    BY <2>1 DEF LineSteps, FileSteps, RankSteps
  <2>3. Leads(-1, 0, ru, fu, rs, fs)
    BY <1>2, <1>3, <1>4, <1>6 DEF Leads
  <2>4. LeadsTo(d, u, s)
    BY <1>1, <2>2, <2>3 DEF LeadsTo
  <2> QED BY <1>6, <2>1, <2>2, <2>4, RayLeads
<1> QED BY <1>5, <1>6
(* Between two squares of a file.                                          *)
LEMMA FileBetween ==
  ASSUME NEW c \in Colour, NEW s \in Square, NEW t \in Square, NEW K \in Square,
         Row(c, t) < Row(c, K), Row(c, K) < Row(c, s), aifile(s) = aifile(K), aifile(t) = aifile(K)
  PROVE  K \in abb_obstacle[s][t]
<1>1. PICK rt, ft, rs, fs, rk, fk : /\ rt = t \div 9 /\ ft = t % 9 /\ rs = s \div 9 /\ fs = s % 9
                                    /\ rk = K \div 9 /\ fk = K % 9
  OBVIOUS
<1>2. rt \in 0..8 /\ ft \in 0..8 /\ rs \in 0..8 /\ fs \in 0..8 /\ rk \in 0..8 /\ fk \in 0..8
  BY <1>1 DEF Square
<1>3. fs = fk /\ ft = fk
  BY <1>1 DEF aifile
<1>4. IF c = black THEN rt < rk /\ rk < rs ELSE rs < rk /\ rk < rt
  <2>1. /\ (IF c = black THEN rt ELSE 8 - rt) < (IF c = black THEN rk ELSE 8 - rk)
        /\ (IF c = black THEN rk ELSE 8 - rk) < (IF c = black THEN rs ELSE 8 - rs)
    BY <1>1 DEF Row, airank
  <2> QED BY <1>2, <2>1
<1>5. /\ K > s <=> (rk > rs \/ (rk = rs /\ fk > fs))
      /\ t > K <=> (rt > rk \/ (rt = rk /\ ft > fk))
      /\ K = s <=> (rk = rs /\ fk = fs)
      /\ K = t <=> (rk = rt /\ fk = ft)
      /\ K \in Int /\ t \in Int
  BY <1>1, SquareOrder DEF Square
<1>6. K # s /\ K # t /\ (K > s <=> K < t)
  BY <1>2, <1>3, <1>4, <1>5
<1>7. Joined(2, s, t) /\ Joined(2, s, K)
  BY <1>1, <1>3, JoinedBy
<1>8. abb_obstacle[s][t] = {v \in Square \ {s, t} : (v > s <=> v < t) /\ \E e \in 2..5 : Joined(e, s, t) /\ Joined(e, s, v)}
  BY DEF abb_obstacle
<1> QED BY <1>6, <1>7, <1>8

(* Lances.                                                                 *)
LEMMA LanceTable ==
  ASSUME NEW c \in Colour, NEW s \in Square, NEW t \in Square, NEW K \in Square, Aims(c, lance, s, t),
         s # K, K \notin abb_obstacle[s][t], NEW a, NEW b, Away(c, t, K, a, b),
         \/ a = -1 /\ b = 0
         \/ t \in Gold(Flip(c), K) /\ t \in Zone(c)
  PROVE  s \in chk_tbl_lance[c][K]
<1>1. PICK i, j : Away(c, s, t, i, j)
  BY AwayIs
<1>2. i < 0 /\ j = 0
  <2>1. lance \in Kinds /\ lance \notin Golds \cup {silver, knight, pawn, bishop, rook, horse, dragon}
    BY KindsApart, Becomings DEF Kinds, Golds, gold, promote, lance, silver, knight, pawn, bishop, rook, horse, dragon
  <2> QED BY <1>1, <2>1, AimShapes
<1>3. PICK rs, rt, rk, fs, ft, fk : /\ rs = Row(c, s) /\ rt = Row(c, t) /\ rk = Row(c, K)
                                    /\ fs = aifile(s) /\ ft = aifile(t) /\ fk = aifile(K)
  OBVIOUS
<1>4. /\ rs \in 0..8 /\ rt \in 0..8 /\ rk \in 0..8 /\ fs \in 0..8 /\ ft \in 0..8 /\ fk \in 0..8
      /\ rt < rs /\ fs = ft /\ a = rk - rt /\ b = fk - ft
  BY <1>1, <1>2, <1>3 DEF Away
<1>5. \/ a = -1 /\ b = 0
      \/ a \in {-1, 0} /\ b \in {-1, 1} /\ rt <= 2
      \/ a = 1 /\ b = 0
  <2>1. t \in Gold(Flip(c), K) => (a = -1 /\ b \in -1..1) \/ (a = 0 /\ b \in {-1, 1}) \/ (a = 1 /\ b = 0)
    BY BackShapes, StepShapes
  <2>2. t \in Zone(c) => rt <= 2
    BY <1>3 DEF Zone
  <2> QED BY <2>1, <2>2
<1>6. PICK step : step = IF c = black THEN <<1, 0>> ELSE <<-1, 0>>
  OBVIOUS
<1>7. PICK beside : beside = {u \in Square : airank(u) = airank(K) /\ aifile(u) - aifile(K) \in {-1, 1}}
  OBVIOUS
<1>8. chk_tbl_lance[c][K] =
        IF Row(c, K) > 6 THEN {}
        ELSE Ray(K - Ahead(c), step) \cup IF Row(c, K) <= 2 THEN UNION {Ray(u, step) : u \in beside} ELSE {}
  BY <1>6, <1>7 DEF chk_tbl_lance
<1>9. CASE a = -1 /\ b = 0
  <2>1. K = t + Ahead(c)
    BY <1>9, StepShapes
  <2>2. K - Ahead(c) = t
    BY <2>1 DEF Ahead, Square
  <2>3. ~(rk > 6)
    BY <1>4, <1>9
  <2>4. s \in Ray(t, step)
    BY <1>3, <1>4, <1>6, BehindIs
  <2> QED BY <1>3, <1>8, <2>2, <2>3, <2>4
<1>10. CASE a \in {-1, 0} /\ b \in {-1, 1} /\ rt <= 2
  <2>1. PICK x : x = airank(K)
    OBVIOUS
  <2>2. PICK u : u = 9 * x + ft
    OBVIOUS
  <2>3. x \in 0..8
    BY <2>1 DEF airank, Square
  <2>4. u \in Square /\ airank(u) = x /\ aifile(u) = ft
    BY <1>4, <2>2, <2>3 DEF airank, aifile, Square
  <2>5. Row(c, u) = rk
    BY <1>3, <2>1, <2>4 DEF Row
  <2>6. rk < rs /\ rk <= 2 /\ ft - fk \in {-1, 1}
    BY <1>4, <1>10
  <2>7. u \in beside
    BY <1>3, <1>7, <2>1, <2>4, <2>6
  <2>8. s \in Ray(u, step)
    BY <1>3, <1>4, <1>6, <2>4, <2>5, <2>6, BehindIs
  <2>9. ~(rk > 6)
    BY <1>4, <2>6
  <2> QED BY <1>3, <1>8, <2>6, <2>7, <2>8, <2>9
<1>11. ASSUME a = 1, b = 0 PROVE FALSE
  <2>1. rt < rk /\ fs = fk /\ ft = fk /\ rk <= rs
    BY <1>4, <1>11
  <2>2. rk # rs
    <3>1. ASSUME rk = rs PROVE s = K
      BY <1>3, <2>1, <3>1 DEF Row, airank, aifile, Square
    <3> QED BY <3>1
  <2>3. rk < rs
    BY <1>4, <2>1, <2>2
  <2> QED BY <1>3, <2>1, <2>3, FileBetween
<1> QED BY <1>5, <1>9, <1>10, <1>11

(* The solver finds a mate by a lance, promoted where only that is tried.  *)
LEMMA LanceComes ==
  ASSUME NEW c, NEW p, NEW s, NEW t, NEW f, NEW K, NEW a, NEW b, Played(c, p, lance, s, t, f, K, a, b)
  PROVE  IsMateIn1Ply(c, p) # {}
<1>1. /\ IsPosition(p) /\ Copies(p) /\ c \in Colour /\ s \in Square /\ K \in Square /\ t \in Square
      /\ p.board[s] = Signed(c, lance) /\ K = Target(c, p) /\ GoldChecks(c, p) = Gold(Flip(c), K)
      /\ K = p.sq_king[Flip(c)] /\ Away(c, t, K, a, b) /\ f \in BOOLEAN
      /\ f => s \in Zone(c) \/ t \in Zone(c)
      /\ ~f => ~Stuck(c, lance, t)
      /\ StepOf(c, p, lance, s, t)
      /\ Contacts(c, Becoming(lance, f), t, K, a, b)
  BY PlayedIs
<1>2. /\ f => Becoming(lance, f) \in Golds
      /\ ~f => Becoming(lance, f) = lance
      /\ lance \in Kinds
  BY <1>1, Becomings
<1>3. lance # pawn /\ lance # knight /\ lance \notin Golds /\ knight \notin Golds
  BY DEF knight, pawn, Golds, gold, promote, lance, silver
<1>4. /\ f => t \in Gold(Flip(c), K)
      /\ ~f => a = -1 /\ b = 0
      /\ t \in abb_king_attacks[K]
  BY <1>1, <1>2, <1>3 DEF Contacts
<1>5. Aims(c, lance, s, t) /\ abb_obstacle[s][t] \cap Taken(p.board) = {}
  BY <1>1, <1>2, HitsAre DEF StepOf
<1>6. s # K
  BY NotYetThere
<1>7. K \notin abb_obstacle[s][t]
  <2>1. Flip(c) \in Colour /\ p.board[K] = Signed(Flip(c), king) /\ king \in Kinds
    BY <1>1, Flips, PieceOf, KindsApart
  <2>2. K \in Taken(p.board)
    BY <1>1, <2>1, SignedIsOne DEF Taken
  <2> QED BY <1>5, <2>2
<1>8. Row(c, t) < Row(c, s) /\ Row(c, s) \in 0..8 /\ Row(c, t) \in 0..8
  <2>1. RunsAlong(c, lance, s, t)
    BY <1>1, <1>5, SlidersAim
  <2> QED BY <1>1, <2>1, LancesGoAhead
<1>9. f => t \in Zone(c)
  BY <1>1, <1>8 DEF Zone
<1>10. s \in chk_tbl_lance[c][K]
  BY <1>1, <1>4, <1>5, <1>6, <1>7, <1>9, LanceTable
<1>11. s \in p.bb[c][lance]
  BY <1>1, PiecesHeld, Becomings
<1>12. PICK front, T, line1, reach : /\ front = {K - Ahead(c)} \cap {u \in Square : Row(c, u) >= 2}
                                     /\ T = GoldChecks(c, p) \cap Zone(c)
                                     /\ line1 = Line[direc_file] /\ reach = abb_gold_attacks[c]
  OBVIOUS
<1>13. /\ Coming(c, p, s, front, FALSE, line1) \subseteq mate_by_lance(c, p)
       /\ Coming(c, p, s, T, TRUE, reach) \subseteq mate_by_lance(c, p)
  <2> DEFINE Comers(u) == Coming(c, p, u, front, FALSE, line1) \cup Coming(c, p, u, T, TRUE, reach)
  <2>1. mate_by_lance(c, p) = UNION {Comers(u) : u \in p.bb[c][lance] \cap chk_tbl_lance[c][K]}
    BY <1>1, <1>12 DEF mate_by_lance
  <2>2. /\ Coming(c, p, s, front, FALSE, line1) \subseteq Comers(s)
        /\ Coming(c, p, s, T, TRUE, reach) \subseteq Comers(s)
    OBVIOUS
  <2> HIDE DEF Comers
  <2>3. Comers(s) \subseteq mate_by_lance(c, p)
    BY <1>10, <1>11, <2>1
  <2> QED BY <2>2, <2>3
<1>14. CASE f
  <2>1. t \in T
    BY <1>1, <1>4, <1>9, <1>12, <1>14
  <2>2. Catches(c, Emptied(p.board, s), Becoming(lance, f), t, K, reach[t])
    <3>1. \A k \in Golds : Catches(c, Emptied(p.board, s), k, t, K, Gold(c, t))
      BY <1>1, StepsCatch
    <3> QED BY <1>2, <1>12, <1>14, <3>1 DEF Gold
  <2>3. Coming(c, p, s, T, TRUE, reach) # {}
    BY <1>3, <1>4, <2>1, <2>2, MateIsComing
  <2> QED BY <1>1, <1>13, <2>3, AnyPartWillDo
<1>15. CASE ~f /\ Row(c, t) >= 2
  <2>1. t = K - Ahead(c)
    <3>1. K = t + Ahead(c)
      BY <1>1, <1>4, <1>15, StepShapes
    <3> QED BY <1>1, <3>1 DEF Ahead, Square
  <2>2. t \in front
    BY <1>1, <1>12, <1>15, <2>1
  <2>3. Catches(c, Emptied(p.board, s), Becoming(lance, f), t, K, line1[t])
    <3>1. Catches(c, Emptied(p.board, s), lance, t, K, Line[direc_file][t])
      BY <1>1, SlidersCatch
    <3> QED BY <1>2, <1>12, <1>15, <3>1
  <2>4. Coming(c, p, s, front, FALSE, line1) # {}
    BY <1>3, <1>4, <2>2, <2>3, MateIsComing
  <2> QED BY <1>1, <1>13, <2>4, AnyPartWillDo
<1>16. CASE ~f /\ ~(Row(c, t) >= 2)
  <2>1. Row(c, t) = 1
    <3>1. ~(Row(c, t) < 1)
      BY <1>1, <1>3, <1>16 DEF Stuck
    <3> QED BY <1>8, <1>16, <3>1
  <2>2. Row(c, K) = 0
    <3>1. a = Row(c, K) - Row(c, t) /\ Row(c, K) \in 0..8
      BY <1>1 DEF Away
    <3> QED BY <1>4, <1>16, <2>1, <3>1
  <2>3. t \in T
    <3>1. t \in Gold(Flip(c), K)
      BY <1>1, <1>4, <1>16, BackShapes, StepShapes
    <3>2. t \in Zone(c)
      BY <1>1, <2>1 DEF Zone
    <3> QED BY <1>1, <1>12, <3>1, <3>2
  <2>4. Catches(c, Emptied(p.board, s), Becoming(lance, f), t, K, reach[t])
    <3>1. \A R : Catches(c, Emptied(p.board, s), lance, t, K, R)
      BY <1>1, <1>4, <1>16, <2>2, SlidersCatch
    <3> QED BY <1>2, <1>16, <3>1
  <2>5. Coming(c, p, s, T, TRUE, reach) # {}
    BY <1>3, <1>4, <2>3, <2>4, MateIsComing
  <2> QED BY <1>1, <1>13, <2>5, AnyPartWillDo
<1> QED BY <1>1, <1>14, <1>15, <1>16

(* Pawns.                                                                  *)
LEMMA PawnComes ==
  ASSUME NEW c, NEW p, NEW s, NEW t, NEW f, NEW K, NEW a, NEW b, Played(c, p, pawn, s, t, f, K, a, b)
  PROVE  IsMateIn1Ply(c, p) # {}
<1>1. /\ IsPosition(p) /\ Copies(p) /\ c \in Colour /\ s \in Square /\ K \in Square /\ t \in Square
      /\ p.board[s] = Signed(c, pawn) /\ K = Target(c, p) /\ GoldChecks(c, p) = Gold(Flip(c), K)
      /\ K = p.sq_king[Flip(c)] /\ Away(c, t, K, a, b) /\ f \in BOOLEAN /\ t \in Movable(c, p)
      /\ f => s \in Zone(c) \/ t \in Zone(c)
      /\ ~f => ~Stuck(c, pawn, t)
      /\ StepOf(c, p, pawn, s, t)
      /\ Contacts(c, Becoming(pawn, f), t, K, a, b)
  BY PlayedIs
<1>2. /\ f => Becoming(pawn, f) \in Golds
      /\ ~f => Becoming(pawn, f) = pawn
      /\ pawn \in Kinds
  BY <1>1, Becomings, KindsAreNumbers
<1>3. pawn # knight /\ pawn \notin Golds /\ knight \notin Golds
  BY DEF knight, pawn, Golds, gold, promote, lance, silver
<1>4. /\ f => t \in Gold(Flip(c), K)
      /\ ~f => a = -1 /\ b = 0
      /\ t \in abb_king_attacks[K]
  BY <1>1, <1>2, <1>3 DEF Contacts
<1>5. t = s + Ahead(c)
  <2>1. Aims(c, pawn, s, t)
    BY <1>1, <1>2, HitsAre DEF StepOf
  <2>2. PICK i, j : Away(c, s, t, i, j)
    BY <1>1, AwayIs
  <2>3. i = -1 /\ j = 0
    BY <1>1, <1>2, <2>1, <2>2, AimShapes
  <2> QED BY <1>1, <2>2, <2>3, StepShapes
<1>6. /\ Row(c, t) = Row(c, s) - 1 /\ Row(c, s) \in 0..8 /\ Row(c, t) \in 0..8
      /\ aifile(s) = aifile(t) /\ t # s /\ s = t - Ahead(c) /\ Ahead(c) \in Int
  <2>1. Ahead(c) \in Int /\ s = t - Ahead(c)
    BY <1>1, <1>5 DEF Ahead, Square
  <2> QED BY <1>1, <1>5, <2>1, PawnsGoAhead
<1>7. PICK r, reach : r = Lifted(c, p, s) /\ reach = abb_gold_attacks[c]
  OBVIOUS
<1>8. PICK golds, below : /\ golds = GoldChecks(c, p) \cap Zone(c) \cap Movable(c, p) \cap p.pawn_atk[c]
                          /\ below = {u \in Square : /\ Row(c, K) \in 2..6
                                                     /\ u = K - 2 * Ahead(c)
                                                     /\ p.board[u] = Signed(c, pawn)
                                                     /\ u + Ahead(c) \in Movable(c, p)}
  OBVIOUS
<1>9. /\ t \in golds /\ PromotionMates(c, r, s, t) => Step(c, p, s) \in mate_by_pawn(c, p)
      /\ s \in below /\ PushMates(c, r, s, t) => Step(c, p, s) \in mate_by_pawn(c, p)
  <2> DEFINE Up(u) == PromotionMates(c, Lifted(c, p, u), u, u + Ahead(c))
             On(u) == PushMates(c, Lifted(c, p, u), u, u + Ahead(c))
             St(u) == Step(c, p, u)
  <2>1. mate_by_pawn(c, p) = {St(u) : u \in {u \in {x - Ahead(c) : x \in golds} : Up(u)}}
                               \cup {St(u) : u \in {u \in below : On(u)}}
    BY <1>1, <1>8 DEF mate_by_pawn
  <2>2. /\ PromotionMates(c, r, s, t) => Up(s)
        /\ PushMates(c, r, s, t) => On(s)
    BY <1>5, <1>7
  <2>3. St(s) = Step(c, p, s)
    OBVIOUS
  <2> HIDE DEF Up, On, St
  <2>4. t \in golds => s \in {x - Ahead(c) : x \in golds}
    BY <1>6
  <2> QED BY <2>1, <2>2, <2>3, <2>4
<1>10. CASE t \in Zone(c)
  <2>1. Catches(c, Emptied(p.board, s), Becoming(pawn, f), t, K, reach[t])
    <3>1. CASE f
      <4>1. \A k \in Golds : Catches(c, Emptied(p.board, s), k, t, K, Gold(c, t))
        BY <1>1, StepsCatch
      <4> QED BY <1>2, <1>7, <3>1, <4>1 DEF Gold
    <3>2. CASE ~f
      <4>1. \A R : Catches(c, Emptied(p.board, s), pawn, t, K, R)
        BY <1>1, <1>4, <3>2, StepsCatch
      <4> QED BY <1>2, <3>2, <4>1
    <3> QED BY <1>1, <3>1, <3>2
  <2>2. MoveMates(c, r, s, t, reach[t]) /\ is_attacked_by(c, r, t)
    <3>1. PICK R : R = reach[t]
      OBVIOUS
    <3>2. Catches(c, Emptied(p.board, s), Becoming(pawn, f), t, K, R)
      BY <2>1, <3>1
    <3>3. MoveMates(c, r, s, t, R) /\ is_attacked_by(c, r, t)
      BY <1>4, <1>7, <3>2, PlayedMates
    <3> QED BY <3>1, <3>3
  <2>3. PromotionMates(c, r, s, t)
    BY <1>7, <2>2 DEF PromotionMates, MatingSquares
  <2>4. t \in golds
    <3>1. t \in Gold(Flip(c), K)
      <4>1. CASE ~f
        BY <1>1, <1>4, <4>1, BackShapes, StepShapes
      <4> QED BY <1>4, <4>1
    <3>2. t \in p.pawn_atk[c]
      <4>1. p.pawn_atk[c] = {u + Ahead(c) : u \in OnBoard(p.board, c, {pawn})}
        BY <1>1 DEF Copies
      <4>2. s \in OnBoard(p.board, c, {pawn})
        BY <1>1 DEF OnBoard
      <4> QED BY <1>5, <4>1, <4>2
    <3> QED BY <1>1, <1>8, <1>10, <3>1, <3>2
  <2> QED BY <1>1, <1>9, <2>3, <2>4, AnyPartWillDo
<1>11. CASE t \notin Zone(c)
  <2>1. f = FALSE /\ Row(c, t) > 2
    <3>1. \A u \in Square : u \in Zone(c) <=> Row(c, u) <= 2
      BY DEF Zone
    <3> QED BY <1>1, <1>6, <1>11, <3>1
  <2>2. K = t + Ahead(c) /\ Row(c, K) \in 2..6 /\ aifile(K) = aifile(t)
    <3>1. K = t + Ahead(c)
      BY <1>1, <1>4, <2>1, StepShapes
    <3>2. Row(c, K) = Row(c, t) - 1 /\ aifile(K) = aifile(t)
      BY <1>1, <3>1, PawnsGoAhead
    <3> QED BY <1>6, <2>1, <3>1, <3>2
  <2>3. s \in below
    <3>1. s = K - 2 * Ahead(c)
      BY <1>1, <1>6, <2>2 DEF Square
    <3> QED BY <1>1, <1>5, <1>8, <2>2, <3>1
  <2>4. PICK R : R = {}
    OBVIOUS
  <2>5. Catches(c, Emptied(p.board, s), Becoming(pawn, f), t, K, R)
    BY <1>1, <1>2, <1>4, <2>1, StepsCatch
  <2>6. MoveMates(c, r, s, t, R) /\ is_attacked_by(c, r, t)
    BY <1>4, <1>7, <2>5, PlayedMates
  <2>7. ~IsDiscover(Flip(c), r, s, t)
    <3>1. Leaves(c, r, p.board, s, p.sq_king[c], p.sq_king[Flip(c)])
      <4>1. Ready(c, p) /\ KingIsSafe(c, p) /\ pawn \in Kinds \ {king}
        BY PlayedIs
      <4> QED BY <1>1, <1>7, <4>1, LiftedLeaves
    <3>2. r.sq_king[Flip(c)] = K
      BY <1>1, <3>1 DEF Leaves
    <3>3. adirec[K][s] = adirec[K][t]
      <4>1. K # s /\ K # t /\ aifile(K) = aifile(s) /\ aifile(K) = aifile(t)
        BY <1>1, <1>6, <2>2, PawnsGoAhead
      <4>2. Joined(2, K, s) /\ Joined(2, K, t)
        BY <1>1, <4>1, JoinedBy DEF aifile
      <4>3. adirec[K][s] = 2 /\ adirec[K][t] = 2
        <5>1. PICK e : e = 2 /\ e \in 2..5
          OBVIOUS
        <5>2. Joined(e, K, s) /\ Joined(e, K, t)
          BY <4>2, <5>1
        <5>3. adirec[K][s] = e
          BY <1>1, <4>1, <5>1, <5>2, DirecIs
        <5>4. adirec[K][t] = e
          BY <1>1, <4>1, <5>1, <5>2, DirecIs
        <5> QED BY <5>1, <5>3, <5>4
      <4> QED BY <4>3
    <3> QED BY <3>2, <3>3 DEF IsDiscover
  <2>8. PushMates(c, r, s, t)
    BY <2>4, <2>6, <2>7 DEF PushMates, DropMates, MoveMates
  <2> QED BY <1>1, <1>9, <2>3, <2>8, AnyPartWillDo
<1> QED BY <1>10, <1>11

(* A drop that mates by contact or as a knight.                            *)
DropPlayed(c, p, k, t, K, a, b) ==
  /\ Ready(c, p) /\ k \in Hands \ {pawn} /\ DropByRules(c, p, k, t) /\ K = p.sq_king[Flip(c)]
  /\ LegalMate(c, p, DropMove(k, t)) /\ Contacts(c, k, t, K, a, b)
(* It passes the tests of the solver.                                      *)
LEMMA DropPlayedMates ==
  ASSUME NEW c, NEW p, NEW k, NEW t, NEW K, NEW a, NEW b, DropPlayed(c, p, k, t, K, a, b),
         NEW R, Catches(c, p.board, k, t, K, R)
  PROVE  DropMates(c, p, t, R) /\ (t \in abb_king_attacks[K] => is_attacked_by(c, p, t))
<1>1. PICK m : m = DropMove(k, t)
  OBVIOUS
<1>2. /\ Ready(c, p) /\ k \in Hands \ {pawn} /\ t \in Square /\ DropByRules(c, p, k, t)
      /\ K = p.sq_king[Flip(c)] /\ LegalMate(c, p, m) /\ Aims(c, k, t, K) /\ abb_obstacle[t][K] = {}
  BY <1>1 DEF DropPlayed, Contacts
<1> QED BY <1>1, <1>2, MatingDropPasses, SMTT(30)
(* The solver finds it, with this piece or with one that does as well.     *)
LEMMA DropIsFound ==
  ASSUME NEW c, NEW p, NEW k, NEW t, NEW K, NEW a, NEW b, DropPlayed(c, p, k, t, K, a, b),
         t \in abb_king_attacks[K], NEW j, p.hand[c][j] # 0, NEW S, t \in S, NEW reach,
         Catches(c, p.board, k, t, K, reach[t])
  PROVE  Contact(c, p, j, S, reach) # {}
<1>1. PICK R : R = reach[t]
  OBVIOUS
<1>2. DropMates(c, p, t, R) /\ is_attacked_by(c, p, t)
  BY <1>1, DropPlayedMates
<1>3. t \in Empty(p)
  BY EmptyIs DEF DropPlayed, Ready, DropByRules
<1>4. t \in {u \in S \cap Empty(p) : is_attacked_by(c, p, u) /\ DropMates(c, p, u, reach[u])}
  BY <1>1, <1>2, <1>3
<1> QED BY <1>4 DEF Contact
(* The drops the solver tries.                                             *)
LEMMA DropParts ==
  ASSUME NEW c, NEW p, NEW K, K = Target(c, p), NEW golds, golds = GoldChecks(c, p),
         NEW silvers, silvers = Silver(Flip(c), K), NEW back, back = Gold(c, K) \cap Silver(c, K)
  PROVE  /\ Contact(c, p, rook, BothGold(K), [t \in Square |-> Cross(t)]) \subseteq mate_by_drop(c, p)
         /\ ~(p.hand[c][rook] > 0) =>
              Contact(c, p, lance, IF Row(c, K) <= 7 THEN {K - Ahead(c)} ELSE {}, Line[direc_file])
                \subseteq mate_by_drop(c, p)
         /\ Contact(c, p, bishop, BothSilver(K), [t \in Square |-> Saltire(t)]) \subseteq mate_by_drop(c, p)
         /\ Contact(c, p, gold, golds \ (IF p.hand[c][rook] > 0 THEN back ELSE {}), abb_gold_attacks[c])
              \subseteq mate_by_drop(c, p)
         /\ Contact(c, p, silver, (IF p.hand[c][gold] > 0 THEN silvers \ golds ELSE silvers)
                                    \cap (IF p.hand[c][bishop] > 0 THEN golds ELSE Square), abb_silver_attacks[c])
              \subseteq mate_by_drop(c, p)
         /\ p.hand[c][knight] > 0 =>
              {DropMove(knight, t) : t \in {t \in Knight(Flip(c), K) \cap Empty(p) : DropMates(c, p, t, {})}}
                \subseteq mate_by_drop(c, p)
<1> DEFINE has(j) == p.hand[c][j] > 0
           Rooks == Contact(c, p, rook, BothGold(K), [t \in Square |-> Cross(t)])
           Lances == Contact(c, p, lance, IF Row(c, K) <= 7 THEN {K - Ahead(c)} ELSE {}, Line[direc_file])
           Bishops == Contact(c, p, bishop, BothSilver(K), [t \in Square |-> Saltire(t)])
           Golden == Contact(c, p, gold, golds \ (IF has(rook) THEN back ELSE {}), abb_gold_attacks[c])
           Silvern == Contact(c, p, silver, (IF has(gold) THEN silvers \ golds ELSE silvers)
                                              \cap (IF has(bishop) THEN golds ELSE Square), abb_silver_attacks[c])
           Knights == {DropMove(knight, t) : t \in {t \in Knight(Flip(c), K) \cap Empty(p) : DropMates(c, p, t, {})}}
<1>1. mate_by_drop(c, p) = Rooks \cup (IF has(rook) THEN {} ELSE Lances) \cup Bishops \cup Golden \cup Silvern
                             \cup IF has(knight) THEN Knights ELSE {}
  BY DEF mate_by_drop
<1>2. /\ Rooks \subseteq mate_by_drop(c, p) /\ (~has(rook) => Lances \subseteq mate_by_drop(c, p))
      /\ Bishops \subseteq mate_by_drop(c, p) /\ Golden \subseteq mate_by_drop(c, p)
      /\ Silvern \subseteq mate_by_drop(c, p) /\ (has(knight) => Knights \subseteq mate_by_drop(c, p))
  <2> HIDE DEF Rooks, Lances, Bishops, Golden, Silvern, Knights, has
  <2> QED BY <1>1
<1> QED BY <1>2

(* Each drop that mates is tried, or a stronger one on the same square.    *)
LEMMA DropComes ==
  ASSUME NEW c, NEW p, NEW k, NEW t, NEW K, NEW a, NEW b, DropPlayed(c, p, k, t, K, a, b)
  PROVE  IsMateIn1Ply(c, p) # {}
<1>1. /\ IsPosition(p) /\ Copies(p) /\ c \in Colour /\ K \in Square /\ t \in Square /\ K = Target(c, p)
      /\ GoldChecks(c, p) = Gold(Flip(c), K) /\ Away(c, t, K, a, b) /\ Contacts(c, k, t, K, a, b)
      /\ k \in Hands \ {pawn} /\ p.hand[c][k] > 0 /\ t \in Empty(p)
  BY EmptyIs DEF DropPlayed, Ready, DropByRules, Contacts, Target, GoldChecks
<1>2. PICK golds, silvers, back : /\ golds = GoldChecks(c, p) /\ silvers = Silver(Flip(c), K)
                                  /\ back = Gold(c, K) \cap Silver(c, K)
  OBVIOUS
<1>3. PICK crosses, saltires : crosses = [u \in Square |-> Cross(u)] /\ saltires = [u \in Square |-> Saltire(u)]
  OBVIOUS
<1>4. PICK line1, g, v : line1 = Line[direc_file] /\ g = abb_gold_attacks[c] /\ v = abb_silver_attacks[c]
  OBVIOUS
<1>5. /\ a \in -8..8 /\ b \in -8..8
      /\ t \in golds <=> (a = -1 /\ b \in -1..1) \/ (a = 0 /\ b \in {-1, 1}) \/ (a = 1 /\ b = 0)
      /\ t \in silvers <=> (a = -1 /\ b \in -1..1) \/ (a = 1 /\ b \in {-1, 1})
      /\ t \in back => a = 1
      /\ t \in BothGold(K) <=> (a = 0 /\ b \in {-1, 1}) \/ (a \in {-1, 1} /\ b = 0)
      /\ t \in BothSilver(K) <=> a \in {-1, 1} /\ b \in {-1, 1}
  <2>1. /\ a \in -8..8 /\ b \in -8..8
        /\ K \in Gold(c, t) <=> (a = -1 /\ b \in -1..1) \/ (a = 0 /\ b \in {-1, 1}) \/ (a = 1 /\ b = 0)
        /\ K \in Silver(c, t) <=> (a = -1 /\ b \in -1..1) \/ (a = 1 /\ b \in {-1, 1})
    BY <1>1, StepShapes
  <2>2. /\ t \in Gold(Flip(c), K) <=> K \in Gold(c, t)
        /\ t \in Silver(Flip(c), K) <=> K \in Silver(c, t)
        /\ t \in Gold(c, K) <=> (a = 1 /\ b \in -1..1) \/ (a = 0 /\ b \in {-1, 1}) \/ (a = -1 /\ b = 0)
        /\ t \in Silver(c, K) <=> (a = 1 /\ b \in -1..1) \/ (a = -1 /\ b \in {-1, 1})
        /\ t \in BothGold(K) <=> (a = 0 /\ b \in {-1, 1}) \/ (a \in {-1, 1} /\ b = 0)
        /\ t \in BothSilver(K) <=> a \in {-1, 1} /\ b \in {-1, 1}
    BY <1>1, BackShapes
  <2>3. t \in back => a = 1
    BY <1>2, <2>1, <2>2
  <2> QED BY <1>1, <1>2, <2>1, <2>2, <2>3
<1>6. /\ \A h \in Golds : Catches(c, p.board, h, t, K, Gold(c, t))
      /\ Catches(c, p.board, silver, t, K, Silver(c, t))
      /\ a = -1 => Catches(c, p.board, silver, t, K, Gold(c, t))
  BY <1>1, StepsCatch
<1>7. /\ Catches(c, p.board, lance, t, K, Line[direc_file][t]) /\ Catches(c, p.board, lance, t, K, Cross(t))
      /\ Catches(c, p.board, rook, t, K, Cross(t)) /\ Catches(c, p.board, bishop, t, K, Saltire(t))
      /\ a = 1 /\ b = 0 => \A h \in Golds : Catches(c, p.board, h, t, K, Cross(t))
      /\ a = 1 /\ b \in {-1, 1} => Catches(c, p.board, silver, t, K, Saltire(t))
  BY <1>1, SlidersCatch
<1>8. /\ crosses[t] = Cross(t) /\ saltires[t] = Saltire(t) /\ line1[t] = Line[direc_file][t]
      /\ g[t] = Gold(c, t) /\ v[t] = Silver(c, t)
  BY <1>1, <1>3, <1>4 DEF Gold, Silver
<1>9. ASSUME k # knight PROVE t \in abb_king_attacks[K]
  BY <1>1, <1>9 DEF Contacts
<1>10. ASSUME NEW D, D \subseteq mate_by_drop(c, p), D # {} PROVE IsMateIn1Ply(c, p) # {}
  BY <1>1, <1>10, AnyPartWillDo
<1>11. /\ Contact(c, p, rook, BothGold(K), crosses) \subseteq mate_by_drop(c, p)
       /\ Contact(c, p, bishop, BothSilver(K), saltires) \subseteq mate_by_drop(c, p)
  BY <1>1, <1>2, <1>3, DropParts
<1>12. Contact(c, p, gold, golds \ (IF p.hand[c][rook] > 0 THEN back ELSE {}), g) \subseteq mate_by_drop(c, p)
  BY <1>1, <1>2, <1>4, DropParts
<1>13. ASSUME p.hand[c][rook] > 0, t \in BothGold(K), k # knight, Catches(c, p.board, k, t, K, Cross(t))
       PROVE  IsMateIn1Ply(c, p) # {}
  <2>1. p.hand[c][rook] # 0
    BY <1>13
  <2>2. Catches(c, p.board, k, t, K, crosses[t])
    BY <1>8, <1>13
  <2>3. Contact(c, p, rook, BothGold(K), crosses) # {}
    BY <1>9, <1>13, <2>1, <2>2, DropIsFound
  <2> QED BY <1>10, <1>11, <2>3
<1>14. ASSUME p.hand[c][bishop] > 0, t \in BothSilver(K), k # knight, Catches(c, p.board, k, t, K, Saltire(t))
       PROVE  IsMateIn1Ply(c, p) # {}
  <2>1. p.hand[c][bishop] # 0
    BY <1>14
  <2>2. Catches(c, p.board, k, t, K, saltires[t])
    BY <1>8, <1>14
  <2>3. Contact(c, p, bishop, BothSilver(K), saltires) # {}
    BY <1>9, <1>14, <2>1, <2>2, DropIsFound
  <2> QED BY <1>10, <1>11, <2>3
<1>15. ASSUME p.hand[c][gold] > 0, t \in golds, ~(p.hand[c][rook] > 0 /\ t \in back), k # knight,
              Catches(c, p.board, k, t, K, Gold(c, t))
       PROVE  IsMateIn1Ply(c, p) # {}
  <2>1. p.hand[c][gold] # 0
    BY <1>15
  <2>2. Catches(c, p.board, k, t, K, g[t])
    BY <1>8, <1>15
  <2>3. PICK S : S = golds \ (IF p.hand[c][rook] > 0 THEN back ELSE {}) /\ t \in S
    BY <1>15
  <2>4. Contact(c, p, gold, S, g) # {}
    BY <1>9, <1>15, <2>1, <2>2, <2>3, DropIsFound
  <2> QED BY <1>10, <1>12, <2>3, <2>4
<1>16. {rook, bishop, lance, gold, silver} \cap {knight} = {} /\ gold \in Golds
  BY DEF rook, bishop, lance, gold, silver, knight, Golds
<1>17. CASE k = rook
  <2>1. t \in BothGold(K)
    BY <1>1, <1>17 DEF Contacts
  <2> QED BY <1>1, <1>7, <1>13, <1>16, <1>17, <2>1
<1>18. CASE k = bishop
  <2>1. t \in BothSilver(K)
    BY <1>1, <1>18 DEF Contacts
  <2> QED BY <1>1, <1>7, <1>14, <1>16, <1>18, <2>1
<1>19. CASE k = gold
  <2>1. t \in golds
    BY <1>1, <1>2, <1>16, <1>19 DEF Contacts
  <2>2. CASE p.hand[c][rook] > 0 /\ t \in back
    <3>1. a = 1 /\ b = 0
      BY <1>5, <2>1, <2>2
    <3>2. Catches(c, p.board, gold, t, K, Cross(t)) /\ t \in BothGold(K)
      BY <1>5, <1>7, <1>16, <3>1
    <3> QED BY <1>13, <1>16, <1>19, <2>2, <3>2
  <2>3. CASE ~(p.hand[c][rook] > 0 /\ t \in back)
    <3>1. Catches(c, p.board, gold, t, K, Gold(c, t))
      BY <1>6, <1>16
    <3> QED BY <1>1, <1>15, <1>16, <1>19, <2>1, <2>3, <3>1
  <2> QED BY <2>2, <2>3
<1>20. CASE k = silver
  <2>1. t \in silvers
    BY <1>1, <1>2, <1>20 DEF Contacts
  <2>2. CASE p.hand[c][gold] > 0 /\ t \in golds
    <3>1. a = -1 /\ t \notin back
      BY <1>5, <2>1, <2>2
    <3>2. Catches(c, p.board, silver, t, K, Gold(c, t))
      BY <1>6, <3>1
    <3> QED BY <1>15, <1>16, <1>20, <2>2, <3>1, <3>2
  <2>3. CASE ~(p.hand[c][gold] > 0 /\ t \in golds) /\ p.hand[c][bishop] > 0 /\ t \notin golds
    <3>1. a = 1 /\ b \in {-1, 1}
      BY <1>5, <2>1, <2>3
    <3>2. Catches(c, p.board, silver, t, K, Saltire(t)) /\ t \in BothSilver(K)
      BY <1>5, <1>7, <3>1
    <3> QED BY <1>14, <1>16, <1>20, <2>3, <3>2
  <2>4. CASE ~(p.hand[c][gold] > 0 /\ t \in golds) /\ ~(p.hand[c][bishop] > 0 /\ t \notin golds)
    <3>1. PICK S : S = (IF p.hand[c][gold] > 0 THEN silvers \ golds ELSE silvers)
                         \cap (IF p.hand[c][bishop] > 0 THEN golds ELSE Square)
      OBVIOUS
    <3>2. t \in S
      BY <1>1, <2>1, <2>4, <3>1
    <3>3. Contact(c, p, silver, S, v) \subseteq mate_by_drop(c, p)
      BY <1>1, <1>2, <1>4, <3>1, DropParts
    <3>4. Catches(c, p.board, k, t, K, v[t]) /\ p.hand[c][k] # 0
      BY <1>1, <1>6, <1>8, <1>20
    <3>5. Contact(c, p, silver, S, v) # {}
      BY <1>9, <1>16, <1>20, <3>2, <3>4, DropIsFound
    <3> QED BY <1>10, <3>3, <3>5
  <2> QED BY <2>2, <2>3, <2>4
<1>21. CASE k = lance
  <2>1. a = -1 /\ b = 0
    BY <1>1, <1>21 DEF Contacts
  <2>2. CASE p.hand[c][rook] > 0
    <3>1. t \in BothGold(K)
      BY <1>5, <2>1
    <3> QED BY <1>7, <1>13, <1>16, <1>21, <2>2, <3>1
  <2>3. CASE ~(p.hand[c][rook] > 0)
    <3>1. PICK S : S = IF Row(c, K) <= 7 THEN {K - Ahead(c)} ELSE {}
      OBVIOUS
    <3>2. t \in S
      <4>1. K = t + Ahead(c)
        BY <1>1, <2>1, StepShapes
      <4>2. t = K - Ahead(c)
        BY <1>1, <4>1 DEF Ahead, Square
      <4>3. Row(c, K) <= 7
        <5>1. a = Row(c, K) - Row(c, t) /\ Row(c, K) \in 0..8 /\ Row(c, t) \in 0..8
          BY <1>1 DEF Away
        <5> QED BY <2>1, <5>1
      <4> QED BY <3>1, <4>2, <4>3
    <3>3. Contact(c, p, lance, S, line1) \subseteq mate_by_drop(c, p)
      BY <1>1, <1>2, <1>4, <2>3, <3>1, DropParts
    <3>4. Catches(c, p.board, k, t, K, line1[t]) /\ p.hand[c][k] # 0
      BY <1>1, <1>7, <1>8, <1>21
    <3>5. Contact(c, p, lance, S, line1) # {}
      BY <1>9, <1>16, <1>21, <3>2, <3>4, DropIsFound
    <3> QED BY <1>10, <3>3, <3>5
  <2> QED BY <2>2, <2>3
<1>22. CASE k = knight
  <2>1. t \in Knight(Flip(c), K) /\ a = -2 /\ b \in {-1, 1}
    BY <1>1, <1>22 DEF Contacts
  <2>2. PICK R : R = {}
    OBVIOUS
  <2>3. Catches(c, p.board, k, t, K, R)
    BY <1>1, <1>22, <2>1, <2>2, StepsCatch
  <2>4. DropMates(c, p, t, {})
    BY <2>2, <2>3, DropPlayedMates
  <2>5. PICK D : D = {DropMove(knight, u) : u \in {u \in Knight(Flip(c), K) \cap Empty(p) : DropMates(c, p, u, {})}}
    OBVIOUS
  <2>6. D \subseteq mate_by_drop(c, p)
    BY <1>1, <1>2, <1>22, <2>5, DropParts
  <2>7. D # {}
    BY <1>1, <2>1, <2>4, <2>5
  <2> QED BY <1>10, <2>6, <2>7
<1>23. k \in {rook, bishop, gold, silver, lance, knight}
  BY <1>1 DEF Hands, rook, bishop, gold, silver, lance, knight, pawn
<1> QED BY <1>17, <1>18, <1>19, <1>20, <1>21, <1>22, <1>23

(* A mate by a piece that itself gives check, from next to the king or as  *)
(* a knight, pawn drops left out: the solver finds one too.                *)
LEMMA ContactStepIsFound ==
  ASSUME NEW c, NEW p, Ready(c, p), NEW K, K = p.sq_king[Flip(c)],
         NEW k \in Kinds, NEW s \in Square, NEW t \in Square, NEW f \in BOOLEAN, ByRules(c, p, k, s, t, f),
         NEW m, m = Board(p, k, f, s, t), LegalMate(c, p, m),
         m.to \in abb_king_attacks[K] \cup Knight(Flip(c), K), K \in Targets(After(p.board, c, m), c, m.to)
  PROVE  IsMateIn1Ply(c, p) # {}
<1>1. IsPosition(p) /\ Copies(p) /\ Alive(p) /\ c \in Colour /\ KingIsSafe(c, p)
  BY DEF Ready
<1>2. PICK j : j = Becoming(k, f)
  OBVIOUS
<1>3. Comes(m) = j
  BY <1>1, <1>2, StepGives
<1>4. K \in Square /\ j \in Kinds /\ BecomesOf(k, j) /\ m.to = t
  BY <1>1, <1>3, StepOnBoard
<1>5. Sees(p.board, c, j, t, K)
  BY <1>1, <1>2, OnlyOpened, SMTT(30)
<1>6. j # king
  <2>1. SUFFICES ASSUME j = king PROVE FALSE
    OBVIOUS
  <2>2. Safe(p.board, c, m)
    BY DEF LegalMate, Legal
  <2> QED BY <1>1, <1>3, <1>5, <2>1, <2>2, KingsSeeNoKing
<1>7. k # king
  <2>1. SUFFICES ASSUME k = king PROVE FALSE
    OBVIOUS
  <2>2. f => k \in Promotable
    BY DEF ByRules
  <2>3. king \notin Promotable
    BY DEF Promotable, king, pawn, lance, knight, silver, bishop, rook
  <2>4. ~f
    BY <2>1, <2>2, <2>3
  <2> QED BY <1>2, <1>6, <2>1, <2>4 DEF Becoming
<1>8. PICK a, b : Contacts(c, j, t, K, a, b)
  BY <1>1, <1>4, <1>5, <1>6, ContactShapes
<1>9. Played(c, p, k, s, t, f, K, a, b)
  BY <1>2, <1>7, <1>8 DEF Played
<1>10. k \in Golds \cup {silver, knight, pawn, lance, bishop, rook, horse, dragon}
  BY <1>7, KindsAreNumbers DEF Kinds, Golds, silver, knight, pawn, lance, bishop, rook, horse, dragon, king, gold, promote
<1>11. CASE k \in Golds
  BY <1>9, <1>11, GoldComes
<1>12. CASE k = silver
  BY <1>9, <1>12, SilverComes
<1>13. CASE k = knight
  BY <1>9, <1>13, KnightComes
<1>14. CASE k = pawn
  BY <1>9, <1>14, PawnComes
<1>15. CASE k = lance
  BY <1>9, <1>15, LanceComes
<1>16. CASE k = bishop
  BY <1>9, <1>16, BishopComes
<1>17. CASE k = rook
  BY <1>9, <1>17, RookComes
<1>18. CASE k \in {horse, dragon}
  BY <1>9, <1>18, DragonComes
<1> QED BY <1>10, <1>11, <1>12, <1>13, <1>14, <1>15, <1>16, <1>17, <1>18
(* A drop that mates.                                                      *)
LEMMA ContactDropIsFound ==
  ASSUME NEW c, NEW p, Ready(c, p), NEW K, K = p.sq_king[Flip(c)],
         NEW k \in Hands \ {pawn}, NEW t \in Square, DropByRules(c, p, k, t),
         NEW m, m = DropMove(k, t), LegalMate(c, p, m),
         m.to \in abb_king_attacks[K] \cup Knight(Flip(c), K)
  PROVE  IsMateIn1Ply(c, p) # {}
<1>1. IsPosition(p) /\ Copies(p) /\ Alive(p) /\ c \in Colour /\ KingIsSafe(c, p)
  BY DEF Ready
<1>2. GivesCheck(p.board, c, m)
  BY DEF LegalMate, GivesMate, Mated, GivesCheck
<1>3. Sees(p.board, c, k, t, K)
  BY <1>1, <1>2, DropChecks
<1>4. K \in Square /\ k \in Kinds \ {king} /\ m.to = t
  BY <1>1, Flips, PieceOf, KindsAreNumbers DEF DropMove, Move
<1>5. PICK a, b : Contacts(c, k, t, K, a, b)
  BY <1>1, <1>3, <1>4, ContactShapes
<1> QED BY <1>5, DropComes DEF DropPlayed
(* Any move that mates.                                                    *)
LEMMA ContactMateIsFound ==
  ASSUME NEW c, NEW p, Ready(c, p), NEW K, K = p.sq_king[Flip(c)], NEW m, LegalMate(c, p, m),
         m.from # Drop2From(pawn), m.to \in abb_king_attacks[K] \cup Knight(Flip(c), K),
         K \in Targets(After(p.board, c, m), c, m.to)
  PROVE  IsMateIn1Ply(c, p) # {}
<1>1. IsPosition(p) /\ Copies(p) /\ Alive(p) /\ c \in Colour
  BY DEF Ready
<1>2. m \in BoardMoves(p.board, c) \/ m \in Drops(p.board, p.hand, c)
  BY DEF LegalMate, Legal, PseudoLegal
<1>3. CASE m \in BoardMoves(p.board, c)
  <2>1. PICK k \in Kinds, s \in Square, t \in Square, f \in BOOLEAN :
          ByRules(c, p, k, s, t, f) /\ m = Board(p, k, f, s, t)
    BY <1>1, <1>3, BoardMovesAre
  <2> QED BY <2>1, ContactStepIsFound
<1>4. CASE m \in Drops(p.board, p.hand, c)
  <2>1. PICK k \in Hands, t \in Square : DropByRules(c, p, k, t) /\ m = DropMove(k, t)
    <3>1. m \in Drops(p.board, p.hand, c) <=> \E k \in Hands, t \in Square : DropByRules(c, p, k, t) /\ m = DropMove(k, t)
      BY <1>1, DropsAre
    <3> QED BY <1>4, <3>1
  <2>2. k # pawn
    BY <2>1 DEF DropMove, Move
  <2> QED BY <2>1, <2>2, ContactDropIsFound
<1> QED BY <1>2, <1>3, <1>4

(* Whenever the search asks, the solver finds a mate in one if there is a  *)
(* mate by a piece that itself gives check, from next to the king or as a  *)
(* knight: the pieces, the squares and the promotions that mate1ply.c      *)
(* skips are never the only way to it.                                     *)
THEOREM NoContactMateIsMissed ==
  Spec => [](Sound /\ ~InCheck(turn, pos) /\ ContactMates # {} => IsMateIn1Ply(turn, pos) # {})
<1>1. ASSUME WalkInv, Sound, ~InCheck(turn, pos), NEW m \in ContactMates
      PROVE  IsMateIn1Ply(turn, pos) # {}
  <2>1. IsPosition(pos) /\ Copies(pos) /\ Alive(pos) /\ turn \in Colour /\ ~InCheck(Flip(turn), pos)
    BY <1>1 DEF WalkInv, Walk, Reached, Sound, Sane
  <2>2. KingIsSafe(turn, pos)
    BY <2>1, Flips DEF KingIsSafe, InCheck
  <2>3. Ready(turn, pos)
    BY <1>1, <2>1, <2>2 DEF Ready
  <2>4. pos.board = board /\ pos.hand = hand
    BY DEF board, hand
  <2>5. PICK K : K = pos.sq_king[Flip(turn)]
    OBVIOUS
  <2>6. Target(turn, pos) = K /\ Waiting = Flip(turn) /\ KingOf(board, Waiting) = K
    BY <2>1, <2>4, <2>5, Flips, TheKingIsThere DEF Waiting, Target
  <2>7. LegalMate(turn, pos, m)
    BY <1>1, <2>4 DEF LegalMate, LegalMoves, ContactMates
  <2>8. /\ m.from # Drop2From(pawn) /\ m.to \in abb_king_attacks[K] \cup Knight(Flip(turn), K)
        /\ K \in Targets(After(pos.board, turn, m), turn, m.to)
    BY <1>1, <2>4, <2>6 DEF ContactMates
  <2> QED BY <2>3, <2>5, <2>7, <2>8, ContactMateIsFound
<1>2. WalkInv => (Sound /\ ~InCheck(turn, pos) /\ ContactMates # {} => IsMateIn1Ply(turn, pos) # {})
  BY <1>1
<1> QED BY <1>2, EveryWalk, PTL

(* At the start of a walk, as the runs check it.                           *)
THEOREM TheContactMatesAreFound == Spec => []ContactMatesAreFound
<1>1. (Sound /\ ~InCheck(turn, pos) /\ ContactMates # {} => IsMateIn1Ply(turn, pos) # {}) => ContactMatesAreFound
  BY DEF ContactMatesAreFound, Quiet, AtStart
<1> QED BY <1>1, NoContactMateIsMissed, PTL
=============================================================================
