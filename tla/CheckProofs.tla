------------------------------ MODULE CheckProofs ------------------------------
(***************************************************************************)
(* Which moves give check, told on the board before they are made: by what *)
(* the piece sees from where it goes, or because it opens a line.  On this *)
(* rests that is_move_check_b and is_move_check_w (search.c) recognise     *)
(* every check, and that b_gen_checks and w_gen_checks (genchk.c) make the *)
(* checks they promise; and that the mates is_b_mate_in_1ply and           *)
(* is_w_mate_in_1ply (mate1ply.c) announce, from the board without the     *)
(* piece that moves, are mates once it has moved.                          *)
(***************************************************************************)
EXTENDS LegalProofs, MatingMoves

(***************************************************************************)
(* What a piece sees from a square.                                        *)
(***************************************************************************)

(* A piece of the kind k of c would hit t from s.                          *)
Sees(b, c, k, s, t) == Aims(c, k, s, t) /\ abb_obstacle[s][t] \cap Taken(b) = {}

(* Over the tables and the copies a piece reaches what it sees, wherever   *)
(* it is put.                                                              *)
LEMMA ReachIsSeen ==
  ASSUME NEW p, IsPosition(p), Copies(p), NEW c \in Colour, NEW k \in Kinds, k # pawn, NEW s \in Square, NEW t
  PROVE  t \in Reach(c, p, k, s) <=> Sees(p.board, c, k, s, t)
<1>1. PICK b : b = p.board
  OBVIOUS
<1>2. PICK q : q = [board |-> [u \in Square |-> IF u = s THEN Signed(c, k) ELSE b[u]]]
  OBVIOUS
<1>3. q.board[s] = Signed(c, k) /\ \A u \in Square : u # s => q.board[u] = b[u]
  BY <1>2
<1>4. Hits(q.board, c, s, t) <=> Aims(c, k, s, t) /\ abb_obstacle[s][t] \cap Taken(q.board) = {}
  BY <1>3, HitsAre
<1>5. Hits(q.board, c, s, t) <=>
        \/ t \in set_attacks(s, Turned(c, StepDirections(k)))
        \/ \E d \in Turned(c, RunDirections(k)) : t \in Ray(s, d) /\ Clear(q.board, s, d, t)
  BY <1>3, HitsOfPiece
<1>6. ASSUME NEW d \in Turned(c, RunDirections(k))
      PROVE  Clear(q.board, s, d, t) <=> Clear(b, s, d, t)
  <2>1. \A u \in Ray(s, d) : u \in Square /\ u # s
    BY RunsAre DEF RunsAlong
  <2> QED BY <1>3, <2>1 DEF Clear
<1>7. RunsTo(b, s, Turned(c, RunDirections(k)), t) <=>
        \E d \in Turned(c, RunDirections(k)) : t \in Ray(s, d) /\ Clear(q.board, s, d, t)
  BY <1>6 DEF RunsTo
<1>8. t \in Square => (abb_obstacle[s][t] \cap Taken(q.board) = {} <=> abb_obstacle[s][t] \cap Taken(b) = {})
  <2>1. t \in Square => s \notin abb_obstacle[s][t]
    BY BetweenApart
  <2>2. \A u \in Square : u # s => (u \in Taken(q.board) <=> u \in Taken(b))
    BY <1>3 DEF Taken
  <2>3. Taken(b) \subseteq Square /\ Taken(q.board) \subseteq Square
    BY DEF Taken
  <2> QED BY <2>1, <2>2, <2>3
<1>9. Aims(c, k, s, t) => t \in Square
  BY AimFacts
<1> QED BY <1>1, <1>4, <1>5, <1>7, <1>8, <1>9, ReachIsRun DEF Sees

(* A pawn sees the square ahead of it.                                     *)
LEMMA PawnsSee ==
  ASSUME NEW b, NEW c \in Colour, NEW s \in Square, NEW t \in Square
  PROVE  Sees(b, c, pawn, s, t) <=> t = s + Ahead(c)
<1>1. PICK q : q = [board |-> [u \in Square |-> IF u = s THEN Signed(c, pawn) ELSE empty]]
  OBVIOUS
<1>2. q.board[s] = Signed(c, pawn) /\ Taken(q.board) \subseteq {s} /\ pawn \in Kinds
  BY <1>1, KindsApart DEF Taken
<1>3. Hits(q.board, c, s, t) <=> t = s + Ahead(c)
  BY <1>2, PawnsHit
<1>4. Hits(q.board, c, s, t) <=> Aims(c, pawn, s, t) /\ abb_obstacle[s][t] \cap Taken(q.board) = {}
  BY <1>2, HitsAre
<1>5. s \notin abb_obstacle[s][t]
  BY BetweenApart
<1>6. t = s + Ahead(c) => abb_obstacle[s][t] = {}
  BY PawnIsNext
<1> QED BY <1>2, <1>3, <1>4, <1>5, <1>6 DEF Sees

(***************************************************************************)
(* A move gives check by what moves, or by what it opens.                  *)
(***************************************************************************)

(* The pieces that attack a square after a move of their side, which did   *)
(* not attack it before: the one that moved, and those it uncovers.        *)
LEMMA AttackedByMoving ==
  ASSUME NEW b, IsBoard(b), NEW c \in Colour, NEW t \in Square, ~Attacked(b, c, t),
         NEW x, NEW y \in Square, x # y, \A k \in Kinds : b[y] # Signed(c, k), NEW j \in Kinds,
         NEW b2, b2 = Moved(b, x, y, Signed(c, j))
  PROVE  Attacked(b2, c, t) <=> Strikes(b2, c, j, y, t) \/ Opens(b, c, x, y, t)
<1>1. \A s \in Square, k \in Kinds : ~Strikes(b, c, k, s, t)
  BY AttackedAre DEF IsBoard
<1>2. /\ IsBoard(b2) /\ b2[y] = Signed(c, j) /\ \A s \in Square \ {x, y} : b2[s] = b[s]
      /\ x \in Square => b2[x] = empty
      /\ Taken(b2) = (Taken(b) \ {x}) \cup {y}
  <2>1. Signed(c, j) \in Pieces /\ Signed(c, j) # empty
    BY SignedIsOne DEF Pieces
  <2> QED BY <2>1, MovedBoard
<1>3. Attacked(b2, c, t) <=> \E s \in Square, k \in Kinds : Strikes(b2, c, k, s, t)
  BY <1>2, AttackedAre DEF IsBoard
<1>4. ASSUME NEW z \in Square, NEW k \in Kinds, Strikes(b2, c, k, z, t), z # y
      PROVE  Remains(b, c, k, z, x, y, t)
  <2>1. b2[z] = Signed(c, k) /\ Aims(c, k, z, t) /\ abb_obstacle[z][t] \cap Taken(b2) = {}
    BY <1>4 DEF Strikes
  <2>2. z # x
    BY <1>2, <2>1, SignedIsOne
  <2> QED BY <1>2, <1>4, <2>1, <2>2 DEF Remains
<1>5. ASSUME NEW z \in Square, NEW k \in Kinds, Remains(b, c, k, z, x, y, t)
      PROVE  Strikes(b2, c, k, z, t)
  <2>1. /\ b[z] = Signed(c, k) /\ z # y /\ Aims(c, k, z, t)
        /\ y \notin abb_obstacle[z][t] /\ abb_obstacle[z][t] \cap Taken(b) \subseteq {x}
    BY <1>5 DEF Remains
  <2>2. z \notin abb_obstacle[z][t]
    BY BetweenApart
  <2>3. z # x
    BY <1>1, <2>1, <2>2 DEF Strikes
  <2> QED BY <1>2, <2>1, <2>3 DEF Strikes
<1>6. Strikes(b2, c, j, y, t) => Attacked(b2, c, t)
  BY <1>3
<1>7. ASSUME NEW k \in Kinds, Strikes(b2, c, k, y, t) PROVE Strikes(b2, c, j, y, t)
  <2>1. b2[y] = Signed(c, k)
    BY <1>7 DEF Strikes
  <2>2. Signed(c, k) = Signed(c, j)
    BY <1>2, <2>1
  <2>3. k = j
    BY <2>2, SignedIsOne
  <2> QED BY <1>7, <2>3
<1> QED BY <1>3, <1>4, <1>5, <1>6, <1>7 DEF Opens

(* A piece comes as it was or promoted: what may run through x has run     *)
(* from there.                                                             *)
BecomesOf(k, j) == j = k \/ (k \in Promotable /\ j = k + promote)
LEMMA RunsThrough ==
  ASSUME NEW c \in Colour, NEW k \in Kinds, NEW j \in Kinds, BecomesOf(k, j), NEW y \in Square, NEW t,
         Aims(c, j, y, t), NEW x \in abb_obstacle[y][t]
  PROVE  Aims(c, k, x, t)
<1>1. t \in Square /\ j \in Running /\ RunsAlong(c, j, y, t)
  BY AimFacts
<1>2. x \in Square /\ x # t /\ x # y
  BY <1>1, BetweenApart
<1>3. PICK e \in 2..5 : Joined(e, y, x) /\ Joined(e, x, t)
  BY <1>1, <1>2, BetweenIs
<1>4. Joined(e, y, t) /\ Joined(e, x, y)
  BY <1>3 DEF Joined
<1>5. \A f \in 2..5 : Joined(f, y, t) => f = e
  BY <1>1, <1>4, OneLineOnly DEF RunsAlong
<1>6. \A s \in Square : /\ t \in abb_plus_rays[s] <=> t > s /\ \E f \in 2..5 : Joined(f, s, t)
                        /\ t \in abb_minus_rays[s] <=> t < s /\ \E f \in 2..5 : Joined(f, s, t)
  BY <1>1 DEF abb_plus_rays, abb_minus_rays, Square
<1>7. (y < x /\ x < t) \/ (t < x /\ x < y)
  BY <1>1, <1>2, BetweenIs
<1>8. t \in RaysAhead(c)[y] => t \in RaysAhead(c)[x]
  BY <1>1, <1>2, <1>3, <1>6, <1>7 DEF RaysAhead, Square
<1>9. \/ k = j
      \/ k = bishop /\ j = horse
      \/ k = rook /\ j = dragon
  BY <1>1 DEF BecomesOf, Promotable, Running, promote, pawn, lance, knight, silver, bishop, rook, horse, dragon
<1>10. RunsAlong(c, k, x, t)
  <2>1. \A f \in 2..5 : Joined(f, y, t) => Joined(f, x, t)
    BY <1>3, <1>5
  <2>2. 2 \in 2..5 /\ 3 \in 2..5 /\ 4 \in 2..5 /\ 5 \in 2..5
    OBVIOUS
  <2>3. Joined(2, y, t) => Joined(2, x, t)
    BY <2>1, <2>2
  <2>4. Joined(3, y, t) => Joined(3, x, t)
    BY <2>1, <2>2
  <2>5. Joined(4, y, t) => Joined(4, x, t)
    BY <2>1, <2>2
  <2>6. Joined(5, y, t) => Joined(5, x, t)
    BY <2>1, <2>2
  <2> QED BY <1>1, <1>2, <1>8, <1>9, <2>3, <2>4, <2>5, <2>6
          DEF RunsAlong, lance, bishop, rook, horse, dragon
<1> QED BY <1>2, <1>10, RunsAre DEF Aims

(* So on a square that was not attacked a move sees what it strikes: the   *)
(* square it has left is in nobody's way.                                  *)
LEMMA DirectIs ==
  ASSUME NEW b, IsBoard(b), NEW c \in Colour, NEW t \in Square, ~Attacked(b, c, t),
         NEW x, NEW y \in Square, x # y, NEW j \in Kinds,
         x \in Square => \E k \in Kinds : b[x] = Signed(c, k) /\ BecomesOf(k, j),
         NEW b2, b2 = Moved(b, x, y, Signed(c, j))
  PROVE  Strikes(b2, c, j, y, t) <=> Sees(b, c, j, y, t)
<1>1. b2[y] = Signed(c, j) /\ Taken(b2) = (Taken(b) \ {x}) \cup {y}
  <2>1. Signed(c, j) \in Pieces /\ Signed(c, j) # empty
    BY SignedIsOne DEF Pieces
  <2> QED BY <2>1, MovedBoard
<1>2. y \notin abb_obstacle[y][t]
  BY BetweenApart
<1>3. Strikes(b2, c, j, y, t) <=> Aims(c, j, y, t) /\ abb_obstacle[y][t] \cap Taken(b) \subseteq {x}
  BY <1>1, <1>2 DEF Strikes
<1>4. ASSUME Aims(c, j, y, t), abb_obstacle[y][t] \cap Taken(b) \subseteq {x}, x \in abb_obstacle[y][t]
      PROVE  FALSE
  <2>1. x \in Square
    BY <1>4, EitherEnd
  <2>2. PICK k \in Kinds : b[x] = Signed(c, k) /\ BecomesOf(k, j)
    BY <2>1
  <2>3. Aims(c, k, x, t)
    BY <1>4, <2>2, RunsThrough
  <2>4. ASSUME NEW v \in abb_obstacle[x][t], v \in Taken(b) PROVE FALSE
    <3>1. v \in Square /\ v # x
      BY <2>1, <2>4, BetweenApart
    <3>2. v \in abb_obstacle[y][t]
      BY <1>4, <2>1, <2>4, <3>1, BetweenParted
    <3> QED BY <1>4, <2>4, <3>1, <3>2
  <2>5. Strikes(b, c, k, x, t)
    BY <2>2, <2>3, <2>4 DEF Strikes
  <2> QED BY <2>1, <2>5, AttackedAre DEF IsBoard
<1> QED BY <1>3, <1>4 DEF Sees

(* A step of the rules on the board: the squares it leaves and enters, and *)
(* what enters.                                                            *)
LEMMA StepOnBoard ==
  ASSUME NEW p, IsPosition(p), Copies(p), NEW c \in Colour, KingIsSafe(c, p), NEW t, t = p.sq_king[Flip(c)],
         NEW k \in Kinds, NEW x \in Square, NEW y \in Square, NEW f \in BOOLEAN, ByRules(c, p, k, x, y, f),
         NEW m, m = Board(p, k, f, x, y), NEW j, j = Comes(m)
  PROVE  /\ t \in Square /\ ~Attacked(p.board, c, t)
         /\ p.board[x] = Signed(c, k) /\ x # y /\ x # t /\ y # t
         /\ \A i \in Kinds : p.board[y] # Signed(c, i)
         /\ j \in Kinds /\ BecomesOf(k, j) /\ m.from = x /\ m.to = y /\ ~IsDrop(m)
         /\ After(p.board, c, m) = Moved(p.board, x, y, Signed(c, j))
<1>1. /\ p.board[x] = Signed(c, k) /\ ~Mine(c, p.board[y]) /\ Hits(p.board, c, x, y)
      /\ f => k \in Promotable
  BY DEF ByRules
<1>2. PICK d \in Colour : d = Flip(c) /\ d # c /\ Flip(d) = c
  BY Flips
<1>3. t \in Square /\ ~Attacked(p.board, c, t) /\ p.board[t] = Signed(d, king)
  <2>1. t \in Square /\ p.board[t] = Signed(d, king)
    BY <1>2, PieceOf
  <2> QED BY <1>2, <2>1, AttackedByTheRules DEF KingIsSafe
<1>4. Mine(c, p.board[x])
  BY <1>1, AbsOfSigned
<1>5. x # t /\ king \in Kinds
  BY <1>1, <1>2, <1>3, KindsApart, SignedIsOne
<1>6. y # t
  BY <1>1, <1>3, <1>4 DEF Attacked
<1>7. \A i \in Kinds : p.board[y] # Signed(c, i)
  BY <1>1, AbsOfSigned
<1>8. m.from = x /\ m.to = y /\ m.piece = k /\ m.promo = f /\ ~IsDrop(m)
  BY PartsOfSteps
<1>9. j = IF f THEN k + promote ELSE k
  BY <1>8 DEF Comes
<1>10. j \in Kinds /\ BecomesOf(k, j)
  BY <1>1, <1>9, KindsAreNumbers DEF BecomesOf
<1>11. After(p.board, c, m) = Moved(p.board, x, y, Signed(c, j))
  <2>1. ~(x > 80)
    BY DEF Square
  <2> QED BY <1>8, <1>9, <2>1 DEF After, Moved, Signed
<1> QED BY <1>1, <1>3, <1>4, <1>5, <1>6, <1>7, <1>8, <1>10, <1>11

(* A move of the board gives check by what it sees or by what it opens.    *)
LEMMA StepChecks ==
  ASSUME NEW p, IsPosition(p), Copies(p), NEW c \in Colour, KingIsSafe(c, p), NEW t, t = p.sq_king[Flip(c)],
         NEW k \in Kinds, NEW x \in Square, NEW y \in Square, NEW f \in BOOLEAN, ByRules(c, p, k, x, y, f),
         NEW m, m = Board(p, k, f, x, y), NEW j, j = Comes(m)
  PROVE  GivesCheck(p.board, c, m) <=> Sees(p.board, c, j, y, t) \/ IsDiscover(Flip(c), p, x, y)
<1>1. PICK d \in Colour : d = Flip(c) /\ d # c /\ Flip(d) = c
  BY Flips
<1>2. PICK b : b = p.board
  OBVIOUS
<1>3. PICK b2 : b2 = Moved(b, x, y, Signed(c, j))
  OBVIOUS
<1>4. IsBoard(b) /\ OnBoard(b, d, {king}) = {t}
  BY <1>1, <1>2 DEF Copies, IsBoard, IsPosition
<1>5. /\ t \in Square /\ ~Attacked(b, c, t)
      /\ b[x] = Signed(c, k) /\ x # y /\ x # t /\ y # t
      /\ \A i \in Kinds : b[y] # Signed(c, i)
      /\ j \in Kinds /\ BecomesOf(k, j)
      /\ After(b, c, m) = b2
  BY <1>2, <1>3, StepOnBoard
<1>6. KingOf(b2, d) = t
  <2>1. Signed(c, j) # Signed(d, king)
    BY <1>1, <1>5, KindsApart, SignedIsOne
  <2> QED BY <1>3, <1>4, <1>5, <2>1, TheKingStays
<1>7. GivesCheck(b, c, m) <=> Attacked(b2, c, t)
  BY <1>1, <1>5, <1>6 DEF GivesCheck, Checked
<1>8. Attacked(b2, c, t) <=> Strikes(b2, c, j, y, t) \/ Opens(b, c, x, y, t)
  BY <1>3, <1>4, <1>5, AttackedByMoving
<1>9. Strikes(b2, c, j, y, t) <=> Sees(b, c, j, y, t)
  BY <1>3, <1>4, <1>5, DirectIs
<1>10. IsDiscover(d, p, x, y) <=> Opens(b, c, x, y, t)
  <2>1. Hits(p.board, c, x, y)
    BY DEF ByRules
  <2> QED BY <1>1, <1>2, <1>5, <2>1, DiscoverIs
<1> QED BY <1>1, <1>2, <1>7, <1>8, <1>9, <1>10

(* A drop gives check by what it sees.                                     *)
LEMMA DropChecks ==
  ASSUME NEW p, IsPosition(p), Copies(p), NEW c \in Colour, KingIsSafe(c, p), NEW t, t = p.sq_king[Flip(c)],
         NEW k, NEW y, DropByRules(c, p, k, y), NEW m, m = DropMove(k, y)
  PROVE  GivesCheck(p.board, c, m) <=> Sees(p.board, c, k, y, t)
<1>1. PICK d \in Colour : d = Flip(c) /\ d # c /\ Flip(d) = c
  BY Flips
<1>2. PICK b : b = p.board
  OBVIOUS
<1>3. PICK x : x = 80 + k
  OBVIOUS
<1>4. k \in Hands /\ y \in Square /\ b[y] = empty /\ k \in Kinds /\ k # king
  <2>1. k \in Hands /\ y \in Square /\ b[y] = empty
    BY <1>2 DEF DropByRules
  <2> QED BY <2>1, KindsAreNumbers
<1>5. m.from = x /\ m.to = y /\ x > 80 /\ x \notin Square /\ x - 80 = k
  BY <1>3, <1>4 DEF DropMove, Move, Drop2From, nsquare, Hands, pawn, rook, Square
<1>6. PICK b2 : b2 = Moved(b, x, y, Signed(c, k))
  OBVIOUS
<1>7. After(b, c, m) = b2
  BY <1>5, <1>6 DEF After, Moved, Signed
<1>8. IsBoard(b) /\ OnBoard(b, d, {king}) = {t}
  BY <1>1, <1>2 DEF Copies, IsBoard, IsPosition
<1>9. t \in Square /\ ~Attacked(b, c, t) /\ b[t] = Signed(d, king)
  <2>1. t \in Square /\ p.board[t] = Signed(d, king)
    BY <1>1, PieceOf
  <2> QED BY <1>1, <1>2, <2>1, AttackedByTheRules DEF KingIsSafe
<1>10. y # t /\ x # t /\ x # y /\ \A i \in Kinds : b[y] # Signed(c, i)
  BY <1>1, <1>4, <1>5, <1>9, KindsApart, SignedIsOne
<1>11. KingOf(b2, d) = t
  <2>1. PICK v : v = Signed(c, k)
    OBVIOUS
  <2>2. v # Signed(d, king)
    BY <1>1, <1>4, <2>1, KindsApart, SignedIsOne
  <2>3. y \in Square /\ y # t /\ x # t /\ t \in Square /\ d \in Colour /\ OnBoard(b, d, {king}) = {t}
    BY <1>1, <1>4, <1>8, <1>9, <1>10
  <2>4. KingOf(Moved(b, x, y, v), d) = t
    BY <2>2, <2>3, TheKingStays
  <2> QED BY <1>6, <2>1, <2>4
<1>12. GivesCheck(b, c, m) <=> Attacked(b2, c, t)
  BY <1>1, <1>7, <1>11 DEF GivesCheck, Checked
<1>13. Attacked(b2, c, t) <=> Strikes(b2, c, k, y, t) \/ Opens(b, c, x, y, t)
  BY <1>4, <1>6, <1>8, <1>9, <1>10, AttackedByMoving
<1>14. Strikes(b2, c, k, y, t) <=> Sees(b, c, k, y, t)
  BY <1>4, <1>5, <1>6, <1>8, <1>9, <1>10, DirectIs
<1>15. ~Opens(b, c, x, y, t)
  <2>1. ASSUME NEW z \in Square, NEW i \in Kinds, Remains(b, c, i, z, x, y, t) PROVE FALSE
    <3>1. x \notin abb_obstacle[z][t]
      BY <1>5, <1>9, <2>1, BetweenApart
    <3>2. Strikes(b, c, i, z, t)
      BY <2>1, <3>1 DEF Remains, Strikes
    <3> QED BY <1>8, <1>9, <3>2, AttackedAre DEF IsBoard
  <2> QED BY <2>1 DEF Opens
<1> QED BY <1>2, <1>12, <1>13, <1>14, <1>15

(* No king gives check where it may go.                                    *)
LEMMA KingsSeeNoKing ==
  ASSUME NEW p, IsPosition(p), Copies(p), NEW c \in Colour, KingIsSafe(c, p), NEW t, t = p.sq_king[Flip(c)],
         NEW k \in Kinds, NEW x \in Square, NEW y \in Square, NEW f \in BOOLEAN, ByRules(c, p, k, x, y, f),
         NEW m, m = Board(p, k, f, x, y), Comes(m) = king, Safe(p.board, c, m)
  PROVE  ~Sees(p.board, c, king, y, t)
<1>1. PICK d \in Colour : d = Flip(c) /\ d # c
  BY Flips
<1>2. PICK b : b = p.board
  OBVIOUS
<1>3. PICK b2 : b2 = Moved(b, x, y, Signed(c, king))
  OBVIOUS
<1>4. /\ t \in Square /\ b[x] = Signed(c, k) /\ x # y /\ x # t /\ y # t
      /\ BecomesOf(k, king) /\ After(b, c, m) = b2
  BY <1>2, <1>3, StepOnBoard
<1>5. k = king
  BY <1>4, KindsAreNumbers DEF BecomesOf
<1>6. IsBoard(b) /\ OnBoard(b, c, {king}) = {x}
  <2>1. IsBoard(b) /\ OnBoard(b, c, {king}) = {p.sq_king[c]}
    BY <1>2 DEF Copies, IsBoard, IsPosition
  <2>2. x \in OnBoard(b, c, {king})
    BY <1>4, <1>5 DEF OnBoard
  <2> QED BY <2>1, <2>2
<1>7. KingOf(b2, c) = y
  BY <1>3, <1>4, <1>6, TheKingMoved
<1>8. king \in Kinds /\ king # pawn
  BY KindsApart
<1>9. ASSUME Sees(b, c, king, y, t) PROVE FALSE
  <2>1. \A s \in Square : Reach(c, p, king, s) = abb_king_attacks[s] /\ Reach(d, p, king, s) = abb_king_attacks[s]
    BY DEF Reach, king, lance, knight, silver, Golds, gold, promote, pawn, bishop, rook, horse, dragon
  <2>2. t \in abb_king_attacks[y]
    BY <1>2, <1>4, <1>8, <1>9, <2>1, ReachIsSeen
  <2>3. y \in abb_king_attacks[t]
    BY <2>2, StepsAreMutual
  <2>4. Sees(b, d, king, t, y)
    BY <1>2, <1>4, <1>8, <2>1, <2>3, ReachIsSeen
  <2>5. b[t] = Signed(d, king)
    BY <1>1, <1>2, PieceOf
  <2>6. /\ IsBoard(b2) /\ Taken(b2) = (Taken(b) \ {x}) \cup {y} /\ b2[t] = b[t]
    <3>1. PICK v : v = Signed(c, king)
      OBVIOUS
    <3>2. v \in Pieces /\ v # empty
      BY <1>8, <3>1, SignedIsOne DEF Pieces
    <3>3. b2 = Moved(b, x, y, v) /\ x # y /\ IsBoard(b)
      BY <1>3, <1>4, <1>6, <3>1
    <3>4. \A s \in Square : b2[s] = IF s = y THEN v ELSE IF s = x THEN empty ELSE b[s]
      BY <3>3 DEF Moved
    <3>5. IsBoard(b2)
      BY <3>2, <3>3, <3>4 DEF IsBoard, Pieces
    <3>6. Taken(b2) = (Taken(b) \ {x}) \cup {y}
      BY <3>2, <3>3, <3>4 DEF Taken
    <3> QED BY <1>4, <3>4, <3>5, <3>6
  <2>7. y \notin abb_obstacle[t][y]
    BY <1>4, BetweenApart
  <2>8. Strikes(b2, d, king, t, y)
    BY <2>4, <2>5, <2>6, <2>7 DEF Sees, Strikes
  <2>9. Attacked(b2, d, y)
    BY <1>4, <1>8, <2>6, <2>8, AttackedAre DEF IsBoard
  <2> QED BY <1>1, <1>2, <1>4, <1>7, <2>9 DEF Safe, Checked
<1> QED BY <1>2, <1>9

(***************************************************************************)
(* is_move_check_b and is_move_check_w.                                    *)
(***************************************************************************)

(* What they test: pawns, kings and the other pieces apart.                *)
LEMMA MoveCheckTests ==
  ASSUME NEW p, IsPosition(p), Copies(p), NEW c \in Colour, NEW t \in Square, t = p.sq_king[Flip(c)],
         NEW m, NEW j \in Kinds, j = Comes(m), NEW y \in Square, y = m.to
  PROVE  IsMoveCheck(c, p, m) <=>
           \/ j # king /\ Sees(p.board, c, j, y, t)
           \/ ~IsDrop(m) /\ IsDiscover(Flip(c), p, m.from, y)
<1>1. IsMoveCheck(c, p, m) <=> is_move_check(c, p, m)
  BY DEF IsMoveCheck, is_move_check_w, Colour
<1>2. Target(c, p) = t
  BY DEF Target
<1>3. CASE j = pawn
  <2>1. is_move_check(c, p, m) <=> t = y + Ahead(c) \/ (~IsDrop(m) /\ IsDiscover(Flip(c), p, m.from, y))
    BY <1>2, <1>3, KindsApart DEF is_move_check
  <2>2. Sees(p.board, c, j, y, t) <=> t = y + Ahead(c)
    BY <1>3, PawnsSee
  <2> QED BY <1>1, <1>3, <2>1, <2>2, KindsApart
<1>4. CASE j = king
  <2>1. is_move_check(c, p, m) <=> ~IsDrop(m) /\ IsDiscover(Flip(c), p, m.from, y)
    BY <1>2, <1>4, KindsApart DEF is_move_check
  <2> QED BY <1>1, <1>4, <2>1
<1>5. CASE j # pawn /\ j # king
  <2>1. is_move_check(c, p, m) <=> t \in Reach(c, p, j, y) \/ (~IsDrop(m) /\ IsDiscover(Flip(c), p, m.from, y))
    BY <1>2, <1>5 DEF is_move_check
  <2>2. t \in Reach(c, p, j, y) <=> Sees(p.board, c, j, y, t)
    BY <1>5, ReachIsSeen
  <2> QED BY <1>1, <1>5, <2>1, <2>2
<1> QED BY <1>3, <1>4, <1>5

(* Of a legal move they tell whether it gives check.                       *)
LEMMA LegalChecks ==
  ASSUME NEW p, IsPosition(p), Copies(p), Alive(p), NEW c \in Colour, KingIsSafe(c, p),
         NEW m \in Legal(p.board, p.hand, c)
  PROVE  IsMoveCheck(c, p, m) <=> GivesCheck(p.board, c, m)
<1>1. PICK t \in Square : t = p.sq_king[Flip(c)]
  BY Flips DEF IsPosition
<1>2. m \in BoardMoves(p.board, c) \cup Drops(p.board, p.hand, c) /\ Safe(p.board, c, m)
  BY DEF Legal, PseudoLegal
<1>3. CASE m \in BoardMoves(p.board, c)
  <2>1. PICK k \in Kinds, x \in Square, y \in Square, f \in BOOLEAN : ByRules(c, p, k, x, y, f) /\ m = Board(p, k, f, x, y)
    BY <1>3, BoardMovesAre
  <2>2. PICK j : j = Comes(m)
    OBVIOUS
  <2>3. j \in Kinds /\ m.from = x /\ m.to = y /\ ~IsDrop(m)
    BY <1>1, <2>1, <2>2, StepOnBoard
  <2>4. GivesCheck(p.board, c, m) <=> Sees(p.board, c, j, y, t) \/ IsDiscover(Flip(c), p, x, y)
    BY <1>1, <2>1, <2>2, StepChecks
  <2>5. IsMoveCheck(c, p, m) <=> \/ j # king /\ Sees(p.board, c, j, y, t)
                                 \/ IsDiscover(Flip(c), p, x, y)
    BY <1>1, <2>2, <2>3, MoveCheckTests
  <2>6. j = king => ~Sees(p.board, c, j, y, t)
    BY <1>1, <1>2, <2>1, <2>2, KingsSeeNoKing
  <2> QED BY <2>4, <2>5, <2>6
<1>4. CASE m \in Drops(p.board, p.hand, c)
  <2>1. PICK k \in Hands, y \in Square : DropByRules(c, p, k, y) /\ m = DropMove(k, y)
    BY <1>4, DropsAre
  <2>2. k \in Kinds /\ k # king
    BY KindsAreNumbers
  <2>3. IsDrop(m) /\ m.to = y /\ Comes(m) = k
    BY <2>1, PartsOfDrops DEF Comes
  <2>4. GivesCheck(p.board, c, m) <=> Sees(p.board, c, k, y, t)
    BY <1>1, <2>1, DropChecks
  <2>5. IsMoveCheck(c, p, m) <=> k # king /\ Sees(p.board, c, k, y, t)
    BY <1>1, <2>2, <2>3, MoveCheckTests
  <2> QED BY <2>2, <2>4, <2>5
<1> QED BY <1>2, <1>3, <1>4

(* Before a move is made, from the squares its piece would see and the     *)
(* line it would open, is_move_check_b and is_move_check_w (search.c) tell *)
(* whether it gives check, in every position the search goes on from: so   *)
(* nsuc_check is right, and the next ply generates evasions when it must.  *)
THEOREM EveryCheckIsRecognised ==
  Spec => [](Sound => \A m \in LegalMoves : IsMoveCheck(turn, pos, m) <=> GivesCheck(board, turn, m))
<1>1. ASSUME WalkInv, Sound, NEW m \in LegalMoves
      PROVE  IsMoveCheck(turn, pos, m) <=> GivesCheck(board, turn, m)
  <2>1. Sane(pos) /\ turn \in Colour /\ ~InCheck(Flip(turn), pos)
    BY <1>1 DEF WalkInv, Walk, Reached, Sound
  <2>2. KingIsSafe(turn, pos)
    BY <2>1, Flips DEF KingIsSafe, InCheck
  <2> QED BY <1>1, <2>1, <2>2, LegalChecks DEF Sane, LegalMoves, board, hand
<1>2. WalkInv => (Sound => \A m \in LegalMoves : IsMoveCheck(turn, pos, m) <=> GivesCheck(board, turn, m))
  BY <1>1
<1> QED BY <1>2, EveryWalk, PTL

(* At the start of a walk, as the runs check it.                           *)
THEOREM TheChecksAreRecognised == Spec => []ChecksAreRecognised
<1>1. (Sound => \A m \in LegalMoves : IsMoveCheck(turn, pos, m) <=> GivesCheck(board, turn, m))
        => ChecksAreRecognised
  BY DEF ChecksAreRecognised, AtStart
<1> QED BY <1>1, EveryCheckIsRecognised, PTL

(***************************************************************************)
(* The checks genchk.c makes, piece by piece: on the squares from which    *)
(* the piece sees the king, or off a line it opens.                        *)
(***************************************************************************)

(* The squares from which a piece of each kind would see K.                *)
SeenFrom(c, p, k, K) ==
  CASE k = lance -> AttackFile(p, K) \cap RaysBehind(c)[K]
    [] k = knight -> Knight(Flip(c), K)
    [] k = silver -> Silver(Flip(c), K)
    [] k \in Golds -> Gold(Flip(c), K)
    [] k = bishop -> AttackBishop(p, K)
    [] k = rook -> AttackRook(p, K)
    [] k = horse -> AttackBishop(p, K) \cup abb_king_attacks[K]
    [] k = dragon -> AttackRook(p, K) \cup abb_king_attacks[K]
LEMMA SeenFromIs ==
  ASSUME NEW c, NEW p, NEW K
  PROVE  /\ SeenFrom(c, p, lance, K) = AttackFile(p, K) \cap RaysBehind(c)[K]
         /\ SeenFrom(c, p, knight, K) = Knight(Flip(c), K)
         /\ SeenFrom(c, p, silver, K) = Silver(Flip(c), K)
         /\ \A k \in Golds : SeenFrom(c, p, k, K) = Gold(Flip(c), K)
         /\ SeenFrom(c, p, bishop, K) = AttackBishop(p, K)
         /\ SeenFrom(c, p, rook, K) = AttackRook(p, K)
         /\ SeenFrom(c, p, horse, K) = AttackBishop(p, K) \cup abb_king_attacks[K]
         /\ SeenFrom(c, p, dragon, K) = AttackRook(p, K) \cup abb_king_attacks[K]
<1>1. /\ \A k \in Golds : k # lance /\ k # knight /\ k # silver
      /\ lance \notin Golds /\ knight \notin Golds /\ silver \notin Golds
      /\ bishop \notin Golds /\ rook \notin Golds /\ horse \notin Golds /\ dragon \notin Golds
  BY DEF Golds, gold, promote, pawn, lance, knight, silver, bishop, rook, horse, dragon
<1>2. /\ SeenFrom(c, p, lance, K) = AttackFile(p, K) \cap RaysBehind(c)[K]
      /\ SeenFrom(c, p, knight, K) = Knight(Flip(c), K)
      /\ SeenFrom(c, p, silver, K) = Silver(Flip(c), K)
      /\ SeenFrom(c, p, bishop, K) = AttackBishop(p, K)
      /\ SeenFrom(c, p, rook, K) = AttackRook(p, K)
      /\ SeenFrom(c, p, horse, K) = AttackBishop(p, K) \cup abb_king_attacks[K]
      /\ SeenFrom(c, p, dragon, K) = AttackRook(p, K) \cup abb_king_attacks[K]
  BY <1>1 DEF SeenFrom, lance, knight, silver, bishop, rook, horse, dragon
<1>3. ASSUME NEW k \in Golds PROVE SeenFrom(c, p, k, K) = Gold(Flip(c), K)
  <2>1. k # bishop /\ k # rook /\ k # horse /\ k # dragon
    BY <1>1
  <2> QED BY <1>1, <2>1 DEF SeenFrom
<1> QED BY <1>2, <1>3

(* From there it sees K.                                                   *)
LEMMA SeesFrom ==
  ASSUME NEW p, IsPosition(p), Copies(p), NEW c \in Colour, NEW k \in Kinds \ {pawn, king},
         NEW t \in Square, NEW K \in Square
  PROVE  t \in SeenFrom(c, p, k, K) <=> Sees(p.board, c, k, t, K)
<1>1. PICK d \in Colour : d = Flip(c) /\ Flip(d) = c
  BY Flips
<1>2. K \in Reach(c, p, k, t) <=> Sees(p.board, c, k, t, K)
  BY ReachIsSeen
<1>3. /\ t \in Knight(d, K) <=> K \in Knight(c, t)
      /\ t \in Silver(d, K) <=> K \in Silver(c, t)
      /\ t \in Gold(d, K) <=> K \in Gold(c, t)
      /\ t \in abb_king_attacks[K] <=> K \in abb_king_attacks[t]
  BY <1>1, StepsAreMutual
<1>4. /\ t \in AttackBishop(p, K) <=> K \in AttackBishop(p, t)
      /\ t \in AttackRook(p, K) <=> K \in AttackRook(p, t)
  BY OnTheLines DEF AttackRook
<1>5. t \in AttackFile(p, K) \cap RaysBehind(c)[K] <=> K \in AttackLance(c, p, t)
  <2>1. RaysBehind(c) = RaysAhead(d) /\ RaysBehind(d) = RaysAhead(c)
    BY <1>1 DEF RaysBehind, RaysAhead, Flip, Colour, black, white
  <2>2. t \in AttackLance(d, p, K) => K \in RaysBehind(d)[t] \cap AttackFile(p, t)
    BY <1>1, LancesAreMutual
  <2>3. K \in AttackLance(c, p, t) => t \in RaysBehind(c)[K] \cap AttackFile(p, K)
    BY LancesAreMutual
  <2> QED BY <2>1, <2>2, <2>3 DEF AttackLance
<1>6. \/ k \in {lance, knight, silver} \/ k \in Golds \/ k \in {king, bishop, rook, horse, dragon}
  BY KindsOfPieces
<1>7. CASE k \in {lance, knight, silver, bishop, rook} \cup Golds
  <2>1. /\ t \in SeenFrom(c, p, lance, K) <=> K \in Reach(c, p, lance, t)
        /\ t \in SeenFrom(c, p, knight, K) <=> K \in Reach(c, p, knight, t)
        /\ t \in SeenFrom(c, p, silver, K) <=> K \in Reach(c, p, silver, t)
        /\ t \in SeenFrom(c, p, bishop, K) <=> K \in Reach(c, p, bishop, t)
        /\ t \in SeenFrom(c, p, rook, K) <=> K \in Reach(c, p, rook, t)
    BY <1>1, <1>3, <1>4, <1>5, SeenFromIs, ReachOfKinds
  <2>2. ASSUME NEW j \in Golds PROVE t \in SeenFrom(c, p, j, K) <=> K \in Reach(c, p, j, t)
    <3>1. SeenFrom(c, p, j, K) = Gold(d, K)
      <4>1. \A i \in Golds : SeenFrom(c, p, i, K) = Gold(Flip(c), K)
        BY SeenFromIs
      <4> QED BY <1>1, <4>1
    <3>2. Reach(c, p, j, t) = Gold(c, t)
      BY ReachOfKinds
    <3> QED BY <1>3, <3>1, <3>2
  <2> QED BY <1>2, <1>7, <2>1, <2>2
<1>8. CASE k \in {horse, dragon}
  <2>1. /\ Reach(c, p, horse, t) = AttackBishop(p, t) \cup abb_king_attacks[t]
        /\ Reach(c, p, dragon, t) = AttackRook(p, t) \cup abb_king_attacks[t]
    BY ReachOfKinds DEF AttackHorse, AttackDragon
  <2> QED BY <1>2, <1>3, <1>4, <1>8, <2>1, SeenFromIs
<1> QED BY <1>6, <1>7, <1>8

(* add_behind_attacks gives the squares off the line that a piece opens.   *)
LEMMA OpenedIs ==
  ASSUME NEW p, NEW c \in Colour, NEW K \in Square, K = p.sq_king[Flip(c)],
         NEW s \in Square, s # K, NEW t \in Square, t # K
  PROVE  t \in Opened(c, p, s) <=> IsDiscover(Flip(c), p, s, t)
<1>1. PICK e : e = adirec[K][s]
  OBVIOUS
<1>2. e # direc_misc <=> e \in 2..5
  BY <1>1, DirecIs
<1>3. ASSUME e \in 2..5 PROVE t \in Line[e][K] <=> e = adirec[K][t]
  <2>1. t \in Line[e][K] <=> Joined(e, K, t)
    BY <1>3 DEF Line
  <2>2. adirec[K][t] = e <=> Joined(e, K, t)
    BY <1>3, DirecIs
  <2> QED BY <2>1, <2>2
<1>4. t \in Opened(c, p, s) <=> e # direc_misc /\ is_pinned_on(Flip(c), p, s, e) /\ t \notin Line[e][K]
  BY <1>1 DEF Opened, add_behind_attacks
<1>5. IsDiscover(Flip(c), p, s, t) <=>
        e # direc_misc /\ e # adirec[K][t] /\ is_pinned_on(Flip(c), p, s, e)
  BY <1>1 DEF IsDiscover
<1> QED BY <1>2, <1>3, <1>4, <1>5

(* A step gives check if its piece would see the king from where it goes,  *)
(* or if it opens a line to it.                                            *)
Becoming(k, f) == IF f THEN k + promote ELSE k
Gives(c, p, k, f, s, t) ==
  Sees(p.board, c, Becoming(k, f), t, p.sq_king[Flip(c)]) \/ IsDiscover(Flip(c), p, s, t)

(* Steps leave the other side's king where it is, while it is not attacked.*)
LEMMA StepsPassTheKing ==
  ASSUME NEW p, IsPosition(p), Copies(p), NEW c \in Colour, KingIsSafe(c, p), NEW K, K = p.sq_king[Flip(c)],
         NEW k \in Kinds, NEW s, NEW t, StepOf(c, p, k, s, t)
  PROVE  K \in Square /\ s \in Square /\ t \in Square /\ s # K /\ t # K
<1>1. s \in Square /\ t \in Square /\ p.board[s] = Signed(c, k) /\ Hits(p.board, c, s, t)
  BY DEF StepOf
<1>2. PICK d \in Colour : d = Flip(c) /\ d # c
  BY Flips
<1>3. K \in Square /\ p.board[K] = Signed(d, king)
  BY <1>2, PieceOf
<1>4. ~Attacked(p.board, c, K)
  BY <1>3, AttackedByTheRules DEF KingIsSafe
<1>5. Mine(c, p.board[s])
  BY <1>1, AbsOfSigned
<1>6. s # K
  BY <1>1, <1>2, <1>3, KindsApart, SignedIsOne
<1>7. t # K
  BY <1>1, <1>4, <1>5 DEF Attacked
<1> QED BY <1>1, <1>3, <1>6, <1>7

(* The steps that Check makes.                                             *)
LEMMA CheckAre ==
  ASSUME NEW p, IsPosition(p), Copies(p), NEW c \in Colour, KingIsSafe(c, p), NEW k \in Kinds, k # pawn,
         NEW S, \A s \in S : s \in Square /\ p.board[s] = Signed(c, k),
         NEW C, NEW f, NEW m
  PROVE  m \in Check(c, p, k, S, C, f) <=>
           \E s \in S, t \in Square : /\ StepOf(c, p, k, s, t) /\ m = Board(p, k, f, s, t)
                                      /\ t \in C \/ IsDiscover(Flip(c), p, s, t)
<1> DEFINE T(s) == (C \cup Opened(c, p, s)) \cap Movable(c, p)
<1>1. m \in Check(c, p, k, S, C, f) <=> \E s \in S : m \in Go(c, p, k, {s}, T(s), f)
  BY DEF Check
<1>2. ASSUME NEW s \in S
      PROVE  m \in Go(c, p, k, {s}, T(s), f) <=>
               \E t \in T(s) : StepOf(c, p, k, s, t) /\ m = Board(p, k, f, s, t)
  <2>1. PICK Z : Z = {s}
    OBVIOUS
  <2>2. PICK Y : Y = T(s)
    OBVIOUS
  <2>3. Y \subseteq Movable(c, p) /\ \A x \in Z : x \in Square /\ p.board[x] = Signed(c, k)
    BY <2>1, <2>2
  <2>4. m \in Go(c, p, k, Z, Y, f) <=>
          \E x \in Z, t \in Y : StepOf(c, p, k, x, t) /\ m = Board(p, k, f, x, t)
    BY <2>3, GoAre
  <2> QED BY <2>1, <2>2, <2>4
<1>3. ASSUME NEW s \in S, NEW t, StepOf(c, p, k, s, t)
      PROVE  t \in T(s) <=> t \in C \/ IsDiscover(Flip(c), p, s, t)
  <2>1. PICK K : K = p.sq_king[Flip(c)]
    OBVIOUS
  <2>2. K \in Square /\ s \in Square /\ t \in Square /\ s # K /\ t # K
    BY <1>3, <2>1, StepsPassTheKing
  <2>3. t \in Opened(c, p, s) <=> IsDiscover(Flip(c), p, s, t)
    BY <2>1, <2>2, OpenedIs
  <2>4. t \in Movable(c, p)
    BY <1>3, <2>2, MovableIs DEF StepOf
  <2> QED BY <2>3, <2>4
<1>4. \A s, t : StepOf(c, p, k, s, t) => t \in Square
  BY DEF StepOf
<1>5. \A s : \A t \in T(s) : t \in Square
  BY DEF Movable
<1> HIDE DEF T
<1> QED BY <1>1, <1>2, <1>3, <1>4, <1>5

(* Where the bitboards of the side have its pieces.                        *)
LEMMA PiecesHeld ==
  ASSUME NEW p, IsPosition(p), Copies(p), NEW c \in Colour
  PROVE  /\ \A k \in BoardKinds : \A s : s \in p.bb[c][k] <=> s \in Square /\ p.board[s] = Signed(c, k)
         /\ \A s : s \in p.union[c].tgold <=> s \in Square /\ \E k \in Golds : p.board[s] = Signed(c, k)
<1>1. \A k \in BoardKinds : \A s : s \in p.bb[c][k] <=> s \in Square /\ p.board[s] = Signed(c, k)
  <2>1. ASSUME NEW k \in BoardKinds, NEW s
        PROVE  s \in p.bb[c][k] <=> s \in Square /\ p.board[s] = Signed(c, k)
    <3>1. k \in Kinds
      BY KindsAreNumbers
    <3> QED BY <3>1, PiecesInCopies, PieceOf
  <2> QED BY <2>1
<1>2. \A s : s \in p.union[c].tgold <=> s \in Square /\ \E k \in Golds : p.board[s] = Signed(c, k)
  BY DEF Copies, OnBoard, Unions
<1> QED BY <1>1, <1>2

(* A step of a piece that is neither pawn nor king: where it gives check.  *)
LEMMA GivesFrom ==
  ASSUME NEW p, IsPosition(p), Copies(p), NEW c \in Colour, KingIsSafe(c, p), NEW K, K = p.sq_king[Flip(c)],
         NEW k \in Kinds, NEW s, NEW t, StepOf(c, p, k, s, t),
         NEW f, NEW j, j = Becoming(k, f), j \in Kinds \ {pawn, king}
  PROVE  Gives(c, p, k, f, s, t) <=> t \in SeenFrom(c, p, j, K) \/ IsDiscover(Flip(c), p, s, t)
<1>1. K \in Square /\ t \in Square
  BY StepsPassTheKing
<1>2. t \in SeenFrom(c, p, j, K) <=> Sees(p.board, c, j, t, K)
  BY <1>1, SeesFrom
<1> QED BY <1>2 DEF Gives

(* The steps that Check makes onto the squares from which the piece would  *)
(* see the king are those that give check.                                 *)
CheckingSteps(c, p, k, S, f, m) ==
  \E s \in S, t \in Square : StepOf(c, p, k, s, t) /\ Gives(c, p, k, f, s, t) /\ m = Board(p, k, f, s, t)
LEMMA CheckGives ==
  ASSUME NEW p, IsPosition(p), Copies(p), NEW c \in Colour, KingIsSafe(c, p),
         NEW k \in Kinds, k # pawn, NEW f, NEW j \in Kinds \ {pawn, king}, j = Becoming(k, f),
         NEW C, C = SeenFrom(c, p, j, Target(c, p)),
         NEW S, \A s \in S : s \in Square /\ p.board[s] = Signed(c, k), NEW m
  PROVE  m \in Check(c, p, k, S, C, f) <=> CheckingSteps(c, p, k, S, f, m)
<1>1. PICK K : K = p.sq_king[Flip(c)]
  OBVIOUS
<1>2. m \in Check(c, p, k, S, C, f) <=>
        \E s \in S, t \in Square : /\ StepOf(c, p, k, s, t) /\ m = Board(p, k, f, s, t)
                                   /\ t \in C \/ IsDiscover(Flip(c), p, s, t)
  BY CheckAre
<1>3. \A s \in S, t \in Square : StepOf(c, p, k, s, t) =>
        (Gives(c, p, k, f, s, t) <=> t \in C \/ IsDiscover(Flip(c), p, s, t))
  BY <1>1, GivesFrom DEF Target
<1> QED BY <1>2, <1>3 DEF CheckingSteps

(* The moves of the pieces of a kind on S that give check, and decline no  *)
(* promotion that the generators force.                                    *)
ChecksFrom(c, p, k, S, m) ==
  \E s \in S, t \in Square, f \in BOOLEAN :
    Forthright(c, p, k, s, t, f) /\ Gives(c, p, k, f, s, t) /\ m = Board(p, k, f, s, t)
LEMMA ChecksOfAll ==
  ASSUME NEW p, IsPosition(p), Copies(p), NEW c \in Colour, NEW k \in BoardKinds, NEW m
  PROVE  ChecksFrom(c, p, k, p.bb[c][k], m) <=> ChecksFrom(c, p, k, Square, m)
<1>1. \A s : s \in p.bb[c][k] <=> s \in Square /\ p.board[s] = Signed(c, k)
  BY PiecesHeld
<1>2. \A s, t, f : Forthright(c, p, k, s, t, f) => p.board[s] = Signed(c, k)
  BY DEF Forthright, ByRules
<1> QED BY <1>1, <1>2 DEF ChecksFrom

(* Pieces that do not promote.                                             *)
LEMMA PlainChecks ==
  ASSUME NEW p, IsPosition(p), Copies(p), NEW c \in Colour, KingIsSafe(c, p),
         NEW k \in Golds \cup {horse, dragon}, NEW C, C = SeenFrom(c, p, k, Target(c, p)),
         NEW S, \A s \in S : s \in Square /\ p.board[s] = Signed(c, k), NEW m
  PROVE  m \in Check(c, p, k, S, C, FALSE) <=> ChecksFrom(c, p, k, S, m)
<1>1. PICK f \in BOOLEAN : f = FALSE
  OBVIOUS
<1>2. k \in Kinds /\ k \in Kinds \ {pawn, king} /\ k # pawn /\ k = Becoming(k, f)
  BY <1>1, KindsApart DEF Becoming, BoardKinds
<1>3. m \in Check(c, p, k, S, C, f) <=> CheckingSteps(c, p, k, S, f, m)
  BY <1>2, CheckGives
<1>4. ASSUME NEW s, NEW t, NEW h \in BOOLEAN
      PROVE  Forthright(c, p, k, s, t, h) <=> StepOf(c, p, k, s, t) /\ ~h
  <2>1. Forthright(c, p, k, s, t, h) => StepOf(c, p, k, s, t)
    BY <1>2, PlaysAreSteps
  <2> QED BY <1>2, <2>1, ForthrightAre
<1> QED BY <1>1, <1>3, <1>4 DEF ChecksFrom, CheckingSteps
(* Golds and the pieces that move like them.                               *)
LEMMA GoldsCheck ==
  ASSUME NEW p, IsPosition(p), Copies(p), NEW c \in Colour, KingIsSafe(c, p), NEW m
  PROVE  m \in checks_by_gold(c, p) <=> \E k \in Golds : ChecksFrom(c, p, k, Square, m)
<1>1. PICK C : C = GoldChecks(c, p)
  OBVIOUS
<1>2. \A s : s \in p.union[c].tgold <=> s \in Square /\ \E k \in Golds : p.board[s] = Signed(c, k)
  BY PiecesHeld
<1>3. ASSUME NEW k \in Golds, NEW s \in Square, p.board[s] = Signed(c, k)
      PROVE  m \in Check(c, p, Kind(p, s), {s}, C, FALSE) <=> ChecksFrom(c, p, k, {s}, m)
  <2>1. Kind(p, s) = k
    BY <1>3, KindOfSigned, KindsApart
  <2>2. C = SeenFrom(c, p, k, Target(c, p))
    <3>1. \A i \in Golds : SeenFrom(c, p, i, Target(c, p)) = Gold(Flip(c), Target(c, p))
      BY SeenFromIs
    <3> QED BY <1>1, <3>1 DEF GoldChecks
  <2>3. PICK S : S = {s}
    OBVIOUS
  <2>4. \A z \in S : z \in Square /\ p.board[z] = Signed(c, k)
    BY <1>3, <2>3
  <2>5. m \in Check(c, p, k, S, C, FALSE) <=> ChecksFrom(c, p, k, S, m)
    BY <2>2, <2>4, PlainChecks
  <2> QED BY <2>1, <2>3, <2>5
<1>4. ASSUME NEW k \in Golds, NEW s \in Square, ChecksFrom(c, p, k, {s}, m)
      PROVE  p.board[s] = Signed(c, k)
  BY <1>4 DEF ChecksFrom, Forthright, ByRules
<1>5. m \in checks_by_gold(c, p) <=> \E s \in p.union[c].tgold : m \in Check(c, p, Kind(p, s), {s}, C, FALSE)
  BY <1>1 DEF checks_by_gold
<1>6. ASSUME m \in checks_by_gold(c, p) PROVE \E k \in Golds : ChecksFrom(c, p, k, Square, m)
  <2>1. PICK s \in p.union[c].tgold : m \in Check(c, p, Kind(p, s), {s}, C, FALSE)
    BY <1>5, <1>6
  <2>2. PICK k \in Golds : s \in Square /\ p.board[s] = Signed(c, k)
    BY <1>2, <2>1
  <2>3. ChecksFrom(c, p, k, {s}, m)
    BY <1>3, <2>1, <2>2
  <2>4. ChecksFrom(c, p, k, Square, m)
    BY <2>2, <2>3 DEF ChecksFrom
  <2> QED BY <2>4
<1>7. ASSUME NEW k \in Golds, ChecksFrom(c, p, k, Square, m) PROVE m \in checks_by_gold(c, p)
  <2>1. PICK s \in Square : ChecksFrom(c, p, k, {s}, m)
    BY <1>7 DEF ChecksFrom
  <2>2. p.board[s] = Signed(c, k)
    BY <1>4, <2>1
  <2>3. m \in Check(c, p, Kind(p, s), {s}, C, FALSE) /\ s \in p.union[c].tgold
    BY <1>2, <1>3, <2>1, <2>2
  <2> QED BY <1>5, <2>3
<1> QED BY <1>6, <1>7

(* The king, which gives no check itself, and horses and dragons.          *)
KingOpens(c, p, m) ==
  \E s \in Square, t \in Square :
    StepOf(c, p, king, s, t) /\ IsDiscover(Flip(c), p, s, t) /\ m = Board(p, king, FALSE, s, t)
LEMMA PromotedCheck ==
  ASSUME NEW p, IsPosition(p), Copies(p), NEW c \in Colour, KingIsSafe(c, p), NEW m
  PROVE  m \in checks_by_promoted(c, p) <=>
           \/ KingOpens(c, p, m)
           \/ \E k \in {horse, dragon} : ChecksFrom(c, p, k, Square, m)
<1>1. PICK K : K = Target(c, p)
  OBVIOUS
<1>2. m \in checks_by_promoted(c, p) <=>
        \/ m \in Check(c, p, king, {p.sq_king[c]}, {}, FALSE)
        \/ m \in Check(c, p, dragon, p.bb[c][dragon], AttackRook(p, K) \cup abb_king_attacks[K], FALSE)
        \/ m \in Check(c, p, horse, p.bb[c][horse], AttackBishop(p, K) \cup abb_king_attacks[K], FALSE)
  BY <1>1 DEF checks_by_promoted
<1>3. ASSUME NEW k \in {horse, dragon}, NEW C, C = SeenFrom(c, p, k, K)
      PROVE  m \in Check(c, p, k, p.bb[c][k], C, FALSE) <=> ChecksFrom(c, p, k, Square, m)
  <2>1. PICK S : S = p.bb[c][k]
    OBVIOUS
  <2>2. k \in BoardKinds
    BY KindsApart
  <2>3. \A s \in S : s \in Square /\ p.board[s] = Signed(c, k)
    BY <2>1, <2>2, PiecesHeld
  <2>4. m \in Check(c, p, k, S, C, FALSE) <=> ChecksFrom(c, p, k, S, m)
    BY <1>1, <1>3, <2>3, PlainChecks
  <2> QED BY <2>1, <2>2, <2>4, ChecksOfAll
<1>4. m \in Check(c, p, king, {p.sq_king[c]}, {}, FALSE) <=> KingOpens(c, p, m)
  <2>1. PICK S : S = {p.sq_king[c]}
    OBVIOUS
  <2>2. PICK C : C = {}
    OBVIOUS
  <2>3. OnBoard(p.board, c, {king}) = {p.sq_king[c]}
    BY DEF Copies
  <2>4. \A s : s \in S <=> s \in Square /\ p.board[s] = Signed(c, king)
    BY <2>1, <2>3 DEF OnBoard
  <2>7. PICK f \in BOOLEAN : f = FALSE
    OBVIOUS
  <2>8. king \in Kinds /\ king # pawn /\ \A s \in S : s \in Square /\ p.board[s] = Signed(c, king)
    BY <2>4 DEF Kinds, king, pawn
  <2>9. m \in Check(c, p, king, S, C, f) <=>
           \E s \in S, t \in Square : /\ StepOf(c, p, king, s, t) /\ m = Board(p, king, f, s, t)
                                      /\ t \in C \/ IsDiscover(Flip(c), p, s, t)
    BY <2>8, CheckAre
  <2>5. m \in Check(c, p, king, S, C, FALSE) <=>
           \E s \in S, t \in Square : /\ StepOf(c, p, king, s, t) /\ m = Board(p, king, FALSE, s, t)
                                      /\ t \in C \/ IsDiscover(Flip(c), p, s, t)
    BY <2>7, <2>9
  <2>6. \A s, t : StepOf(c, p, king, s, t) => s \in S
    BY <2>4 DEF StepOf
  <2> QED BY <2>1, <2>2, <2>4, <2>5, <2>6 DEF KingOpens
<1>5. /\ SeenFrom(c, p, horse, K) = AttackBishop(p, K) \cup abb_king_attacks[K]
      /\ SeenFrom(c, p, dragon, K) = AttackRook(p, K) \cup abb_king_attacks[K]
  BY SeenFromIs
<1> QED BY <1>2, <1>3, <1>4, <1>5

(* Silvers.                                                                *)
LEMMA SilversCheck ==
  ASSUME NEW p, IsPosition(p), Copies(p), NEW c \in Colour, KingIsSafe(c, p), NEW m
  PROVE  m \in checks_by_silver(c, p) <=> ChecksFrom(c, p, silver, Square, m)
<1>1. PICK S : S = p.bb[c][silver]
  OBVIOUS
<1>2. PICK A : A = Silver(Flip(c), Target(c, p))
  OBVIOUS
<1>3. PICK B : B = GoldChecks(c, p)
  OBVIOUS
<1>4. silver \in BoardKinds /\ silver \in Kinds /\ silver # pawn /\ silver \in Kinds \ {pawn, king}
      /\ silver + promote \in Golds /\ silver + promote \in Kinds \ {pawn, king}
  BY DEF BoardKinds, Kinds, Golds, silver, pawn, king, promote
<1>5. \A s \in S : s \in Square /\ p.board[s] = Signed(c, silver)
  BY <1>1, <1>4, PiecesHeld
<1>6. A = SeenFrom(c, p, silver, Target(c, p))
  BY <1>2, SeenFromIs
<1>7. B = SeenFrom(c, p, silver + promote, Target(c, p))
  <2>1. \A i \in Golds : SeenFrom(c, p, i, Target(c, p)) = Gold(Flip(c), Target(c, p))
    BY SeenFromIs
  <2> QED BY <1>3, <1>4, <2>1 DEF GoldChecks
<1>8. Becoming(silver, FALSE) = silver /\ Becoming(silver, TRUE) = silver + promote
  BY DEF Becoming
<1>9. m \in Check(c, p, silver, S, A, FALSE) <=> CheckingSteps(c, p, silver, S, FALSE, m)
  BY <1>4, <1>5, <1>6, <1>8, CheckGives
<1>10. ASSUME NEW s \in S
       PROVE  m \in Check(c, p, silver, {s}, B, TRUE) <=> CheckingSteps(c, p, silver, {s}, TRUE, m)
  <2>1. PICK Z : Z = {s}
    OBVIOUS
  <2>2. \A z \in Z : z \in Square /\ p.board[z] = Signed(c, silver)
    BY <1>5, <1>10, <2>1
  <2>3. m \in Check(c, p, silver, Z, B, TRUE) <=> CheckingSteps(c, p, silver, Z, TRUE, m)
    BY <1>4, <1>7, <1>8, <2>2, CheckGives
  <2> QED BY <2>1, <2>3
<1>11. m \in checks_by_silver(c, p) <=>
         \/ m \in Check(c, p, silver, S, A, FALSE)
         \/ \E s \in S : m \in Check(c, p, silver, {s}, B, TRUE) /\ {m.from, m.to} \cap Zone(c) # {}
  <2>1. checks_by_silver(c, p) =
          Check(c, p, silver, S, A, FALSE)
            \cup UNION {{n \in Check(c, p, silver, {s}, B, TRUE) : {n.from, n.to} \cap Zone(c) # {}} : s \in S}
    BY <1>1, <1>2, <1>3 DEF checks_by_silver
  <2> DEFINE promoting(s) == {n \in Check(c, p, silver, {s}, B, TRUE) : {n.from, n.to} \cap Zone(c) # {}}
  <2>2. checks_by_silver(c, p) = Check(c, p, silver, S, A, FALSE) \cup UNION {promoting(s) : s \in S}
    BY <2>1
  <2>3. ASSUME NEW s PROVE m \in promoting(s) <=>
          m \in Check(c, p, silver, {s}, B, TRUE) /\ {m.from, m.to} \cap Zone(c) # {}
    OBVIOUS
  <2> HIDE DEF promoting
  <2>4. m \in UNION {promoting(s) : s \in S} <=> \E s \in S : m \in promoting(s)
    OBVIOUS
  <2> QED BY <2>2, <2>3, <2>4
<1>12. m \in checks_by_silver(c, p) <=>
         \/ CheckingSteps(c, p, silver, S, FALSE, m)
         \/ CheckingSteps(c, p, silver, S, TRUE, m) /\ {m.from, m.to} \cap Zone(c) # {}
  BY <1>9, <1>10, <1>11 DEF CheckingSteps
<1>13. \A s \in S : \A t, f : m = Board(p, silver, f, s, t) =>
         ({m.from, m.to} \cap Zone(c) # {} <=> s \in Zone(c) \/ t \in Zone(c))
  BY <1>5, PartsOfSteps
<1>14. ASSUME NEW s, NEW t, NEW f \in BOOLEAN
       PROVE  Forthright(c, p, silver, s, t, f) <=>
                StepOf(c, p, silver, s, t) /\ (f => s \in Zone(c) \/ t \in Zone(c))
  <2>1. Forthright(c, p, silver, s, t, f) => StepOf(c, p, silver, s, t)
    BY <1>4, PlaysAreSteps
  <2> QED BY <1>4, <2>1, ForthrightAre
<1>15. m \in checks_by_silver(c, p) <=> ChecksFrom(c, p, silver, S, m)
  BY <1>12, <1>13, <1>14 DEF ChecksFrom, CheckingSteps
<1> QED BY <1>1, <1>4, <1>15, ChecksOfAll

(* A knight goes two ranks ahead.                                          *)
LEMMA KnightsGoAhead ==
  ASSUME NEW c \in Colour, NEW s \in Square, NEW t \in Knight(c, s)
  PROVE  Row(c, t) = Row(c, s) - 2 /\ Row(c, s) \in 0..8 /\ Row(c, t) \in 0..8
<1>1. t \in Square
  BY StepsAreMutual
<1>2. s \div 9 \in 0..8 /\ t \div 9 \in 0..8
  BY <1>1, SquareParts
<1>3. Row(c, s) \in 0..8 /\ Row(c, t) \in 0..8
  BY <1>2 DEF Row, airank
<1>4. PICK d \in {<<-2, -1>>, <<-2, 1>>, <<2, 1>>, <<2, -1>>} :
        /\ (c = black => d[1] = -2) /\ (c = white => d[1] = 2)
        /\ OnTheBoard(airank(s) + d[1], aifile(s) + d[2]) /\ t = s + 9 * d[1] + d[2]
  <2>1. CASE c = black
    <3>1. t \in set_attacks(s, {<<-2, -1>>, <<-2, 1>>})
      BY <2>1 DEF Knight, abb_knight_attacks, abb_b_knight_attacks, KnightSteps, black
    <3>2. PICK d \in {<<-2, -1>>, <<-2, 1>>} :
            OnTheBoard(airank(s) + d[1], aifile(s) + d[2]) /\ t = s + 9 * d[1] + d[2]
      BY <3>1 DEF set_attacks
    <3> QED BY <2>1, <3>2 DEF black, white
  <2>2. CASE c = white
    <3>1. t \in set_attacks(s, Turned(white, KnightSteps))
      BY <2>2 DEF Knight, abb_knight_attacks, abb_w_knight_attacks, white
    <3>2. PICK d \in Turned(white, KnightSteps) :
            OnTheBoard(airank(s) + d[1], aifile(s) + d[2]) /\ t = s + 9 * d[1] + d[2]
      BY <3>1 DEF set_attacks
    <3>3. \E e \in {<<-2, -1>>, <<-2, 1>>} : d = <<-e[1], -e[2]>>
      BY <3>2 DEF Turned, KnightSteps, black, white
    <3>4. d \in {<<2, 1>>, <<2, -1>>}
      BY <3>3
    <3> QED BY <2>2, <3>2, <3>4 DEF black, white
  <2> QED BY <2>1, <2>2 DEF Colour
<1>5. d[1] \in Int /\ d[2] \in Int
  BY <1>4
<1>6. t \div 9 = (s \div 9) + d[1]
  BY <1>4, <1>5, SquareMoved DEF OnTheBoard, airank, aifile
<1> QED BY <1>2, <1>3, <1>4, <1>5, <1>6 DEF Row, airank, Colour

(* A pawn goes one.                                                        *)
LEMMA PawnsGoAhead ==
  ASSUME NEW c \in Colour, NEW s \in Square, NEW t \in Square, t = s + Ahead(c)
  PROVE  /\ Row(c, t) = Row(c, s) - 1 /\ Row(c, s) \in 0..8 /\ Row(c, t) \in 0..8
         /\ aifile(s) = aifile(t) /\ t # s
<1>1. /\ s \div 9 \in 0..8 /\ s % 9 \in 0..8 /\ s = 9 * (s \div 9) + (s % 9)
      /\ t \div 9 \in 0..8 /\ t % 9 \in 0..8 /\ t = 9 * (t \div 9) + (t % 9)
  BY SquareParts
<1>2. t \div 9 = (s \div 9) + (IF c = black THEN -1 ELSE 1) /\ t % 9 = s % 9
  BY <1>1, SquareParts DEF Ahead
<1>3. Row(c, t) = Row(c, s) - 1 /\ Row(c, s) \in 0..8 /\ Row(c, t) \in 0..8
  <2>1. PICK i \in 0..8 : i = s \div 9
    BY <1>1
  <2>2. PICK j \in 0..8 : j = t \div 9
    BY <1>1
  <2>3. Row(c, s) = (IF c = black THEN i ELSE 8 - i) /\ Row(c, t) = (IF c = black THEN j ELSE 8 - j)
    BY <2>1, <2>2 DEF Row, airank
  <2>4. j = i + (IF c = black THEN -1 ELSE 1)
    BY <1>2, <2>1, <2>2
  <2> QED BY <2>3, <2>4
<1>4. t # s
  BY <1>1, <1>2
<1> QED BY <1>2, <1>3, <1>4 DEF aifile

(* Their steps.                                                            *)
LEMMA RowsOfSteps ==
  ASSUME NEW p, IsPosition(p), Copies(p), NEW c \in Colour, NEW k \in {pawn, knight}, NEW s, NEW t,
         StepOf(c, p, k, s, t)
  PROVE  /\ k = pawn => t = s + Ahead(c) /\ Row(c, t) = Row(c, s) - 1
         /\ k = knight => Row(c, t) = Row(c, s) - 2
         /\ Row(c, s) \in 0..8 /\ Row(c, t) \in 0..8
<1>1. /\ s \in Square /\ t \in Square /\ p.board[s] = Signed(c, k) /\ Hits(p.board, c, s, t)
      /\ k \in Kinds
  BY KindsApart DEF StepOf
<1>2. CASE k = pawn
  <2>1. t = s + Ahead(c)
    BY <1>1, <1>2, PawnsHit
  <2> QED BY <1>1, <1>2, <2>1, PawnsGoAhead, KindsApart
<1>3. CASE k = knight
  <2>1. t \in Knight(c, s)
    BY <1>1, <1>3, ReachIsHits, ReachOfKinds, KindsApart
  <2> QED BY <1>1, <1>3, <2>1, KnightsGoAhead, KindsApart
<1> QED BY <1>2, <1>3

(* Knights.                                                                *)
LEMMA KnightsCheck ==
  ASSUME NEW p, IsPosition(p), Copies(p), NEW c \in Colour, KingIsSafe(c, p), NEW m
  PROVE  m \in checks_by_knight(c, p) <=> ChecksFrom(c, p, knight, Square, m)
<1>1. PICK S : S = p.bb[c][knight]
  OBVIOUS
<1>2. PICK F : F = {s \in S : Row(c, s) >= 4}
  OBVIOUS
<1>3. PICK A : A = Knight(Flip(c), Target(c, p))
  OBVIOUS
<1>4. PICK B : B = GoldChecks(c, p)
  OBVIOUS
<1>5. knight \in BoardKinds /\ knight \in Kinds /\ knight # pawn /\ knight \in Kinds \ {pawn, king}
      /\ knight + promote \in Golds /\ knight + promote \in Kinds \ {pawn, king}
  BY DEF BoardKinds, Kinds, Golds, knight, pawn, king, promote
<1>6. /\ \A s \in S : s \in Square /\ p.board[s] = Signed(c, knight)
      /\ \A s \in F : s \in Square /\ p.board[s] = Signed(c, knight)
  BY <1>1, <1>2, <1>5, PiecesHeld
<1>7. A = SeenFrom(c, p, knight, Target(c, p))
  BY <1>3, SeenFromIs
<1>8. B = SeenFrom(c, p, knight + promote, Target(c, p))
  <2>1. \A i \in Golds : SeenFrom(c, p, i, Target(c, p)) = Gold(Flip(c), Target(c, p))
    BY SeenFromIs
  <2> QED BY <1>4, <1>5, <2>1 DEF GoldChecks
<1>9. Becoming(knight, FALSE) = knight /\ Becoming(knight, TRUE) = knight + promote
  BY DEF Becoming
<1>10. m \in Check(c, p, knight, F, A, FALSE) <=> CheckingSteps(c, p, knight, F, FALSE, m)
  BY <1>5, <1>6, <1>7, <1>9, CheckGives
<1>11. m \in Check(c, p, knight, S, B, TRUE) <=> CheckingSteps(c, p, knight, S, TRUE, m)
  BY <1>5, <1>6, <1>8, <1>9, CheckGives
<1>12. m \in checks_by_knight(c, p) <=>
         \/ m \in Check(c, p, knight, S, B, TRUE) /\ m.to \in Zone(c)
         \/ m \in Check(c, p, knight, F, A, FALSE)
  BY <1>1, <1>2, <1>3, <1>4 DEF checks_by_knight
<1>13. \A s \in S : \A t, f : m = Board(p, knight, f, s, t) => m.to = t
  BY <1>6, PartsOfSteps
<1>14. ASSUME NEW s, NEW t, StepOf(c, p, knight, s, t)
       PROVE  t \notin Deep(c) <=> Row(c, s) >= 4
  <2>1. Row(c, t) = Row(c, s) - 2 /\ Row(c, s) \in 0..8
    BY <1>14, RowsOfSteps
  <2>2. t \in Square
    BY <1>14 DEF StepOf
  <2> QED BY <2>1, <2>2 DEF Deep
<1>15. ASSUME NEW s, NEW t, NEW f \in BOOLEAN
       PROVE  Forthright(c, p, knight, s, t, f) <=>
                StepOf(c, p, knight, s, t) /\ (f => t \in Zone(c)) /\ (~f => Row(c, s) >= 4)
  <2>1. Forthright(c, p, knight, s, t, f) => StepOf(c, p, knight, s, t)
    BY <1>5, PlaysAreSteps
  <2> QED BY <1>5, <1>14, <2>1, ForthrightAre
<1>16. m \in checks_by_knight(c, p) <=> ChecksFrom(c, p, knight, S, m)
  BY <1>2, <1>10, <1>11, <1>12, <1>13, <1>15 DEF ChecksFrom, CheckingSteps
<1> QED BY <1>1, <1>5, <1>16, ChecksOfAll

(* A piece that opens a line to the king stands alone on it before the one *)
(* it uncovers.                                                            *)
LEMMA OpeningPiece ==
  ASSUME NEW p, IsPosition(p), Copies(p), NEW c \in Colour, NEW K, K = p.sq_king[Flip(c)],
         NEW s \in Square, s # K, p.board[s] # empty, Opened(c, p, s) # {}, NEW e, e = adirec[K][s]
  PROVE  /\ K \in Square /\ e \in 2..5 /\ Joined(e, K, s) /\ Joined(e, s, K)
         /\ is_pinned_on(Flip(c), p, s, e)
         /\ abb_obstacle[s][K] \cap Taken(p.board) = {}
<1>1. PICK d \in Colour : d = Flip(c) /\ Flip(d) = c
  BY Flips
<1>2. K \in Square
  BY <1>1, PieceOf
<1>3. e # direc_misc /\ is_pinned_on(d, p, s, e)
  BY <1>1 DEF Opened
<1>4. e \in 2..5 /\ Joined(e, K, s)
  BY <1>2, <1>3, DirecIs
<1>5. Joined(e, s, K)
  BY <1>4 DEF Joined
<1>6. PICK z \in Square, k \in Kinds : Pins(p.board, c, k, z, s, K)
  <2>1. e # direc_misc /\ is_pinned_on(d, p, s, e) <=>
          \E z \in Square, k \in Kinds : Pins(p.board, Flip(d), k, z, s, K)
    BY <1>1, <1>2, PinnedIs
  <2> QED BY <1>1, <1>3, <2>1
<1>7. abb_obstacle[z][K] \cap Taken(p.board) = {s}
  BY <1>6 DEF Pins
<1>8. ASSUME NEW v \in abb_obstacle[s][K], v \in Taken(p.board) PROVE FALSE
  <2>1. s \in abb_obstacle[z][K] /\ v \in Square
    BY <1>2, <1>7, EitherEnd
  <2>2. v \in abb_obstacle[z][K]
    BY <1>2, <1>8, <2>1, BetweenParted
  <2>3. v = s
    BY <1>7, <1>8, <2>2
  <2> QED BY <1>2, <1>8, <2>3, BetweenApart
<1> QED BY <1>1, <1>2, <1>3, <1>4, <1>5, <1>8

(* What lances, bishops and rooks aim at, and step along.                  *)
LEMMA SlidersAim ==
  ASSUME NEW c \in Colour, NEW k \in {lance, bishop, rook}, NEW s \in Square, NEW t, Aims(c, k, s, t)
  PROVE  RunsAlong(c, k, s, t)
<1>1. StepDirections(k) = {} /\ k \in Kinds
  BY DirectionsOfKinds, KindsApart
<1>2. set_attacks(s, Turned(c, {})) = {}
  BY DEF set_attacks, Turned
<1> QED BY <1>1, <1>2, RunsAre DEF Aims
LEMMA SlidersStep ==
  ASSUME NEW p, NEW c \in Colour, NEW k \in {lance, bishop, rook}, NEW s, NEW t, StepOf(c, p, k, s, t)
  PROVE  RunsAlong(c, k, s, t)
<1>1. /\ s \in Square /\ t \in Square /\ p.board[s] = Signed(c, k) /\ Hits(p.board, c, s, t) /\ k \in Kinds
  BY KindsApart DEF StepOf
<1>2. Aims(c, k, s, t)
  <2>1. PICK b : b = p.board
    OBVIOUS
  <2>2. Hits(b, c, s, t) <=> Aims(c, k, s, t) /\ abb_obstacle[s][t] \cap Taken(b) = {}
    BY <1>1, <2>1, HitsAre
  <2> QED BY <1>1, <2>1, <2>2
<1> QED BY <1>1, <1>2, SlidersAim

(* A bishop or rook that stands in the way of a check leaves the line      *)
(* wherever it goes: along the line it would give check itself.            *)
LEMMA SlidersOpen ==
  ASSUME NEW p, IsPosition(p), Copies(p), NEW c \in Colour, KingIsSafe(c, p),
         NEW k \in {bishop, rook}, NEW s, NEW t, StepOf(c, p, k, s, t), Opened(c, p, s) # {}
  PROVE  IsDiscover(Flip(c), p, s, t)
<1>1. PICK K : K = p.sq_king[Flip(c)]
  OBVIOUS
<1>2. k \in Kinds /\ K \in Square /\ s \in Square /\ t \in Square /\ s # K /\ t # K
      /\ p.board[s] = Signed(c, k)
  BY <1>1, KindsApart, StepsPassTheKing DEF StepOf
<1>3. p.board[s] # empty
  BY <1>2, AbsOfSigned
<1>4. PICK e : e = adirec[K][s]
  OBVIOUS
<1>5. /\ e \in 2..5 /\ Joined(e, K, s) /\ Joined(e, s, K) /\ is_pinned_on(Flip(c), p, s, e)
      /\ abb_obstacle[s][K] \cap Taken(p.board) = {}
  BY <1>1, <1>2, <1>3, <1>4, OpeningPiece
<1>6. ASSUME e = adirec[K][t] PROVE FALSE
  <2>1. Joined(e, K, t)
    BY <1>2, <1>5, <1>6, DirecIs
  <2>2. Joined(e, s, t)
    BY <1>5, <2>1 DEF Joined
  <2>3. RunsAlong(c, k, s, t)
    BY SlidersStep
  <2>4. \E i \in 2..5 : /\ i \in (IF k = rook THEN {2, 3} ELSE {4, 5}) /\ Joined(i, s, t)
    BY <2>3 DEF RunsAlong, rook, bishop, horse, dragon, lance
  <2>5. e \in (IF k = rook THEN {2, 3} ELSE {4, 5}) /\ s # t
    BY <1>2, <1>5, <2>2, <2>3, <2>4, OneLineOnly DEF RunsAlong
  <2>6. RunsAlong(c, k, s, K)
    BY <1>2, <1>5, <2>5 DEF RunsAlong, rook, bishop, horse, dragon, lance
  <2>7. Aims(c, k, s, K)
    BY <1>2, <2>6, RunsAre DEF Aims
  <2>8. PICK b : b = p.board
    OBVIOUS
  <2>9. Hits(b, c, s, K)
    BY <1>2, <1>5, <2>7, <2>8, HitsAre
  <2>10. Attacked(p.board, c, K)
    BY <1>2, <2>8, <2>9, AbsOfSigned DEF Attacked
  <2> QED BY <1>1, <1>2, <2>10, AttackedByTheRules DEF KingIsSafe
<1> QED BY <1>1, <1>4, <1>5, <1>6 DEF IsDiscover, direc_misc

(* Bishops and rooks.                                                      *)
LEMMA SlidersCheck ==
  ASSUME NEW p, IsPosition(p), Copies(p), NEW c \in Colour, KingIsSafe(c, p), NEW k \in {bishop, rook},
         NEW lines, lines = SeenFrom(c, p, k, Target(c, p)), NEW m
  PROVE  m \in checks_by_slider(c, p, k, lines) <=> ChecksFrom(c, p, k, Square, m)
<1>1. PICK K : K = Target(c, p)
  OBVIOUS
<1>2. PICK near : near = abb_king_attacks[K]
  OBVIOUS
<1>3. PICK S : S = p.bb[c][k]
  OBVIOUS
<1>4. /\ k \in BoardKinds /\ k \in Kinds /\ k # pawn /\ k \in Kinds \ {pawn, king}
      /\ k + promote \in Kinds \ {pawn, king} /\ k + promote \in {horse, dragon}
      /\ k = bishop => k + promote = horse
      /\ k = rook => k + promote = dragon
  BY DEF BoardKinds, Kinds, bishop, rook, pawn, king, promote, horse, dragon
<1>5. \A s : s \in S <=> s \in Square /\ p.board[s] = Signed(c, k)
  BY <1>3, <1>4, PiecesHeld
<1>6. SeenFrom(c, p, k + promote, K) = lines \cup near
  BY <1>1, <1>2, <1>4, SeenFromIs
<1> DEFINE direct(s) == lines \cup (IF s \in Zone(c) THEN near ELSE near \cap Zone(c))
           chk(s) == IF Opened(c, p, s) # {} THEN Square ELSE direct(s)
<1>7. ASSUME NEW s, NEW t, NEW f \in BOOLEAN, StepOf(c, p, k, s, t), f <=> s \in Zone(c) \/ t \in Zone(c)
      PROVE  t \in chk(s) \cap Movable(c, p) <=> Gives(c, p, k, f, s, t)
  <2>1. s \in Square /\ t \in Square /\ K \in Square /\ s # K /\ t # K
    BY <1>1, <1>4, <1>7, StepsPassTheKing DEF Target
  <2>2. t \in Movable(c, p)
    BY <1>7, <2>1, MovableIs DEF StepOf
  <2>3. PICK j \in Kinds \ {pawn, king} : j = Becoming(k, f)
    BY <1>4 DEF Becoming
  <2>4. Gives(c, p, k, f, s, t) <=> t \in SeenFrom(c, p, j, K) \/ IsDiscover(Flip(c), p, s, t)
    BY <1>1, <1>4, <1>7, <2>3, GivesFrom DEF Target
  <2>5. t \in direct(s) <=> t \in SeenFrom(c, p, j, K)
    <3>1. CASE f
      BY <1>6, <1>7, <2>3, <3>1 DEF Becoming
    <3>2. CASE ~f
      BY <1>1, <1>7, <2>3, <3>2 DEF Becoming
    <3> QED BY <3>1, <3>2
  <2>6. Opened(c, p, s) # {} => IsDiscover(Flip(c), p, s, t)
    BY <1>7, SlidersOpen
  <2>7. t \in Opened(c, p, s) <=> IsDiscover(Flip(c), p, s, t)
    BY <1>1, <2>1, OpenedIs DEF Target
  <2> QED BY <2>1, <2>2, <2>4, <2>5, <2>6, <2>7
<1>8. m \in checks_by_slider(c, p, k, lines) <=>
        \E s \in S : m \in ForcedPromotion(c, p, k, {s}, chk(s) \cap Movable(c, p))
  BY <1>1, <1>2, <1>3 DEF checks_by_slider
<1> HIDE DEF chk, direct
<1>9. ASSUME NEW s \in S
      PROVE  m \in ForcedPromotion(c, p, k, {s}, chk(s) \cap Movable(c, p)) <=>
               \E t \in chk(s) \cap Movable(c, p), f \in BOOLEAN :
                 StepOf(c, p, k, s, t) /\ (f <=> s \in Zone(c) \/ t \in Zone(c)) /\ m = Board(p, k, f, s, t)
  <2>1. PICK Z : Z = {s}
    OBVIOUS
  <2>2. PICK T : T = chk(s) \cap Movable(c, p)
    OBVIOUS
  <2>3. T \subseteq Movable(c, p) /\ \A z \in Z : z \in Square /\ p.board[z] = Signed(c, k)
    BY <1>5, <2>1, <2>2
  <2>4. m \in ForcedPromotion(c, p, k, Z, T) <=>
           \E x \in Z, t \in T, f \in BOOLEAN :
             StepOf(c, p, k, x, t) /\ (f <=> x \in Zone(c) \/ t \in Zone(c)) /\ m = Board(p, k, f, x, t)
    BY <1>4, <2>3, ForcedAre
  <2> QED BY <2>1, <2>2, <2>4
<1>10. ASSUME NEW s, NEW t, NEW f \in BOOLEAN
       PROVE  Forthright(c, p, k, s, t, f) <=>
                StepOf(c, p, k, s, t) /\ (f <=> s \in Zone(c) \/ t \in Zone(c))
  <2>1. Forthright(c, p, k, s, t, f) => StepOf(c, p, k, s, t)
    BY <1>4, PlaysAreSteps
  <2> QED BY <1>4, <2>1, ForthrightAre
<1>11. ASSUME NEW s \in S
       PROVE  m \in ForcedPromotion(c, p, k, {s}, chk(s) \cap Movable(c, p)) <=>
                \E t \in Square, f \in BOOLEAN :
                  Forthright(c, p, k, s, t, f) /\ Gives(c, p, k, f, s, t) /\ m = Board(p, k, f, s, t)
  <2>1. \A t : StepOf(c, p, k, s, t) => t \in Square
    BY DEF StepOf
  <2> QED BY <1>7, <1>9, <1>10, <2>1
<1>12. m \in checks_by_slider(c, p, k, lines) <=> ChecksFrom(c, p, k, S, m)
  BY <1>8, <1>11 DEF ChecksFrom
<1> QED BY <1>3, <1>4, <1>12, ChecksOfAll

(* Lances go ahead.                                                        *)
LEMMA LancesGoAhead ==
  ASSUME NEW c \in Colour, NEW s \in Square, NEW t, RunsAlong(c, lance, s, t)
  PROVE  Row(c, t) < Row(c, s) /\ Row(c, s) \in 0..8 /\ Row(c, t) \in 0..8
<1>1. s \in Square /\ t \in Square
  BY DEF RunsAlong
<1>2. Joined(2, s, t) /\ t \in RaysAhead(c)[s]
  BY DEF RunsAlong, lance, rook, dragon, bishop, horse
<1>3. s % 9 = t % 9
  BY <1>1, <1>2, JoinedBy
<1>4. /\ s \div 9 \in 0..8 /\ s % 9 \in 0..8 /\ s = 9 * (s \div 9) + (s % 9)
      /\ t \div 9 \in 0..8 /\ t % 9 \in 0..8 /\ t = 9 * (t \div 9) + (t % 9)
  BY <1>1, SquareParts
<1>5. /\ c = black => t < s
      /\ c = white => t > s
  BY <1>1, <1>2 DEF RaysAhead, abb_minus_rays, abb_plus_rays, black, white, Square
<1>6. /\ c = black => t \div 9 < s \div 9
      /\ c = white => t \div 9 > s \div 9
  BY <1>3, <1>4, <1>5
<1> QED BY <1>4, <1>6 DEF Row, airank, Colour, black, white

(* Lances: those that open a line are promoted wherever they go.           *)
OverPromoted(c, m) == m.promo /\ {m.from, m.to} \cap Zone(c) = {}
LEMMA LancesCheck ==
  ASSUME NEW p, IsPosition(p), Copies(p), NEW c \in Colour, KingIsSafe(c, p), NEW m
  PROVE  /\ m \in checks_by_lance(c, p) =>
              ChecksFrom(c, p, lance, Square, m) \/ (OverPromoted(c, m) /\ m.piece = lance)
         /\ ChecksFrom(c, p, lance, Square, m) => m \in checks_by_lance(c, p)
<1>1. PICK S : S = p.bb[c][lance]
  OBVIOUS
<1>2. PICK F : F = S \ Zone(c)
  OBVIOUS
<1>3. PICK A : A = AttackFile(p, Target(c, p)) \cap RaysBehind(c)[Target(c, p)]
  OBVIOUS
<1>4. PICK B : B = GoldChecks(c, p)
  OBVIOUS
<1>5. PICK C : C = B \cap Zone(c)
  OBVIOUS
<1>6. PICK f \in BOOLEAN : f = TRUE
  OBVIOUS
<1>7. lance \in BoardKinds /\ lance \in Kinds /\ lance # pawn /\ lance \in Kinds \ {pawn, king}
      /\ lance + promote \in Golds /\ lance + promote \in Kinds \ {pawn, king}
  BY DEF BoardKinds, Kinds, Golds, lance, pawn, king, promote
<1>8. /\ \A s \in S : s \in Square /\ p.board[s] = Signed(c, lance)
      /\ \A s \in F : s \in Square /\ p.board[s] = Signed(c, lance)
      /\ \A s \in Square : p.board[s] = Signed(c, lance) => s \in S
  BY <1>1, <1>2, <1>7, PiecesHeld
<1>9. A = SeenFrom(c, p, lance, Target(c, p))
  BY <1>3, SeenFromIs
<1>10. B = SeenFrom(c, p, lance + promote, Target(c, p))
  <2>1. \A i \in Golds : SeenFrom(c, p, i, Target(c, p)) = Gold(Flip(c), Target(c, p))
    BY SeenFromIs
  <2> QED BY <1>4, <1>7, <2>1 DEF GoldChecks
<1>11. Becoming(lance, FALSE) = lance /\ Becoming(lance, TRUE) = lance + promote
  BY DEF Becoming
<1>12. m \in Check(c, p, lance, F, A, FALSE) <=> CheckingSteps(c, p, lance, F, FALSE, m)
  BY <1>7, <1>8, <1>9, <1>11, CheckGives
<1>13. m \in Check(c, p, lance, S, C, f) <=>
         \E s \in S, t \in Square : /\ StepOf(c, p, lance, s, t) /\ m = Board(p, lance, f, s, t)
                                    /\ t \in C \/ IsDiscover(Flip(c), p, s, t)
  BY <1>7, <1>8, CheckAre
<1>14. m \in checks_by_lance(c, p) <=>
         \/ m \in Check(c, p, lance, S, C, f)
         \/ m \in Check(c, p, lance, F, A, FALSE) /\ Row(c, m.to) >= 2
  BY <1>1, <1>2, <1>3, <1>4, <1>5, <1>6 DEF checks_by_lance
<1>15. \A s \in Square : \A t, g : m = Board(p, lance, g, s, t) =>
         m.from = s /\ m.to = t /\ m.promo = g /\ m.piece = lance
  BY PartsOfSteps
<1>16. ASSUME NEW s, NEW t, StepOf(c, p, lance, s, t)
       PROVE  /\ Gives(c, p, lance, TRUE, s, t) <=> t \in B \/ IsDiscover(Flip(c), p, s, t)
              /\ s \in Square /\ t \in Square /\ p.board[s] = Signed(c, lance)
              /\ t \notin Deep(c) <=> Row(c, t) >= 2
              /\ s \in Zone(c) => t \in Zone(c) /\ t \in Deep(c)
  <2>1. s \in Square /\ t \in Square /\ p.board[s] = Signed(c, lance)
    BY <1>16 DEF StepOf
  <2>2. Row(c, t) < Row(c, s) /\ Row(c, s) \in 0..8 /\ Row(c, t) \in 0..8
    <3>1. PICK k \in {lance, bishop, rook} : k = lance
      OBVIOUS
    <3>2. RunsAlong(c, k, s, t)
      BY <1>16, <3>1, SlidersStep
    <3> QED BY <2>1, <3>1, <3>2, LancesGoAhead
  <2>3. Gives(c, p, lance, TRUE, s, t) <=> t \in B \/ IsDiscover(Flip(c), p, s, t)
    <3>1. PICK K : K = p.sq_king[Flip(c)]
      OBVIOUS
    <3>2. PICK j \in Kinds \ {pawn, king} : j = Becoming(lance, f)
      BY <1>6, <1>7, <1>11
    <3>3. Gives(c, p, lance, f, s, t) <=> t \in SeenFrom(c, p, j, K) \/ IsDiscover(Flip(c), p, s, t)
      BY <1>7, <1>16, <3>1, <3>2, GivesFrom
    <3> QED BY <1>6, <1>10, <1>11, <3>1, <3>2, <3>3 DEF Target
  <2>4. t \notin Deep(c) <=> Row(c, t) >= 2
    BY <2>1, <2>2 DEF Deep
  <2>5. s \in Zone(c) => t \in Zone(c) /\ t \in Deep(c)
    <3>1. /\ s \in Zone(c) <=> Row(c, s) <= 2
          /\ t \in Zone(c) <=> Row(c, t) <= 2
          /\ t \in Deep(c) <=> Row(c, t) <= 1
      BY <2>1 DEF Zone, Deep
    <3> QED BY <2>2, <3>1
  <2> QED BY <2>1, <2>3, <2>4, <2>5
<1>17. ASSUME NEW s, NEW t, NEW g \in BOOLEAN
       PROVE  Forthright(c, p, lance, s, t, g) <=>
                StepOf(c, p, lance, s, t) /\ (g => t \in Zone(c)) /\ (~g => t \notin Deep(c))
  <2>1. Forthright(c, p, lance, s, t, g) => StepOf(c, p, lance, s, t)
    BY <1>7, PlaysAreSteps
  <2> QED BY <1>7, <2>1, ForthrightAre
<1>18. ASSUME m \in Check(c, p, lance, S, C, f)
       PROVE  ChecksFrom(c, p, lance, Square, m) \/ (OverPromoted(c, m) /\ m.piece = lance)
  <2>1. PICK s \in S, t \in Square : /\ StepOf(c, p, lance, s, t) /\ m = Board(p, lance, f, s, t)
                                     /\ t \in C \/ IsDiscover(Flip(c), p, s, t)
    BY <1>13, <1>18
  <2>2. Gives(c, p, lance, f, s, t) /\ s \in Square
    BY <1>5, <1>6, <1>16, <2>1
  <2>3. CASE t \in Zone(c)
    <3>1. Forthright(c, p, lance, s, t, f)
      BY <1>6, <1>17, <2>1, <2>3
    <3> QED BY <2>1, <2>2, <3>1 DEF ChecksFrom
  <2>4. CASE t \notin Zone(c)
    <3>1. m.from = s /\ m.to = t /\ m.promo = f /\ m.piece = lance
      BY <1>15, <2>1, <2>2
    <3>2. s \notin Zone(c)
      BY <1>16, <2>1, <2>4
    <3> QED BY <1>6, <2>4, <3>1, <3>2 DEF OverPromoted
  <2> QED BY <2>3, <2>4
<1>19. ASSUME CheckingSteps(c, p, lance, F, FALSE, m), Row(c, m.to) >= 2
       PROVE  ChecksFrom(c, p, lance, Square, m)
  <2>1. PICK s \in F, t \in Square :
          StepOf(c, p, lance, s, t) /\ Gives(c, p, lance, FALSE, s, t) /\ m = Board(p, lance, FALSE, s, t)
    BY <1>19 DEF CheckingSteps
  <2>2. s \in Square /\ m.to = t
    BY <1>8, <1>15, <2>1
  <2>3. Forthright(c, p, lance, s, t, FALSE)
    BY <1>16, <1>17, <1>19, <2>1, <2>2
  <2> QED BY <2>1, <2>2, <2>3 DEF ChecksFrom
<1>20. ASSUME ChecksFrom(c, p, lance, Square, m) PROVE m \in checks_by_lance(c, p)
  <2>1. PICK s \in Square, t \in Square, g \in BOOLEAN :
          Forthright(c, p, lance, s, t, g) /\ Gives(c, p, lance, g, s, t) /\ m = Board(p, lance, g, s, t)
    BY <1>20 DEF ChecksFrom
  <2>2. /\ StepOf(c, p, lance, s, t) /\ s \in S /\ m.to = t
        /\ g => t \in Zone(c)
        /\ ~g => t \notin Deep(c)
    <3>1. StepOf(c, p, lance, s, t) /\ (g => t \in Zone(c)) /\ (~g => t \notin Deep(c))
      BY <1>17, <2>1
    <3>2. s \in S
      BY <1>8, <1>16, <3>1
    <3>3. m.to = t
      BY <1>15, <2>1
    <3> QED BY <3>1, <3>2, <3>3
  <2>3. CASE g
    <3>1. g = f /\ (t \in C \/ IsDiscover(Flip(c), p, s, t))
      BY <1>5, <1>6, <1>16, <2>1, <2>2, <2>3
    <3> QED BY <1>13, <1>14, <2>1, <2>2, <3>1
  <2>4. CASE ~g
    <3>1. g = FALSE /\ s \in F /\ Row(c, m.to) >= 2
      BY <1>2, <1>16, <2>2, <2>4
    <3>2. CheckingSteps(c, p, lance, F, FALSE, m)
      BY <2>1, <2>2, <3>1 DEF CheckingSteps
    <3> QED BY <1>12, <1>14, <3>1, <3>2
  <2> QED BY <2>3, <2>4
<1> QED BY <1>12, <1>14, <1>18, <1>19, <1>20

(* A pawn that stands on a diagonal between the king and a bishop or horse *)
(* opens it by its step.                                                   *)
LEMMA PawnsOpen ==
  ASSUME NEW p, IsPosition(p), Copies(p), NEW c \in Colour, NEW K, K = p.sq_king[Flip(c)],
         NEW e \in {4, 5}, NEW s \in Slide(e, K, Occupied(p)),
         Slide(e, s, Occupied(p)) \cap p.union[c].bh # {}, NEW t \in Square, t = s + Ahead(c)
  PROVE  IsDiscover(Flip(c), p, s, t)
<1>1. PICK d \in Colour : d = Flip(c) /\ Flip(d) = c
  BY Flips
<1>2. K \in Square
  BY <1>1, PieceOf
<1>3. s \in Square /\ K \in Slide(e, s, Occupied(p)) /\ s # K
  BY <1>2, SlidesAreMutual
<1>4. Joined(e, K, s)
  <2>1. s \in Line[e][K]
    BY DEF Slide
  <2> QED BY <1>2, <2>1 DEF Line
<1>5. adirec[K][s] = e
  BY <1>2, <1>3, <1>4, DirecIs
<1>6. is_pinned_on(d, p, s, e)
  <2>1. Along(p, s, e) = Slide(e, s, Occupied(p))
    BY AttacksSlide DEF Along, direc_rank, direc_file, direc_diag1
  <2>2. Runners(c, p, s, e) = p.union[c].bh
    BY DEF Runners, direc_rank, direc_file
  <2> QED BY <1>1, <1>3, <2>1, <2>2 DEF is_pinned_on, BothOn
<1>7. adirec[K][t] # e
  <2>1. SUFFICES ASSUME adirec[K][t] = e PROVE FALSE
    OBVIOUS
  <2>2. K # t
    BY <1>2, <2>1 DEF adirec, direc_misc
  <2>3. Joined(e, K, t)
    BY <1>2, <2>1, <2>2, DirecIs
  <2>4. Joined(e, s, t)
    BY <1>4, <2>3 DEF Joined
  <2>5. s # t /\ Joined(2, s, t)
    <3>1. aifile(s) = aifile(t) /\ t # s
      BY <1>3, PawnsGoAhead
    <3> QED BY <1>3, <3>1, JoinedBy DEF aifile
  <2> QED BY <1>3, <2>4, <2>5, OneLineOnly
<1> QED BY <1>1, <1>5, <1>6, <1>7 DEF IsDiscover, direc_misc

(* A gold sees the square ahead of it.                                     *)
LEMMA GoldsSeeAhead ==
  ASSUME NEW b, NEW c \in Colour, NEW s \in Square, NEW t \in Square, t = s + Ahead(c), NEW k \in Golds
  PROVE  Sees(b, c, k, s, t)
<1>1. Sees(b, c, pawn, s, t)
  BY PawnsSee
<1>2. t \in set_attacks(s, Turned(c, {<<-1, 0>>}))
  <2>1. Aims(c, pawn, s, t)
    BY <1>1 DEF Sees
  <2>2. Turned(c, {}) = {}
    BY DEF Turned
  <2> QED BY <2>1, <2>2, DirectionsOfKinds DEF Aims
<1>3. t \in set_attacks(s, Turned(c, GoldSteps))
  <2>1. PICK A, B : A = Turned(c, {<<-1, 0>>}) /\ B = Turned(c, GoldSteps)
    OBVIOUS
  <2>2. A \subseteq B
    BY <2>1 DEF Turned, GoldSteps
  <2> QED BY <1>2, <2>1, <2>2 DEF set_attacks
<1>4. StepDirections(k) = GoldSteps
  BY DirectionsOfKinds
<1> QED BY <1>1, <1>3, <1>4 DEF Sees, Aims

(* Where pawns give check, and how they step.                              *)
PawnGivesOn(c, p, t) ==
  t \in GoldChecks(c, p) \cap Zone(c) \/ (Row(c, Target(c, p)) < 7 /\ t = Target(c, p) - Ahead(c))
LEMMA PawnsGive ==
  ASSUME NEW p, IsPosition(p), Copies(p), NEW c \in Colour, KingIsSafe(c, p), NEW s, NEW t,
         StepOf(c, p, pawn, s, t), NEW f \in BOOLEAN, f <=> t \in Zone(c)
  PROVE  /\ PawnGivesOn(c, p, t) <=> Sees(p.board, c, Becoming(pawn, f), t, p.sq_king[Flip(c)])
         /\ f = (Row(c, s) <= 3) /\ t = s + Ahead(c) /\ s = t - Ahead(c)
         /\ s \in Square /\ t \in Square /\ t \in Movable(c, p)
<1>1. PICK K : K = p.sq_king[Flip(c)]
  OBVIOUS
<1>2. PICK k \in {pawn, knight} : k = pawn
  OBVIOUS
<1>3. t = s + Ahead(c) /\ Row(c, t) = Row(c, s) - 1 /\ Row(c, s) \in 0..8 /\ Row(c, t) \in 0..8
  BY <1>2, RowsOfSteps
<1>4. pawn \in Kinds /\ s \in Square /\ t \in Square /\ K \in Square /\ ~Mine(c, p.board[t])
  BY <1>1, KindsApart, StepsPassTheKing DEF StepOf
<1>5. Ahead(c) \in Int /\ s = t - Ahead(c)
  BY <1>3, <1>4, AheadIsOneRank DEF Square
<1>6. t \in Movable(c, p)
  BY <1>4, MovableIs
<1>7. t \in Zone(c) <=> Row(c, t) <= 2
  BY <1>4 DEF Zone
<1>8. f = (Row(c, s) <= 3)
  BY <1>3, <1>7
<1>9. t = K - Ahead(c) <=> K = t + Ahead(c)
  BY <1>4, <1>5 DEF Square
<1>10. K = t + Ahead(c) => Row(c, K) < 7
  <2>1. ASSUME K = t + Ahead(c) PROVE Row(c, K) < 7
    <3>1. Row(c, K) = Row(c, t) - 1
      BY <1>4, <2>1, PawnsGoAhead
    <3> QED BY <1>3, <3>1
  <2> QED BY <2>1
<1>11. Sees(p.board, c, pawn, t, K) <=> K = t + Ahead(c)
  BY <1>4, PawnsSee
<1>12. pawn + promote \in Golds /\ pawn + promote \in Kinds \ {pawn, king}
  BY DEF Golds, Kinds, pawn, king, promote
<1>13. t \in GoldChecks(c, p) <=> Sees(p.board, c, pawn + promote, t, K)
  <2>1. PICK j \in Kinds \ {pawn, king} : j = pawn + promote
    BY <1>12
  <2>2. t \in SeenFrom(c, p, j, K) <=> Sees(p.board, c, j, t, K)
    BY <1>4, SeesFrom
  <2>3. \A i \in Golds : SeenFrom(c, p, i, K) = Gold(Flip(c), K)
    BY SeenFromIs
  <2> QED BY <1>1, <1>12, <2>1, <2>2, <2>3 DEF GoldChecks, Target
<1>14. K = t + Ahead(c) => Sees(p.board, c, pawn + promote, t, K)
  <2>1. PICK j \in Golds : j = pawn + promote
    BY <1>12
  <2> QED BY <1>4, <2>1, GoldsSeeAhead
<1>15. PawnGivesOn(c, p, t) <=> Sees(p.board, c, Becoming(pawn, f), t, K)
  <2>1. PawnGivesOn(c, p, t) <=>
          (t \in GoldChecks(c, p) /\ t \in Zone(c)) \/ (Row(c, K) < 7 /\ t = K - Ahead(c))
    BY <1>1 DEF PawnGivesOn, Target
  <2>2. CASE f
    BY <1>9, <1>10, <1>13, <1>14, <2>1, <2>2 DEF Becoming
  <2>3. CASE ~f
    BY <1>9, <1>10, <1>11, <2>1, <2>3 DEF Becoming
  <2> QED BY <2>2, <2>3
<1> QED BY <1>1, <1>3, <1>4, <1>5, <1>6, <1>8, <1>15

(* Pawns: all that give check themselves, and some that only open a line.  *)
LEMMA PawnsCheck ==
  ASSUME NEW p, IsPosition(p), Copies(p), Alive(p), NEW c \in Colour, KingIsSafe(c, p), NEW m
  PROVE  /\ m \in checks_by_pawn(c, p) => ChecksFrom(c, p, pawn, Square, m)
         /\ \A s, t, f : /\ Forthright(c, p, pawn, s, t, f) /\ f \in BOOLEAN /\ m = Board(p, pawn, f, s, t)
                         /\ Sees(p.board, c, Becoming(pawn, f), t, p.sq_king[Flip(c)])
                         => m \in checks_by_pawn(c, p)
<1>1. PICK K : K = p.sq_king[Flip(c)]
  OBVIOUS
<1>2. K \in Square /\ K = Target(c, p)
  BY <1>1, Flips, PieceOf DEF Target
<1>3. pawn \in BoardKinds /\ pawn \in Kinds
  BY KindsApart
<1>4. \A s : s \in p.bb[c][pawn] <=> s \in Square /\ p.board[s] = Signed(c, pawn)
  BY <1>3, PiecesHeld
<1>5. AttackDiag1(p, K) = Slide(4, K, Occupied(p)) /\ AttackDiag2(p, K) = Slide(5, K, Occupied(p))
  BY AttacksSlide
<1> DEFINE Opens1(e, s) == /\ s \in Slide(e, K, Occupied(p)) /\ s \in p.bb[c][pawn]
                           /\ p.board[s + Ahead(c)] = empty
                           /\ Slide(e, s, Occupied(p)) \cap p.union[c].bh # {}
           Direct(s) == \E t \in Movable(c, p) \cap p.pawn_atk[c] : PawnGivesOn(c, p, t) /\ s = t - Ahead(c)
<1>6. m \in checks_by_pawn(c, p) <=>
        \E s : (Opens1(4, s) \/ Opens1(5, s) \/ Direct(s)) /\ m = Step(c, p, s)
  <2>1. PICK chk : chk = (GoldChecks(c, p) \cap Zone(c)) \cup (IF Row(c, K) < 7 THEN {K - Ahead(c)} ELSE {})
    OBVIOUS
  <2>2. \A t : t \in chk <=> PawnGivesOn(c, p, t)
    BY <1>2, <2>1 DEF PawnGivesOn
  <2>3. PICK direct : direct = {t - Ahead(c) : t \in chk \cap Movable(c, p) \cap p.pawn_atk[c]}
    OBVIOUS
  <2>4. \A s : s \in direct <=> Direct(s)
    BY <2>2, <2>3
  <2>5. PICK O4 : O4 = {s \in AttackDiag1(p, K) \cap p.bb[c][pawn] :
                          /\ p.board[s + Ahead(c)] = empty /\ AttackDiag1(p, s) \cap p.union[c].bh # {}}
    OBVIOUS
  <2>6. PICK O5 : O5 = {s \in AttackDiag2(p, K) \cap p.bb[c][pawn] :
                          /\ p.board[s + Ahead(c)] = empty /\ AttackDiag2(p, s) \cap p.union[c].bh # {}}
    OBVIOUS
  <2>7. \A s : s \in O4 <=> Opens1(4, s)
    BY <1>5, <2>5, AttacksSlide
  <2>8. \A s : s \in O5 <=> Opens1(5, s)
    BY <1>5, <2>6, AttacksSlide
  <2>9. checks_by_pawn(c, p) = {Step(c, p, s) : s \in O4 \cup O5 \cup direct}
    BY <1>2, <2>1, <2>3, <2>5, <2>6 DEF checks_by_pawn
  <2> HIDE DEF Opens1, Direct
  <2> QED BY <2>4, <2>7, <2>8, <2>9
<1>7. ASSUME NEW s, NEW t, StepOf(c, p, pawn, s, t),
             NEW f \in BOOLEAN, f <=> t \in Zone(c), Gives(c, p, pawn, f, s, t)
      PROVE  m = Step(c, p, s) => ChecksFrom(c, p, pawn, Square, m)
  <2>2. /\ f = (Row(c, s) <= 3) /\ t = s + Ahead(c) /\ s \in Square /\ t \in Square
    BY <1>7, PawnsGive
  <2>3. Forthright(c, p, pawn, s, t, f)
    BY <1>3, <1>7, ForthrightAre
  <2>4. Step(c, p, s) = Board(p, pawn, f, s, t)
    BY <2>2 DEF Step
  <2> QED BY <1>7, <2>2, <2>3, <2>4 DEF ChecksFrom
<1>11. ASSUME NEW t PROVE \E f \in BOOLEAN : f <=> t \in Zone(c)
  <2>1. PICK f \in BOOLEAN : f = TRUE
    OBVIOUS
  <2>2. PICK g \in BOOLEAN : g = FALSE
    OBVIOUS
  <2> QED BY <2>1, <2>2
<1>8. ASSUME NEW e \in {4, 5}, NEW s, Opens1(e, s)
      PROVE  m = Step(c, p, s) => ChecksFrom(c, p, pawn, Square, m)
  <2>1. s \in Square /\ p.board[s] = Signed(c, pawn) /\ p.board[s + Ahead(c)] = empty
    BY <1>4, <1>8
  <2>2. PICK t : t = s + Ahead(c)
    OBVIOUS
  <2>3. t \in Square
    <3>1. Row(c, s) > 0
      BY <2>1 DEF Alive, OnBoard
    <3>2. s \div 9 \in 0..8 /\ s % 9 \in 0..8 /\ s = 9 * (s \div 9) + (s % 9)
      BY <2>1, SquareParts
    <3> QED BY <2>2, <3>1, <3>2 DEF Row, airank, Ahead, Square
  <2>4. StepOf(c, p, pawn, s, t)
    <3>1. ~Mine(c, p.board[t])
      BY <1>3, <2>1, <2>2, AbsOfSigned
    <3>2. Hits(p.board, c, s, t)
      BY <2>1, <2>2, <2>3, PawnsHit
    <3> QED BY <2>1, <2>3, <3>1, <3>2 DEF StepOf
  <2>5. IsDiscover(Flip(c), p, s, t)
    BY <1>1, <1>8, <2>2, <2>3, PawnsOpen
  <2>6. PICK f \in BOOLEAN : f <=> t \in Zone(c)
    BY <1>11
  <2>7. Gives(c, p, pawn, f, s, t)
    BY <2>5 DEF Gives
  <2> QED BY <1>7, <2>4, <2>6, <2>7
<1>9. ASSUME NEW s, Direct(s)
      PROVE  m = Step(c, p, s) => ChecksFrom(c, p, pawn, Square, m)
  <2>1. PICK t \in Movable(c, p) \cap p.pawn_atk[c] : PawnGivesOn(c, p, t) /\ s = t - Ahead(c)
    BY <1>9
  <2>2. s \in Square /\ t = s + Ahead(c) /\ p.board[s] = Signed(c, pawn)
    BY <2>1, PieceOf
  <2>3. t \in Square
    BY <2>1 DEF Movable
  <2>4. StepOf(c, p, pawn, s, t)
    BY <2>1, <2>2, <2>3, PawnsHit, MovableIs DEF StepOf
  <2>5. PICK f \in BOOLEAN : f <=> t \in Zone(c)
    BY <1>11
  <2>6. Gives(c, p, pawn, f, s, t)
    BY <2>1, <2>4, <2>5, PawnsGive DEF Gives
  <2> QED BY <1>7, <2>4, <2>5, <2>6
<1>10. ASSUME NEW s, NEW t, NEW f \in BOOLEAN, Forthright(c, p, pawn, s, t, f), m = Board(p, pawn, f, s, t),
              Sees(p.board, c, Becoming(pawn, f), t, p.sq_king[Flip(c)])
       PROVE  Direct(s) /\ m = Step(c, p, s)
  <2>1. StepOf(c, p, pawn, s, t)
    BY <1>3, <1>10, PlaysAreSteps
  <2>2. f <=> t \in Zone(c)
    BY <1>3, <1>10, <2>1, ForthrightAre
  <2>3. /\ PawnGivesOn(c, p, t) /\ f = (Row(c, s) <= 3) /\ t = s + Ahead(c) /\ s = t - Ahead(c)
        /\ s \in Square /\ t \in Movable(c, p)
    BY <1>10, <2>1, <2>2, PawnsGive
  <2>4. t \in p.pawn_atk[c]
    <3>1. s \in Square /\ p.board[s] = Signed(c, pawn) /\ t = s + Ahead(c)
      BY <2>1, <2>3 DEF StepOf
    <3> QED BY <3>1 DEF Copies, OnBoard
  <2> QED BY <1>10, <2>3, <2>4 DEF Step
<1> HIDE DEF Opens1, Direct
<1> QED BY <1>6, <1>8, <1>9, <1>10

(* The drops of the rules that give check.                                 *)
DropCheck(c, p, k, m) ==
  \E t \in Square : /\ DropByRules(c, p, k, t) /\ m = DropMove(k, t)
                    /\ Sees(p.board, c, k, t, Target(c, p))
                    /\ k = pawn => ~IsMatePawnDrop(c, p, t)
(* A piece that sees the king from where it is dropped may still move.     *)
LEMMA SeeingIsNotStuck ==
  ASSUME NEW p, IsPosition(p), Copies(p), NEW c \in Colour, NEW k \in Hands, NEW t \in Square,
         NEW K \in Square, Sees(p.board, c, k, t, K)
  PROVE  ~Stuck(c, k, t)
<1>1. k \in Kinds
  BY KindsAreNumbers
<1>2. Row(c, t) \in 0..8 /\ (t \in Deep(c) <=> Row(c, t) <= 1)
  BY WhereStuck
<1>3. CASE k = pawn
  <2>1. K = t + Ahead(c)
    BY <1>3, PawnsSee
  <2>2. Row(c, K) = Row(c, t) - 1 /\ Row(c, K) \in 0..8
    BY <2>1, PawnsGoAhead
  <2> QED BY <1>2, <1>3, <2>2, WhereStuck
<1>4. CASE k = lance
  <2>1. PICK j \in {lance, bishop, rook} : j = lance
    OBVIOUS
  <2>2. RunsAlong(c, j, t, K)
    BY <1>4, <2>1, SlidersAim DEF Sees
  <2>3. Row(c, K) < Row(c, t) /\ Row(c, K) \in 0..8
    BY <2>1, <2>2, LancesGoAhead
  <2> QED BY <1>2, <1>4, <2>3, WhereStuck
<1>5. CASE k = knight
  <2>1. K \in Knight(c, t)
    BY <1>1, <1>5, ReachIsSeen, ReachOfKinds, KindsApart
  <2>2. Row(c, K) = Row(c, t) - 2 /\ Row(c, K) \in 0..8
    BY <2>1, KnightsGoAhead
  <2> QED BY <1>2, <1>5, <2>2, WhereStuck
<1> QED BY <1>1, <1>3, <1>4, <1>5, WhereStuck

(* What is dropped onto the squares from which it would see the king.      *)
Dropped(c, p, k, S) == IF p.hand[c][k] > 0 THEN {DropMove(k, t) : t \in S \cap Empty(p)} ELSE {}
LEMMA DropsOnSeen ==
  ASSUME NEW p, IsPosition(p), Copies(p), NEW c \in Colour, NEW k \in Hands \ {pawn},
         NEW S, S = SeenFrom(c, p, k, Target(c, p)), NEW m
  PROVE  m \in Dropped(c, p, k, S) <=> DropCheck(c, p, k, m)
<1>1. PICK K : K = Target(c, p)
  OBVIOUS
<1>2. K \in Square
  BY <1>1, Flips, PieceOf DEF Target
<1>3. k \in Kinds \ {pawn, king} /\ k # pawn
  BY DEF Hands, Kinds, pawn, rook, king
<1>4. \A t : t \in Empty(p) <=> t \in Square /\ p.board[t] = empty
  BY EmptyIs
<1>5. ASSUME NEW t \in Square PROVE t \in S <=> Sees(p.board, c, k, t, K)
  BY <1>1, <1>2, <1>3, SeesFrom
<1>6. ASSUME NEW t \in Square, Sees(p.board, c, k, t, K) PROVE ~Stuck(c, k, t)
  BY <1>2, <1>6, SeeingIsNotStuck
<1>7. m \in Dropped(c, p, k, S) <=>
        p.hand[c][k] > 0 /\ \E t \in S : t \in Empty(p) /\ m = DropMove(k, t)
  BY DEF Dropped
<1> QED BY <1>1, <1>3, <1>4, <1>5, <1>6, <1>7 DEF DropCheck, DropByRules

(* Pawns are dropped in front of the king.                                 *)
PawnFront(c, p) ==
  IF Row(c, Target(c, p)) < 8 /\ ~\E s \in p.bb[c][pawn] : aifile(s) = aifile(Target(c, p))
  THEN {Target(c, p) - Ahead(c)} ELSE {}
LEMMA PawnsInFront ==
  ASSUME NEW p, IsPosition(p), Copies(p), Alive(p), NEW c \in Colour, NEW m
  PROVE  m \in Dropped(c, p, pawn, PawnFront(c, p)) /\ ~is_mate_pawn_drop(c, p, m.to)
           <=> DropCheck(c, p, pawn, m)
<1>1. PICK K : K = Target(c, p)
  OBVIOUS
<1>2. PICK d \in Colour : d = Flip(c)
  BY Flips
<1>3. K \in Square /\ p.board[K] = Signed(d, king)
  BY <1>1, <1>2, PieceOf DEF Target
<1>4. pawn \in Hands /\ pawn \in BoardKinds
  BY KindsApart DEF Hands, pawn, rook
<1>5. \A t : t \in Empty(p) <=> t \in Square /\ p.board[t] = empty
  BY EmptyIs
<1>6. \A s : s \in p.bb[c][pawn] <=> s \in Square /\ p.board[s] = Signed(c, pawn)
  BY <1>4, PiecesHeld
<1>7. ASSUME NEW t \in Square
      PROVE  t \in PawnFront(c, p) <=> Sees(p.board, c, pawn, t, K) /\ ~PawnOnFile(c, p, t)
  <2>1. Ahead(c) \in Int
    BY AheadIsOneRank
  <2>2. t = K - Ahead(c) <=> K = t + Ahead(c)
    BY <1>3, <2>1 DEF Square
  <2>3. Sees(p.board, c, pawn, t, K) <=> K = t + Ahead(c)
    BY <1>3, PawnsSee
  <2>4. K = t + Ahead(c) => Row(c, K) < 8 /\ aifile(t) = aifile(K)
    <3>1. ASSUME K = t + Ahead(c) PROVE Row(c, K) < 8 /\ aifile(t) = aifile(K)
      <4>1. Row(c, K) = Row(c, t) - 1 /\ Row(c, t) \in 0..8 /\ aifile(t) = aifile(K)
        BY <1>3, <3>1, PawnsGoAhead
      <4> QED BY <4>1
    <3> QED BY <3>1
  <2>5. PawnOnFile(c, p, t) <=> \E s \in Square : aifile(s) = aifile(t) /\ p.board[s] = Signed(c, pawn)
    BY FilesWithPawns
  <2>6. t \in PawnFront(c, p) <=>
          /\ Row(c, K) < 8 /\ ~\E s \in p.bb[c][pawn] : aifile(s) = aifile(K)
          /\ t = K - Ahead(c)
    BY <1>1 DEF PawnFront
  <2> QED BY <1>6, <2>2, <2>3, <2>4, <2>5, <2>6
<1>8. ASSUME NEW t \in Square, Sees(p.board, c, pawn, t, K)
      PROVE  /\ IsMatePawnDrop(c, p, t) <=> is_mate_pawn_drop(c, p, t)
             /\ ~Stuck(c, pawn, t)
  <2>1. K = t + Ahead(c)
    BY <1>3, <1>8, PawnsSee
  <2>2. ~Stuck(c, pawn, t)
    BY <1>3, <1>4, <1>8, SeeingIsNotStuck
  <2> QED BY <1>2, <1>3, <2>1, <2>2 DEF IsMatePawnDrop
<1>9. m \in Dropped(c, p, pawn, PawnFront(c, p)) <=>
        p.hand[c][pawn] > 0 /\ \E t \in PawnFront(c, p) : t \in Empty(p) /\ m = DropMove(pawn, t)
  BY DEF Dropped
<1>10. \A t : m = DropMove(pawn, t) => m.to = t
  BY <1>4, PartsOfDrops
<1> QED BY <1>1, <1>4, <1>5, <1>7, <1>8, <1>9, <1>10 DEF DropCheck, DropByRules

(* All of the drops.                                                       *)
LEMMA DropsCheck ==
  ASSUME NEW p, IsPosition(p), Copies(p), Alive(p), NEW c \in Colour, NEW m
  PROVE  m \in checks_by_drop(c, p) \cup checks_by_far_drop(c, p) <=> \E k \in Hands : DropCheck(c, p, k, m)
<1>1. PICK K : K = Target(c, p)
  OBVIOUS
<1>2. /\ SeenFrom(c, p, lance, K) = AttackFile(p, K) \cap RaysBehind(c)[K]
      /\ SeenFrom(c, p, knight, K) = Knight(Flip(c), K)
      /\ SeenFrom(c, p, silver, K) = Silver(Flip(c), K)
      /\ SeenFrom(c, p, gold, K) = GoldChecks(c, p)
      /\ SeenFrom(c, p, bishop, K) = AttackBishop(p, K)
      /\ SeenFrom(c, p, rook, K) = AttackRook(p, K)
  <2>1. \A i \in Golds : SeenFrom(c, p, i, K) = Gold(Flip(c), K)
    BY SeenFromIs
  <2>2. gold \in Golds
    BY DEF Golds
  <2> QED BY <1>1, <2>1, <2>2, SeenFromIs DEF GoldChecks
<1>3. m \in checks_by_drop(c, p) \cup checks_by_far_drop(c, p) <=>
        \/ \E k \in {gold, silver, knight, lance, rook, bishop} : m \in Dropped(c, p, k, SeenFrom(c, p, k, K))
        \/ m \in Dropped(c, p, pawn, PawnFront(c, p)) /\ ~is_mate_pawn_drop(c, p, m.to)
  <2>1. m \in checks_by_drop(c, p) <=>
          \/ m \in Dropped(c, p, gold, GoldChecks(c, p))
          \/ m \in Dropped(c, p, silver, Silver(Flip(c), K))
          \/ m \in Dropped(c, p, knight, Knight(Flip(c), K))
          \/ m \in Dropped(c, p, pawn, PawnFront(c, p)) /\ ~is_mate_pawn_drop(c, p, m.to)
    BY <1>1 DEF checks_by_drop, Dropped, PawnFront
  <2>2. m \in checks_by_far_drop(c, p) <=>
          \/ m \in Dropped(c, p, lance, AttackFile(p, K) \cap RaysBehind(c)[K])
          \/ m \in Dropped(c, p, rook, AttackRook(p, K))
          \/ m \in Dropped(c, p, bishop, AttackBishop(p, K))
    BY <1>1 DEF checks_by_far_drop, Dropped
  <2> QED BY <1>2, <2>1, <2>2
<1>4. Hands = {gold, silver, knight, lance, rook, bishop} \cup {pawn}
      /\ {gold, silver, knight, lance, rook, bishop} = Hands \ {pawn}
  BY DEF Hands, pawn, lance, knight, silver, gold, bishop, rook
<1>5. ASSUME NEW k \in Hands \ {pawn}
      PROVE  m \in Dropped(c, p, k, SeenFrom(c, p, k, K)) <=> DropCheck(c, p, k, m)
  <2>1. PICK S : S = SeenFrom(c, p, k, K)
    OBVIOUS
  <2> QED BY <1>1, <2>1, DropsOnSeen
<1> QED BY <1>3, <1>4, <1>5, PawnsInFront

(***************************************************************************)
(* Together.                                                               *)
(***************************************************************************)

(* Of a step of the rules: what comes, and whether it gives check.         *)
LEMMA StepGives ==
  ASSUME NEW p, IsPosition(p), Copies(p), Alive(p), NEW c \in Colour, KingIsSafe(c, p),
         NEW k \in Kinds, NEW s \in Square, NEW t \in Square, NEW f \in BOOLEAN, ByRules(c, p, k, s, t, f),
         NEW m, m = Board(p, k, f, s, t)
  PROVE  /\ GivesCheck(p.board, c, m) <=> Gives(c, p, k, f, s, t)
         /\ Comes(m) = Becoming(k, f) /\ m.piece = k
         /\ m \in PseudoLegal(p.board, p.hand, c) /\ ~OverPromoted(c, m)
<1>1. PICK K \in Square : K = p.sq_king[Flip(c)]
  BY Flips DEF IsPosition
<1>2. /\ m.from = s /\ m.to = t /\ m.piece = k /\ m.promo = f /\ ~IsDrop(m)
  BY PartsOfSteps
<1>3. PICK j : j = Comes(m)
  OBVIOUS
<1>4. j = Becoming(k, f)
  BY <1>2, <1>3 DEF Comes, Becoming
<1>5. GivesCheck(p.board, c, m) <=> Sees(p.board, c, j, t, K) \/ IsDiscover(Flip(c), p, s, t)
  BY <1>1, <1>3, StepChecks
<1>6. m \in MovesByRules(c, p)
  BY MovesByRulesAre
<1>7. m \in PseudoLegal(p.board, p.hand, c)
  BY <1>6, MovesByRulesArePseudoLegal
<1>8. f => s \in Zone(c) \/ t \in Zone(c)
  BY DEF ByRules
<1>9. ~OverPromoted(c, m)
  BY <1>2, <1>8 DEF OverPromoted
<1> QED BY <1>1, <1>2, <1>3, <1>4, <1>5, <1>7, <1>9 DEF Gives

(* A check that may be played.                                             *)
MayCheck(c, p, m) ==
  m \in PseudoLegal(p.board, p.hand, c) /\ GivesCheck(p.board, c, m) /\ ~OverPromoted(c, m)

(* What the generators make may, on the board.                             *)
LEMMA ChecksFromMay ==
  ASSUME NEW p, IsPosition(p), Copies(p), Alive(p), NEW c \in Colour, KingIsSafe(c, p),
         NEW k \in Kinds, NEW m, ChecksFrom(c, p, k, Square, m)
  PROVE  MayCheck(c, p, m)
<1>1. PICK s \in Square, t \in Square, f \in BOOLEAN :
        Forthright(c, p, k, s, t, f) /\ Gives(c, p, k, f, s, t) /\ m = Board(p, k, f, s, t)
  BY DEF ChecksFrom
<1>2. ByRules(c, p, k, s, t, f)
  BY <1>1 DEF Forthright
<1> QED BY <1>1, <1>2, StepGives DEF MayCheck

LEMMA KingOpensMay ==
  ASSUME NEW p, IsPosition(p), Copies(p), Alive(p), NEW c \in Colour, KingIsSafe(c, p),
         NEW m, KingOpens(c, p, m)
  PROVE  MayCheck(c, p, m)
<1>1. PICK s \in Square, t \in Square :
        StepOf(c, p, king, s, t) /\ IsDiscover(Flip(c), p, s, t) /\ m = Board(p, king, FALSE, s, t)
  BY DEF KingOpens
<1>2. king \in Kinds /\ king \in Kinds \ {pawn, lance, knight}
  BY DEF Kinds, king, pawn, lance, knight
<1>3. PICK f \in BOOLEAN : f = FALSE
  OBVIOUS
<1>4. ~Stuck(c, king, t)
  BY <1>2, WhereStuck
<1>5. ByRules(c, p, king, s, t, f)
  BY <1>1, <1>2, <1>3, <1>4, StepsByRules
<1>6. Gives(c, p, king, f, s, t)
  BY <1>1 DEF Gives
<1> QED BY <1>1, <1>2, <1>3, <1>5, <1>6, StepGives DEF MayCheck

(* And by a drop.                                                          *)
LEMMA DropCheckMay ==
  ASSUME NEW p, IsPosition(p), Copies(p), Alive(p), NEW c \in Colour, KingIsSafe(c, p),
         NEW k \in Hands, NEW m, DropCheck(c, p, k, m)
  PROVE  MayCheck(c, p, m)
<1>1. PICK t \in Square : /\ DropByRules(c, p, k, t) /\ m = DropMove(k, t)
                          /\ Sees(p.board, c, k, t, Target(c, p))
                          /\ k = pawn => ~IsMatePawnDrop(c, p, t)
  BY DEF DropCheck
<1>2. PICK K : K = p.sq_king[Flip(c)]
  OBVIOUS
<1>3. GivesCheck(p.board, c, m)
  <2>1. Sees(p.board, c, k, t, K)
    BY <1>1, <1>2 DEF Target
  <2> QED BY <1>1, <1>2, <2>1, DropChecks
<1>4. m \in MovesByRules(c, p)
  BY <1>1, MovesByRulesAre
<1>5. m \in PseudoLegal(p.board, p.hand, c)
  BY <1>4, MovesByRulesArePseudoLegal
<1>6. ~m.promo
  BY <1>1 DEF DropMove, Move
<1> QED BY <1>3, <1>5, <1>6 DEF MayCheck, OverPromoted

(* The generators, together.                                               *)
LEMMA GenCheckIs ==
  ASSUME NEW p, IsPosition(p), Copies(p), Alive(p), NEW c \in Colour, KingIsSafe(c, p), NEW m
  PROVE  m \in GenCheck(c, p) <=>
           \/ KingOpens(c, p, m)
           \/ \E k \in Kinds \ {pawn, lance, king} : ChecksFrom(c, p, k, Square, m)
           \/ m \in checks_by_lance(c, p) \/ m \in checks_by_pawn(c, p)
           \/ \E k \in Hands : DropCheck(c, p, k, m)
<1>1. m \in GenCheck(c, p) <=>
        \/ m \in checks_by_promoted(c, p) \/ m \in checks_by_rook(c, p) \/ m \in checks_by_bishop(c, p)
        \/ m \in checks_by_gold(c, p) \/ m \in checks_by_silver(c, p) \/ m \in checks_by_knight(c, p)
        \/ m \in checks_by_lance(c, p) \/ m \in checks_by_pawn(c, p)
        \/ m \in checks_by_drop(c, p) \cup checks_by_far_drop(c, p)
  <2>1. CASE c = white
    <3>1. GenCheck(c, p) =
            UNION {w_checks_by_promoted(p), w_checks_by_rook(p), w_checks_by_bishop(p),
                   w_checks_by_generals(p), w_checks_by_knight(p), w_checks_by_lance(p),
                   w_checks_by_pawn(p), w_checks_by_drop(p), w_checks_by_far_drop(p)}
      BY <2>1 DEF GenCheck
    <3>2. /\ w_checks_by_promoted(p) = checks_by_promoted(c, p) /\ w_checks_by_rook(p) = checks_by_rook(c, p)
          /\ w_checks_by_bishop(p) = checks_by_bishop(c, p) /\ w_checks_by_knight(p) = checks_by_knight(c, p)
          /\ w_checks_by_generals(p) = checks_by_gold(c, p) \cup checks_by_silver(c, p)
      BY <2>1 DEF w_checks_by_promoted, w_checks_by_rook, w_checks_by_bishop, w_checks_by_knight,
                  w_checks_by_generals
    <3>3. /\ w_checks_by_lance(p) = checks_by_lance(c, p) /\ w_checks_by_pawn(p) = checks_by_pawn(c, p)
          /\ w_checks_by_drop(p) = checks_by_drop(c, p) /\ w_checks_by_far_drop(p) = checks_by_far_drop(c, p)
      BY <2>1 DEF w_checks_by_lance, w_checks_by_pawn, w_checks_by_drop, w_checks_by_far_drop
    <3> QED BY <3>1, <3>2, <3>3
  <2>2. CASE c # white
    <3>1. GenCheck(c, p) = gen_checks(c, p)
      <4>1. c = black
        BY <2>2 DEF Colour
      <4> QED BY <2>2, <4>1 DEF GenCheck
    <3> QED BY <3>1 DEF gen_checks
  <2> QED BY <2>1, <2>2
<1>2. m \in checks_by_rook(c, p) <=> ChecksFrom(c, p, rook, Square, m)
  <2>1. PICK L : L = SeenFrom(c, p, rook, Target(c, p))
    OBVIOUS
  <2>2. checks_by_rook(c, p) = checks_by_slider(c, p, rook, L)
    BY <2>1, SeenFromIs DEF checks_by_rook
  <2> QED BY <2>1, <2>2, SlidersCheck
<1>3. m \in checks_by_bishop(c, p) <=> ChecksFrom(c, p, bishop, Square, m)
  <2>1. PICK L : L = SeenFrom(c, p, bishop, Target(c, p))
    OBVIOUS
  <2>2. checks_by_bishop(c, p) = checks_by_slider(c, p, bishop, L)
    BY <2>1, SeenFromIs DEF checks_by_bishop
  <2> QED BY <2>1, <2>2, SlidersCheck
<1>4. Kinds \ {pawn, lance, king} = {rook, bishop, silver, knight, horse, dragon} \cup Golds
  BY DEF Kinds, Golds, pawn, lance, king, rook, bishop, silver, knight, horse, dragon, gold, promote
<1>5. m \in checks_by_promoted(c, p) <=>
        KingOpens(c, p, m) \/ \E k \in {horse, dragon} : ChecksFrom(c, p, k, Square, m)
  BY PromotedCheck
<1>6. m \in checks_by_gold(c, p) <=> \E k \in Golds : ChecksFrom(c, p, k, Square, m)
  BY GoldsCheck
<1>7. m \in checks_by_silver(c, p) <=> ChecksFrom(c, p, silver, Square, m)
  BY SilversCheck
<1>8. m \in checks_by_knight(c, p) <=> ChecksFrom(c, p, knight, Square, m)
  BY KnightsCheck
<1>9. m \in checks_by_drop(c, p) \cup checks_by_far_drop(c, p) <=> \E k \in Hands : DropCheck(c, p, k, m)
  BY DropsCheck
<1> QED BY <1>1, <1>2, <1>3, <1>4, <1>5, <1>6, <1>7, <1>8, <1>9

(* What they make may be played and gives check, but for lances that are   *)
(* promoted out of the zone.                                               *)
LEMMA GenChecksMay ==
  ASSUME NEW p, IsPosition(p), Copies(p), Alive(p), NEW c \in Colour, KingIsSafe(c, p), NEW m \in GenCheck(c, p)
  PROVE  MayCheck(c, p, m) \/ (OverPromoted(c, m) /\ m.piece = lance)
<1>1. CASE KingOpens(c, p, m)
  BY <1>1, KingOpensMay
<1>2. CASE \E k \in Kinds : ChecksFrom(c, p, k, Square, m)
  BY <1>2, ChecksFromMay
<1>3. CASE \E k \in Hands : DropCheck(c, p, k, m)
  BY <1>3, DropCheckMay
<1>4. lance \in Kinds /\ pawn \in Kinds
  BY DEF Kinds, lance, pawn
<1>5. CASE m \in checks_by_lance(c, p)
  BY <1>2, <1>4, <1>5, LancesCheck
<1>6. CASE m \in checks_by_pawn(c, p)
  BY <1>2, <1>4, <1>6, PawnsCheck
<1> QED BY <1>1, <1>2, <1>3, <1>5, <1>6, GenCheckIs

(* A pawn that gives check where it does not see the king has opened a     *)
(* line: its own arrival gives none.                                       *)
LEMMA OnlyOpened ==
  ASSUME NEW p, IsPosition(p), Copies(p), Alive(p), NEW c \in Colour, KingIsSafe(c, p),
         NEW k \in Kinds, NEW s \in Square, NEW t \in Square, NEW f \in BOOLEAN, ByRules(c, p, k, s, t, f),
         NEW m, m = Board(p, k, f, s, t),
         NEW K, K = p.sq_king[Flip(c)], ~Sees(p.board, c, Becoming(k, f), t, K)
  PROVE  K \notin Targets(After(p.board, c, m), c, m.to)
<1>1. PICK j : j = Comes(m)
  OBVIOUS
<1>2. PICK b, b2 : b = p.board /\ b2 = Moved(b, s, t, Signed(c, j))
  OBVIOUS
<1>3. /\ K \in Square /\ ~Attacked(b, c, K)
      /\ b[s] = Signed(c, k) /\ s # t
      /\ j \in Kinds /\ BecomesOf(k, j) /\ m.to = t
      /\ After(b, c, m) = b2
  BY <1>1, <1>2, StepOnBoard
<1>4. IsBoard(b)
  BY <1>2 DEF IsBoard, IsPosition
<1>5. ~Sees(b, c, j, t, K)
  BY <1>1, <1>2, StepGives
<1>6. ~Strikes(b2, c, j, t, K)
  BY <1>2, <1>3, <1>4, <1>5, DirectIs
<1>7. b2[t] = Signed(c, j)
  BY <1>2 DEF Moved
<1>8. ~Hits(b2, c, t, K)
  BY <1>3, <1>6, <1>7, HitsAre DEF Strikes
<1>9. K \notin Targets(b2, c, t)
  BY <1>8 DEF Hits, Targets
<1> QED BY <1>2, <1>3, <1>9

(* Every legal step that gives check and declines no promotion is found,   *)
(* unless a pawn only opens a line.                                        *)
FoundOrOpened(c, p, m) ==
  \/ m \in GenCheck(c, p)
  \/ /\ m \in BoardMoves(p.board, c) /\ m.piece = pawn
     /\ p.sq_king[Flip(c)] \notin Targets(After(p.board, c, m), c, m.to)
LEMMA StepsFound ==
  ASSUME NEW p, IsPosition(p), Copies(p), Alive(p), NEW c \in Colour, KingIsSafe(c, p),
         NEW m, ForthrightStep(c, p, m), Safe(p.board, c, m), GivesCheck(p.board, c, m)
  PROVE  FoundOrOpened(c, p, m)
<1>1. PICK k \in Kinds, s \in Square, t \in Square, f \in BOOLEAN :
        Forthright(c, p, k, s, t, f) /\ m = Board(p, k, f, s, t)
  BY DEF ForthrightStep
<1>2. ByRules(c, p, k, s, t, f)
  BY <1>1 DEF Forthright
<1>3. Gives(c, p, k, f, s, t) /\ Comes(m) = Becoming(k, f) /\ m.piece = k
  BY <1>1, <1>2, StepGives
<1>4. PICK K : K = p.sq_king[Flip(c)]
  OBVIOUS
<1>5. ChecksFrom(c, p, k, Square, m)
  BY <1>1, <1>3 DEF ChecksFrom
<1>6. CASE k \notin {pawn, lance, king}
  BY <1>5, <1>6, GenCheckIs DEF FoundOrOpened
<1>7. CASE k = lance
  BY <1>5, <1>7, LancesCheck, GenCheckIs DEF FoundOrOpened
<1>8. CASE k = king
  <2>1. ~f /\ f = FALSE
    BY <1>1, <1>8, KingsAreForthright
  <2>2. Becoming(k, f) = king
    BY <1>8, <2>1 DEF Becoming
  <2>3. ~Sees(p.board, c, king, t, K)
    BY <1>1, <1>2, <1>3, <1>4, <2>2, KingsSeeNoKing
  <2>4. IsDiscover(Flip(c), p, s, t)
    BY <1>3, <1>4, <2>2, <2>3 DEF Gives
  <2>5. StepOf(c, p, king, s, t)
    BY <1>2, <1>8, StepsByRules
  <2>6. KingOpens(c, p, m)
    BY <1>1, <1>8, <2>1, <2>4, <2>5 DEF KingOpens
  <2> QED BY <2>6, GenCheckIs DEF FoundOrOpened
<1>9. CASE k = pawn
  <2>1. CASE Sees(p.board, c, Becoming(k, f), t, K)
    BY <1>1, <1>4, <1>9, <2>1, PawnsCheck, GenCheckIs DEF FoundOrOpened
  <2>2. CASE ~Sees(p.board, c, Becoming(k, f), t, K)
    <3>1. K \notin Targets(After(p.board, c, m), c, m.to)
      BY <1>1, <1>2, <1>4, <2>2, OnlyOpened
    <3>2. m \in BoardMoves(p.board, c)
      BY <1>1, <1>2, BoardMovesAre
    <3> QED BY <1>3, <1>4, <1>9, <3>1, <3>2 DEF FoundOrOpened
  <2> QED BY <2>1, <2>2
<1> QED BY <1>6, <1>7, <1>8, <1>9

(* Every drop.                                                             *)
LEMMA DropsFound ==
  ASSUME NEW p, IsPosition(p), Copies(p), Alive(p), NEW c \in Colour, KingIsSafe(c, p),
         NEW m, Drop(c, p, m), GivesCheck(p.board, c, m)
  PROVE  FoundOrOpened(c, p, m)
<1>1. PICK k \in Hands, t \in Square : /\ DropByRules(c, p, k, t) /\ m = DropMove(k, t)
                                       /\ k = pawn => ~IsMatePawnDrop(c, p, t)
  BY DEF Drop
<1>2. PICK K : K = p.sq_king[Flip(c)]
  OBVIOUS
<1>3. Sees(p.board, c, k, t, K)
  BY <1>1, <1>2, DropChecks
<1>4. DropCheck(c, p, k, m)
  BY <1>1, <1>2, <1>3 DEF DropCheck, Target
<1> QED BY <1>4, GenCheckIs DEF FoundOrOpened

(* The generator of genchk.c, which the quiescence and the mate searches   *)
(* rely on, makes checks that may be played, but for a lance promoted out  *)
(* of the zone as it opens a line; and it misses no legal check but those  *)
(* that decline a promotion and those a pawn only opens.  In every         *)
(* position the search goes on from, of a side in check too.               *)
THEOREM EveryCheckIsFound == Spec => [](Sound => ChecksFound(GenCheck(turn, pos)))
<1>1. ASSUME WalkInv, Sound
      PROVE  ChecksFound(GenCheck(turn, pos))
  <2>1. IsPosition(pos) /\ Copies(pos) /\ Alive(pos) /\ turn \in Colour /\ ~InCheck(Flip(turn), pos)
    BY <1>1 DEF WalkInv, Walk, Reached, Sound, Sane
  <2>2. KingIsSafe(turn, pos)
    BY <2>1, Flips DEF KingIsSafe, InCheck
  <2>3. pos.board = board /\ pos.hand = hand
    BY DEF board, hand
  <2>4. KingOf(board, Waiting) = pos.sq_king[Flip(turn)]
    BY <2>1, <2>3, Flips, TheKingIsThere DEF Waiting
  <2>5. ASSUME NEW m \in GenCheck(turn, pos)
        PROVE  IF IllegalPromotion(m) THEN m.piece = lance
               ELSE m \in PseudoLegal(board, hand, turn) /\ GivesCheck(board, turn, m)
    <3>1. IllegalPromotion(m) <=> OverPromoted(turn, m)
      BY DEF IllegalPromotion, OverPromoted
    <3>2. MayCheck(turn, pos, m) \/ (OverPromoted(turn, m) /\ m.piece = lance)
      BY <2>1, <2>2, <2>5, GenChecksMay
    <3> QED BY <2>3, <3>1, <3>2 DEF MayCheck
  <2>6. ASSUME NEW m \in LegalMoves \ GenCheck(turn, pos), GivesCheck(board, turn, m), m \notin GenEx2(turn, pos)
        PROVE  m \in DiscoveredByPawn
    <3>1. m \in Legal(pos.board, pos.hand, turn) \ GenEx2(turn, pos)
      BY <2>3, <2>6 DEF LegalMoves
    <3>2. (ForthrightStep(turn, pos, m) \/ Drop(turn, pos, m)) /\ Safe(pos.board, turn, m)
      BY <2>1, <2>2, <3>1, LegalAre
    <3>3. GivesCheck(pos.board, turn, m)
      BY <2>3, <2>6
    <3>4. FoundOrOpened(turn, pos, m)
      BY <2>1, <2>2, <3>2, <3>3, StepsFound, DropsFound
    <3> QED BY <2>3, <2>4, <2>6, <3>4 DEF FoundOrOpened, DiscoveredByPawn
  <2> QED BY <2>5, <2>6 DEF ChecksFound
<1>2. WalkInv => (Sound => ChecksFound(GenCheck(turn, pos)))
  BY <1>1
<1> QED BY <1>2, EveryWalk, PTL

(* At the start of a walk, as the runs check it.                           *)
THEOREM TheChecksAreFound == Spec => []ChecksAreFound
<1>1. (Sound => ChecksFound(GenCheck(turn, pos))) => ChecksAreFound
  BY DEF ChecksAreFound, Quiet, AtStart
<1> QED BY <1>1, EveryCheckIsFound, PTL
(***************************************************************************)
(* Mates in one.                                                           *)
(***************************************************************************)
(* What attacks are read off: the bitboards of c and the occupancies of r  *)
(* are those of the board b.                                               *)
AsSeen(c, r, b) ==
  /\ \A k \in {lance, knight, silver} : r.bb[c][k] = OnBoard(b, c, {k})
  /\ \A u \in DOMAIN Unions : r.union[c][u] = OnBoard(b, c, Unions[u])
  /\ r.pawn_atk[c] = {s + Ahead(c) : s \in OnBoard(b, c, {pawn})}
  /\ r.rl90 = Taken(b) /\ r.rr45 = Taken(b) /\ r.rl45 = Taken(b)
  /\ r.occ[black] \cup r.occ[white] = Taken(b)

LEMMA CopiesAreSeen ==
  ASSUME NEW p, IsPosition(p), Copies(p), NEW c \in Colour
  PROVE  AsSeen(c, p, p.board)
<1>1. {lance, knight, silver} \subseteq BoardKinds
  BY KindsApart
<1>2. p.rl90 = Taken(p.board) /\ p.rr45 = Taken(p.board) /\ p.rl45 = Taken(p.board)
  BY DEF Copies, Taken
<1>3. p.occ[black] \cup p.occ[white] = Taken(p.board)
  BY OccupiedIsBoth DEF Occupied, Taken
<1>4. \A k \in {lance, knight, silver} : p.bb[c][k] = OnBoard(p.board, c, {k})
  <2>1. \A k \in BoardKinds : p.bb[c][k] = OnBoard(p.board, c, {k})
    <3> TAKE k \in BoardKinds
    <3> QED BY DEF Copies
  <2> QED BY <1>1, <2>1
<1>5. /\ \A u \in DOMAIN Unions : p.union[c][u] = OnBoard(p.board, c, Unions[u])
      /\ p.pawn_atk[c] = {s + Ahead(c) : s \in OnBoard(p.board, c, {pawn})}
  BY DEF Copies
<1> QED BY <1>2, <1>3, <1>4, <1>5 DEF AsSeen

(* Lines are looked up in the occupancies.                                 *)
LEMMA SeenLines ==
  ASSUME NEW c, NEW r, NEW b, AsSeen(c, r, b), NEW t
  PROVE  /\ AttackFile(r, t) = Slide(2, t, Taken(b)) /\ AttackRank(r, t) = Slide(3, t, Taken(b))
         /\ AttackDiag1(r, t) = Slide(4, t, Taken(b)) /\ AttackDiag2(r, t) = Slide(5, t, Taken(b))
  BY DEF AsSeen, AttackFile, AttackRank, AttackDiag1, AttackDiag2, abb_file_attacks, ai_rook_attacks_r0,
         abb_bishop_attacks_rl45, abb_bishop_attacks_rr45, direc_file, direc_rank, direc_diag1, direc_diag2

(* What attacks a square, or pins what stands on it, is the same whatever  *)
(* stands there.                                                           *)
LEMMA SeenAlike ==
  ASSUME NEW c \in Colour, NEW r, NEW b, AsSeen(c, r, b), NEW r2, NEW b2, AsSeen(c, r2, b2),
         NEW t \in Square, \A s \in Square \ {t} : b[s] = b2[s]
  PROVE  /\ Strikers(c, r, t) = Strikers(c, r2, t)
         /\ is_attacked_by(c, r, t) <=> is_attacked_by(c, r2, t)
         /\ \A y : r.sq_king[Flip(c)] = r2.sq_king[Flip(c)] =>
                     (IsDiscover(Flip(c), r, t, y) <=> IsDiscover(Flip(c), r2, t, y))
<1>1. ASSUME NEW S PROVE OnBoard(b, c, S) \ {t} = OnBoard(b2, c, S) \ {t}
  BY DEF OnBoard
<1>2. Taken(b) \cup {t} = Taken(b2) \cup {t}
  BY DEF Taken
<1>3. ASSUME NEW e \in 2..5
      PROVE  Slide(e, t, Taken(b)) = Slide(e, t, Taken(b2)) /\ t \notin Slide(e, t, Taken(b2))
  <2>1. /\ Slide(e, t, Taken(b) \cup {t}) = Slide(e, t, Taken(b))
        /\ Slide(e, t, Taken(b2) \cup {t}) = Slide(e, t, Taken(b2))
        /\ t \notin Slide(e, t, Taken(b2))
    BY OwnSquareApart
  <2> QED BY <1>2, <2>1
<1>4. /\ AttackFile(r, t) = AttackFile(r2, t) /\ t \notin AttackFile(r2, t)
      /\ AttackRank(r, t) = AttackRank(r2, t) /\ t \notin AttackRank(r2, t)
      /\ AttackDiag1(r, t) = AttackDiag1(r2, t) /\ t \notin AttackDiag1(r2, t)
      /\ AttackDiag2(r, t) = AttackDiag2(r2, t) /\ t \notin AttackDiag2(r2, t)
  BY <1>3, SeenLines
<1>5. /\ \A k \in {lance, knight, silver} : r.bb[c][k] \ {t} = r2.bb[c][k] \ {t}
      /\ \A u \in DOMAIN Unions : r.union[c][u] \ {t} = r2.union[c][u] \ {t}
  BY <1>1 DEF AsSeen
<1>6. {"tgold", "hdk", "bh", "rd"} \subseteq DOMAIN Unions
  BY DEF Unions
<1>7. /\ r.bb[c][lance] \ {t} = r2.bb[c][lance] \ {t} /\ r.bb[c][knight] \ {t} = r2.bb[c][knight] \ {t}
      /\ r.bb[c][silver] \ {t} = r2.bb[c][silver] \ {t}
      /\ r.union[c].tgold \ {t} = r2.union[c].tgold \ {t} /\ r.union[c].hdk \ {t} = r2.union[c].hdk \ {t}
      /\ r.union[c].bh \ {t} = r2.union[c].bh \ {t} /\ r.union[c].rd \ {t} = r2.union[c].rd \ {t}
  BY <1>5, <1>6
<1>8. PICK d \in Colour : d = Flip(c) /\ Flip(d) = c
  BY Flips
<1>9. Strikers(c, r, t) = Strikers(c, r2, t)
  <2>1. t \notin Knight(d, t) /\ t \notin Silver(d, t) /\ t \notin Gold(d, t) /\ t \notin abb_king_attacks[t]
    BY NotOnItself
  <2>2. /\ r.bb[c][knight] \cap Knight(d, t) = r2.bb[c][knight] \cap Knight(d, t)
        /\ r.bb[c][silver] \cap Silver(d, t) = r2.bb[c][silver] \cap Silver(d, t)
        /\ r.union[c].tgold \cap Gold(d, t) = r2.union[c].tgold \cap Gold(d, t)
        /\ r.union[c].hdk \cap abb_king_attacks[t] = r2.union[c].hdk \cap abb_king_attacks[t]
    BY <1>7, <2>1
  <2>3. /\ AttackBishop(r, t) = AttackBishop(r2, t) /\ t \notin AttackBishop(r2, t)
        /\ AttackRank(r, t) \cup AttackFile(r, t) = AttackRank(r2, t) \cup AttackFile(r2, t)
        /\ t \notin AttackRank(r2, t) \cup AttackFile(r2, t)
    BY <1>4 DEF AttackBishop
  <2>4. /\ r.union[c].bh \cap AttackBishop(r, t) = r2.union[c].bh \cap AttackBishop(r2, t)
        /\ r.union[c].rd \cap (AttackRank(r, t) \cup AttackFile(r, t))
             = r2.union[c].rd \cap (AttackRank(r2, t) \cup AttackFile(r2, t))
        /\ r.bb[c][lance] \cap RaysBehind(c)[t] \cap AttackFile(r, t)
             = r2.bb[c][lance] \cap RaysBehind(c)[t] \cap AttackFile(r2, t)
    BY <1>4, <1>7, <2>3
  <2> QED BY <1>8, <2>2, <2>4, Zenon DEF Strikers
<1>10. t \in r.pawn_atk[c] <=> t \in r2.pawn_atk[c]
  <2>1. PICK X, X2, a : X = OnBoard(b, c, {pawn}) /\ X2 = OnBoard(b2, c, {pawn}) /\ a = Ahead(c)
    OBVIOUS
  <2>2. X \subseteq Square /\ X2 \subseteq Square /\ a \in {-9, 9} /\ X \ {t} = X2 \ {t}
    BY <1>1, <2>1 DEF OnBoard, Ahead
  <2>3. t \in {s + a : s \in X} <=> t \in {s + a : s \in X2}
    <3>1. \A s \in X \cup X2 : s \in Int /\ (t = s + a => s # t)
      BY <2>2 DEF Square
    <3> QED BY <2>2, <3>1
  <2> QED BY <2>1, <2>3 DEF AsSeen
<1>11. is_attacked_by(c, r, t) <=> is_attacked_by(c, r2, t)
  BY <1>9, <1>10 DEF is_attacked_by
<1>12. ASSUME NEW y, r.sq_king[d] = r2.sq_king[d]
       PROVE  IsDiscover(d, r, t, y) <=> IsDiscover(d, r2, t, y)
  <2>1. PICK e, K : e = adirec[r.sq_king[d]][t] /\ K = r.sq_king[d]
    OBVIOUS
  <2>2. Along(r, t, e) = Along(r2, t, e) /\ t \notin Along(r, t, e)
    BY <1>4, Zenon DEF Along, direc_rank, direc_file, direc_diag1
  <2>3. Runners(c, r, t, e) \ {t} = Runners(c, r2, t, e) \ {t}
    <3>1. /\ r.union[c].rd \ {t} = r2.union[c].rd \ {t} /\ r.union[c].bh \ {t} = r2.union[c].bh \ {t}
          /\ (r.union[c].rd \cup (r.bb[c][lance] \cap RaysBehind(c)[t])) \ {t}
               = (r2.union[c].rd \cup (r2.bb[c][lance] \cap RaysBehind(c)[t])) \ {t}
      BY <1>7
    <3>2. PICK A, A2, B, B2, F, F2 :
            /\ A = r.union[c].rd /\ A2 = r2.union[c].rd /\ B = r.union[c].bh /\ B2 = r2.union[c].bh
            /\ F = r.union[c].rd \cup (r.bb[c][lance] \cap RaysBehind(c)[t])
            /\ F2 = r2.union[c].rd \cup (r2.bb[c][lance] \cap RaysBehind(c)[t])
      OBVIOUS
    <3>3. /\ Runners(c, r, t, e) = CASE e = direc_rank -> A [] e = direc_file -> F [] OTHER -> B
          /\ Runners(c, r2, t, e) = CASE e = direc_rank -> A2 [] e = direc_file -> F2 [] OTHER -> B2
      BY <3>2 DEF Runners
    <3> QED BY <3>1, <3>2, <3>3 DEF direc_rank, direc_file
  <2>4. is_pinned_on(d, r, t, e) <=> is_pinned_on(d, r2, t, e)
    BY <1>8, <1>12, <2>2, <2>3 DEF is_pinned_on, BothOn
  <2> QED BY <1>12, <2>1, <2>4 DEF IsDiscover
<1> QED BY <1>8, <1>9, <1>11, <1>12
(* What attacks a square is read off right, whatever stands there.         *)
LEMMA SeenAttacked ==
  ASSUME NEW c \in Colour, NEW r, NEW b, AsSeen(c, r, b), NEW q, IsPosition(q), Copies(q),
         NEW t \in Square, \A s \in Square \ {t} : b[s] = q.board[s]
  PROVE  /\ is_attacked_by(c, r, t) <=> Attacked(q.board, c, t)
         /\ Strikers(c, r, t) = Strikers(c, q, t)
<1>1. AsSeen(c, q, q.board)
  BY CopiesAreSeen
<1>2. /\ Strikers(c, r, t) = Strikers(c, q, t)
      /\ is_attacked_by(c, r, t) <=> is_attacked_by(c, q, t)
  BY <1>1, SeenAlike
<1> QED BY <1>2, AttackedByTheRules

(* What Occupying does to each field.                                      *)
OccupiedOf(e, r, s, q) ==
  /\ HasFields(q)
  /\ q.board = r.board /\ q.bb = r.bb /\ q.union = r.union /\ q.pawn_atk = r.pawn_atk
  /\ q.sq_king = r.sq_king
  /\ q.occ = [r.occ EXCEPT ![e] = Toggle(r.occ[e], {s})]
  /\ q.rl90 = Toggle(r.rl90, {s}) /\ q.rr45 = Toggle(r.rr45, {s}) /\ q.rl45 = Toggle(r.rl45, {s})

LEMMA OccupyingFields ==
  ASSUME NEW r, HasFields(r), NEW e, NEW s, NEW q, q = Occupying(e, r, s)
  PROVE  OccupiedOf(e, r, s, q)
  BY DEF Occupying, HasFields, Fields, OccupiedOf

HasOcc(r) == HasFields(r) /\ r.occ \in [Colour -> SUBSET Square]

(* Filling or clearing a square of another side's in the occupancies.      *)
LEMMA SeenToggled ==
  ASSUME NEW c \in Colour, NEW r, NEW b, AsSeen(c, r, b), HasOcc(r), NEW e \in Colour,
         NEW s \in Square, s \notin r.occ[Flip(e)],
         NEW b2, \A t \in Square \ {s} : b2[t] = b[t],
         \A k \in Kinds : b[s] # Signed(c, k) /\ b2[s] # Signed(c, k),
         b2[s] = empty <=> b[s] # empty,
         NEW q, q = Occupying(e, r, s)
  PROVE  /\ AsSeen(c, q, b2) /\ HasOcc(q)
         /\ q.occ[e] = Toggle(r.occ[e], {s}) /\ q.occ[Flip(e)] = r.occ[Flip(e)]
         /\ q.board = r.board /\ q.sq_king = r.sq_king
<1>1. PICK g \in Colour : g = Flip(e) /\ g # e /\ Colour = {e, g}
  BY Flips DEF Colour, Flip, black, white
<1>2. /\ HasFields(q)
      /\ q.board = r.board /\ q.bb = r.bb /\ q.union = r.union /\ q.pawn_atk = r.pawn_atk
      /\ q.sq_king = r.sq_king
      /\ q.occ = [r.occ EXCEPT ![e] = Toggle(r.occ[e], {s})]
      /\ q.rl90 = Toggle(r.rl90, {s}) /\ q.rr45 = Toggle(r.rr45, {s}) /\ q.rl45 = Toggle(r.rl45, {s})
  <2>1. HasFields(r)
    BY DEF HasOcc
  <2>2. OccupiedOf(e, r, s, q)
    BY <2>1, OccupyingFields
  <2> QED BY <2>2 DEF OccupiedOf
<1>3. q.occ[e] = Toggle(r.occ[e], {s}) /\ q.occ[g] = r.occ[g]
  BY <1>1, <1>2 DEF HasOcc
<1>4. q.occ \in [Colour -> SUBSET Square]
  <2>1. Toggle(r.occ[e], {s}) \in SUBSET Square
    BY DEF HasOcc, Toggle
  <2> QED BY <1>2, <2>1 DEF HasOcc
<1>5. Toggle(Taken(b), {s}) = Taken(b2)
  BY DEF Taken, Toggle
<1>6. q.occ[black] \cup q.occ[white] = Taken(b2)
  <2>1. \A f : f[black] \cup f[white] = f[e] \cup f[g]
    BY <1>1 DEF Colour, black, white
  <2>2. r.occ[e] \cup r.occ[g] = Taken(b)
    BY <2>1 DEF AsSeen
  <2>3. Toggle(r.occ[e], {s}) \cup r.occ[g] = Toggle(r.occ[e] \cup r.occ[g], {s})
    BY <1>1 DEF Toggle
  <2> QED BY <1>3, <1>5, <2>1, <2>2, <2>3
<1>7. ASSUME NEW S \in SUBSET Kinds PROVE OnBoard(b2, c, S) = OnBoard(b, c, S)
  BY DEF OnBoard
<1>8. /\ \A k \in {lance, knight, silver} : OnBoard(b2, c, {k}) = OnBoard(b, c, {k})
      /\ \A u \in DOMAIN Unions : OnBoard(b2, c, Unions[u]) = OnBoard(b, c, Unions[u])
      /\ OnBoard(b2, c, {pawn}) = OnBoard(b, c, {pawn})
  <2>1. {lance, knight, silver, pawn} \subseteq Kinds
    BY DEF Kinds, lance, knight, silver, pawn
  <2>2. \A k \in {lance, knight, silver} : OnBoard(b2, c, {k}) = OnBoard(b, c, {k})
    BY <1>7, <2>1
  <2>3. OnBoard(b2, c, {pawn}) = OnBoard(b, c, {pawn})
    BY <1>7, <2>1
  <2>4. \A u \in DOMAIN Unions : OnBoard(b2, c, Unions[u]) = OnBoard(b, c, Unions[u])
    BY <1>7, SetsOfKinds
  <2> QED BY <2>2, <2>3, <2>4
<1>9. AsSeen(c, q, b2)
  BY <1>2, <1>5, <1>6, <1>8 DEF AsSeen
<1> QED BY <1>1, <1>2, <1>3, <1>4, <1>9 DEF HasOcc

(* A board with the kings of c and of the other side on C and K is that of *)
(* a position.                                                             *)
KingsOn(b, c, C, K) ==
  /\ C \in Square /\ K \in Square
  /\ \A s \in Square : (b[s] = Signed(c, king) <=> s = C) /\ (b[s] = Signed(Flip(c), king) <=> s = K)
StandsOn(q, b, c, C, K) ==
  IsPosition(q) /\ Copies(q) /\ q.board = b /\ q.sq_king[c] = C /\ q.sq_king[Flip(c)] = K

LEMMA BoardsStand ==
  ASSUME NEW c \in Colour, NEW b \in [Square -> Pieces], NEW C, NEW K, KingsOn(b, c, C, K)
  PROVE  \E q : StandsOn(q, b, c, C, K)
<1>1. PICK d \in Colour : d = Flip(c) /\ Colour = {c, d}
  BY Flips DEF Colour, Flip, black, white
<1>2. OnBoard(b, c, {king}) = {C} /\ OnBoard(b, d, {king}) = {K} /\ C \in Square /\ K \in Square
  BY <1>1 DEF KingsOn, OnBoard
<1>3. OneKingEach(b)
  BY <1>1, <1>2 DEF OneKingEach
<1>4. PICK h : h = [e \in Colour |-> [k \in Hands |-> 0]]
  OBVIOUS
<1>5. h \in [Colour -> [Hands -> Nat]]
  BY <1>4
<1>6. PICK q : q = SetUp(b, h)
  OBVIOUS
<1>7. IsPosition(q) /\ Copies(q) /\ q.board = b
  BY <1>3, <1>5, <1>6, SetUpIsPosition
<1>8. q.sq_king[c] = C /\ q.sq_king[d] = K
  BY <1>1, <1>2, <1>7 DEF Copies
<1> QED BY <1>1, <1>7, <1>8 DEF StandsOn

(* A piece has left x, or is in hand where x is no square: r is what the   *)
(* solver has of the board b.                                              *)
Emptied(b, x) == [s \in Square |-> IF s = x THEN empty ELSE b[s]]
Leaves(c, r, b, x, C, K) ==
  /\ b \in [Square -> Pieces] /\ KingsOn(b, c, C, K) /\ ~Attacked(b, c, K)
  /\ x \in Square => \E k \in Kinds \ {king} : b[x] = Signed(c, k)
  /\ AsSeen(c, r, Emptied(b, x)) /\ AsSeen(Flip(c), r, Emptied(b, x)) /\ HasOcc(r)
  /\ r.board = b /\ r.sq_king[c] = C /\ r.sq_king[Flip(c)] = K
  /\ r.occ[c] = OnBoard(Emptied(b, x), c, Kinds) /\ r.occ[Flip(c)] = OnBoard(b, Flip(c), Kinds)
(* It comes to y as a j.                                                   *)
Arrives(c, r, b, x, y, j, C, K) ==
  /\ Leaves(c, r, b, x, C, K)
  /\ y \in Square /\ y # K /\ y # x /\ j \in Kinds \ {king}
  /\ \A k \in Kinds : b[y] # Signed(c, k)

(* The squares of the board apart from one another.                        *)
Settled(c, d, b, b1, b2, x, y, j, C, K) ==
  /\ d \in Colour /\ d # c /\ Flip(d) = c
  /\ b1 \in [Square -> Pieces] /\ b2 \in [Square -> Pieces]
  /\ KingsOn(b1, c, C, K) /\ KingsOn(b2, c, C, K)
  /\ y # C /\ K # C /\ x # K /\ x # C /\ j \in Kinds
  /\ b2[y] = Signed(c, j)
  /\ \A s \in Square : s # x => b1[s] = b[s]
  /\ x \in Square => b1[x] = empty
  /\ \A s \in Square : s # y => b2[s] = b1[s]
LEMMA ArrivesApart ==
  ASSUME NEW c \in Colour, NEW r, NEW b, NEW x, NEW y, NEW j, NEW C, NEW K, Arrives(c, r, b, x, y, j, C, K),
         NEW d, d = Flip(c), NEW b1, b1 = Emptied(b, x), NEW b2, b2 = Moved(b, x, y, Signed(c, j))
  PROVE  Settled(c, d, b, b1, b2, x, y, j, C, K)
<1>1. d \in Colour /\ d # c /\ Flip(d) = c
  BY Flips
<1>2. /\ b \in [Square -> Pieces] /\ KingsOn(b, c, C, K)
      /\ x \in Square => \E k \in Kinds \ {king} : b[x] = Signed(c, k)
      /\ y \in Square /\ y # K /\ y # x /\ j \in Kinds \ {king}
      /\ \A k \in Kinds : b[y] # Signed(c, k)
  BY DEF Arrives, Leaves
<1>3. /\ C \in Square /\ K \in Square
      /\ \A s \in Square : (b[s] = Signed(c, king) <=> s = C) /\ (b[s] = Signed(d, king) <=> s = K)
  BY <1>2 DEF KingsOn
<1>4. king \in Kinds /\ empty \in Pieces /\ Signed(c, j) \in Pieces
  BY <1>2, KindsApart DEF Pieces
<1>5. /\ Signed(c, j) # Signed(c, king) /\ Signed(c, j) # Signed(d, king) /\ Signed(c, king) # Signed(d, king)
      /\ empty # Signed(c, king) /\ empty # Signed(d, king)
  BY <1>1, <1>2, <1>4, SignedIsOne
<1>6. y # C /\ K # C
  BY <1>2, <1>3, <1>4, <1>5
<1>7. x # K /\ x # C
  <2>1. \A k \in Kinds \ {king} : Signed(c, k) # Signed(d, king) /\ Signed(c, k) # Signed(c, king)
    BY <1>1, <1>4, SignedIsOne
  <2> QED BY <1>2, <1>3, <2>1
<1>8. /\ b1 \in [Square -> Pieces]
      /\ \A s \in Square : s # x => b1[s] = b[s]
      /\ x \in Square => b1[x] = empty
  BY <1>2, <1>4 DEF Emptied
<1>9. /\ b2 \in [Square -> Pieces] /\ b2[y] = Signed(c, j)
      /\ \A s \in Square : s # y => b2[s] = b1[s]
  BY <1>2, <1>4 DEF Emptied, Moved
<1>10. KingsOn(b1, c, C, K)
  BY <1>1, <1>3, <1>5, <1>7, <1>8 DEF KingsOn
<1>11. KingsOn(b2, c, C, K)
  BY <1>1, <1>3, <1>5, <1>2, <1>6, <1>9, <1>10 DEF KingsOn
<1> QED BY <1>1, <1>2, <1>6, <1>7, <1>8, <1>9, <1>10, <1>11 DEF Settled

(* The board once the king of d has gone to u.                             *)
Stepped(b2, d, K, u) == Moved(b2, K, u, Signed(d, king))
(* A piece that strikes a square strikes it too where it finds as little   *)
(* in its way.                                                             *)
LEMMA StrikesAlike ==
  ASSUME NEW c \in Colour, NEW b, NEW b4, NEW z \in Square, NEW k \in Kinds, NEW u \in Square,
         Strikes(b, c, k, z, u), b4[z] = b[z],
         \A s \in Square \ {u} : b4[s] # empty => b[s] # empty
  PROVE  Strikes(b4, c, k, z, u)
<1>1. b[z] = Signed(c, k) /\ Aims(c, k, z, u) /\ abb_obstacle[z][u] \cap Taken(b) = {}
  BY DEF Strikes
<1>2. u \notin abb_obstacle[z][u]
  BY BetweenApart
<1>3. abb_obstacle[z][u] \cap Taken(b4) = {}
  BY <1>1, <1>2 DEF Taken
<1> QED BY <1>1, <1>3 DEF Strikes

(* Its own king does not stand next to the other.                          *)
LEMMA KingsApart ==
  ASSUME NEW c \in Colour, NEW b \in [Square -> Pieces], NEW C, NEW K, KingsOn(b, c, C, K), ~Attacked(b, c, K)
  PROVE  C \notin abb_king_attacks[K]
<1>1. C \in Square /\ K \in Square /\ b[C] = Signed(c, king) /\ king \in Kinds
  BY KindsApart DEF KingsOn
<1>2. SUFFICES ASSUME C \in abb_king_attacks[K] PROVE FALSE
  OBVIOUS
<1>3. K \in abb_king_attacks[C]
  BY <1>1, <1>2, StepsAreMutual
<1>4. PICK q : StandsOn(q, b, c, C, K)
  BY BoardsStand
<1>5. Hits(q.board, c, C, K)
  <2>1. q.board = b /\ IsPosition(q) /\ Copies(q)
    BY <1>4 DEF StandsOn
  <2>2. king # pawn /\ Reach(c, q, king, C) = abb_king_attacks[C]
    BY KindsApart, ReachOfKinds
  <2> QED BY <1>1, <1>3, <2>1, <2>2, ReachIsHits
<1>6. q.board = b /\ Mine(c, b[C])
  BY <1>1, <1>4, AbsOfSigned DEF StandsOn
<1> QED BY <1>1, <1>5, <1>6 DEF Attacked

(* The king cannot take the piece that has come, where its side attacks.   *)
LEMMA KingCannotTake ==
  ASSUME NEW c \in Colour, NEW r, NEW b, NEW x, NEW y, NEW j, NEW C, NEW K, Arrives(c, r, b, x, y, j, C, K),
         NEW d, d = Flip(c), NEW b2, b2 = Moved(b, x, y, Signed(c, j)), is_attacked_by(c, r, y)
  PROVE  Attacked(Stepped(b2, d, K, y), c, y)
<1>1. PICK b1 : b1 = Emptied(b, x)
  OBVIOUS
<1>2. Settled(c, d, b, b1, b2, x, y, j, C, K)
  BY <1>1, ArrivesApart
<1>3. /\ b1 \in [Square -> Pieces] /\ KingsOn(b1, c, C, K) /\ d \in Colour /\ d # c
      /\ b2 \in [Square -> Pieces] /\ j \in Kinds
      /\ \A s \in Square : s # y => b2[s] = b1[s]
      /\ \A s \in Square : s # x => b1[s] = b[s]
      /\ x # K /\ x # C
  BY <1>2 DEF Settled
<1>4. /\ y \in Square /\ y # K /\ y # x /\ \A k \in Kinds : b[y] # Signed(c, k)
      /\ AsSeen(c, r, b1)
  BY <1>1 DEF Arrives, Leaves
<1>5. PICK q : StandsOn(q, b1, c, C, K)
  BY <1>3, BoardsStand
<1>6. IsPosition(q) /\ Copies(q) /\ q.board = b1
  BY <1>5 DEF StandsOn
<1>7. Attacked(b1, c, y)
  BY <1>4, <1>6, SeenAttacked
<1>8. PICK z \in Square, k \in Kinds : Strikes(b1, c, k, z, y)
  BY <1>3, <1>7, AttackedAre
<1>9. b1[z] = Signed(c, k) /\ z # y
  BY <1>8, AimFacts DEF Strikes
<1>10. b1[K] = Signed(d, king) /\ K \in Square /\ king \in Kinds
  BY <1>3, KindsApart DEF KingsOn
<1>11. z # K
  BY <1>3, <1>9, <1>10, SignedIsOne
<1>12. PICK b4 : b4 = Stepped(b2, d, K, y)
  OBVIOUS
<1>13. b4[z] = b1[z] /\ \A s \in Square \ {y} : b4[s] # empty => b1[s] # empty
  BY <1>3, <1>9, <1>11, <1>12 DEF Stepped, Moved
<1>14. Strikes(b4, c, k, z, y)
  BY <1>4, <1>8, <1>13, StrikesAlike
<1>15. \A s \in Square : b4[s] \in Pieces
  <2>1. Signed(d, king) \in Pieces /\ empty \in Pieces
    BY <1>3, <1>10, KindsApart DEF Pieces
  <2> QED BY <1>3, <1>12, <2>1 DEF Stepped, Moved
<1> QED BY <1>12, <1>14, <1>15, AttackedAre

(* The board that the solver looks at to see where the king may go: the    *)
(* king lifted, and something put on y if nothing stands there.            *)
Marked(b1, d, y) == [s \in Square |-> IF s = y /\ b1[y] = empty THEN Signed(d, gold) ELSE b1[s]]
Hunted(b1, d, y, K) == [s \in Square |-> IF s = K THEN empty ELSE Marked(b1, d, y)[s]]
LEMMA HuntedIsSeen ==
  ASSUME NEW c \in Colour, NEW r, NEW b, NEW x, NEW y, NEW j, NEW C, NEW K, Arrives(c, r, b, x, y, j, C, K),
         NEW d, d = Flip(c), NEW b1, b1 = Emptied(b, x),
         NEW q, q = Occupying(d, ArrivedAt(c, r, y), K)
  PROVE  /\ AsSeen(c, q, Hunted(b1, d, y, K))
         /\ q.occ[d] = OnBoard(b, d, Kinds) \ {K}
<1>1. PICK b2 : b2 = Moved(b, x, y, Signed(c, j))
  OBVIOUS
<1>2. Settled(c, d, b, b1, b2, x, y, j, C, K)
  BY <1>1, ArrivesApart
<1>3. /\ b1 \in [Square -> Pieces] /\ KingsOn(b1, c, C, K) /\ d \in Colour /\ d # c /\ Flip(d) = c
      /\ \A s \in Square : s # x => b1[s] = b[s]
      /\ x # K
  BY <1>2 DEF Settled
<1>4. /\ y \in Square /\ y # K /\ y # x /\ \A k \in Kinds : b[y] # Signed(c, k)
      /\ AsSeen(c, r, b1) /\ HasOcc(r) /\ r.board = b
      /\ r.occ[c] = OnBoard(b1, c, Kinds) /\ r.occ[d] = OnBoard(b, d, Kinds)
  BY DEF Arrives, Leaves
<1>5. PICK b5, r5 : b5 = Marked(b1, d, y) /\ r5 = ArrivedAt(c, r, y)
  OBVIOUS
<1>6. gold \in Kinds /\ king \in Kinds
  BY KindsApart DEF Kinds, gold
<1>7. /\ \A k \in Kinds : b1[y] # Signed(c, k) /\ b5[y] # Signed(c, k) /\ b5[y] # empty
      /\ \A s \in Square \ {y} : b5[s] = b1[s]
      /\ b1[y] = b[y] /\ (b1[y] # empty => b5 = b1)
  <2>1. \A k \in Kinds : Signed(d, gold) # Signed(c, k) /\ Signed(d, gold) # empty
    BY <1>3, <1>6, SignedIsOne
  <2>2. b1[y] = b[y]
    BY <1>3, <1>4
  <2> QED BY <1>3, <1>4, <1>5, <2>1, <2>2 DEF Marked
<1>8. AsSeen(c, r5, b5) /\ HasOcc(r5) /\ r5.occ[d] = OnBoard(b, d, Kinds) /\ K \notin r5.occ[c]
  <2>0. y \notin OnBoard(b, d, Kinds) \/ b[y] # empty
    <3>1. \A k \in Kinds : empty # Signed(d, k)
      BY <1>3, SignedIsOne
    <3> QED BY <3>1 DEF OnBoard
  <2>1. K \notin r.occ[c]
    <3>1. b1[K] = Signed(d, king)
      BY <1>3 DEF KingsOn
    <3>2. \A k \in Kinds : b1[K] # Signed(c, k)
      BY <1>3, <1>6, <3>1, SignedIsOne
    <3> QED BY <1>4, <3>2 DEF OnBoard
  <2>2. CASE b[y] # empty
    <3>1. r5 = r /\ b5 = b1
      BY <1>4, <1>5, <1>7, <2>2 DEF ArrivedAt
    <3> QED BY <1>4, <2>1, <3>1
  <2>3. CASE b[y] = empty
    <3>1. r5 = Occupying(c, r, y)
      BY <1>4, <1>5, <2>3 DEF ArrivedAt
    <3>2. y \notin r.occ[d]
      BY <1>4, <2>0, <2>3
    <3>3. /\ AsSeen(c, r5, b5) /\ HasOcc(r5)
          /\ r5.occ[c] = Toggle(r.occ[c], {y}) /\ r5.occ[d] = r.occ[d]
      <4>1. b5[y] = empty <=> b1[y] # empty
        BY <1>6, <1>7, <2>3
      <4> QED BY <1>3, <1>4, <1>7, <3>1, <3>2, <4>1, SeenToggled
    <3> QED BY <1>4, <2>1, <3>3 DEF Toggle
  <2> QED BY <2>2, <2>3
<1>9. PICK b6 : b6 = Hunted(b1, d, y, K)
  OBVIOUS
<1>10. /\ K \in Square /\ b5[K] = Signed(d, king) /\ b6[K] = empty /\ \A s \in Square \ {K} : b6[s] = b5[s]
  <2>1. K \in Square /\ b1[K] = Signed(d, king)
    BY <1>3 DEF KingsOn
  <2> QED BY <1>4, <1>5, <1>7, <1>9, <2>1 DEF Hunted
<1>11. /\ \A k \in Kinds : b5[K] # Signed(c, k) /\ b6[K] # Signed(c, k)
       /\ b6[K] = empty <=> b5[K] # empty
  BY <1>3, <1>6, <1>10, SignedIsOne
<1>12. q = Occupying(d, r5, K) /\ K \notin r5.occ[Flip(d)]
  BY <1>3, <1>5, <1>8
<1>13. AsSeen(c, q, b6) /\ q.occ[d] = Toggle(r5.occ[d], {K})
  <2>1. AsSeen(c, r5, b5) /\ HasOcc(r5) /\ d \in Colour /\ K \in Square
    BY <1>3, <1>8, <1>10
  <2>2. \A s \in Square \ {K} : b6[s] = b5[s]
    BY <1>10
  <2> QED BY <1>11, <1>12, <2>1, <2>2, SeenToggled, SMTT(60)
<1>14. K \in OnBoard(b, d, Kinds)
  <2>1. b[K] = Signed(d, king)
    BY <1>3, <1>10, <1>4, <1>7
  <2> QED BY <1>6, <1>10, <2>1 DEF OnBoard
<1> QED BY <1>8, <1>9, <1>13, <1>14 DEF Toggle

(* The king cannot flee to a square that its side attacks when the king is *)
(* lifted and y is filled.                                                 *)
LEMMA KingCannotFlee ==
  ASSUME NEW c \in Colour, NEW r, NEW b, NEW x, NEW y, NEW j, NEW C, NEW K, Arrives(c, r, b, x, y, j, C, K),
         NEW d, d = Flip(c), NEW b2, b2 = Moved(b, x, y, Signed(c, j)),
         NEW q, q = Occupying(d, ArrivedAt(c, r, y), K),
         NEW u \in abb_king_attacks[K], u # y, is_attacked_by(c, q, u)
  PROVE  Attacked(Stepped(b2, d, K, u), c, u)
<1>1. PICK b1 : b1 = Emptied(b, x)
  OBVIOUS
<1>2. Settled(c, d, b, b1, b2, x, y, j, C, K)
  BY <1>1, ArrivesApart
<1>3. /\ b1 \in [Square -> Pieces] /\ KingsOn(b1, c, C, K) /\ d \in Colour /\ d # c
      /\ b2 \in [Square -> Pieces] /\ j \in Kinds /\ b2[y] = Signed(c, j)
      /\ \A s \in Square : s # y => b2[s] = b1[s]
      /\ \A s \in Square : s # x => b1[s] = b[s]
      /\ y # C /\ K # C
  BY <1>2 DEF Settled
<1>4. /\ y \in Square /\ y # K /\ y # x /\ \A k \in Kinds : b[y] # Signed(c, k)
      /\ b \in [Square -> Pieces] /\ KingsOn(b, c, C, K) /\ ~Attacked(b, c, K)
  BY <1>1 DEF Arrives, Leaves
<1>5. /\ C \in Square /\ K \in Square /\ king \in Kinds /\ gold \in Kinds
      /\ \A s \in Square : (b1[s] = Signed(c, king) <=> s = C) /\ (b1[s] = Signed(d, king) <=> s = K)
  BY <1>3, KindsApart DEF KingsOn, Kinds, gold
<1>6. u \in Square /\ u # K /\ u # C
  <2>1. u \in Square /\ u # K
    BY <1>5, StepsAreMutual, NotOnItself
  <2> QED BY <1>4, <2>1, KingsApart
<1>7. PICK b6, b7 : b6 = Hunted(b1, d, y, K) /\ b7 = [s \in Square |-> IF s = u THEN Signed(d, king) ELSE b6[s]]
  OBVIOUS
<1>8. /\ \A s \in Square \ {y, K} : b6[s] = b1[s]
      /\ b6[K] = empty /\ b6[y] # empty /\ b6[y] \in Pieces
      /\ \A k \in Kinds : b6[y] # Signed(c, k)
      /\ b6[y] # Signed(d, king)
  <2>1. /\ \A k \in Kinds : Signed(d, gold) # Signed(c, k)
        /\ Signed(d, gold) # empty /\ Signed(d, gold) # Signed(d, king) /\ Signed(d, gold) \in Pieces
    BY <1>3, <1>5, KindsApart, SignedIsOne DEF Pieces, gold, king
  <2>2. b1[y] = b[y] /\ b1[y] # Signed(d, king) /\ b1[y] \in Pieces
    BY <1>3, <1>4, <1>5
  <2> QED BY <1>4, <1>5, <1>7, <2>1, <2>2 DEF Hunted, Marked
<1>9. Signed(d, king) \in Pieces /\ empty \in Pieces /\ Signed(d, king) # empty /\ Signed(c, king) # Signed(d, king)
      /\ empty # Signed(c, king)
  BY <1>3, <1>5, KindsApart, SignedIsOne DEF Pieces
<1>10. /\ b7 \in [Square -> Pieces] /\ b7[u] = Signed(d, king)
       /\ \A s \in Square \ {u} : b7[s] = b6[s]
  <2>1. \A s \in Square : b6[s] \in Pieces
    BY <1>3, <1>8, <1>9
  <2> QED BY <1>6, <1>7, <1>9, <2>1
<1>11. KingsOn(b7, c, C, u)
  <2>1. ASSUME NEW s \in Square PROVE (b7[s] = Signed(c, king) <=> s = C) /\ (b7[s] = Signed(d, king) <=> s = u)
    <3>1. CASE s = u
      BY <1>6, <1>9, <1>10, <3>1
    <3>2. CASE s # u /\ s = K
      BY <1>3, <1>5, <1>8, <1>9, <1>10, <3>2
    <3>3. CASE s # u /\ s = y
      BY <1>3, <1>5, <1>8, <1>10, <3>3
    <3>4. CASE s # u /\ s # K /\ s # y
      BY <1>5, <1>8, <1>10, <3>4
    <3> QED BY <3>1, <3>2, <3>3, <3>4
  <2> QED BY <1>5, <1>6, <2>1 DEF KingsOn
<1>12. PICK o : StandsOn(o, b7, c, C, u)
  BY <1>10, <1>11, BoardsStand
<1>13. IsPosition(o) /\ Copies(o) /\ o.board = b7
  BY <1>12 DEF StandsOn
<1>14. Attacked(b7, c, u)
  <2>1. AsSeen(c, q, b6)
    BY <1>1, <1>7, HuntedIsSeen
  <2> QED BY <1>6, <1>10, <1>13, <2>1, SeenAttacked
<1>15. PICK z \in Square, k \in Kinds : Strikes(b7, c, k, z, u)
  BY <1>10, <1>14, AttackedAre
<1>16. b7[z] = Signed(c, k)
  BY <1>15 DEF Strikes
<1>17. z # u /\ z # y /\ z # K
  BY <1>3, <1>5, <1>6, <1>8, <1>10, <1>16, SignedIsOne
<1>18. PICK b4 : b4 = Stepped(b2, d, K, u)
  OBVIOUS
<1>19. b4[z] = b7[z] /\ \A s \in Square \ {u} : b4[s] # empty => b7[s] # empty
  <2>1. \A s \in Square \ {u} : b4[s] = IF s = K THEN empty ELSE b2[s]
    BY <1>18 DEF Stepped, Moved
  <2> QED BY <1>3, <1>8, <1>10, <1>17, <2>1
<1>20. Strikes(b4, c, k, z, u)
  BY <1>6, <1>15, <1>19, StrikesAlike
<1>21. \A s \in Square : b4[s] \in Pieces
  BY <1>3, <1>9, <1>18 DEF Stepped, Moved
<1> QED BY <1>18, <1>20, <1>21, AttackedAre

(* The piece that has come strikes where it aims past the king.            *)
Beats(c, b1, j, y, K, u) == Aims(c, j, y, u) /\ abb_obstacle[y][u] \cap Taken(b1) \subseteq {K}
LEMMA KingCannotStep ==
  ASSUME NEW c \in Colour, NEW r, NEW b, NEW x, NEW y, NEW j, NEW C, NEW K, Arrives(c, r, b, x, y, j, C, K),
         NEW d, d = Flip(c), NEW b2, b2 = Moved(b, x, y, Signed(c, j)),
         NEW u \in Square, u # y, Beats(c, Emptied(b, x), j, y, K, u)
  PROVE  Attacked(Stepped(b2, d, K, u), c, u)
<1>1. PICK b1 : b1 = Emptied(b, x)
  OBVIOUS
<1>2. Settled(c, d, b, b1, b2, x, y, j, C, K)
  BY <1>1, ArrivesApart
<1>3. /\ d \in Colour
      /\ b2 \in [Square -> Pieces] /\ j \in Kinds /\ b2[y] = Signed(c, j)
      /\ \A s \in Square : s # y => b2[s] = b1[s]
  BY <1>2 DEF Settled
<1>4. y \in Square /\ y # K
  BY DEF Arrives
<1>5. Aims(c, j, y, u) /\ abb_obstacle[y][u] \cap Taken(b1) \subseteq {K}
  BY <1>1 DEF Beats
<1>6. PICK b4 : b4 = Stepped(b2, d, K, u)
  OBVIOUS
<1>7. /\ b4[y] = Signed(c, j)
      /\ \A s \in Square \ {u, y} : b4[s] # empty => s # K /\ b1[s] # empty
  BY <1>3, <1>4, <1>6 DEF Stepped, Moved
<1>8. y \notin abb_obstacle[y][u] /\ u \notin abb_obstacle[y][u]
  BY <1>4, BetweenApart
<1>9. abb_obstacle[y][u] \cap Taken(b4) = {}
  BY <1>5, <1>7, <1>8 DEF Taken
<1>10. Strikes(b4, c, j, y, u)
  BY <1>5, <1>7, <1>9 DEF Strikes
<1>11. \A s \in Square : b4[s] \in Pieces
  <2>1. Signed(d, king) \in Pieces /\ empty \in Pieces
    BY <1>3, KindsApart DEF Pieces
  <2> QED BY <1>3, <1>6, <2>1 DEF Stepped, Moved
<1> QED BY <1>3, <1>4, <1>6, <1>10, <1>11, AttackedAre

(* What the solver takes for granted of the squares of reach: the piece    *)
(* beats those that the king could go to.                                  *)
Covers(c, b1, j, y, K, R) == \A u \in (R \cap abb_king_attacks[K]) \ {y} : Beats(c, b1, j, y, K, u)
(* can_w_king_escape and can_b_king_escape (mate1ply.c) are right that the *)
(* king has nowhere to go.                                                 *)
LEMMA KingStays ==
  ASSUME NEW c \in Colour, NEW r, NEW b, NEW x, NEW y, NEW j, NEW C, NEW K, Arrives(c, r, b, x, y, j, C, K),
         NEW d, d = Flip(c), NEW b2, b2 = Moved(b, x, y, Signed(c, j)),
         NEW R, Covers(c, Emptied(b, x), j, y, K, R), ~can_king_escape(d, r, y, R),
         y \in abb_king_attacks[K] => is_attacked_by(c, r, y),
         NEW u \in abb_king_attacks[K], \A k \in Kinds : b2[u] # Signed(d, k)
  PROVE  Attacked(Stepped(b2, d, K, u), c, u)
<1>1. CASE u = y
  BY <1>1, KingCannotTake
<1>2. CASE u # y /\ u \in R
  <2>1. u \in Square
    <3>1. K \in Square
      BY DEF Arrives, Leaves, KingsOn
    <3> QED BY <3>1, StepsAreMutual
  <2>2. Beats(c, Emptied(b, x), j, y, K, u)
    BY <1>2 DEF Covers
  <2> QED BY <1>2, <2>1, <2>2, KingCannotStep
<1>3. CASE u # y /\ u \notin R
  <2>1. PICK q : q = Occupying(d, ArrivedAt(c, r, y), K)
    OBVIOUS
  <2>2. q.occ[d] = OnBoard(b, d, Kinds) \ {K}
    BY <2>1, HuntedIsSeen
  <2>3. u \notin q.occ[d]
    <3>1. PICK b1 : b1 = Emptied(b, x)
      OBVIOUS
    <3>2. Settled(c, d, b, b1, b2, x, y, j, C, K)
      BY <3>1, ArrivesApart
    <3>3. /\ \A s \in Square : s # y => b2[s] = b1[s]
          /\ \A s \in Square : s # x => b1[s] = b[s]
          /\ d \in Colour /\ d # c
      BY <3>2 DEF Settled
    <3>4. x \in Square => \E k \in Kinds \ {king} : b[x] = Signed(c, k)
      BY DEF Arrives, Leaves
    <3>5. x \in Square => \A k \in Kinds : b[x] # Signed(d, k)
      BY <3>3, <3>4, SignedIsOne
    <3> QED BY <1>3, <2>2, <3>3, <3>5 DEF OnBoard
  <2>4. is_attacked_by(c, q, u)
    <3>1. r.sq_king[d] = K /\ Flip(d) = c
      BY Flips DEF Arrives, Leaves
    <3> QED BY <1>3, <2>1, <2>3, <3>1 DEF can_king_escape, FreeSquare
  <2> QED BY <1>3, <2>1, <2>4, KingCannotFlee
<1> QED BY <1>1, <1>2, <1>3

(* can_w_piece_capture and can_b_piece_capture are right that what could   *)
(* take the piece is pinned.                                               *)
LEMMA TakersArePinned ==
  ASSUME NEW c \in Colour, NEW r, NEW b, NEW x, NEW y, NEW j, NEW C, NEW K, Arrives(c, r, b, x, y, j, C, K),
         NEW d, d = Flip(c), NEW b2, b2 = Moved(b, x, y, Signed(c, j)),
         NEW q, StandsOn(q, b2, c, C, K), ~can_piece_capture(d, r, y),
         NEW k \in Kinds \ {king}, NEW z \in Square, b2[z] = Signed(d, k), Hits(b2, d, z, y)
  PROVE  Pinned(b2, c, z, K)
<1>1. PICK b1 : b1 = Emptied(b, x)
  OBVIOUS
<1>2. Settled(c, d, b, b1, b2, x, y, j, C, K)
  BY <1>1, ArrivesApart
<1>3. /\ b1 \in [Square -> Pieces] /\ KingsOn(b1, c, C, K) /\ d \in Colour /\ d # c /\ Flip(d) = c
      /\ b2 \in [Square -> Pieces] /\ j \in Kinds /\ b2[y] = Signed(c, j)
      /\ \A s \in Square : s # y => b2[s] = b1[s]
      /\ \A s \in Square : s # x => b1[s] = b[s]
      /\ x \in Square => b1[x] = empty
  BY <1>2 DEF Settled
<1>4. /\ y \in Square /\ y # K /\ y # x /\ \A i \in Kinds : b[y] # Signed(c, i)
      /\ AsSeen(c, r, b1) /\ AsSeen(d, r, b1) /\ r.board = b /\ r.sq_king[d] = K
  BY <1>1 DEF Arrives, Leaves
<1>5. IsPosition(q) /\ Copies(q) /\ q.board = b2
  BY DEF StandsOn
<1>6. K \in Square /\ king \in Kinds /\ b1[K] = Signed(d, king)
  BY <1>3, KindsApart DEF KingsOn
<1>7. z # y /\ z # K /\ b1[z] = Signed(d, k)
  <2>1. z # y
    BY <1>3, SignedIsOne
  <2>2. b1[z] = Signed(d, k)
    BY <1>3, <2>1
  <2> QED BY <1>3, <1>6, <2>1, <2>2, SignedIsOne
<1>8. IsDiscover(d, r, z, y)
  <2>1. z # r.sq_king[d]
    BY <1>4, <1>7
  <2>2. CASE k = pawn
    <3>1. y = z + Ahead(d) /\ Ahead(d) \in Int
      BY <1>3, <1>4, <1>5, <2>2, PawnsHit, AheadIsOneRank
    <3>2. z = y - Ahead(d)
      BY <1>4, <3>1 DEF Square
    <3>3. r.board[z] = Signed(d, pawn)
      <4>1. z # x
        BY <1>3, <1>7, SignedIsOne
      <4> QED BY <1>3, <1>4, <1>7, <2>2, <4>1
    <3> QED BY <2>1, <3>2, <3>3 DEF can_piece_capture
  <2>3. CASE k # pawn
    <3>1. Strikers(d, r, y) = Strikers(d, q, y)
      BY <1>3, <1>4, <1>5, SeenAttacked
    <3>2. z \in Strikers(d, q, y)
      <4>1. k \in Kinds \ {pawn}
        BY <2>3
      <4> QED BY <1>3, <1>4, <1>5, <4>1, StrikersAre
    <3> QED BY <2>1, <3>1, <3>2 DEF can_piece_capture
  <2> QED BY <2>2, <2>3
<1>9. PICK o : StandsOn(o, b1, c, C, K)
  BY <1>3, BoardsStand
<1>10. IsPosition(o) /\ Copies(o) /\ o.board = b1 /\ o.sq_king[d] = K
  BY <1>3, <1>9 DEF StandsOn
<1>11. IsDiscover(d, o, z, y)
  <2>1. AsSeen(c, o, b1)
    BY <1>10, CopiesAreSeen
  <2> QED BY <1>3, <1>4, <1>8, <1>10, <2>1, SeenAlike
<1>12. PICK e : e = adirec[K][z]
  OBVIOUS
<1>13. e # direc_misc /\ e # adirec[K][y] /\ is_pinned_on(d, o, z, e)
  BY <1>10, <1>11, <1>12 DEF IsDiscover
<1>14. \E v \in Square, i \in Kinds : Pins(b1, c, i, v, z, K)
  <2>1. K = o.sq_king[d] /\ K # z /\ o.board[z] # empty
    BY <1>3, <1>7, <1>10, SignedIsOne
  <2>2. \E v \in Square, i \in Kinds : Pins(o.board, Flip(d), i, v, z, K)
    BY <1>3, <1>6, <1>10, <1>12, <1>13, <2>1, PinnedIs
  <2> QED BY <1>3, <1>10, <2>2
<1>15. PICK v \in Square, i \in Kinds : Pins(b1, c, i, v, z, K)
  BY <1>14
<1>16. b1[v] = Signed(c, i) /\ Aims(c, i, v, K) /\ abb_obstacle[v][K] \cap Taken(b1) = {z}
  BY <1>15 DEF Pins
<1>17. b2[v] = Signed(c, i)
  <2>1. y # v
    BY <1>3, <1>4, <1>16
  <2> QED BY <1>3, <1>16, <2>1
<1>18. y \notin abb_obstacle[v][K]
  <2> SUFFICES ASSUME y \in abb_obstacle[v][K] PROVE FALSE
    OBVIOUS
  <2>1. PICK g \in 2..5 : Joined(g, v, y) /\ Joined(g, y, K)
    BY <1>4, <1>6, BetweenIs
  <2>2. PICK f \in 2..5 : Joined(f, v, z) /\ Joined(f, z, K)
    BY <1>6, <1>16, BetweenIs
  <2>3. Joined(g, v, K) /\ Joined(f, v, K) /\ Joined(g, K, y) /\ Joined(f, K, z)
    BY <2>1, <2>2 DEF Joined
  <2>4. f = g
    <3>1. v # K
      BY <1>16, AimFacts
    <3> QED BY <1>6, <2>3, <3>1, OneLineOnly
  <2>5. e = f /\ adirec[K][y] = f
    BY <1>4, <1>6, <1>7, <1>12, <2>3, <2>4, DirecIs
  <2> QED BY <1>13, <2>5
<1>19. abb_obstacle[v][K] \cap Taken(b2) = {z}
  BY <1>3, <1>16, <1>18 DEF Taken
<1>20. Pins(b2, c, i, v, z, K)
  BY <1>16, <1>17, <1>19 DEF Pins
<1> QED BY <1>20 DEF Pinned

(* So nothing but the king can answer: it is attacked twice, or by a piece *)
(* next to it, or a knight, that nothing can take.                         *)
LEMMA OthersCannotAnswer ==
  ASSUME NEW c \in Colour, NEW r, NEW b, NEW x, NEW y, NEW j, NEW C, NEW K, Arrives(c, r, b, x, y, j, C, K),
         NEW d, d = Flip(c), NEW b2, b2 = Moved(b, x, y, Signed(c, j)),
         NEW q, StandsOn(q, b2, c, C, K), Aims(c, j, y, K), abb_obstacle[y][K] = {},
         ~can_piece_capture(d, r, y) \/ \E z \in Giving(b2, c, K) : z # y
  PROVE  /\ y \in Giving(b2, c, K)
         /\ \A k \in Kinds \ {king}, s \in Square, w \in Square, f \in BOOLEAN :
              ByRules(d, q, k, s, w, f) => ~Safe(b2, d, Board(q, k, f, s, w))
         /\ \A v : \A w \in Square : v \notin Square /\ b2[w] = empty => Opens(b2, c, v, w, K)
<1>1. PICK b1 : b1 = Emptied(b, x)
  OBVIOUS
<1>2. Settled(c, d, b, b1, b2, x, y, j, C, K)
  BY <1>1, ArrivesApart
<1>3. d \in Colour /\ d # c /\ Flip(d) = c /\ b2[y] = Signed(c, j) /\ j \in Kinds
  BY <1>2 DEF Settled
<1>4. y \in Square /\ y # K /\ K \in Square
  BY DEF Arrives, Leaves, KingsOn
<1>5. IsPosition(q) /\ Copies(q) /\ q.board = b2 /\ K = q.sq_king[d]
  BY DEF StandsOn
<1>6. y \in Giving(b2, c, K)
  <2>1. Strikes(b2, c, j, y, K)
    BY <1>3 DEF Strikes
  <2> QED BY <1>3, <1>4, <2>1 DEF Giving
<1>7. CASE \E z \in Giving(b2, c, K) : z # y
  <2>1. PICK z \in Giving(b2, c, K) : z # y
    BY <1>7
  <2>2. \A k \in Kinds \ {king}, s \in Square, w \in Square, f \in BOOLEAN :
          ByRules(d, q, k, s, w, f) => ~Safe(q.board, d, Board(q, k, f, s, w))
    <3>1. /\ y \in Giving(q.board, Flip(d), K) /\ z \in Giving(q.board, Flip(d), K) /\ y # z
          /\ IsPosition(q) /\ Copies(q) /\ d \in Colour /\ K = q.sq_king[d]
      BY <1>3, <1>5, <1>6, <2>1
    <3> QED BY <3>1, AnswersToTwo, SMTT(60)
  <2>3. \A v : \A w \in Square : Opens(b2, c, v, w, K)
    BY <1>4, <1>6, <2>1, TwoCheckers
  <2> QED BY <1>5, <1>6, <2>2, <2>3
<1>8. CASE ~\E z \in Giving(b2, c, K) : z # y
  <2>1. Giving(b2, c, K) = {y}
    BY <1>6, <1>8
  <2>2. UpTo(K, y) = {y}
    BY <1>4, EitherEnd DEF UpTo
  <2>3. ASSUME NEW k \in Kinds \ {king}, NEW s \in Square, NEW w \in Square, NEW f \in BOOLEAN,
               ByRules(d, q, k, s, w, f), Safe(b2, d, Board(q, k, f, s, w))
        PROVE  FALSE
    <3>1. w \in UpTo(K, y) /\ Free(d, q, s)
      BY <1>3, <1>5, <2>1, <2>3, AnswersToOne
    <3>2. b2[s] = Signed(d, k) /\ Hits(b2, d, s, y)
      BY <1>5, <2>2, <2>3, <3>1 DEF ByRules
    <3>3. Pinned(b2, c, s, K)
      BY <1>8, <3>2, TakersArePinned
    <3>4. s # K /\ q.board[s] # empty
      <4>1. q.board[K] = Signed(d, king) /\ king \in Kinds
        BY <1>3, <1>5, PieceOf, KindsApart
      <4> QED BY <1>3, <1>5, <3>2, <4>1, SignedIsOne
    <3> QED BY <1>3, <1>5, <3>1, <3>3, <3>4, FreeIs
  <2>4. ASSUME NEW v, NEW w \in Square, v \notin Square, b2[w] = empty PROVE Opens(b2, c, v, w, K)
    <3>1. ~Opens(b2, c, v, w, K) => w \in UpTo(K, y)
      BY <1>4, <2>1, <2>4, OneChecker
    <3>2. w # y
      BY <1>3, <2>4, SignedIsOne
    <3> QED BY <2>2, <3>1, <3>2
  <2>5. \A k \in Kinds \ {king}, s \in Square, w \in Square, f \in BOOLEAN :
          ByRules(d, q, k, s, w, f) => ~Safe(b2, d, Board(q, k, f, s, w))
    BY <2>3
  <2> QED BY <1>6, <2>4, <2>5
<1> QED BY <1>7, <1>8

(* All the solver asks of the piece that has come as a j to y.             *)
Solved(c, r, b, x, y, j, C, K, R) ==
  /\ Arrives(c, r, b, x, y, j, C, K)
  /\ Aims(c, j, y, K) /\ abb_obstacle[y][K] = {}
  /\ Covers(c, Emptied(b, x), j, y, K, R) /\ ~can_king_escape(Flip(c), r, y, R)
  /\ y \in abb_king_attacks[K] => is_attacked_by(c, r, y)
  /\ \/ ~can_piece_capture(Flip(c), r, y)
     \/ \E z \in Giving(Moved(b, x, y, Signed(c, j)), c, K) : z # y
LEMMA SolvedIsMate ==
  ASSUME NEW c \in Colour, NEW r, NEW b, NEW x, NEW y, NEW j, NEW C, NEW K, NEW R,
         Solved(c, r, b, x, y, j, C, K, R), NEW d, d = Flip(c), NEW b2, b2 = Moved(b, x, y, Signed(c, j)), NEW h
  PROVE  Mated(b2, h, d)
<1>1. PICK b1 : b1 = Emptied(b, x)
  OBVIOUS
<1>2. Arrives(c, r, b, x, y, j, C, K)
  BY DEF Solved
<1>3. Settled(c, d, b, b1, b2, x, y, j, C, K)
  BY <1>1, <1>2, ArrivesApart
<1>4. /\ d \in Colour /\ d # c /\ Flip(d) = c /\ b2 \in [Square -> Pieces] /\ KingsOn(b2, c, C, K) /\ j \in Kinds
      /\ b2[y] = Signed(c, j)
  BY <1>3 DEF Settled
<1>5. K \in Square /\ \A s \in Square : b2[s] = Signed(d, king) <=> s = K
  BY <1>4 DEF KingsOn
<1>6. PICK q : StandsOn(q, b2, c, C, K)
  BY <1>4, BoardsStand
<1>7. IsPosition(q) /\ Copies(q) /\ q.board = b2 /\ K = q.sq_king[d]
  BY <1>4, <1>6 DEF StandsOn
<1>8. /\ y \in Giving(b2, c, K)
      /\ \A k \in Kinds \ {king}, s \in Square, w \in Square, f \in BOOLEAN :
           ByRules(d, q, k, s, w, f) => ~Safe(b2, d, Board(q, k, f, s, w))
      /\ \A v : \A w \in Square : v \notin Square /\ b2[w] = empty => Opens(b2, c, v, w, K)
  <2>1. /\ Aims(c, j, y, K) /\ abb_obstacle[y][K] = {}
        /\ ~can_piece_capture(d, r, y) \/ \E z \in Giving(b2, c, K) : z # y
    BY DEF Solved
  <2> QED BY <1>2, <1>6, <2>1, OthersCannotAnswer, SMTT(60)
<1>9. Checked(b2, d)
  <2>1. KingOf(b2, d) = K
    BY <1>4, <1>7, TheKingIsThere
  <2>2. Attacked(b2, c, K)
    BY <1>4, <1>8, AttackedAre DEF Giving
  <2> QED BY <1>4, <2>1, <2>2 DEF Checked
<1>10. king \in Kinds /\ king # pawn /\ king \notin Promotable
  BY KindsApart, KindsAreNumbers DEF Promotable, king, pawn, lance, knight, silver, bishop, rook
<1>11. OnBoard(b2, d, {king}) = {K}
  BY <1>4, <1>7 DEF Copies
<1>12. ASSUME NEW s \in Square, NEW u \in Square, NEW f \in BOOLEAN, ByRules(d, q, king, s, u, f)
       PROVE  ~Safe(b2, d, Board(q, king, f, s, u))
  <2>1. s = K /\ ~f /\ Hits(b2, d, s, u) /\ ~Mine(d, b2[u])
    BY <1>5, <1>7, <1>10, <1>12 DEF ByRules
  <2>2. u \in abb_king_attacks[K]
    <3>1. q.board[s] = Signed(d, king)
      BY <1>12 DEF ByRules
    <3>2. u \in Reach(d, q, king, s)
      BY <1>4, <1>7, <1>10, <2>1, <3>1, ReachIsHits
    <3> QED BY <2>1, <3>2, ReachOfKinds
  <2>3. \A k \in Kinds : b2[u] # Signed(d, k)
    BY <1>4, <2>1, AbsOfSigned
  <2>4. u # K
    BY <1>5, <1>10, <2>3
  <2>5. PICK m : m = Board(q, king, f, s, u)
    OBVIOUS
  <2>6. After(b2, d, m) = Stepped(b2, d, K, u)
    <3>1. m.from = K /\ m.to = u /\ m.piece = king /\ m.promo = f
      BY <2>1, <2>5, PartsOfSteps
    <3>2. ~(K > 80)
      BY <1>5 DEF Square
    <3> QED BY <2>1, <3>1, <3>2 DEF After, Stepped, Moved, Signed
  <2>7. KingOf(Stepped(b2, d, K, u), d) = u
    BY <1>4, <1>5, <1>11, <2>4, TheKingMoved DEF Stepped
  <2>8. Attacked(Stepped(b2, d, K, u), c, u)
    <3>1. /\ Covers(c, Emptied(b, x), j, y, K, R) /\ ~can_king_escape(d, r, y, R)
          /\ y \in abb_king_attacks[K] => is_attacked_by(c, r, y)
      BY DEF Solved
    <3> QED BY <1>2, <2>2, <2>3, <3>1, KingStays, SMTT(60)
  <2> QED BY <1>4, <2>5, <2>6, <2>7, <2>8 DEF Safe, Checked
<1>13. ASSUME NEW m \in BoardMoves(b2, d) PROVE ~Safe(b2, d, m)
  <2>1. m \in BoardMoves(q.board, d)
    BY <1>7, <1>13
  <2>2. PICK k \in Kinds, s \in Square, u \in Square, f \in BOOLEAN :
          ByRules(d, q, k, s, u, f) /\ m = Board(q, k, f, s, u)
    BY <1>4, <1>7, <2>1, BoardMovesAre
  <2>3. CASE k = king
    BY <1>12, <2>2, <2>3
  <2>4. CASE k # king
    BY <1>8, <2>2, <2>4
  <2> QED BY <2>3, <2>4
<1>14. ASSUME NEW m \in Drops(b2, h, d) PROVE ~Safe(b2, d, m)
  <2>1. PICK k \in Hands, w \in Square : b2[w] = empty /\ m.from = 80 + k /\ m.to = w
    BY <1>14 DEF Drops
  <2>2. k \in Kinds \ {king}
    BY KindsAreNumbers
  <2>3. 80 + k > 80 /\ 80 + k \notin Square /\ (80 + k) - 80 = k
    BY DEF Hands, Square, pawn, rook
  <2>4. After(b2, d, m) = Moved(b2, 80 + k, w, Signed(d, k))
    BY <2>1, <2>3 DEF After, Moved, Signed
  <2>5. w # K /\ 80 + k # K /\ 80 + k # w
    <3>1. b2[K] # empty
      BY <1>4, <1>5, <1>10, SignedIsOne
    <3> QED BY <1>5, <2>1, <2>3, <3>1
  <2>6. Opens(b2, c, 80 + k, w, K)
    BY <1>8, <2>1, <2>3
  <2>7. PICK v : v = 80 + k
    OBVIOUS
  <2>8. /\ v # w /\ v # K /\ w # K /\ v \notin Square
        /\ After(q.board, d, m) = Moved(q.board, v, w, Signed(d, k)) /\ Opens(q.board, c, v, w, K)
    BY <1>7, <2>3, <2>4, <2>5, <2>6, <2>7
  <2>9. Safe(q.board, d, m) <=> ~Opens(q.board, c, v, w, K)
    BY <1>4, <1>7, <2>1, <2>2, <2>8, SafeUnlessOpened
  <2> QED BY <1>7, <2>8, <2>9
<1> QED BY <1>9, <1>13, <1>14 DEF Mated

(* What lifting a piece does to each field.                                *)
LiftedOf(c, q, x, k, r) ==
  /\ HasFields(r)
  /\ r.board = q.board /\ r.sq_king = q.sq_king /\ r.occ = q.occ
  /\ r.rl90 = q.rl90 /\ r.rr45 = q.rr45 /\ r.rl45 = q.rl45
  /\ k = pawn => /\ r.bb = q.bb /\ r.union = q.union
                 /\ r.pawn_atk = [q.pawn_atk EXCEPT ![c] = Toggle(q.pawn_atk[c], {x + Ahead(c)})]
  /\ k # pawn => /\ r.pawn_atk = q.pawn_atk
                 /\ r.bb = [q.bb EXCEPT ![c] = [i \in BoardKinds |-> IF i = k THEN q.bb[c][i] \ {x} ELSE q.bb[c][i]]]
                 /\ r.union = [q.union EXCEPT ![c] = [u \in DOMAIN Unions |->
                                 IF k \in Unions[u] THEN q.union[c][u] \ {x} ELSE q.union[c][u]]]
LEMMA LiftedFields ==
  ASSUME NEW c, NEW p, NEW x, NEW k, k = Kind(p, x), NEW q, q = Occupying(c, p, x), HasFields(q),
         NEW r, r = Lifted(c, p, x)
  PROVE  LiftedOf(c, q, x, k, r)
<1>1. CASE k = pawn
  <2>1. r = [q EXCEPT !.pawn_atk[c] = Toggle(@, {x + Ahead(c)})]
    BY <1>1 DEF Lifted
  <2> QED BY <1>1, <2>1 DEF HasFields, Fields, LiftedOf
<1>2. CASE k # pawn
  <2>1. r = [q EXCEPT !.bb[c] = [i \in BoardKinds |-> IF i = k THEN @[i] \ {x} ELSE @[i]],
                      !.union[c] = [u \in DOMAIN Unions |-> IF k \in Unions[u] THEN @[u] \ {x} ELSE @[u]]]
    BY <1>2 DEF Lifted
  <2>2. PICK B, U : /\ B = [i \in BoardKinds |-> IF i = k THEN q.bb[c][i] \ {x} ELSE q.bb[c][i]]
                    /\ U = [u \in DOMAIN Unions |-> IF k \in Unions[u] THEN q.union[c][u] \ {x} ELSE q.union[c][u]]
    OBVIOUS
  <2>3. r = [q EXCEPT !.bb[c] = B, !.union[c] = U]
    BY <2>1, <2>2
  <2>4. /\ HasFields(r)
        /\ r.board = q.board /\ r.sq_king = q.sq_king /\ r.occ = q.occ
        /\ r.rl90 = q.rl90 /\ r.rr45 = q.rr45 /\ r.rl45 = q.rl45 /\ r.pawn_atk = q.pawn_atk
        /\ r.bb = [q.bb EXCEPT ![c] = B] /\ r.union = [q.union EXCEPT ![c] = U]
    BY <2>3 DEF HasFields, Fields
  <2> QED BY <1>2, <2>2, <2>4 DEF LiftedOf
<1> QED BY <1>1, <1>2

(* A piece other than the king lifted: what is left is seen.               *)
LEMMA LiftedLeaves ==
  ASSUME NEW p, IsPosition(p), Copies(p), NEW c \in Colour, KingIsSafe(c, p),
         NEW x \in Square, NEW k \in Kinds \ {king}, p.board[x] = Signed(c, k), NEW r, r = Lifted(c, p, x)
  PROVE  Leaves(c, r, p.board, x, p.sq_king[c], p.sq_king[Flip(c)])
<1>1. PICK d \in Colour : d = Flip(c) /\ d # c /\ Flip(d) = c /\ Colour = {c, d}
  BY Flips DEF Colour, Flip, black, white
<1>2. PICK b, b1, C, K : b = p.board /\ b1 = Emptied(b, x) /\ C = p.sq_king[c] /\ K = p.sq_king[d]
  OBVIOUS
<1>3. b \in [Square -> Pieces] /\ HasOcc(p) /\ C \in Square /\ K \in Square
  BY <1>1, <1>2 DEF IsPosition, HasOcc
<1>4. KingsOn(b, c, C, K)
  <2>1. OnBoard(b, c, {king}) = {C} /\ OnBoard(b, d, {king}) = {K}
    BY <1>1, <1>2 DEF Copies
  <2> QED BY <1>1, <1>3, <2>1 DEF KingsOn, OnBoard
<1>5. ~Attacked(b, c, K)
  BY <1>1, <1>2, <1>3, AttackedByTheRules DEF KingIsSafe
<1>6. PICK q : q = Occupying(c, p, x)
  OBVIOUS
<1>7. /\ \A i \in Kinds : b[x] # Signed(d, i) /\ b1[x] # Signed(d, i)
      /\ b[x] # empty /\ b1[x] = empty
      /\ \A s \in Square \ {x} : b1[s] = b[s]
  <2>1. b1[x] = empty /\ \A s \in Square \ {x} : b1[s] = b[s]
    BY <1>2 DEF Emptied
  <2> QED BY <1>1, <1>2, <2>1, SignedIsOne
<1>8. /\ AsSeen(d, q, b1) /\ HasOcc(q)
      /\ q.occ[c] = Toggle(p.occ[c], {x}) /\ q.occ[d] = p.occ[d]
      /\ q.board = p.board /\ q.sq_king = p.sq_king
  <2>1. AsSeen(d, p, b)
    BY <1>1, <1>2, CopiesAreSeen
  <2>2. x \notin p.occ[d]
    BY <1>1, <1>2, <1>7 DEF Copies, OnBoard
  <2>3. b1[x] = empty <=> b[x] # empty
    BY <1>7
  <2> QED BY <1>1, <1>3, <1>6, <1>7, <2>1, <2>2, <2>3, SeenToggled, SMTT(60)
<1>9. q.bb = p.bb /\ q.union = p.union /\ q.pawn_atk = p.pawn_atk
  <2>1. OccupiedOf(c, p, x, q)
    BY <1>3, <1>6, OccupyingFields DEF HasOcc
  <2> QED BY <2>1 DEF OccupiedOf
<1>10. k = Kind(p, x)
  BY KindOfSigned
<1>11. LiftedOf(c, q, x, k, r)
  BY <1>6, <1>8, <1>10, LiftedFields DEF HasOcc
<1>12. /\ HasFields(r)
       /\ r.board = p.board /\ r.sq_king = p.sq_king /\ r.occ = q.occ
       /\ r.rl90 = q.rl90 /\ r.rr45 = q.rr45 /\ r.rl45 = q.rl45
  BY <1>8, <1>11 DEF LiftedOf
<1>13. k = pawn => /\ r.bb = p.bb /\ r.union = p.union
                   /\ r.pawn_atk = [p.pawn_atk EXCEPT ![c] = Toggle(p.pawn_atk[c], {x + Ahead(c)})]
  BY <1>9, <1>11 DEF LiftedOf
<1>14. k # pawn => /\ r.pawn_atk = p.pawn_atk
                   /\ r.bb = [p.bb EXCEPT ![c] = [i \in BoardKinds |-> IF i = k THEN p.bb[c][i] \ {x} ELSE p.bb[c][i]]]
                   /\ r.union = [p.union EXCEPT ![c] = [u \in DOMAIN Unions |->
                                  IF k \in Unions[u] THEN p.union[c][u] \ {x} ELSE p.union[c][u]]]
  BY <1>9, <1>11 DEF LiftedOf
<1>15. r.bb[d] = p.bb[d] /\ r.union[d] = p.union[d] /\ r.pawn_atk[d] = p.pawn_atk[d]
  <2>1. DOMAIN p.bb = Colour /\ DOMAIN p.union = Colour /\ DOMAIN p.pawn_atk = Colour
    BY DEF IsPosition
  <2>2. CASE k = pawn
    BY <1>1, <1>13, <2>1, <2>2
  <2>3. CASE k # pawn
    BY <1>1, <1>14, <2>1, <2>3
  <2> QED BY <2>2, <2>3
<1>16. AsSeen(d, r, b1)
  BY <1>8, <1>9, <1>12, <1>15 DEF AsSeen
<1>17. ASSUME NEW S \in SUBSET Kinds
       PROVE  OnBoard(b1, c, S) = IF k \in S THEN OnBoard(b, c, S) \ {x} ELSE OnBoard(b, c, S)
  <2>1. b[x] \in {Signed(c, i) : i \in S} <=> k \in S
    BY <1>2, SignedAmong
  <2>2. b1[x] \notin {Signed(c, i) : i \in S}
    BY <1>7, SignedIsOne
  <2>3. x \notin OnBoard(b1, c, S) /\ (x \in OnBoard(b, c, S) <=> k \in S)
    BY <2>1, <2>2 DEF OnBoard
  <2>4. OnBoard(b1, c, S) \ {x} = OnBoard(b, c, S) \ {x}
    BY <1>7 DEF OnBoard
  <2> QED BY <2>3, <2>4
<1>18. \A i \in {lance, knight, silver} : r.bb[c][i] = OnBoard(b1, c, {i})
  <2> SUFFICES ASSUME NEW i \in {lance, knight, silver} PROVE r.bb[c][i] = OnBoard(b1, c, {i})
    OBVIOUS
  <2>1. i \in BoardKinds /\ i # pawn /\ {i} \in SUBSET Kinds
    BY KindsApart
  <2>2. p.bb[c][i] = OnBoard(b, c, {i})
    BY <1>2, <2>1 DEF Copies
  <2>3. r.bb[c][i] = IF i = k THEN p.bb[c][i] \ {x} ELSE p.bb[c][i]
    <3>1. DOMAIN p.bb = Colour
      BY DEF IsPosition
    <3>2. CASE k = pawn
      <4>1. r.bb = p.bb
        BY <1>13, <3>2
      <4> QED BY <2>1, <3>2, <4>1
    <3>3. CASE k # pawn
      <4>1. PICK B : /\ B = [n \in BoardKinds |-> IF n = k THEN p.bb[c][n] \ {x} ELSE p.bb[c][n]]
                     /\ r.bb = [p.bb EXCEPT ![c] = B]
        BY <1>14, <3>3
      <4>2. r.bb[c] = B
        BY <3>1, <4>1
      <4> QED BY <2>1, <4>1, <4>2
    <3> QED BY <3>2, <3>3
  <2>4. OnBoard(b1, c, {i}) = IF i = k THEN OnBoard(b, c, {i}) \ {x} ELSE OnBoard(b, c, {i})
    BY <1>17, <2>1
  <2> QED BY <2>2, <2>3, <2>4
<1>19. \A u \in DOMAIN Unions : r.union[c][u] = OnBoard(b1, c, Unions[u])
  <2> SUFFICES ASSUME NEW u \in DOMAIN Unions PROVE r.union[c][u] = OnBoard(b1, c, Unions[u])
    OBVIOUS
  <2>1. PICK S \in SUBSET Kinds : S = Unions[u]
    BY SetsOfKinds
  <2>2. pawn \notin S
    BY <2>1 DEF Unions, Golds, pawn, lance, knight, silver, gold, bishop, rook, king, horse, dragon, promote
  <2>3. p.union[c][u] = OnBoard(b, c, S)
    BY <1>2, <2>1 DEF Copies
  <2>4. r.union[c][u] = IF k \in S THEN p.union[c][u] \ {x} ELSE p.union[c][u]
    <3>1. DOMAIN p.union = Colour
      BY DEF IsPosition
    <3>2. CASE k = pawn
      <4>1. r.union = p.union
        BY <1>13, <3>2
      <4> QED BY <2>2, <3>2, <4>1
    <3>3. CASE k # pawn
      <4>1. PICK B : /\ B = [v \in DOMAIN Unions |->
                               IF k \in Unions[v] THEN p.union[c][v] \ {x} ELSE p.union[c][v]]
                     /\ r.union = [p.union EXCEPT ![c] = B]
        BY <1>14, <3>3
      <4>2. r.union[c] = B
        BY <3>1, <4>1
      <4> QED BY <2>1, <4>1, <4>2
    <3> QED BY <3>2, <3>3
  <2> QED BY <1>17, <2>1, <2>3, <2>4
<1>20. r.pawn_atk[c] = {s + Ahead(c) : s \in OnBoard(b1, c, {pawn})}
  <2>1. PICK a, X, X1 : a = Ahead(c) /\ X = OnBoard(b, c, {pawn}) /\ X1 = OnBoard(b1, c, {pawn})
    OBVIOUS
  <2>2. a \in Int /\ X \in SUBSET Square /\ p.pawn_atk[c] = {s + a : s \in X}
    BY <1>2, <2>1, AheadIsOneRank DEF OnBoard, Copies
  <2>3. X1 = IF k = pawn THEN X \ {x} ELSE X
    <3>1. {pawn} \in SUBSET Kinds
      BY DEF Kinds, pawn
    <3> QED BY <1>17, <2>1, <3>1
  <2>4. CASE k # pawn
    <3>1. r.pawn_atk = p.pawn_atk
      BY <1>14, <2>4
    <3>2. X1 = X
      BY <2>3, <2>4
    <3> QED BY <2>1, <2>2, <3>1, <3>2
  <2>5. CASE k = pawn
    <3>1. x \in X
      BY <1>2, <2>1, <2>5 DEF OnBoard
    <3>2. r.pawn_atk[c] = Toggle(p.pawn_atk[c], {x + a})
      <4>1. DOMAIN p.pawn_atk = Colour
        BY DEF IsPosition
      <4> QED BY <1>13, <2>1, <2>5, <4>1
    <3>3. Toggle({s + a : s \in X}, {x + a}) = {s + a : s \in X \ {x}}
      <4>1. \A s \in X : s \in Int /\ (s + a = x + a => s = x)
        BY <2>2 DEF Square
      <4> QED BY <3>1, <4>1 DEF Toggle
    <3> QED BY <2>1, <2>2, <2>3, <2>5, <3>2, <3>3
  <2> QED BY <2>4, <2>5
<1>21. AsSeen(c, r, b1)
  <2>1. /\ r.rl90 = Taken(b1) /\ r.rr45 = Taken(b1) /\ r.rl45 = Taken(b1)
        /\ r.occ[black] \cup r.occ[white] = Taken(b1)
    BY <1>16 DEF AsSeen
  <2> QED BY <1>18, <1>19, <1>20, <2>1 DEF AsSeen
<1>22. /\ r.occ[c] = OnBoard(b1, c, Kinds) /\ r.occ[d] = OnBoard(b, d, Kinds)
  <2>1. p.occ[c] = OnBoard(b, c, Kinds) /\ p.occ[d] = OnBoard(b, d, Kinds)
    BY <1>2 DEF Copies
  <2>2. OnBoard(b1, c, Kinds) = OnBoard(b, c, Kinds) \ {x}
    BY <1>17
  <2>3. x \in OnBoard(b, c, Kinds)
    BY <1>2, SignedAmong DEF OnBoard
  <2> QED BY <1>8, <1>12, <2>1, <2>2, <2>3 DEF Toggle
<1>23. HasOcc(r)
  BY <1>8, <1>12 DEF HasOcc
<1>24. x \in Square => \E i \in Kinds \ {king} : b[x] = Signed(c, i)
  BY <1>2
<1>25. r.board = b /\ r.sq_king[c] = C /\ r.sq_king[Flip(c)] = K
  BY <1>1, <1>2, <1>12
<1>26. Leaves(c, r, b, x, C, K)
  BY <1>1, <1>2, <1>3, <1>4, <1>5, <1>16, <1>21, <1>22, <1>23, <1>24, <1>25 DEF Leaves
<1> QED BY <1>1, <1>2, <1>26

(* Nothing is lifted for a drop.                                           *)
LEMMA NothingLeaves ==
  ASSUME NEW p, IsPosition(p), Copies(p), NEW c \in Colour, KingIsSafe(c, p), NEW x, x \notin Square
  PROVE  Leaves(c, p, p.board, x, p.sq_king[c], p.sq_king[Flip(c)]) /\ Emptied(p.board, x) = p.board
<1>1. PICK d \in Colour : d = Flip(c)
  BY Flips
<1>2. PICK b, C, K : b = p.board /\ C = p.sq_king[c] /\ K = p.sq_king[d]
  OBVIOUS
<1>3. b \in [Square -> Pieces] /\ HasOcc(p) /\ C \in Square /\ K \in Square
  BY <1>1, <1>2 DEF IsPosition, HasOcc
<1>4. KingsOn(b, c, C, K)
  <2>1. OnBoard(b, c, {king}) = {C} /\ OnBoard(b, d, {king}) = {K}
    BY <1>1, <1>2 DEF Copies
  <2> QED BY <1>1, <1>3, <2>1 DEF KingsOn, OnBoard
<1>5. ~Attacked(b, c, K)
  BY <1>1, <1>2, <1>3, AttackedByTheRules DEF KingIsSafe
<1>6. Emptied(b, x) = b
  BY <1>3 DEF Emptied
<1>7. AsSeen(c, p, b) /\ AsSeen(d, p, b)
  BY <1>2, CopiesAreSeen
<1>8. p.occ[c] = OnBoard(b, c, Kinds) /\ p.occ[d] = OnBoard(b, d, Kinds)
  BY <1>1, <1>2 DEF Copies
<1> QED BY <1>1, <1>2, <1>3, <1>4, <1>5, <1>6, <1>7, <1>8 DEF Leaves

(***************************************************************************)
(* The moves the solver accepts.                                           *)
(***************************************************************************)
(* A piece that goes on along the line that it shuts, short of what it     *)
(* keeps out, shuts it still.                                              *)
LEMMA LineStaysShut ==
  ASSUME NEW T, NEW K \in T \cap Square, NEW z \in T \cap Square, NEW x \in abb_obstacle[z][K],
         NEW y \in Square, y # x, y # z, y # K, abb_obstacle[x][y] \cap T = {},
         NEW e \in 2..5, Joined(e, K, x), Joined(e, K, y)
  PROVE  y \in abb_obstacle[z][K]
<1>1. x \in Square /\ x # z /\ x # K /\ z # K
  BY BetweenApart
<1>2. x \in abb_obstacle[K][z] /\ abb_obstacle[z][K] = abb_obstacle[K][z]
  BY EitherEnd
<1>3. Joined(e, x, y)
  BY DEF Joined
<1>4. Joined(e, x, K)
  BY DEF Joined
<1>5. K \notin abb_obstacle[x][y] /\ z \notin abb_obstacle[x][y]
  OBVIOUS
<1>6. x \in abb_obstacle[K][y] \/ y \in abb_obstacle[K][x]
  <2>1. y \in abb_obstacle[x][K] \/ K \in abb_obstacle[x][y] \/ x \in abb_obstacle[y][K]
    BY <1>1, <1>3, <1>4, ThreeOnALine
  <2>2. abb_obstacle[x][K] = abb_obstacle[K][x] /\ abb_obstacle[y][K] = abb_obstacle[K][y]
    BY <1>1, EitherEnd
  <2> QED BY <1>5, <2>1, <2>2
<1>7. ASSUME x \in abb_obstacle[K][y] PROVE y \in abb_obstacle[K][z]
  <2>1. y \in abb_obstacle[K][z] \/ z \in abb_obstacle[K][y]
    BY <1>1, <1>2, <1>7, OnOneSide DEF UpTo
  <2>2. ASSUME z \in abb_obstacle[K][y] PROVE FALSE
    <3>1. z \in abb_obstacle[K][x] \/ z = x \/ z \in abb_obstacle[x][y]
      BY <1>7, <2>2, BetweenParted
    <3>2. z # x /\ z \notin abb_obstacle[K][x]
      BY <1>1, <1>2, NotBothBetween
    <3> QED BY <1>5, <3>1, <3>2
  <2> QED BY <2>1, <2>2
<1>8. ASSUME y \in abb_obstacle[K][x] PROVE y \in abb_obstacle[K][z]
  BY <1>2, <1>8, BetweenParted
<1> QED BY <1>2, <1>6, <1>7, <1>8

(* IsDiscoverBK and IsDiscoverWK let pass, of a side that is not in check, *)
(* only the steps that leave its king safe.                                *)
LEMMA UndiscoveredIsSafe ==
  ASSUME NEW p, IsPosition(p), Copies(p), NEW c \in Colour, ~InCheck(c, p),
         NEW k \in Kinds, k # king, NEW x \in Square, NEW y \in Square, NEW f \in BOOLEAN,
         ByRules(c, p, k, x, y, f), ~IsDiscover(c, p, x, y), NEW m, m = Board(p, k, f, x, y)
  PROVE  Safe(p.board, c, m)
<1> DEFINE b == p.board
<1>1. PICK d \in Colour : d = Flip(c) /\ d # c /\ Flip(d) = c
  BY Flips
<1>2. PICK K \in Square : K = p.sq_king[c]
  BY DEF IsPosition
<1>3. /\ Safe(p.board, c, m) <=> ~Opens(p.board, d, x, y, K)
      /\ x # K /\ b[x] # empty
  BY <1>1, <1>2, StepIsSafe
<1>4. b[K] = Signed(c, king) /\ IsBoard(b)
  BY <1>2, PieceOf DEF IsPosition, IsBoard
<1>5. ~Attacked(b, d, K)
  BY <1>1, <1>2, AttackedByTheRules DEF InCheck
<1>6. /\ b[x] = Signed(c, k) /\ ~Mine(c, b[y]) /\ Hits(b, c, x, y)
  BY DEF ByRules
<1>7. y # K
  BY <1>4, <1>6, KindsApart, AbsOfSigned
<1>8. y # x /\ abb_obstacle[x][y] \cap Taken(b) = {}
  BY <1>6, HitsAre, AimFacts
<1>9. ASSUME NEW z \in Square, NEW i \in Kinds, Remains(b, d, i, z, x, y, K)
      PROVE  FALSE
  <2>1. /\ b[z] = Signed(d, i) /\ z # y /\ Aims(d, i, z, K)
        /\ y \notin abb_obstacle[z][K] /\ abb_obstacle[z][K] \cap Taken(b) \subseteq {x}
    BY <1>9 DEF Remains
  <2>2. abb_obstacle[z][K] \cap Taken(b) # {}
    <3>1. ~Strikes(b, d, i, z, K)
      BY <1>1, <1>4, <1>5, AttackedAre DEF IsBoard
    <3> QED BY <2>1, <3>1 DEF Strikes
  <2>3. x \in abb_obstacle[z][K] /\ Pins(b, d, i, z, x, K)
    BY <2>1, <2>2 DEF Pins
  <2>4. PICK e : e = adirec[K][x]
    OBVIOUS
  <2>5. e # direc_misc /\ is_pinned_on(c, p, x, e)
    BY <1>1, <1>2, <1>3, <2>3, <2>4, PinnedIs
  <2>6. e = adirec[K][y]
    BY <1>2, <2>4, <2>5 DEF IsDiscover
  <2>7. e \in 2..5 /\ Joined(e, K, x) /\ Joined(e, K, y)
    <3>1. e \in 2..5
      BY <1>3, <2>4, <2>5, DirecIs
    <3>2. Joined(e, K, x)
      BY <1>3, <2>4, <3>1, DirecIs
    <3>3. Joined(e, K, y)
      BY <1>7, <2>6, <3>1, DirecIs
    <3> QED BY <3>1, <3>2, <3>3
  <2>8. K \in Taken(b) /\ z \in Taken(b)
    <3>1. b[K] # empty /\ b[z] # empty
      BY <1>1, <1>4, <2>1, KindsApart, SignedIsOne
    <3> QED BY <3>1 DEF Taken
  <2>9. y \in abb_obstacle[z][K]
    BY <1>7, <1>8, <2>1, <2>3, <2>7, <2>8, LineStaysShut
  <2> QED BY <2>1, <2>9
<1>10. ~Opens(b, d, x, y, K)
  BY <1>9 DEF Opens
<1> QED BY <1>3, <1>10

(* A step that opens a line uncovers a piece that gives check.             *)
LEMMA UncoveredGives ==
  ASSUME NEW b, IsBoard(b), NEW c \in Colour, NEW K \in Square, ~Attacked(b, c, K),
         NEW x \in Square, NEW y \in Square, x # y, Opens(b, c, x, y, K), NEW j \in Kinds,
         NEW b2, b2 = Moved(b, x, y, Signed(c, j))
  PROVE  \E z \in Giving(b2, c, K) : z # y
<1>1. PICK z \in Square, i \in Kinds : Remains(b, c, i, z, x, y, K)
  BY DEF Opens
<1>2. /\ b[z] = Signed(c, i) /\ z # y /\ Aims(c, i, z, K)
      /\ y \notin abb_obstacle[z][K] /\ abb_obstacle[z][K] \cap Taken(b) \subseteq {x}
  BY <1>1 DEF Remains
<1>3. z # x
  <2>1. ~Strikes(b, c, i, z, K)
    BY AttackedAre DEF IsBoard
  <2>2. z \notin abb_obstacle[z][K]
    BY BetweenApart
  <2> QED BY <1>2, <2>1, <2>2 DEF Strikes
<1>4. Signed(c, j) \in Pieces /\ Signed(c, j) # empty
  BY SignedIsOne DEF Pieces
<1>5. (\A u \in Square \ {x, y} : b2[u] = b[u]) /\ Taken(b2) = (Taken(b) \ {x}) \cup {y}
  BY <1>4, MovedBoard, SMTT(30)
<1>6. Strikes(b2, c, i, z, K)
  BY <1>2, <1>3, <1>5 DEF Strikes
<1> QED BY <1>2, <1>6 DEF Giving

(* A step that the solver accepts may be played and mates.                 *)
LegalMate(c, p, m) == m \in Legal(p.board, p.hand, c) /\ GivesMate(p.board, p.hand, c, m)
Ready(c, p) == IsPosition(p) /\ Copies(p) /\ Alive(p) /\ c \in Colour /\ KingIsSafe(c, p) /\ ~InCheck(c, p)
LEMMA StepMates ==
  ASSUME NEW p, NEW c, Ready(c, p), NEW k \in Kinds \ {king}, NEW s \in Square, NEW t \in Square,
         NEW f \in BOOLEAN, ByRules(c, p, k, s, t, f),
         NEW r, r = Lifted(c, p, s), NEW j, j = Becoming(k, f), NEW K, K = p.sq_king[Flip(c)],
         Aims(c, j, t, K), abb_obstacle[t][K] = {},
         NEW R, Covers(c, Emptied(p.board, s), j, t, K, R), t \in abb_king_attacks[K] => is_attacked_by(c, r, t),
         MoveMates(c, r, s, t, R), NEW m, m = Board(p, k, f, s, t)
  PROVE  LegalMate(c, p, m)
<1>1. /\ IsPosition(p) /\ Copies(p) /\ Alive(p) /\ c \in Colour /\ KingIsSafe(c, p) /\ ~InCheck(c, p)
  BY DEF Ready
<1>2. PICK d \in Colour : d = Flip(c) /\ d # c /\ Flip(d) = c
  BY <1>1, Flips
<1>3. PICK b : b = p.board
  OBVIOUS
<1>4. PICK C : C = p.sq_king[c]
  OBVIOUS
<1>5. Comes(m) = j /\ m \in PseudoLegal(p.board, p.hand, c)
  BY <1>1, StepGives
<1>6. /\ K \in Square /\ ~Attacked(b, c, K)
      /\ b[s] = Signed(c, k) /\ s # t /\ s # K /\ t # K
      /\ \A i \in Kinds : b[t] # Signed(c, i)
      /\ j \in Kinds /\ BecomesOf(k, j)
      /\ After(b, c, m) = Moved(b, s, t, Signed(c, j))
  BY <1>1, <1>3, <1>5, StepOnBoard
<1>7. j # king
  <2>1. k + promote # king
    BY DEF Kinds, king, promote
  <2> QED BY <1>6, <2>1 DEF BecomesOf
<1>8. IsBoard(b) /\ Hits(b, c, s, t)
  BY <1>1, <1>3 DEF IsPosition, IsBoard, ByRules
<1>9. Leaves(c, r, b, s, C, K)
  BY <1>1, <1>3, <1>4, <1>6, LiftedLeaves
<1>10. Arrives(c, r, b, s, t, j, C, K)
  BY <1>6, <1>7, <1>9 DEF Arrives
<1>11. PICK b1 : b1 = Emptied(b, s)
  OBVIOUS
<1>12. /\ AsSeen(c, r, b1) /\ AsSeen(d, r, b1) /\ r.sq_king[c] = C /\ r.sq_king[d] = K
  BY <1>2, <1>9, <1>11 DEF Leaves
<1>13. AsSeen(c, p, b) /\ AsSeen(d, p, b)
  BY <1>1, <1>2, <1>3, CopiesAreSeen
<1>14. \A u \in Square \ {s} : b1[u] = b[u]
  BY <1>11 DEF Emptied
<1>15. IsDiscover(d, r, s, t) <=> IsDiscover(d, p, s, t)
  <2>1. r.sq_king[Flip(c)] = p.sq_king[Flip(c)]
    BY <1>2, <1>12
  <2> QED BY <1>1, <1>2, <1>12, <1>13, <1>14, <2>1, SeenAlike
<1>16. IsDiscover(c, r, s, t) <=> IsDiscover(c, p, s, t)
  <2>1. r.sq_king[Flip(d)] = p.sq_king[Flip(d)]
    BY <1>2, <1>4, <1>12
  <2> QED BY <1>2, <1>12, <1>13, <1>14, <2>1, SeenAlike
<1>17. PICK b2 : b2 = Moved(b, s, t, Signed(c, j))
  OBVIOUS
<1>18. \/ ~can_piece_capture(d, r, t)
       \/ \E z \in Giving(b2, c, K) : z # t
  <2>1. CASE ~IsDiscover(d, r, s, t)
    BY <1>2, <2>1 DEF MoveMates
  <2>2. CASE IsDiscover(d, r, s, t)
    <3>1. Opens(b, c, s, t, K)
      <4>1. IsDiscover(d, p, s, t)
        BY <1>15, <2>2
      <4>2. K = p.sq_king[d]
        BY <1>2
      <4> QED BY <1>1, <1>2, <1>3, <1>6, <1>8, <4>1, <4>2, DiscoverIs
    <3> QED BY <1>1, <1>6, <1>8, <1>17, <3>1, UncoveredGives
  <2> QED BY <2>1, <2>2
<1>19. Solved(c, r, b, s, t, j, C, K, R)
  <2>1. ~can_king_escape(Flip(c), r, t, R)
    BY DEF MoveMates
  <2> QED BY <1>2, <1>3, <1>10, <1>17, <1>18, <2>1 DEF Solved
<1>20. GivesMate(p.board, p.hand, c, m)
  <2>1. PICK h : h = HandAfter(p.hand, c, m)
    OBVIOUS
  <2>2. Mated(b2, h, d)
    BY <1>1, <1>2, <1>17, <1>19, SolvedIsMate
  <2> QED BY <1>2, <1>3, <1>6, <1>17, <2>1, <2>2 DEF GivesMate
<1>21. Safe(p.board, c, m)
  <2>1. ~IsDiscover(c, p, s, t)
    BY <1>16 DEF MoveMates
  <2> QED BY <1>1, <2>1, UndiscoveredIsSafe
<1> QED BY <1>5, <1>20, <1>21 DEF LegalMate, Legal

(* A drop that the solver accepts may be made and mates.                   *)
LEMMA DropMatesToo ==
  ASSUME NEW p, NEW c, Ready(c, p), NEW k \in Hands \ {pawn}, NEW t \in Square, DropByRules(c, p, k, t),
         NEW K, K = p.sq_king[Flip(c)], Aims(c, k, t, K), abb_obstacle[t][K] = {},
         NEW R, Covers(c, p.board, k, t, K, R), t \in abb_king_attacks[K] => is_attacked_by(c, p, t),
         DropMates(c, p, t, R), NEW m, m = DropMove(k, t)
  PROVE  LegalMate(c, p, m)
<1>1. /\ IsPosition(p) /\ Copies(p) /\ Alive(p) /\ c \in Colour /\ KingIsSafe(c, p) /\ ~InCheck(c, p)
  BY DEF Ready
<1>2. PICK d \in Colour : d = Flip(c) /\ d # c /\ Flip(d) = c
  BY <1>1, Flips
<1>3. PICK b : b = p.board
  OBVIOUS
<1>4. PICK C \in Square : C = p.sq_king[c]
  BY <1>1 DEF IsPosition
<1>5. PICK x : x = Drop2From(k)
  OBVIOUS
<1>6. /\ Safe(p.board, c, m) <=> ~Opens(p.board, d, x, t, C)
      /\ t # C /\ p.board[t] = empty /\ x \notin Square
  BY <1>1, <1>2, <1>4, <1>5, DropIsSafe
<1>7. K \in Square /\ p.board[K] = Signed(d, king)
  BY <1>1, <1>2, PieceOf
<1>8. k \in Kinds \ {king} /\ king \in Kinds
  BY KindsAreNumbers
<1>9. t # K
  BY <1>2, <1>6, <1>7, <1>8, SignedIsOne
<1>10. \A i \in Kinds : b[t] # Signed(c, i)
  BY <1>1, <1>3, <1>6, SignedIsOne
<1>11. Leaves(c, p, b, x, C, K) /\ Emptied(b, x) = b
  BY <1>1, <1>3, <1>4, <1>6, NothingLeaves
<1>12. Arrives(c, p, b, x, t, k, C, K)
  BY <1>6, <1>8, <1>9, <1>10, <1>11 DEF Arrives
<1>13. Solved(c, p, b, x, t, k, C, K, R)
  <2>1. ~can_king_escape(Flip(c), p, t, R) /\ ~can_piece_capture(Flip(c), p, t)
    BY DEF DropMates
  <2> QED BY <1>3, <1>11, <1>12, <2>1 DEF Solved
<1>14. m.from = x /\ m.to = t
  BY <1>5 DEF DropMove, Move
<1>15. After(b, c, m) = Moved(b, x, t, Signed(c, k))
  <2>1. m.from > 80 /\ m.from - 80 = k
    BY <1>5, <1>14 DEF Drop2From, Hands, nsquare, pawn, rook
  <2> QED BY <1>14, <2>1 DEF After, Moved, Signed
<1>16. GivesMate(p.board, p.hand, c, m)
  <2>1. PICK h : h = HandAfter(p.hand, c, m)
    OBVIOUS
  <2>2. PICK b2 : b2 = Moved(b, x, t, Signed(c, k))
    OBVIOUS
  <2>3. Mated(b2, h, d)
    BY <1>1, <1>2, <1>13, <2>2, SolvedIsMate
  <2> QED BY <1>2, <1>3, <1>15, <2>1, <2>2, <2>3 DEF GivesMate
<1>17. Safe(p.board, c, m)
  <2>1. ~Attacked(b, d, C) /\ IsBoard(b)
    BY <1>1, <1>2, <1>3, <1>4, AttackedByTheRules DEF InCheck, IsPosition, IsBoard
  <2>2. ASSUME NEW z \in Square, NEW i \in Kinds, Remains(b, d, i, z, x, t, C)
        PROVE  FALSE
    <3>1. abb_obstacle[z][C] \subseteq Square
      BY <1>4, EitherEnd
    <3>2. ~Strikes(b, d, i, z, C)
      BY <1>2, <2>1, AttackedAre DEF IsBoard
    <3> QED BY <1>6, <2>2, <3>1, <3>2 DEF Remains, Strikes
  <2> QED BY <1>3, <1>6, <2>2 DEF Opens
<1>18. m \in PseudoLegal(p.board, p.hand, c)
  <2>1. m \in Drops(p.board, p.hand, c)
    <3>1. k \in Hands /\ DropByRules(c, p, k, t) /\ m = DropMove(k, t)
      OBVIOUS
    <3> QED BY <1>1, <3>1, DropsAre
  <2>2. m.from # 80 + pawn
    BY <1>5, <1>14 DEF Drop2From, Hands, nsquare, pawn, rook
  <2> QED BY <2>1, <2>2 DEF PseudoLegal, PawnDropMate
<1> QED BY <1>16, <1>17, <1>18 DEF LegalMate, Legal

(***************************************************************************)
(* Next to the king.                                                       *)
(***************************************************************************)
(* Where steps lead.                                                       *)
LEMMA StepsLeadTo ==
  ASSUME NEW s \in Square, NEW steps \in SUBSET (Int \X Int), NEW t \in set_attacks(s, steps)
  PROVE  /\ t \in Square
         /\ \E d \in steps : t \div 9 = (s \div 9) + d[1] /\ t % 9 = (s % 9) + d[2]
<1>1. PICK d \in steps : /\ t = s + 9 * d[1] + d[2]
                         /\ (s \div 9) + d[1] \in 0..8 /\ (s % 9) + d[2] \in 0..8
  BY DEF set_attacks, OnTheBoard, airank, aifile
<1>2. PICK i \in Int, j \in Int : d[1] = i /\ d[2] = j
  OBVIOUS
<1>3. t \in Square /\ t \div 9 = (s \div 9) + i /\ t % 9 = (s % 9) + j
  BY <1>1, <1>2, SquareMoved
<1> QED BY <1>2, <1>3

(* The squares next to another: beside, before or behind it for those of   *)
(* both golds, on its diagonals for those of both silvers.                 *)
NextTo(i, j) == i \in -1 .. 1 /\ j \in -1 .. 1 /\ (i # 0 \/ j # 0)
Offset(s, t, i, j) == t \div 9 = (s \div 9) + i /\ t % 9 = (s % 9) + j
LEMMA Neighbours ==
  ASSUME NEW s \in Square, NEW t
  PROVE  /\ t \in abb_king_attacks[s] => t \in Square /\ \E i, j : NextTo(i, j) /\ Offset(s, t, i, j)
         /\ t \in BothGold(s) => \E i, j : NextTo(i, j) /\ Offset(s, t, i, j) /\ (i = 0 \/ j = 0)
         /\ t \in BothSilver(s) => \E i, j : NextTo(i, j) /\ Offset(s, t, i, j) /\ i # 0 /\ j # 0
<1>1. ASSUME t \in abb_king_attacks[s]
      PROVE  t \in Square /\ \E i, j : NextTo(i, j) /\ Offset(s, t, i, j)
  <2>1. t \in set_attacks(s, Around) /\ Around \in SUBSET (Int \X Int)
    BY <1>1 DEF abb_king_attacks, Around
  <2>2. t \in Square /\ \E d \in Around : t \div 9 = (s \div 9) + d[1] /\ t % 9 = (s % 9) + d[2]
    BY <2>1, StepsLeadTo
  <2>3. \A d \in Around : NextTo(d[1], d[2])
    BY DEF Around, NextTo
  <2> QED BY <2>2, <2>3 DEF Offset
<1>2. ASSUME NEW steps \in SUBSET (Int \X Int), NEW back \in SUBSET (Int \X Int),
             t \in set_attacks(s, steps), t \in set_attacks(s, back)
      PROVE  \E d \in steps, e \in back : d[1] = e[1] /\ d[2] = e[2] /\ Offset(s, t, d[1], d[2])
  <2>1. PICK d \in steps : t \div 9 = (s \div 9) + d[1] /\ t % 9 = (s % 9) + d[2]
    BY <1>2, StepsLeadTo
  <2>2. PICK e \in back : t \div 9 = (s \div 9) + e[1] /\ t % 9 = (s % 9) + e[2]
    BY <1>2, StepsLeadTo
  <2>3. PICK i \in Int, j \in Int : i = d[1] /\ j = d[2]
    OBVIOUS
  <2>4. PICK k \in Int, l \in Int : k = e[1] /\ l = e[2]
    OBVIOUS
  <2>5. PICK m \in Int, n \in Int : m = s \div 9 /\ n = s % 9
    BY SquareParts
  <2>6. m + i = m + k /\ n + j = n + l
    BY <2>1, <2>2, <2>3, <2>4, <2>5
  <2>7. i = k /\ j = l
    BY <2>6
  <2> QED BY <2>1, <2>3, <2>4, <2>7 DEF Offset
<1>3. GoldSteps \in SUBSET (Int \X Int) /\ SilverSteps \in SUBSET (Int \X Int)
  BY DEF GoldSteps, SilverSteps
<1>4. PICK g : g = {<<-d[1], -d[2]>> : d \in GoldSteps}
  OBVIOUS
<1>5. PICK v : v = {<<-d[1], -d[2]>> : d \in SilverSteps}
  OBVIOUS
<1>6. g \in SUBSET (Int \X Int) /\ v \in SUBSET (Int \X Int)
  BY <1>3, <1>4, <1>5
<1>7. ASSUME t \in BothGold(s)
      PROVE  \E i, j : NextTo(i, j) /\ Offset(s, t, i, j) /\ (i = 0 \/ j = 0)
  <2>1. t \in set_attacks(s, GoldSteps) /\ t \in set_attacks(s, g)
    BY <1>4, <1>7 DEF BothGold, Gold, abb_gold_attacks, Turned, Colour, black, white
  <2>2. PICK d \in GoldSteps, e \in g : d[1] = e[1] /\ d[2] = e[2] /\ Offset(s, t, d[1], d[2])
    BY <1>2, <1>3, <1>6, <2>1
  <2>3. PICK h \in GoldSteps : e[1] = -h[1] /\ e[2] = -h[2]
    BY <1>4
  <2>4. NextTo(d[1], d[2]) /\ (d[1] = 0 \/ d[2] = 0)
    BY <2>2, <2>3 DEF GoldSteps, NextTo
  <2> QED BY <2>2, <2>4
<1>8. ASSUME t \in BothSilver(s)
      PROVE  \E i, j : NextTo(i, j) /\ Offset(s, t, i, j) /\ i # 0 /\ j # 0
  <2>1. t \in set_attacks(s, SilverSteps) /\ t \in set_attacks(s, v)
    BY <1>5, <1>8 DEF BothSilver, Silver, abb_silver_attacks, Turned, Colour, black, white
  <2>2. PICK d \in SilverSteps, e \in v : d[1] = e[1] /\ d[2] = e[2] /\ Offset(s, t, d[1], d[2])
    BY <1>2, <1>3, <1>6, <2>1
  <2>3. PICK h \in SilverSteps : e[1] = -h[1] /\ e[2] = -h[2]
    BY <1>5
  <2>4. NextTo(d[1], d[2]) /\ d[1] # 0 /\ d[2] # 0
    BY <2>2, <2>3 DEF SilverSteps, NextTo
  <2> QED BY <2>2, <2>4
<1> QED BY <1>1, <1>7, <1>8

(* By rank and file: of two squares next to a third that are on one line   *)
(* only the third is between, on a diagonal or straight across.            *)
Amidst(a, b, i, j, k, l, g, h, e) ==
  /\ a \in 0..8 /\ b \in 0..8 /\ g \in 0..8 /\ h \in 0..8 /\ e \in 2..5
  /\ NextTo(i, j) /\ NextTo(k, l)
  /\ OnLine(e, a + i, b + j, g, h) /\ OnLine(e, g, h, a + k, b + l)
  /\ \/ Later(g, h, a + i, b + j) /\ Later(a + k, b + l, g, h)
     \/ Later(a + i, b + j, g, h) /\ Later(g, h, a + k, b + l)
  /\ i = 0 \/ j = 0 \/ e \in {4, 5}
LEMMA BetweenNeighbours ==
  ASSUME NEW a, NEW b, NEW i, NEW j, NEW k, NEW l, NEW g, NEW h, NEW e, Amidst(a, b, i, j, k, l, g, h, e)
  PROVE  g = a /\ h = b
<1>0. /\ a \in 0..8 /\ b \in 0..8 /\ g \in 0..8 /\ h \in 0..8 /\ e \in 2..5
      /\ NextTo(i, j) /\ NextTo(k, l)
      /\ OnLine(e, a + i, b + j, g, h) /\ OnLine(e, g, h, a + k, b + l)
      /\ \/ Later(g, h, a + i, b + j) /\ Later(a + k, b + l, g, h)
         \/ Later(a + i, b + j, g, h) /\ Later(g, h, a + k, b + l)
      /\ i = 0 \/ j = 0 \/ e \in {4, 5}
  BY DEF Amidst
<1>1. i \in {-1, 0, 1} /\ j \in {-1, 0, 1} /\ k \in {-1, 0, 1} /\ l \in {-1, 0, 1} /\ (i # 0 \/ j # 0) /\ (k # 0 \/ l # 0)
  BY <1>0 DEF NextTo
<1>2. CASE e = 2
  BY <1>0, <1>1, <1>2 DEF OnLine, Later
<1>3. CASE e = 3
  BY <1>0, <1>1, <1>3 DEF OnLine, Later
<1>4. CASE e = 4
  <2>1. PICK m \in Int, n \in Int : g = a + m /\ h = b + n
    <3>1. g - a \in Int /\ h - b \in Int /\ g = a + (g - a) /\ h = b + (h - b)
      BY <1>0
    <3> QED BY <3>1
  <2>2. i + j = m + n /\ m + n = k + l
    <3>1. /\ (a + i) + (b + j) = (a + m) + (b + n)
          /\ (a + m) + (b + n) = (a + k) + (b + l)
      BY <1>0, <1>4, <2>1 DEF OnLine
    <3>2. i \in Int /\ j \in Int /\ k \in Int /\ l \in Int
      BY <1>1
    <3> QED BY <1>0, <3>1, <3>2, <2>1
  <2>3. (i < m /\ m < k) \/ (k < m /\ m < i)
    BY <1>0, <1>1, <2>1, <2>2 DEF Later
  <2>4. m = 0
    BY <1>0, <1>1, <2>1, <2>3
  <2>5. n = 0
    BY <1>0, <1>1, <2>1, <2>2, <2>3, <2>4
  <2> QED BY <1>0, <2>1, <2>4, <2>5
<1>5. CASE e = 5
  <2>1. PICK m \in Int, n \in Int : g = a + m /\ h = b + n
    <3>1. g - a \in Int /\ h - b \in Int /\ g = a + (g - a) /\ h = b + (h - b)
      BY <1>0
    <3> QED BY <3>1
  <2>2. i - j = m - n /\ m - n = k - l
    <3>1. /\ (a + i) - (b + j) = (a + m) - (b + n)
          /\ (a + m) - (b + n) = (a + k) - (b + l)
      BY <1>0, <1>5, <2>1 DEF OnLine
    <3>2. i \in Int /\ j \in Int /\ k \in Int /\ l \in Int
      BY <1>1
    <3> QED BY <1>0, <3>1, <3>2, <2>1
  <2>3. (i < m /\ m < k) \/ (k < m /\ m < i)
    BY <1>0, <1>1, <2>1, <2>2 DEF Later
  <2>4. m = 0
    BY <1>0, <1>1, <2>1, <2>3
  <2>5. n = 0
    BY <1>0, <1>1, <2>1, <2>2, <2>3, <2>4
  <2> QED BY <1>0, <2>1, <2>4, <2>5
<1> QED BY <1>0, <1>2, <1>3, <1>4, <1>5

LEMMA OnlyTheKingBetween ==
  ASSUME NEW K \in Square, NEW y \in abb_king_attacks[K], NEW u \in abb_king_attacks[K], NEW v \in abb_obstacle[y][u],
         (\E e \in {2, 3} : Joined(e, y, K)) \/ (\E e \in {4, 5} : Joined(e, y, u))
  PROVE  v = K
<1>1. PICK i, j : NextTo(i, j) /\ Offset(K, y, i, j)
  BY Neighbours
<1>2. PICK k, l : NextTo(k, l) /\ Offset(K, u, k, l)
  BY Neighbours
<1>3. y \in Square /\ u \in Square
  BY Neighbours
<1>4. v \in Square
  BY <1>3, BetweenApart
<1>5. PICK a \in 0..8, b \in 0..8 : a = K \div 9 /\ b = K % 9
  BY SquareParts
<1>6. PICK g \in 0..8, h \in 0..8 : g = v \div 9 /\ h = v % 9
  BY <1>4, SquareParts
<1>7. y \div 9 = a + i /\ y % 9 = b + j /\ u \div 9 = a + k /\ u % 9 = b + l
  BY <1>1, <1>2, <1>5 DEF Offset
<1>8. PICK e \in 2..5 : Joined(e, y, v) /\ Joined(e, v, u)
  BY <1>3, <1>4, BetweenIs
<1>9. OnLine(e, a + i, b + j, g, h) /\ OnLine(e, g, h, a + k, b + l)
  BY <1>3, <1>4, <1>6, <1>7, <1>8, JoinedOnLine
<1>10. \/ Later(g, h, a + i, b + j) /\ Later(a + k, b + l, g, h)
       \/ Later(a + i, b + j, g, h) /\ Later(g, h, a + k, b + l)
  <2>1. (y < v /\ v < u) \/ (u < v /\ v < y)
    BY <1>3, <1>4, BetweenIs
  <2>2. (v > y <=> Later(g, h, a + i, b + j)) /\ (y > v <=> Later(a + i, b + j, g, h))
    BY <1>3, <1>4, <1>6, <1>7, SquareOrder DEF Later
  <2>3. (u > v <=> Later(a + k, b + l, g, h)) /\ (v > u <=> Later(g, h, a + k, b + l))
    BY <1>3, <1>4, <1>6, <1>7, SquareOrder DEF Later
  <2> QED BY <1>3, <1>4, <2>1, <2>2, <2>3 DEF Square
<1>11. i = 0 \/ j = 0 \/ e \in {4, 5}
  <2>1. CASE \E f \in {2, 3} : Joined(f, y, K)
    <3>1. PICK f \in {2, 3} : OnLine(f, a + i, b + j, a, b)
      BY <1>3, <1>5, <1>7, <2>1, JoinedOnLine
    <3> QED BY <1>1, <3>1 DEF OnLine, NextTo
  <2>2. CASE \E f \in {4, 5} : Joined(f, y, u)
    <3>1. PICK f \in {4, 5} : Joined(f, y, u)
      BY <2>2
    <3>2. Joined(e, y, u) /\ y # u
      BY <1>3, <1>8, BetweenApart DEF Joined
    <3>3. e = f
      BY <1>3, <3>1, <3>2, OneLineOnly
    <3> QED BY <3>3
  <2> QED BY <2>1, <2>2
<1>12. g = a /\ h = b
  <2>1. NextTo(i, j)
    BY <1>1
  <2>2. NextTo(k, l)
    BY <1>2
  <2>3. Amidst(a, b, i, j, k, l, g, h, e)
    BY <2>1, <2>2, <1>9, <1>10, <1>11 DEF Amidst
  <2> QED BY <2>3, BetweenNeighbours
<1> QED BY <1>4, <1>5, <1>6, <1>12, SquareOrder

(* A piece that comes to y as a j gives check from there, at hand or as a  *)
(* knight, and beats the squares of R next to the king.                    *)
Bears(c, b1, j, y, K, R) ==
  y \in Square /\ Aims(c, j, y, K) /\ abb_obstacle[y][K] = {} /\ Covers(c, b1, j, y, K, R)

(* What steps reach is aimed at, with nothing between.                     *)
LEMMA StepsAim ==
  ASSUME NEW c \in Colour, NEW s \in Square, NEW t
  PROVE  /\ \A k \in Golds : t \in Gold(c, s) => Aims(c, k, s, t) /\ abb_obstacle[s][t] = {}
         /\ t \in Silver(c, s) => Aims(c, silver, s, t) /\ abb_obstacle[s][t] = {}
         /\ t \in Knight(c, s) => Aims(c, knight, s, t) /\ abb_obstacle[s][t] = {}
         /\ \A k \in {horse, dragon} :
              t \in abb_king_attacks[s] => Aims(c, k, s, t) /\ abb_obstacle[s][t] = {}
<1>1. Gold(c, s) = set_attacks(s, Turned(c, GoldSteps)) /\ Silver(c, s) = set_attacks(s, Turned(c, SilverSteps))
  BY DEF Gold, Silver, abb_gold_attacks, abb_silver_attacks
<1>2. Knight(c, s) = set_attacks(s, Turned(c, KnightSteps))
  <2>1. CASE c = black
    BY <2>1 DEF Knight, abb_knight_attacks, abb_b_knight_attacks, Turned, black
  <2>2. CASE c = white
    BY <2>2 DEF Knight, abb_knight_attacks, abb_w_knight_attacks, white
  <2> QED BY <2>1, <2>2 DEF Colour
<1>3. abb_king_attacks[s] = set_attacks(s, Turned(c, LineSteps))
  <2>1. Around = LineSteps
    BY DEF Around, LineSteps, RankSteps, FileSteps, Diag1Steps, Diag2Steps
  <2>2. abb_king_attacks[s] = set_attacks(s, Around)
    BY DEF abb_king_attacks
  <2> QED BY <2>1, <2>2, LineStepsTurned
<1>4. /\ \A k \in Golds : t \in Gold(c, s) => Aims(c, k, s, t)
      /\ t \in Silver(c, s) => Aims(c, silver, s, t)
      /\ t \in Knight(c, s) => Aims(c, knight, s, t)
  BY <1>1, <1>2, DirectionsOfKinds DEF Aims
<1>5. \A k \in {horse, dragon} : t \in abb_king_attacks[s] => Aims(c, k, s, t)
  BY <1>3, DirectionsOfKinds DEF Aims
<1> QED BY <1>4, <1>5, StepsOfPieces

(* Golds, silvers and knights that come to give check, and a pawn pushed.  *)
LEMMA GoldsBear ==
  ASSUME NEW c \in Colour, NEW b1, NEW j \in Golds, NEW K \in Square, NEW y \in Gold(Flip(c), K),
         NEW R, R = abb_gold_attacks[c][y]
  PROVE  Bears(c, b1, j, y, K, R)
<1>1. y \in Square /\ K \in Gold(c, y)
  BY Flips, StepsAreMutual
<1>2. R = Gold(c, y)
  BY DEF Gold
<1>3. Covers(c, b1, j, y, K, R)
  BY <1>1, <1>2, StepsAim DEF Covers, Beats
<1> QED BY <1>1, <1>3, StepsAim DEF Bears

LEMMA SilversBear ==
  ASSUME NEW c \in Colour, NEW b1, NEW K \in Square, NEW y \in Silver(Flip(c), K),
         NEW R, R = abb_silver_attacks[c][y]
  PROVE  Bears(c, b1, silver, y, K, R)
<1>1. y \in Square /\ K \in Silver(c, y)
  BY Flips, StepsAreMutual
<1>2. R = Silver(c, y)
  BY DEF Silver
<1>3. Covers(c, b1, silver, y, K, R)
  BY <1>1, <1>2, StepsAim DEF Covers, Beats
<1> QED BY <1>1, <1>3, StepsAim DEF Bears

LEMMA KnightsBear ==
  ASSUME NEW c \in Colour, NEW b1, NEW K \in Square, NEW y \in Knight(Flip(c), K)
  PROVE  Bears(c, b1, knight, y, K, {}) /\ y \notin abb_king_attacks[K]
<1>1. y \in Square /\ K \in Knight(c, y)
  BY Flips, StepsAreMutual
<1>2. Covers(c, b1, knight, y, K, {})
  BY DEF Covers
<1>3. y \notin abb_king_attacks[K]
  <2>1. Row(c, K) = Row(c, y) - 2
    BY <1>1, KnightsGoAhead
  <2>2. y \in abb_king_attacks[K] => \E i, j : NextTo(i, j) /\ Offset(K, y, i, j)
    BY Neighbours
  <2>3. PICK a \in 0..8 : a = K \div 9
    BY SquareParts
  <2>4. PICK g \in 0..8 : g = y \div 9
    BY <1>1, SquareParts
  <2>5. g = a + 2 \/ g = a - 2
    BY <2>1, <2>3, <2>4 DEF Row, airank
  <2> QED BY <2>2, <2>3, <2>4, <2>5 DEF NextTo, Offset
<1> QED BY <1>1, <1>2, <1>3, StepsAim DEF Bears

LEMMA PawnsBear ==
  ASSUME NEW c \in Colour, NEW b1, NEW K \in Square, NEW y \in Square, K = y + Ahead(c)
  PROVE  Bears(c, b1, pawn, y, K, {})
<1>1. Aims(c, pawn, y, K)
  BY PawnsSee DEF Sees
<1>2. abb_obstacle[y][K] = {}
  BY PawnIsNext
<1> QED BY <1>1, <1>2 DEF Bears, Covers
(* Golds and silvers reach squares next to them, and so does a pawn.       *)
LEMMA NextIsNear ==
  ASSUME NEW s \in Square, NEW t \in Square, NEW i, NEW j, NextTo(i, j), Offset(s, t, i, j)
  PROVE  t \in abb_king_attacks[s]
<1>1. <<i, j>> \in Around
  BY DEF NextTo, Around
<1>2. PICK d : d = <<i, j>> /\ d \in Around /\ d[1] = i /\ d[2] = j
  BY <1>1
<1>3. i \in -1 .. 1 /\ j \in -1 .. 1
  BY DEF NextTo
<1>4. PICK a \in 0..8, b \in 0..8 : a = s \div 9 /\ b = s % 9 /\ s = 9 * a + b
  BY SquareParts
<1>5. PICK g \in 0..8, h \in 0..8 : g = t \div 9 /\ h = t % 9 /\ t = 9 * g + h
  BY SquareParts
<1>6. g = a + i /\ h = b + j
  BY <1>4, <1>5 DEF Offset
<1>7. t = s + 9 * d[1] + d[2]
  BY <1>2, <1>3, <1>4, <1>5, <1>6
<1>8. OnTheBoard(airank(s) + d[1], aifile(s) + d[2])
  BY <1>2, <1>4, <1>5, <1>6 DEF OnTheBoard, airank, aifile
<1>9. t \in set_attacks(s, Around)
  BY <1>2, <1>7, <1>8 DEF set_attacks
<1> QED BY <1>9 DEF abb_king_attacks

LEMMA NearSteps ==
  ASSUME NEW c \in Colour, NEW s \in Square
  PROVE  Gold(c, s) \subseteq abb_king_attacks[s] /\ Silver(c, s) \subseteq abb_king_attacks[s]
<1>1. Turned(c, GoldSteps) \subseteq Around /\ Turned(c, SilverSteps) \subseteq Around
  BY DEF Turned, GoldSteps, SilverSteps, Around
<1>2. abb_king_attacks[s] = set_attacks(s, Around)
  BY DEF abb_king_attacks
<1>3. Gold(c, s) = set_attacks(s, Turned(c, GoldSteps)) /\ Silver(c, s) = set_attacks(s, Turned(c, SilverSteps))
  BY DEF Gold, Silver, abb_gold_attacks, abb_silver_attacks
<1> QED BY <1>1, <1>2, <1>3 DEF set_attacks

LEMMA NextAhead ==
  ASSUME NEW c \in Colour, NEW K \in Square, NEW y \in Square, K = y + Ahead(c)
  PROVE  y \in abb_king_attacks[K]
<1>1. PICK a \in 0..8, b \in 0..8 : a = K \div 9 /\ b = K % 9 /\ K = 9 * a + b
  BY SquareParts
<1>2. PICK g \in 0..8, h \in 0..8 : g = y \div 9 /\ h = y % 9 /\ y = 9 * g + h
  BY SquareParts
<1>3. PICK i \in {-1, 1} : y = K + 9 * i
  BY DEF Ahead, Square
<1>4. g = a + i /\ h = b + 0
  <2>1. 9 * g + h = 9 * a + b + 9 * i
    BY <1>1, <1>2, <1>3
  <2>2. CASE i = 1
    BY <2>1, <2>2
  <2>3. CASE i = -1
    BY <2>1, <2>3
  <2> QED BY <2>2, <2>3
<1>5. NextTo(i, 0) /\ Offset(K, y, i, 0)
  BY <1>1, <1>2, <1>4 DEF NextTo, Offset
<1> QED BY <1>5, NextIsNear

(* A slider next to the king beats the squares next to it along its lines. *)
LEMMA RunningAims ==
  ASSUME NEW c \in Colour, NEW k \in Kinds, NEW s \in Square, NEW t, RunsAlong(c, k, s, t)
  PROVE  Aims(c, k, s, t)
BY RunsAre DEF Aims

Through(y, u, K) == (\E e \in {2, 3} : Joined(e, y, K)) \/ (\E e \in {4, 5} : Joined(e, y, u))
LEMMA SlidersBeat ==
  ASSUME NEW c \in Colour, NEW b1, NEW k \in Kinds, NEW K \in Square, NEW y \in abb_king_attacks[K],
         NEW u \in abb_king_attacks[K], RunsAlong(c, k, y, u), Through(y, u, K)
  PROVE  Beats(c, b1, k, y, K, u)
<1>1. y \in Square
  BY Neighbours
<1>2. Aims(c, k, y, u)
  BY <1>1, RunningAims
<1>3. ASSUME NEW v \in abb_obstacle[y][u] PROVE v = K
  <2>1. (\E e \in {2, 3} : Joined(e, y, K)) \/ (\E e \in {4, 5} : Joined(e, y, u))
    BY DEF Through
  <2> QED BY <2>1, OnlyTheKingBetween
<1> QED BY <1>2, <1>3 DEF Beats

(* The squares straight beside the king, and those on its diagonals.       *)
LEMMA BothAreNear ==
  ASSUME NEW K \in Square, NEW y
  PROVE  /\ y \in BothGold(K) => y \in abb_king_attacks[K] /\ \E e \in {2, 3} : Joined(e, y, K)
         /\ y \in BothSilver(K) => y \in abb_king_attacks[K] /\ \E e \in {4, 5} : Joined(e, y, K)
<1>1. ASSUME y \in BothGold(K)
      PROVE  y \in abb_king_attacks[K] /\ \E e \in {2, 3} : Joined(e, y, K)
  <2>1. y \in abb_king_attacks[K] /\ y \in Square
    BY <1>1, NearSteps, Neighbours DEF BothGold, Colour
  <2>2. PICK i, j : NextTo(i, j) /\ Offset(K, y, i, j) /\ (i = 0 \/ j = 0)
    BY <1>1, Neighbours
  <2>3. PICK a \in 0..8, b \in 0..8 : a = K \div 9 /\ b = K % 9
    BY SquareParts
  <2>4. PICK g \in 0..8, h \in 0..8 : g = y \div 9 /\ h = y % 9
    BY <2>1, SquareParts
  <2>5. g = a \/ h = b
    BY <2>2, <2>3, <2>4 DEF Offset, NextTo
  <2>6. OnLine(2, g, h, a, b) \/ OnLine(3, g, h, a, b)
    BY <2>5 DEF OnLine
  <2> QED BY <2>1, <2>3, <2>4, <2>6, JoinedOnLine
<1>2. ASSUME y \in BothSilver(K)
      PROVE  y \in abb_king_attacks[K] /\ \E e \in {4, 5} : Joined(e, y, K)
  <2>1. y \in abb_king_attacks[K] /\ y \in Square
    BY <1>2, NearSteps, Neighbours DEF BothSilver, Colour
  <2>2. PICK i, j : NextTo(i, j) /\ Offset(K, y, i, j) /\ i # 0 /\ j # 0
    BY <1>2, Neighbours
  <2>3. PICK a \in 0..8, b \in 0..8 : a = K \div 9 /\ b = K % 9
    BY SquareParts
  <2>4. PICK g \in 0..8, h \in 0..8 : g = y \div 9 /\ h = y % 9
    BY <2>1, SquareParts
  <2>5. g = a + i /\ h = b + j /\ i \in {-1, 1} /\ j \in {-1, 1}
    BY <2>2, <2>3, <2>4 DEF Offset, NextTo
  <2>6. OnLine(4, g, h, a, b) \/ OnLine(5, g, h, a, b)
    BY <2>5 DEF OnLine
  <2> QED BY <2>1, <2>3, <2>4, <2>6, JoinedOnLine
<1> QED BY <1>1, <1>2

LEMMA NearIsOpen ==
  ASSUME NEW K \in Square, NEW y \in abb_king_attacks[K]
  PROVE  y \in Square /\ y # K /\ K \in abb_king_attacks[y] /\ abb_obstacle[y][K] = {}
<1>1. y \in Square /\ K \in abb_king_attacks[y]
  BY StepsAreMutual, black \in Colour DEF Colour
<1>2. abb_obstacle[y][K] = {}
  BY <1>1, StepsOfPieces, black \in Colour DEF Colour
<1>3. y # K
  BY NotOnItself, black \in Colour DEF Colour
<1> QED BY <1>1, <1>2, <1>3

LEMMA RooksBear ==
  ASSUME NEW c \in Colour, NEW b1, NEW K \in Square, NEW y \in BothGold(K), NEW R, R = Cross(y)
  PROVE  Bears(c, b1, rook, y, K, R)
<1>1. y \in abb_king_attacks[K] /\ \E e \in {2, 3} : Joined(e, y, K)
  BY BothAreNear
<1>2. y \in Square /\ y # K /\ abb_obstacle[y][K] = {}
  BY <1>1, NearIsOpen
<1>3. rook \in Kinds
  BY KindsApart
<1>4. RunsAlong(c, rook, y, K)
  BY <1>1, <1>2 DEF RunsAlong
<1>5. ASSUME NEW u \in (R \cap abb_king_attacks[K]) \ {y} PROVE Beats(c, b1, rook, y, K, u)
  <2>1. u \in Square /\ y # u /\ (Joined(2, y, u) \/ Joined(3, y, u))
    BY <1>2 DEF Cross, Line, direc_file, direc_rank
  <2>2. RunsAlong(c, rook, y, u)
    BY <2>1 DEF RunsAlong
  <2>3. Through(y, u, K)
    BY <1>1 DEF Through
  <2> QED BY <1>1, <1>3, <2>2, <2>3, SlidersBeat
<1>6. Aims(c, rook, y, K)
  BY <1>2, <1>3, <1>4, RunningAims
<1> QED BY <1>2, <1>5, <1>6 DEF Bears, Covers

LEMMA BishopsBear ==
  ASSUME NEW c \in Colour, NEW b1, NEW K \in Square, NEW y \in BothSilver(K), NEW R, R = Saltire(y)
  PROVE  Bears(c, b1, bishop, y, K, R)
<1>1. y \in abb_king_attacks[K] /\ \E e \in {4, 5} : Joined(e, y, K)
  BY BothAreNear
<1>2. y \in Square /\ y # K /\ abb_obstacle[y][K] = {}
  BY <1>1, NearIsOpen
<1>3. bishop \in Kinds
  BY KindsApart
<1>4. RunsAlong(c, bishop, y, K)
  BY <1>1, <1>2 DEF RunsAlong
<1>5. ASSUME NEW u \in (R \cap abb_king_attacks[K]) \ {y} PROVE Beats(c, b1, bishop, y, K, u)
  <2>1. u \in Square /\ y # u /\ (Joined(4, y, u) \/ Joined(5, y, u))
    BY <1>2 DEF Saltire, Line, direc_diag1, direc_diag2
  <2>2. RunsAlong(c, bishop, y, u)
    BY <2>1 DEF RunsAlong
  <2>3. Through(y, u, K)
    BY <2>1 DEF Through
  <2> QED BY <1>1, <1>3, <2>2, <2>3, SlidersBeat
<1>6. Aims(c, bishop, y, K)
  BY <1>2, <1>3, <1>4, RunningAims
<1> QED BY <1>2, <1>5, <1>6 DEF Bears, Covers

LEMMA HorsesBear ==
  ASSUME NEW c \in Colour, NEW b1, NEW K \in Square, NEW y \in abb_king_attacks[K], NEW R, R = HorseReach[y]
  PROVE  Bears(c, b1, horse, y, K, R)
<1>1. y \in Square /\ K \in abb_king_attacks[y] /\ abb_obstacle[y][K] = {}
  BY NearIsOpen
<1>2. horse \in Kinds
  BY KindsApart
<1>3. R = Saltire(y) \cup abb_king_attacks[y]
  BY <1>1 DEF HorseReach
<1>4. ASSUME NEW u \in (R \cap abb_king_attacks[K]) \ {y} PROVE Beats(c, b1, horse, y, K, u)
  <2>1. CASE u \in Saltire(y)
    <3>1. u \in Square /\ y # u /\ (Joined(4, y, u) \/ Joined(5, y, u))
      BY <1>1, <2>1 DEF Saltire, Line, direc_diag1, direc_diag2
    <3>2. RunsAlong(c, horse, y, u)
      BY <3>1 DEF RunsAlong
    <3>3. Through(y, u, K)
      BY <3>1 DEF Through
    <3> QED BY <1>2, <3>2, <3>3, SlidersBeat
  <2>2. CASE u \in abb_king_attacks[y]
    BY <1>1, <2>2, StepsAim DEF Beats
  <2> QED BY <1>3, <2>1, <2>2
<1>5. Aims(c, horse, y, K)
  BY <1>1, StepsAim
<1> QED BY <1>1, <1>4, <1>5 DEF Bears, Covers

LEMMA DragonsBear ==
  ASSUME NEW c \in Colour, NEW q, NEW b1, AsSeen(c, q, b1), NEW K \in Square, NEW y \in abb_king_attacks[K],
         NEW R, R = DragonReach(K, q)[y]
  PROVE  Bears(c, b1, dragon, y, K, R)
<1>1. y \in Square /\ y # K /\ K \in abb_king_attacks[y] /\ abb_obstacle[y][K] = {}
  BY NearIsOpen
<1>2. dragon \in Kinds
  BY KindsApart
<1>3. \/ R = Cross(y) \cup abb_king_attacks[y] /\ adirec[K][y] \in {direc_file, direc_rank}
      \/ R = AttackDragon(q, y)
  BY <1>1 DEF DragonReach
<1>4. ASSUME NEW u \in (R \cap abb_king_attacks[K]) \ {y} PROVE Beats(c, b1, dragon, y, K, u)
  <2>1. CASE u \in abb_king_attacks[y]
    BY <1>1, <2>1, StepsAim DEF Beats
  <2>2. CASE u \in Cross(y) /\ adirec[K][y] \in {direc_file, direc_rank}
    <3>1. u \in Square /\ y # u /\ (Joined(2, y, u) \/ Joined(3, y, u))
      BY <1>1, <2>2 DEF Cross, Line, direc_file, direc_rank
    <3>2. RunsAlong(c, dragon, y, u)
      BY <3>1 DEF RunsAlong
    <3>3. PICK e \in {2, 3} : Joined(e, K, y)
      BY <1>1, <2>2 DEF adirec, direc_file, direc_rank, direc_misc
    <3>4. Joined(e, y, K)
      BY <3>3 DEF Joined
    <3>5. Through(y, u, K)
      BY <3>4 DEF Through
    <3> QED BY <1>2, <3>2, <3>5, SlidersBeat
  <2>3. CASE u \in AttackRook(q, y)
    <3>1. u \in Slide(2, y, Taken(b1)) \/ u \in Slide(3, y, Taken(b1))
      BY <2>3, SeenLines DEF AttackRook
    <3>2. /\ u \in Square /\ y # u /\ (Joined(2, y, u) \/ Joined(3, y, u))
          /\ abb_obstacle[y][u] \cap Taken(b1) = {}
      BY <1>1, <3>1 DEF Slide, Line
    <3>3. RunsAlong(c, dragon, y, u)
      BY <3>2 DEF RunsAlong
    <3>4. Aims(c, dragon, y, u)
      BY <1>1, <1>2, <3>3, RunningAims
    <3> QED BY <3>2, <3>4 DEF Beats
  <2> QED BY <1>3, <2>1, <2>2, <2>3 DEF AttackDragon
<1>5. Aims(c, dragon, y, K)
  BY <1>1, StepsAim
<1> QED BY <1>1, <1>4, <1>5 DEF Bears, Covers

LEMMA LancesBear ==
  ASSUME NEW c \in Colour, NEW b1, NEW K \in Square, NEW y \in Square, K = y + Ahead(c),
         NEW R, R = Line[direc_file][y]
  PROVE  Bears(c, b1, lance, y, K, R)
<1>1. y \in abb_king_attacks[K]
  BY NextAhead
<1>2. y # K /\ abb_obstacle[y][K] = {} /\ Joined(2, K, y) /\ (c = black => K < y) /\ (c = white => y < K)
  BY PawnIsNext
<1>3. Joined(2, y, K)
  BY <1>2 DEF Joined
<1>4. lance \in Kinds
  BY KindsApart
<1>5. ASSUME NEW u \in Square, u # y, Joined(2, y, u), c = black => u < y, c = white => y < u
      PROVE  RunsAlong(c, lance, y, u)
  <2>1. u \in RaysAhead(c)[y]
    <3>1. CASE c = black
      BY <1>5, <3>1 DEF RaysAhead, abb_minus_rays, Square
    <3>2. CASE c = white
      BY <1>5, <3>2 DEF RaysAhead, abb_plus_rays, Square, white, black
    <3> QED BY <3>1, <3>2 DEF Colour
  <2> QED BY <1>5, <2>1 DEF RunsAlong
<1>6. ASSUME NEW u \in (R \cap abb_king_attacks[K]) \ {y} PROVE Beats(c, b1, lance, y, K, u)
  <2>1. u \in Square /\ u # y /\ Joined(2, y, u)
    BY DEF Line, direc_file
  <2>2. PICK a \in 0..8, b \in 0..8 : a = K \div 9 /\ b = K % 9 /\ K = 9 * a + b
    BY SquareParts
  <2>3. PICK g \in 0..8, h \in 0..8 : g = y \div 9 /\ h = y % 9 /\ y = 9 * g + h
    BY SquareParts
  <2>4. PICK m \in 0..8, n \in 0..8 : m = u \div 9 /\ n = u % 9 /\ u = 9 * m + n
    BY <2>1, SquareParts
  <2>5. PICK i, j : NextTo(i, j) /\ Offset(K, u, i, j)
    BY Neighbours
  <2>6. m = a + i /\ n = b + j /\ i \in -1 .. 1 /\ j \in -1 .. 1 /\ (i # 0 \/ j # 0)
    BY <2>2, <2>4, <2>5 DEF Offset, NextTo
  <2>7. n = h
    <3>1. OnLine(2, g, h, m, n)
      BY <2>1, <2>3, <2>4, JoinedOnLine
    <3> QED BY <3>1 DEF OnLine
  <2>8. (c = black => u < y) /\ (c = white => y < u)
    BY <2>1, <2>2, <2>3, <2>4, <2>6, <2>7 DEF Ahead, Colour, black, white
  <2>9. RunsAlong(c, lance, y, u)
    BY <1>5, <2>1, <2>8
  <2>10. Through(y, u, K)
    BY <1>3 DEF Through
  <2> QED BY <1>1, <1>4, <2>9, <2>10, SlidersBeat
<1>7. Aims(c, lance, y, K)
  BY <1>2, <1>3, <1>4, <1>5, RunningAims
<1> QED BY <1>2, <1>6, <1>7 DEF Bears, Covers
(***************************************************************************)
(* The solver, piece by piece.                                             *)
(***************************************************************************)
(* Its steps: what comes to a square of T bears on the king from there.    *)
Comer(c, p, k, s, K) ==
  /\ Ready(c, p) /\ k \in Kinds \ {pawn, king} /\ s \in Square /\ p.board[s] = Signed(c, k)
  /\ K = p.sq_king[Flip(c)] /\ K \in Square
LEMMA ComerIs ==
  ASSUME NEW c, NEW p, NEW k, NEW s, NEW K, Comer(c, p, k, s, K)
  PROVE  /\ Ready(c, p) /\ IsPosition(p) /\ Copies(p) /\ c \in Colour /\ k \in Kinds \ {pawn, king}
         /\ s \in Square /\ p.board[s] = Signed(c, k) /\ Kind(p, s) = k
         /\ K = p.sq_king[Flip(c)] /\ K = Target(c, p) /\ K \in Square
<1>1. /\ Ready(c, p) /\ IsPosition(p) /\ Copies(p) /\ c \in Colour /\ k \in Kinds \ {pawn, king}
      /\ s \in Square /\ p.board[s] = Signed(c, k) /\ K = p.sq_king[Flip(c)] /\ K \in Square
  BY DEF Comer, Ready
<1>2. Kind(p, s) = k
  BY <1>1, KindOfSigned
<1> QED BY <1>1, <1>2 DEF Target

(* A step where the piece bears on the king does not get it stuck.         *)
LEMMA BearingIsNotStuck ==
  ASSUME NEW p, IsPosition(p), Copies(p), NEW c \in Colour, NEW k \in Kinds, NEW t, NEW K \in Square,
         NEW b1, NEW R, Bears(c, b1, k, t, K, R)
  PROVE  ~Stuck(c, k, t)
<1>1. t \in Square /\ Sees(p.board, c, k, t, K)
  BY DEF Bears, Sees
<1>2. CASE k \in Hands
  BY <1>1, <1>2, SeeingIsNotStuck
<1>3. CASE k \notin Hands
  <2>1. k \notin {pawn, lance, knight}
    BY <1>3 DEF Hands, pawn, lance, knight, rook
  <2> QED BY <1>1, <2>1, WhereStuck
<1> QED BY <1>2, <1>3

LEMMA ArrivalMates ==
  ASSUME NEW c, NEW p, NEW k, NEW s, NEW K, Comer(c, p, k, s, K), NEW f \in BOOLEAN,
         f => k \in Promotable, NEW t, f => s \in Zone(c) \/ t \in Zone(c),
         t \in Reach(c, p, k, s), t \in Movable(c, p),
         NEW R, Bears(c, Emptied(p.board, s), Becoming(k, f), t, K, R),
         NEW r, r = Lifted(c, p, s), t \in abb_king_attacks[K] => is_attacked_by(c, r, t),
         MoveMates(c, r, s, t, R), NEW m, m = Board(p, k, f, s, t)
  PROVE  LegalMate(c, p, m)
<1>1. /\ Ready(c, p) /\ IsPosition(p) /\ Copies(p) /\ c \in Colour /\ k \in Kinds \ {pawn, king}
      /\ s \in Square /\ p.board[s] = Signed(c, k) /\ K = p.sq_king[Flip(c)] /\ K \in Square
  BY ComerIs
<1>2. PICK j : j = Becoming(k, f)
  OBVIOUS
<1>3. /\ t \in Square /\ Aims(c, j, t, K) /\ abb_obstacle[t][K] = {}
      /\ Covers(c, Emptied(p.board, s), j, t, K, R)
  BY <1>2 DEF Bears
<1>4. Hits(p.board, c, s, t)
  BY <1>1, ReachIsHits
<1>5. ~Mine(c, p.board[t])
  BY <1>1, <1>3, MovableIs
<1>6. StepOf(c, p, k, s, t)
  BY <1>1, <1>3, <1>4, <1>5 DEF StepOf
<1>7. ~f => ~Stuck(c, k, t)
  <2>1. ASSUME ~f PROVE ~Stuck(c, k, t)
    <3>1. Becoming(k, f) = k
      BY <2>1 DEF Becoming
    <3>2. Bears(c, Emptied(p.board, s), k, t, K, R)
      BY <3>1
    <3> QED BY <1>1, <3>2, BearingIsNotStuck
  <2> QED BY <2>1
<1>8. ByRules(c, p, k, s, t, f)
  BY <1>1, <1>6, <1>7, StepsByRules
<1>9. k \in Kinds \ {king}
  BY <1>1
<1> QED BY <1>1, <1>2, <1>3, <1>8, <1>9, StepMates

LEMMA ComingMates ==
  ASSUME NEW c, NEW p, NEW k, NEW s, NEW K, Comer(c, p, k, s, K), NEW f \in BOOLEAN,
         f => k \in Promotable, NEW T, f => s \in Zone(c) \/ T \subseteq Zone(c),
         NEW reach, \A t \in T : Bears(c, Emptied(p.board, s), Becoming(k, f), t, K, reach[t]),
         NEW m \in Coming(c, p, s, T, f, reach)
  PROVE  LegalMate(c, p, m)
<1>1. Kind(p, s) = k
  BY ComerIs
<1>2. PICK r : r = Lifted(c, p, s)
  OBVIOUS
<1>3. PICK t : /\ t \in T \cap Reach(c, p, k, s) \cap Movable(c, p)
               /\ is_attacked_by(c, r, t) /\ MoveMates(c, r, s, t, reach[t])
               /\ m = Board(p, k, f, s, t)
  BY <1>1, <1>2 DEF Coming, MatingSquares
<1>4. PICK R : R = reach[t]
  OBVIOUS
<1>5. Bears(c, Emptied(p.board, s), Becoming(k, f), t, K, R)
  BY <1>3, <1>4
<1>6. t \in Reach(c, p, k, s) /\ t \in Movable(c, p) /\ (f => s \in Zone(c) \/ t \in Zone(c))
  BY <1>3
<1> QED BY <1>2, <1>3, <1>4, <1>5, <1>6, ArrivalMates

(* Its drops next to the king.                                             *)
LEMMA ContactDropsMate ==
  ASSUME NEW c, NEW p, Ready(c, p), NEW K, K = p.sq_king[Flip(c)], NEW k \in Hands \ {pawn},
         NEW S, NEW reach, \A t \in S \cap Square : Bears(c, p.board, k, t, K, reach[t]),
         NEW m \in Contact(c, p, k, S, reach)
  PROVE  LegalMate(c, p, m)
<1>1. IsPosition(p) /\ Copies(p) /\ c \in Colour
  BY DEF Ready
<1>2. p.hand[c][k] # 0
  BY DEF Contact
<1>3. PICK t \in S \cap Empty(p) : is_attacked_by(c, p, t) /\ DropMates(c, p, t, reach[t]) /\ m = DropMove(k, t)
  BY <1>2 DEF Contact
<1>4. t \in Square /\ p.board[t] = empty /\ t \in S
  BY <1>1, <1>3, EmptyIs
<1>5. PICK R : R = reach[t]
  OBVIOUS
<1>6. Bears(c, p.board, k, t, K, R)
  BY <1>4, <1>5
<1>7. Aims(c, k, t, K) /\ abb_obstacle[t][K] = {} /\ Covers(c, p.board, k, t, K, R)
  BY <1>6 DEF Bears
<1>8. K \in Square
  BY <1>1, Flips, PieceOf
<1>9. k \in Kinds
  BY DEF Hands, Kinds, pawn, rook
<1>10. ~Stuck(c, k, t)
  BY <1>1, <1>6, <1>8, <1>9, BearingIsNotStuck
<1>11. p.hand[c][k] > 0
  <2>1. p.hand \in [Colour -> [Hands -> Nat]]
    BY <1>1 DEF IsPosition
  <2>2. p.hand[c][k] \in Nat
    BY <1>1, <2>1
  <2> QED BY <1>2, <2>2
<1>12. DropByRules(c, p, k, t)
  BY <1>4, <1>10, <1>11 DEF DropByRules
<1> QED BY <1>3, <1>4, <1>5, <1>7, <1>12, DropMatesToo
(* What its pieces become.                                                 *)
LEMMA Becomings ==
  /\ \A k : Becoming(k, FALSE) = k
  /\ Becoming(rook, TRUE) = dragon /\ Becoming(bishop, TRUE) = horse
  /\ \A k \in {pawn, lance, knight, silver} : Becoming(k, TRUE) \in Golds
  /\ {pawn, lance, knight, silver, rook, bishop} \subseteq Promotable
  /\ {lance, knight, silver, rook, bishop, horse, dragon} \cup Golds \subseteq Kinds \ {pawn, king}
  /\ {lance, knight, silver, rook, bishop, horse, dragon} \subseteq BoardKinds
  /\ {lance, knight, silver, gold, rook, bishop} \subseteq Hands \ {pawn}
BY DEF Becoming, Golds, Promotable, Kinds, Hands, BoardKinds, promote, pawn, lance, knight, silver, gold, bishop, rook,
       king, horse, dragon

LEMMA HeldComes ==
  ASSUME NEW c, NEW p, Ready(c, p), NEW K, K = p.sq_king[Flip(c)]
  PROVE  /\ \A k \in {lance, knight, silver, rook, bishop, horse, dragon} : \A s \in p.bb[c][k] : Comer(c, p, k, s, K)
         /\ \A s \in p.union[c].tgold : \E k \in Golds : Comer(c, p, k, s, K)
         /\ K \in Square /\ K = Target(c, p) /\ GoldChecks(c, p) = Gold(Flip(c), K)
<1>1. IsPosition(p) /\ Copies(p) /\ c \in Colour
  BY DEF Ready
<1>2. K \in Square
  BY <1>1, Flips, PieceOf
<1>3. K = Target(c, p) /\ GoldChecks(c, p) = Gold(Flip(c), K)
  BY DEF Target, GoldChecks
<1>4. ASSUME NEW k \in {lance, knight, silver, rook, bishop, horse, dragon}, NEW s \in p.bb[c][k]
      PROVE  Comer(c, p, k, s, K)
  <2>1. k \in BoardKinds /\ k \in Kinds \ {pawn, king}
    BY Becomings
  <2>2. s \in Square /\ p.board[s] = Signed(c, k)
    BY <1>1, <2>1, PieceOf
  <2> QED BY <1>2, <2>1, <2>2 DEF Comer
<1>5. ASSUME NEW s \in p.union[c].tgold
      PROVE  \E k \in Golds : Comer(c, p, k, s, K)
  <2>1. PICK k \in Golds : s \in Square /\ p.board[s] = Signed(c, k)
    BY <1>1, PiecesHeld
  <2>2. k \in Kinds \ {pawn, king}
    BY Becomings
  <2>3. Comer(c, p, k, s, K)
    BY <1>2, <2>1, <2>2 DEF Comer
  <2> QED BY <2>3
<1> QED BY <1>2, <1>3, <1>4, <1>5

(* A piece lifted by the solver is seen to be gone.                        *)
LEMMA ComerIsLifted ==
  ASSUME NEW c, NEW p, NEW k, NEW s, NEW K, Comer(c, p, k, s, K)
  PROVE  AsSeen(c, Lifted(c, p, s), Emptied(p.board, s))
<1>1. IsPosition(p) /\ Copies(p) /\ c \in Colour /\ KingIsSafe(c, p)
  BY DEF Comer, Ready
<1>2. k \in Kinds \ {king} /\ s \in Square /\ p.board[s] = Signed(c, k)
  BY ComerIs
<1>3. Leaves(c, Lifted(c, p, s), p.board, s, p.sq_king[c], p.sq_king[Flip(c)])
  BY <1>1, <1>2, LiftedLeaves
<1> QED BY <1>3 DEF Leaves

LEMMA PromotingSplits ==
  ASSUME NEW c, NEW s, NEW T
  PROVE  /\ Promoting(c, s, T) \subseteq T /\ Plainly(c, s, T) \subseteq T
         /\ s \in Zone(c) \/ Promoting(c, s, T) \subseteq Zone(c)
BY DEF Promoting, Plainly

LEMMA DragonsMate ==
  ASSUME NEW c, NEW p, Ready(c, p), NEW m \in mate_by_dragon(c, p)
  PROVE  LegalMate(c, p, m)
<1>1. PICK K : K = p.sq_king[Flip(c)] /\ K = Target(c, p) /\ K \in Square
  BY HeldComes
<1>2. PICK s \in p.bb[c][dragon] : m \in Coming(c, p, s, abb_king_attacks[K], FALSE, RookReach(c, p, s))
  BY <1>1 DEF mate_by_dragon
<1>3. Comer(c, p, dragon, s, K) /\ c \in Colour
  BY <1>1, HeldComes DEF Ready
<1>4. PICK r, b1 : r = Lifted(c, p, s) /\ b1 = Emptied(p.board, s) /\ AsSeen(c, r, b1)
  BY <1>3, ComerIsLifted
<1>5. ASSUME NEW t \in abb_king_attacks[K]
      PROVE  Bears(c, Emptied(p.board, s), Becoming(dragon, FALSE), t, K, RookReach(c, p, s)[t])
  <2>1. RookReach(c, p, s)[t] = DragonReach(K, r)[t]
    BY <1>1, <1>4 DEF RookReach
  <2>2. Bears(c, b1, dragon, t, K, RookReach(c, p, s)[t])
    BY <1>1, <1>3, <1>4, <2>1, DragonsBear
  <2> QED BY <1>4, <2>2, Becomings
<1> QED BY <1>2, <1>3, <1>5, ComingMates

LEMMA RooksMate ==
  ASSUME NEW c, NEW p, Ready(c, p), NEW m \in mate_by_rook(c, p)
  PROVE  LegalMate(c, p, m)
<1>1. PICK K : K = p.sq_king[Flip(c)] /\ K = Target(c, p) /\ K \in Square
  BY HeldComes
<1>2. PICK near, cross : near = abb_king_attacks[K] /\ cross = BothGold(K)
  OBVIOUS
<1>3. PICK s \in p.bb[c][rook] :
        \/ m \in Coming(c, p, s, Promoting(c, s, near), TRUE, RookReach(c, p, s))
        \/ m \in Coming(c, p, s, Plainly(c, s, cross), FALSE, [t \in Square |-> Cross(t)])
  BY <1>1, <1>2 DEF mate_by_rook
<1>4. Comer(c, p, rook, s, K) /\ c \in Colour
  BY <1>1, HeldComes DEF Ready
<1>5. PICK r, b1 : r = Lifted(c, p, s) /\ b1 = Emptied(p.board, s) /\ AsSeen(c, r, b1)
  BY <1>4, ComerIsLifted
<1>6. CASE m \in Coming(c, p, s, Promoting(c, s, near), TRUE, RookReach(c, p, s))
  <2>1. ASSUME NEW t \in Promoting(c, s, near)
        PROVE  Bears(c, Emptied(p.board, s), Becoming(rook, TRUE), t, K, RookReach(c, p, s)[t])
    <3>1. RookReach(c, p, s)[t] = DragonReach(K, r)[t]
      BY <1>1, <1>5 DEF RookReach
    <3>2. t \in abb_king_attacks[K]
      BY <1>2, PromotingSplits
    <3>3. Bears(c, b1, dragon, t, K, RookReach(c, p, s)[t])
      BY <1>1, <1>4, <1>5, <3>1, <3>2, DragonsBear
    <3> QED BY <1>5, <3>3, Becomings
  <2>2. rook \in Promotable /\ (s \in Zone(c) \/ Promoting(c, s, near) \subseteq Zone(c))
    BY Becomings, PromotingSplits
  <2> QED BY <1>4, <1>6, <2>1, <2>2, ComingMates
<1>7. CASE m \in Coming(c, p, s, Plainly(c, s, cross), FALSE, [t \in Square |-> Cross(t)])
  <2>1. PICK reach : reach = [t \in Square |-> Cross(t)]
    OBVIOUS
  <2>2. ASSUME NEW t \in Plainly(c, s, cross)
        PROVE  Bears(c, Emptied(p.board, s), Becoming(rook, FALSE), t, K, reach[t])
    <3>1. t \in BothGold(K)
      BY <1>2, PromotingSplits
    <3>2. t \in Square
      BY <1>1, <3>1, BothAreNear, Neighbours
    <3>3. Bears(c, b1, rook, t, K, reach[t])
      BY <1>1, <1>4, <2>1, <3>1, <3>2, RooksBear
    <3> QED BY <1>5, <3>3, Becomings
  <2> QED BY <1>4, <1>7, <2>1, <2>2, ComingMates
<1> QED BY <1>3, <1>6, <1>7

LEMMA HorsesMate ==
  ASSUME NEW c, NEW p, Ready(c, p), NEW m \in mate_by_horse(c, p)
  PROVE  LegalMate(c, p, m)
<1>1. PICK K : K = p.sq_king[Flip(c)] /\ K = Target(c, p) /\ K \in Square
  BY HeldComes
<1>2. PICK s \in p.bb[c][horse] : m \in Coming(c, p, s, abb_king_attacks[K], FALSE, HorseReach)
  BY <1>1 DEF mate_by_horse
<1>3. Comer(c, p, horse, s, K) /\ c \in Colour
  BY <1>1, HeldComes DEF Ready
<1>4. ASSUME NEW t \in abb_king_attacks[K]
      PROVE  Bears(c, Emptied(p.board, s), Becoming(horse, FALSE), t, K, HorseReach[t])
  <2>1. Bears(c, Emptied(p.board, s), horse, t, K, HorseReach[t])
    BY <1>1, <1>3, HorsesBear
  <2> QED BY <2>1, Becomings
<1> QED BY <1>2, <1>3, <1>4, ComingMates

LEMMA BishopsMate ==
  ASSUME NEW c, NEW p, Ready(c, p), NEW m \in mate_by_bishop(c, p)
  PROVE  LegalMate(c, p, m)
<1>1. PICK K : K = p.sq_king[Flip(c)] /\ K = Target(c, p) /\ K \in Square
  BY HeldComes
<1>2. PICK near, saltire : near = abb_king_attacks[K] /\ saltire = BothSilver(K)
  OBVIOUS
<1>3. PICK s \in p.bb[c][bishop] :
        \/ m \in Coming(c, p, s, Promoting(c, s, near), TRUE, HorseReach)
        \/ m \in Coming(c, p, s, Plainly(c, s, saltire), FALSE, [t \in Square |-> Saltire(t)])
  BY <1>1, <1>2 DEF mate_by_bishop
<1>4. Comer(c, p, bishop, s, K) /\ c \in Colour
  BY <1>1, HeldComes DEF Ready
<1>5. CASE m \in Coming(c, p, s, Promoting(c, s, near), TRUE, HorseReach)
  <2>1. ASSUME NEW t \in Promoting(c, s, near)
        PROVE  Bears(c, Emptied(p.board, s), Becoming(bishop, TRUE), t, K, HorseReach[t])
    <3>1. t \in abb_king_attacks[K]
      BY <1>2, PromotingSplits
    <3>2. Bears(c, Emptied(p.board, s), horse, t, K, HorseReach[t])
      BY <1>1, <1>4, <3>1, HorsesBear
    <3> QED BY <3>2, Becomings
  <2>2. bishop \in Promotable /\ (s \in Zone(c) \/ Promoting(c, s, near) \subseteq Zone(c))
    BY Becomings, PromotingSplits
  <2> QED BY <1>4, <1>5, <2>1, <2>2, ComingMates
<1>6. CASE m \in Coming(c, p, s, Plainly(c, s, saltire), FALSE, [t \in Square |-> Saltire(t)])
  <2>1. PICK reach : reach = [t \in Square |-> Saltire(t)]
    OBVIOUS
  <2>2. ASSUME NEW t \in Plainly(c, s, saltire)
        PROVE  Bears(c, Emptied(p.board, s), Becoming(bishop, FALSE), t, K, reach[t])
    <3>1. t \in BothSilver(K)
      BY <1>2, PromotingSplits
    <3>2. t \in Square
      BY <1>1, <3>1, BothAreNear, Neighbours
    <3>3. Bears(c, Emptied(p.board, s), bishop, t, K, reach[t])
      BY <1>1, <1>4, <2>1, <3>1, <3>2, BishopsBear
    <3> QED BY <3>3, Becomings
  <2> QED BY <1>4, <1>6, <2>1, <2>2, ComingMates
<1> QED BY <1>3, <1>5, <1>6

(* What comes as a gold.                                                   *)
LEMMA ComingAsGold ==
  ASSUME NEW c, NEW p, NEW k, NEW s, NEW K, Comer(c, p, k, s, K), NEW f \in BOOLEAN,
         f => k \in Promotable, Becoming(k, f) \in Golds,
         NEW T, T \subseteq Gold(Flip(c), K), f => s \in Zone(c) \/ T \subseteq Zone(c),
         NEW m \in Coming(c, p, s, T, f, abb_gold_attacks[c])
  PROVE  LegalMate(c, p, m)
<1>1. c \in Colour /\ K \in Square
  BY ComerIs
<1>2. PICK reach : reach = abb_gold_attacks[c]
  OBVIOUS
<1>3. ASSUME NEW t \in T PROVE Bears(c, Emptied(p.board, s), Becoming(k, f), t, K, reach[t])
  <2>1. t \in Gold(Flip(c), K)
    OBVIOUS
  <2>2. reach[t] = abb_gold_attacks[c][t]
    BY <1>2
  <2> QED BY <1>1, <2>1, <2>2, GoldsBear
<1> QED BY <1>2, <1>3, ComingMates

LEMMA GoldsMate ==
  ASSUME NEW c, NEW p, Ready(c, p), NEW m \in mate_by_gold(c, p)
  PROVE  LegalMate(c, p, m)
<1>1. PICK K : K = p.sq_king[Flip(c)] /\ K = Target(c, p) /\ K \in Square
  BY HeldComes
<1>2. PICK s \in p.union[c].tgold : m \in Coming(c, p, s, GoldChecks(c, p), FALSE, abb_gold_attacks[c])
  BY <1>1 DEF mate_by_gold
<1>3. PICK k \in Golds : Comer(c, p, k, s, K)
  BY <1>1, HeldComes
<1>4. Becoming(k, FALSE) \in Golds
  BY Becomings
<1>5. PICK T : T = GoldChecks(c, p) /\ T \subseteq Gold(Flip(c), K)
  BY <1>1, HeldComes
<1> QED BY <1>2, <1>3, <1>4, <1>5, ComingAsGold

LEMMA SilversMate ==
  ASSUME NEW c, NEW p, Ready(c, p), NEW m \in mate_by_silver(c, p)
  PROVE  LegalMate(c, p, m)
<1>1. PICK K : K = p.sq_king[Flip(c)] /\ K = Target(c, p) /\ K \in Square
  BY HeldComes
<1>2. PICK s \in p.bb[c][silver] :
        \/ m \in Coming(c, p, s, Promoting(c, s, GoldChecks(c, p)), TRUE, abb_gold_attacks[c])
        \/ m \in Coming(c, p, s, Silver(Flip(c), K) \ Promoting(c, s, GoldChecks(c, p)), FALSE, abb_silver_attacks[c])
  BY <1>1 DEF mate_by_silver
<1>3. Comer(c, p, silver, s, K) /\ c \in Colour
  BY <1>1, HeldComes DEF Ready
<1>4. CASE m \in Coming(c, p, s, Promoting(c, s, GoldChecks(c, p)), TRUE, abb_gold_attacks[c])
  <2>1. PICK T : T = Promoting(c, s, GoldChecks(c, p))
    OBVIOUS
  <2>2. T \subseteq Gold(Flip(c), K) /\ (s \in Zone(c) \/ T \subseteq Zone(c))
    BY <1>1, <2>1, HeldComes, PromotingSplits
  <2>3. silver \in Promotable /\ Becoming(silver, TRUE) \in Golds
    BY Becomings
  <2> QED BY <1>3, <1>4, <2>1, <2>2, <2>3, ComingAsGold
<1>5. CASE m \in Coming(c, p, s, Silver(Flip(c), K) \ Promoting(c, s, GoldChecks(c, p)), FALSE, abb_silver_attacks[c])
  <2>1. PICK reach : reach = abb_silver_attacks[c]
    OBVIOUS
  <2>2. PICK T : T = Silver(Flip(c), K) \ Promoting(c, s, GoldChecks(c, p))
    OBVIOUS
  <2>3. ASSUME NEW t \in T PROVE Bears(c, Emptied(p.board, s), Becoming(silver, FALSE), t, K, reach[t])
    <3>1. t \in Silver(Flip(c), K) /\ reach[t] = abb_silver_attacks[c][t]
      BY <2>1, <2>2
    <3>2. Bears(c, Emptied(p.board, s), silver, t, K, reach[t])
      BY <1>1, <1>3, <3>1, SilversBear
    <3> QED BY <3>2, Becomings
  <2> QED BY <1>3, <1>5, <2>1, <2>2, <2>3, ComingMates
<1> QED BY <1>2, <1>4, <1>5

LEMMA KnightsMate ==
  ASSUME NEW c, NEW p, Ready(c, p), NEW m \in mate_by_knight(c, p)
  PROVE  LegalMate(c, p, m)
<1>1. PICK K : K = p.sq_king[Flip(c)] /\ K = Target(c, p) /\ K \in Square
  BY HeldComes
<1>2. PICK T : T = GoldChecks(c, p) \cap Zone(c) \cap Movable(c, p)
  OBVIOUS
<1>3. PICK s \in p.bb[c][knight] : m \in Coming(c, p, s, T, TRUE, abb_gold_attacks[c]) \/ m \in Plain(c, p, s)
  BY <1>1, <1>2 DEF mate_by_knight
<1>4. Comer(c, p, knight, s, K) /\ c \in Colour
  BY <1>1, HeldComes DEF Ready
<1>5. CASE m \in Coming(c, p, s, T, TRUE, abb_gold_attacks[c])
  <2>1. T \subseteq Gold(Flip(c), K) /\ T \subseteq Zone(c)
    BY <1>1, <1>2, HeldComes
  <2>2. knight \in Promotable /\ Becoming(knight, TRUE) \in Golds
    BY Becomings
  <2> QED BY <1>4, <1>5, <2>1, <2>2, ComingAsGold
<1>6. CASE m \in Plain(c, p, s)
  <2>1. PICK r : r = Lifted(c, p, s)
    OBVIOUS
  <2>2. PICK t : /\ t \in Knight(c, s) /\ t \in Knight(Flip(c), K) /\ t \in Movable(c, p)
                 /\ MoveMates(c, r, s, t, {}) /\ m = Board(p, knight, FALSE, s, t)
    BY <1>1, <1>6, <2>1 DEF Plain
  <2>3. Bears(c, Emptied(p.board, s), Becoming(knight, FALSE), t, K, {}) /\ t \notin abb_king_attacks[K]
    <3>1. Bears(c, Emptied(p.board, s), knight, t, K, {}) /\ t \notin abb_king_attacks[K]
      BY <1>1, <1>4, <2>2, KnightsBear
    <3> QED BY <3>1, Becomings
  <2>4. t \in Reach(c, p, knight, s)
    BY <2>2, ReachOfKinds
  <2>5. PICK R : R = {}
    OBVIOUS
  <2>6. Bears(c, Emptied(p.board, s), Becoming(knight, FALSE), t, K, R) /\ MoveMates(c, r, s, t, R)
    BY <2>2, <2>3, <2>5
  <2> QED BY <1>4, <2>1, <2>2, <2>3, <2>4, <2>6, ArrivalMates
<1> QED BY <1>3, <1>5, <1>6

LEMMA LancesMate ==
  ASSUME NEW c, NEW p, Ready(c, p), NEW m \in mate_by_lance(c, p)
  PROVE  LegalMate(c, p, m)
<1>1. PICK K : K = p.sq_king[Flip(c)] /\ K = Target(c, p) /\ K \in Square
  BY HeldComes
<1>2. PICK front, T : /\ front = {K - Ahead(c)} \cap {t \in Square : Row(c, t) >= 2}
                      /\ T = GoldChecks(c, p) \cap Zone(c)
  OBVIOUS
<1>3. PICK s \in p.bb[c][lance] : \/ m \in Coming(c, p, s, front, FALSE, Line[direc_file])
                                  \/ m \in Coming(c, p, s, T, TRUE, abb_gold_attacks[c])
  BY <1>1, <1>2 DEF mate_by_lance
<1>4. Comer(c, p, lance, s, K) /\ c \in Colour
  BY <1>1, HeldComes DEF Ready
<1>5. CASE m \in Coming(c, p, s, T, TRUE, abb_gold_attacks[c])
  <2>1. T \subseteq Gold(Flip(c), K) /\ T \subseteq Zone(c)
    BY <1>1, <1>2, HeldComes
  <2>2. lance \in Promotable /\ Becoming(lance, TRUE) \in Golds
    BY Becomings
  <2> QED BY <1>4, <1>5, <2>1, <2>2, ComingAsGold
<1>6. CASE m \in Coming(c, p, s, front, FALSE, Line[direc_file])
  <2>1. PICK reach : reach = Line[direc_file]
    OBVIOUS
  <2>2. ASSUME NEW t \in front PROVE Bears(c, Emptied(p.board, s), Becoming(lance, FALSE), t, K, reach[t])
    <3>1. t \in Square /\ t = K - Ahead(c)
      BY <1>2
    <3>2. K = t + Ahead(c)
      BY <1>1, <3>1 DEF Ahead, Square
    <3>3. reach[t] = Line[direc_file][t]
      BY <2>1
    <3>4. Bears(c, Emptied(p.board, s), lance, t, K, reach[t])
      BY <1>1, <1>4, <3>1, <3>2, <3>3, LancesBear
    <3> QED BY <3>4, Becomings
  <2> QED BY <1>4, <1>6, <2>1, <2>2, ComingMates
<1> QED BY <1>3, <1>5, <1>6
(* Pawns: promoted, or pushed to the square before the king.               *)
LEMMA PawnArrivalMates ==
  ASSUME NEW c, NEW p, Ready(c, p), NEW K, K = p.sq_king[Flip(c)], NEW s \in Square, p.board[s] = Signed(c, pawn),
         NEW t \in Square, t = s + Ahead(c), t \in Movable(c, p), NEW f \in BOOLEAN, f => t \in Zone(c),
         NEW R, Bears(c, Emptied(p.board, s), Becoming(pawn, f), t, K, R),
         NEW r, r = Lifted(c, p, s), is_attacked_by(c, r, t), MoveMates(c, r, s, t, R),
         NEW m, m = Board(p, pawn, f, s, t)
  PROVE  LegalMate(c, p, m)
<1>1. IsPosition(p) /\ Copies(p) /\ c \in Colour /\ K \in Square
  BY HeldComes DEF Ready
<1>2. PICK j : j = Becoming(pawn, f)
  OBVIOUS
<1>3. Aims(c, j, t, K) /\ abb_obstacle[t][K] = {} /\ Covers(c, Emptied(p.board, s), j, t, K, R)
  BY <1>2 DEF Bears
<1>4. Hits(p.board, c, s, t) /\ ~Mine(c, p.board[t])
  BY <1>1, PawnsHit, MovableIs
<1>5. StepOf(c, p, pawn, s, t)
  BY <1>4 DEF StepOf
<1>6. pawn \in Kinds \ {king} /\ pawn \in Kinds /\ pawn \in Promotable
  BY DEF Kinds, pawn, king, Promotable
<1>7. ~f => ~Stuck(c, pawn, t)
  <2>1. ASSUME ~f PROVE ~Stuck(c, pawn, t)
    <3>1. Bears(c, Emptied(p.board, s), pawn, t, K, R)
      <4>1. Becoming(pawn, f) = pawn
        BY <2>1 DEF Becoming
      <4> QED BY <4>1
    <3> QED BY <1>1, <1>6, <3>1, BearingIsNotStuck
  <2> QED BY <2>1
<1>8. ByRules(c, p, pawn, s, t, f)
  BY <1>5, <1>6, <1>7, StepsByRules
<1> QED BY <1>2, <1>3, <1>6, <1>8, StepMates

LEMMA PawnsMate ==
  ASSUME NEW c, NEW p, Ready(c, p), NEW m \in mate_by_pawn(c, p)
  PROVE  LegalMate(c, p, m)
<1>1. PICK K : K = p.sq_king[Flip(c)] /\ K = Target(c, p) /\ K \in Square /\ GoldChecks(c, p) = Gold(Flip(c), K)
  BY HeldComes
<1>2. IsPosition(p) /\ Copies(p) /\ c \in Colour
  BY DEF Ready
<1>3. PICK T : T = GoldChecks(c, p) \cap Zone(c) \cap Movable(c, p) \cap p.pawn_atk[c]
  OBVIOUS
<1>4. PICK s :
        /\ m = Step(c, p, s)
        /\ \/ /\ s \in {t - Ahead(c) : t \in T}
              /\ PromotionMates(c, Lifted(c, p, s), s, s + Ahead(c))
           \/ /\ s \in Square /\ Row(c, K) \in 2..6 /\ s = K - 2 * Ahead(c) /\ p.board[s] = Signed(c, pawn)
              /\ s + Ahead(c) \in Movable(c, p)
              /\ PushMates(c, Lifted(c, p, s), s, s + Ahead(c))
  BY <1>1, <1>3 DEF mate_by_pawn
<1>5. PICK r : r = Lifted(c, p, s)
  OBVIOUS
<1>6. CASE s \in {t - Ahead(c) : t \in T} /\ PromotionMates(c, r, s, s + Ahead(c))
  <2>1. PICK t \in T : s = t - Ahead(c)
    BY <1>6
  <2>2. t \in Gold(Flip(c), K) /\ t \in Zone(c) /\ t \in Movable(c, p) /\ t \in p.pawn_atk[c]
    BY <1>1, <1>3, <2>1
  <2>3. s \in Square /\ t = s + Ahead(c) /\ p.board[s] = Signed(c, pawn)
    BY <1>2, <2>1, <2>2, PieceOf
  <2>4. t \in Square
    BY <2>2 DEF Zone
  <2>5. m = Board(p, pawn, TRUE, s, t)
    <3>1. Row(c, t) = Row(c, s) - 1 /\ Row(c, s) \in 0..8 /\ Row(c, t) <= 2
      BY <1>2, <2>2, <2>3, <2>4, PawnsGoAhead DEF Zone
    <3>2. (Row(c, s) <= 3) = TRUE
      BY <3>1
    <3> QED BY <1>4, <2>3, <3>2 DEF Step
  <2>6. PICK R : R = abb_gold_attacks[c][t]
    OBVIOUS
  <2>7. is_attacked_by(c, r, t) /\ MoveMates(c, r, s, t, R)
    BY <1>6, <2>3, <2>6 DEF PromotionMates, MatingSquares
  <2>8. Bears(c, Emptied(p.board, s), Becoming(pawn, TRUE), t, K, R)
    <3>1. Becoming(pawn, TRUE) \in Golds
      BY Becomings
    <3> QED BY <1>1, <1>2, <2>2, <2>6, <3>1, GoldsBear
  <2> QED BY <1>1, <1>5, <2>2, <2>3, <2>4, <2>5, <2>7, <2>8, PawnArrivalMates
<1>7. CASE /\ s \in Square /\ Row(c, K) \in 2..6 /\ s = K - 2 * Ahead(c) /\ p.board[s] = Signed(c, pawn)
           /\ s + Ahead(c) \in Movable(c, p)
           /\ PushMates(c, r, s, s + Ahead(c))
  <2>1. PICK t : t = s + Ahead(c)
    OBVIOUS
  <2>2. t \in Movable(c, p) /\ t \in Square
    BY <1>7, <2>1 DEF Movable
  <2>3. K = t + Ahead(c)
    <3>1. Ahead(c) \in Int
      BY DEF Ahead
    <3>2. K \in Int
      BY <1>1 DEF Square
    <3> QED BY <1>7, <2>1, <3>1, <3>2
  <2>4. m = Board(p, pawn, FALSE, s, t)
    <3>1. Row(c, t) = Row(c, s) - 1 /\ Row(c, s) \in 0..8
      BY <1>2, <1>7, <2>1, <2>2, PawnsGoAhead
    <3>2. Row(c, K) = Row(c, t) - 1
      BY <1>1, <1>2, <2>2, <2>3, PawnsGoAhead
    <3>3. (Row(c, s) <= 3) = FALSE
      BY <1>7, <3>1, <3>2
    <3> QED BY <1>4, <2>1, <3>3 DEF Step
  <2>5. Bears(c, Emptied(p.board, s), Becoming(pawn, FALSE), t, K, {})
    <3>1. Bears(c, Emptied(p.board, s), pawn, t, K, {})
      BY <1>1, <1>2, <2>2, <2>3, PawnsBear
    <3> QED BY <3>1, Becomings
  <2>6. is_attacked_by(c, r, t) /\ MoveMates(c, r, s, t, {})
    BY <1>7, <2>1 DEF PushMates, DropMates, MoveMates
  <2>7. PICK R : R = {}
    OBVIOUS
  <2>8. Bears(c, Emptied(p.board, s), Becoming(pawn, FALSE), t, K, R) /\ MoveMates(c, r, s, t, R)
    BY <2>5, <2>6, <2>7
  <2> QED BY <1>1, <1>5, <1>7, <2>1, <2>2, <2>4, <2>6, <2>8, PawnArrivalMates
<1> QED BY <1>4, <1>5, <1>6, <1>7

(* Drops.                                                                  *)
LEMMA DropsMate ==
  ASSUME NEW c, NEW p, Ready(c, p), NEW m \in mate_by_drop(c, p)
  PROVE  LegalMate(c, p, m)
<1>1. PICK K : K = p.sq_king[Flip(c)] /\ K = Target(c, p) /\ K \in Square /\ GoldChecks(c, p) = Gold(Flip(c), K)
  BY HeldComes
<1>2. IsPosition(p) /\ Copies(p) /\ c \in Colour
  BY DEF Ready
<1>3. PICK crosses, saltires : crosses = [t \in Square |-> Cross(t)] /\ saltires = [t \in Square |-> Saltire(t)]
  OBVIOUS
<1>4. \/ m \in Contact(c, p, rook, BothGold(K), crosses)
      \/ \E S \in SUBSET {K - Ahead(c)} : m \in Contact(c, p, lance, S, Line[direc_file])
      \/ m \in Contact(c, p, bishop, BothSilver(K), saltires)
      \/ \E S \in SUBSET GoldChecks(c, p) : m \in Contact(c, p, gold, S, abb_gold_attacks[c])
      \/ \E S \in SUBSET Silver(Flip(c), K) : m \in Contact(c, p, silver, S, abb_silver_attacks[c])
      \/ /\ p.hand[c][knight] > 0
         /\ \E t \in Knight(Flip(c), K) \cap Empty(p) : DropMates(c, p, t, {}) /\ m = DropMove(knight, t)
  <2>1. PICK front : front = (IF Row(c, K) <= 7 THEN {K - Ahead(c)} ELSE {}) /\ front \in SUBSET {K - Ahead(c)}
    OBVIOUS
  <2>2. PICK back : back = Gold(c, K) \cap Silver(c, K)
    OBVIOUS
  <2>3. PICK golds : /\ golds = GoldChecks(c, p) \ (IF p.hand[c][rook] > 0 THEN back ELSE {})
                     /\ golds \in SUBSET GoldChecks(c, p)
    OBVIOUS
  <2>4. PICK silvers :
          /\ silvers = (IF p.hand[c][gold] > 0 THEN Silver(Flip(c), K) \ GoldChecks(c, p) ELSE Silver(Flip(c), K))
                         \cap (IF p.hand[c][bishop] > 0 THEN GoldChecks(c, p) ELSE Square)
          /\ silvers \in SUBSET Silver(Flip(c), K)
    OBVIOUS
  <2>5. PICK knights : knights = {t \in Knight(Flip(c), K) \cap Empty(p) : DropMates(c, p, t, {})}
    OBVIOUS
  <2>6. m \in Contact(c, p, rook, BothGold(K), crosses)
               \cup (IF p.hand[c][rook] > 0 THEN {} ELSE Contact(c, p, lance, front, Line[direc_file]))
               \cup Contact(c, p, bishop, BothSilver(K), saltires)
               \cup Contact(c, p, gold, golds, abb_gold_attacks[c])
               \cup Contact(c, p, silver, silvers, abb_silver_attacks[c])
               \cup IF p.hand[c][knight] > 0 THEN {DropMove(knight, t) : t \in knights} ELSE {}
    BY <1>1, <1>3, <2>1, <2>2, <2>3, <2>4, <2>5 DEF mate_by_drop
  <2> QED BY <2>1, <2>3, <2>4, <2>5, <2>6
<1>5. {lance, silver, gold, rook, bishop, knight} \subseteq Hands \ {pawn}
  BY Becomings
<1>6. CASE m \in Contact(c, p, rook, BothGold(K), crosses)
  <2>1. ASSUME NEW t \in BothGold(K) \cap Square PROVE Bears(c, p.board, rook, t, K, crosses[t])
    BY <1>1, <1>2, <1>3, RooksBear
  <2> QED BY <1>1, <1>5, <1>6, <2>1, ContactDropsMate
<1>7. CASE m \in Contact(c, p, bishop, BothSilver(K), saltires)
  <2>1. ASSUME NEW t \in BothSilver(K) \cap Square PROVE Bears(c, p.board, bishop, t, K, saltires[t])
    BY <1>1, <1>2, <1>3, BishopsBear
  <2> QED BY <1>1, <1>5, <1>7, <2>1, ContactDropsMate
<1>8. CASE \E S \in SUBSET {K - Ahead(c)} : m \in Contact(c, p, lance, S, Line[direc_file])
  <2>1. PICK S \in SUBSET {K - Ahead(c)} : m \in Contact(c, p, lance, S, Line[direc_file])
    BY <1>8
  <2>2. PICK reach : reach = Line[direc_file]
    OBVIOUS
  <2>3. ASSUME NEW t \in S \cap Square PROVE Bears(c, p.board, lance, t, K, reach[t])
    <3>1. K = t + Ahead(c)
      BY <1>1, <2>1 DEF Ahead, Square
    <3>2. reach[t] = Line[direc_file][t]
      BY <2>2
    <3> QED BY <1>1, <1>2, <3>1, <3>2, LancesBear
  <2> QED BY <1>1, <1>5, <2>1, <2>2, <2>3, ContactDropsMate
<1>9. CASE \E S \in SUBSET GoldChecks(c, p) : m \in Contact(c, p, gold, S, abb_gold_attacks[c])
  <2>1. PICK S \in SUBSET GoldChecks(c, p) : m \in Contact(c, p, gold, S, abb_gold_attacks[c])
    BY <1>9
  <2>2. PICK reach : reach = abb_gold_attacks[c]
    OBVIOUS
  <2>3. ASSUME NEW t \in S \cap Square PROVE Bears(c, p.board, gold, t, K, reach[t])
    <3>1. t \in Gold(Flip(c), K) /\ gold \in Golds
      BY <1>1, <2>1 DEF Golds
    <3>2. reach[t] = abb_gold_attacks[c][t]
      BY <2>2
    <3> QED BY <1>1, <1>2, <3>1, <3>2, GoldsBear
  <2> QED BY <1>1, <1>5, <2>1, <2>2, <2>3, ContactDropsMate
<1>10. CASE \E S \in SUBSET Silver(Flip(c), K) : m \in Contact(c, p, silver, S, abb_silver_attacks[c])
  <2>1. PICK S \in SUBSET Silver(Flip(c), K) : m \in Contact(c, p, silver, S, abb_silver_attacks[c])
    BY <1>10
  <2>2. PICK reach : reach = abb_silver_attacks[c]
    OBVIOUS
  <2>3. ASSUME NEW t \in S \cap Square PROVE Bears(c, p.board, silver, t, K, reach[t])
    <3>1. t \in Silver(Flip(c), K)
      BY <2>1
    <3>2. reach[t] = abb_silver_attacks[c][t]
      BY <2>2
    <3> QED BY <1>1, <1>2, <3>1, <3>2, SilversBear
  <2> QED BY <1>1, <1>5, <2>1, <2>2, <2>3, ContactDropsMate
<1>11. CASE /\ p.hand[c][knight] > 0
            /\ \E t \in Knight(Flip(c), K) \cap Empty(p) : DropMates(c, p, t, {}) /\ m = DropMove(knight, t)
  <2>1. PICK t \in Knight(Flip(c), K) \cap Empty(p) : DropMates(c, p, t, {}) /\ m = DropMove(knight, t)
    BY <1>11
  <2>2. t \in Square /\ p.board[t] = empty
    BY <1>2, <2>1, EmptyIs
  <2>3. PICK R : R = {}
    OBVIOUS
  <2>4. Bears(c, p.board, knight, t, K, R) /\ t \notin abb_king_attacks[K]
    BY <1>1, <1>2, <2>1, <2>3, KnightsBear
  <2>5. Aims(c, knight, t, K) /\ abb_obstacle[t][K] = {} /\ Covers(c, p.board, knight, t, K, R)
    BY <2>4 DEF Bears
  <2>6. ~Stuck(c, knight, t)
    <3>1. knight \in Kinds
      BY Becomings
    <3> QED BY <1>1, <1>2, <2>4, <3>1, BearingIsNotStuck
  <2>7. knight # pawn /\ knight \in Hands
    BY <1>5
  <2>8. DropByRules(c, p, knight, t)
    BY <1>11, <2>2, <2>6, <2>7 DEF DropByRules
  <2>9. DropMates(c, p, t, R)
    BY <2>1, <2>3
  <2> QED BY <1>1, <1>5, <2>1, <2>2, <2>4, <2>5, <2>8, <2>9, DropMatesToo
<1> QED BY <1>4, <1>6, <1>7, <1>8, <1>9, <1>10, <1>11

(* Whatever it returns mates.                                              *)
LEMMA OneMoveMates ==
  ASSUME NEW c, NEW p, Ready(c, p), NEW m \in IsMateIn1Ply(c, p)
  PROVE  LegalMate(c, p, m)
<1>1. \/ m \in mate_by_drop(c, p) \/ m \in mate_by_dragon(c, p) \/ m \in mate_by_rook(c, p)
      \/ m \in mate_by_horse(c, p) \/ m \in mate_by_bishop(c, p) \/ m \in mate_by_gold(c, p)
      \/ m \in mate_by_silver(c, p) \/ m \in mate_by_knight(c, p) \/ m \in mate_by_lance(c, p)
      \/ m \in mate_by_pawn(c, p)
  <2>1. CASE c = white
    <3>1. m \in UNION {w_mate_by_drop(p), w_mate_by_dragon(p), w_mate_by_rook(p), w_mate_by_horse(p),
                       w_mate_by_bishop(p), w_mate_by_gold(p), w_mate_by_silver(p),
                       w_mate_by_knight(p), w_mate_by_lance(p), w_mate_by_pawn(p)}
      BY <2>1 DEF IsMateIn1Ply
    <3>2. /\ w_mate_by_drop(p) = mate_by_drop(c, p) /\ w_mate_by_dragon(p) = mate_by_dragon(c, p)
          /\ w_mate_by_rook(p) = mate_by_rook(c, p) /\ w_mate_by_horse(p) = mate_by_horse(c, p)
          /\ w_mate_by_bishop(p) = mate_by_bishop(c, p)
      BY <2>1 DEF w_mate_by_drop, w_mate_by_dragon, w_mate_by_rook, w_mate_by_horse, w_mate_by_bishop
    <3>3. /\ w_mate_by_gold(p) = mate_by_gold(c, p) /\ w_mate_by_silver(p) = mate_by_silver(c, p)
          /\ w_mate_by_knight(p) = mate_by_knight(c, p) /\ w_mate_by_lance(p) = mate_by_lance(c, p)
          /\ w_mate_by_pawn(p) = mate_by_pawn(c, p)
      BY <2>1 DEF w_mate_by_gold, w_mate_by_silver, w_mate_by_knight, w_mate_by_lance, w_mate_by_pawn
    <3> QED BY <3>1, <3>2, <3>3
  <2>2. CASE c # white
    <3>1. c = black
      BY <2>2 DEF Ready, Colour
    <3>2. m \in is_mate_in_1ply(c, p)
      BY <2>2, <3>1 DEF IsMateIn1Ply
    <3> QED BY <3>2 DEF is_mate_in_1ply
  <2> QED BY <2>1, <2>2
<1> QED BY <1>1, DropsMate, DragonsMate, RooksMate, HorsesMate, BishopsMate, GoldsMate, SilversMate,
           KnightsMate, LancesMate, PawnsMate

(* A mate in one that is_b_mate_in_1ply and is_w_mate_in_1ply (mate1ply.c) *)
(* announce may be played and mates, in every position that the search     *)
(* goes on from and whose side to move is not in check: search and         *)
(* search_quies return it as mate without looking at an answer.            *)
THEOREM EveryMateAnnouncedIsOne ==
  Spec => [](Sound /\ ~InCheck(turn, pos) =>
               \A m \in IsMateIn1Ply(turn, pos) : m \in LegalMoves /\ GivesMate(board, hand, turn, m))
<1>1. ASSUME WalkInv, Sound, ~InCheck(turn, pos), NEW m \in IsMateIn1Ply(turn, pos)
      PROVE  m \in LegalMoves /\ GivesMate(board, hand, turn, m)
  <2>1. IsPosition(pos) /\ Copies(pos) /\ Alive(pos) /\ turn \in Colour /\ ~InCheck(Flip(turn), pos)
    BY <1>1 DEF WalkInv, Walk, Reached, Sound, Sane
  <2>2. KingIsSafe(turn, pos)
    BY <2>1, Flips DEF KingIsSafe, InCheck
  <2>3. Ready(turn, pos)
    BY <1>1, <2>1, <2>2 DEF Ready
  <2>4. LegalMate(turn, pos, m)
    BY <1>1, <2>3, OneMoveMates
  <2>5. pos.board = board /\ pos.hand = hand
    BY DEF board, hand
  <2> QED BY <2>4, <2>5 DEF LegalMate, LegalMoves
<1>2. WalkInv => (Sound /\ ~InCheck(turn, pos) =>
                    \A m \in IsMateIn1Ply(turn, pos) : m \in LegalMoves /\ GivesMate(board, hand, turn, m))
  BY <1>1
<1> QED BY <1>2, EveryWalk, PTL

(* At the start of a walk, as the runs check it.                           *)
THEOREM MatingMovesAreMates == Spec => []MatingMovesMate
<1>1. (Sound /\ ~InCheck(turn, pos) =>
         \A m \in IsMateIn1Ply(turn, pos) : m \in LegalMoves /\ GivesMate(board, hand, turn, m))
      => MatingMovesMate
  BY DEF MatingMovesMate, Quiet, AtStart
<1> QED BY <1>1, EveryMateAnnouncedIsOne, PTL
=============================================================================
