---------------------------- MODULE LegalProofs ----------------------------
(***************************************************************************)
(* The engine's moves are the legal moves of ShogiRules.  What is left to  *)
(* prove after RulesProofs is that attack.c tells a pawn drop that mates,  *)
(* without making it, from pins, discovered checks and the squares around  *)
(* the king; and that genevasn.c answers a check with the legal moves.  A  *)
(* piece hits a square if it aims at it and nothing stands between: what   *)
(* a move opens or shuts is a matter of the squares between.               *)
(***************************************************************************)
EXTENDS RulesProofs

(***************************************************************************)
(* The squares between two squares.                                        *)
(***************************************************************************)

(* The squares between two squares lie on their line and, in the order of  *)
(* squares, between them.                                                  *)
LEMMA BetweenIs ==
  ASSUME NEW s \in Square, NEW t \in Square, NEW u \in Square
  PROVE  u \in abb_obstacle[s][t] <=>
           /\ (s < u /\ u < t) \/ (t < u /\ u < s)
           /\ \E e \in 2..5 : Joined(e, s, u) /\ Joined(e, u, t)
<1>1. u \in abb_obstacle[s][t] <=>
        u # s /\ u # t /\ (u > s <=> u < t) /\ \E e \in 2..5 : Joined(e, s, t) /\ Joined(e, s, u)
  BY DEF abb_obstacle
<1>2. \A e \in 2..5 : (Joined(e, s, t) /\ Joined(e, s, u)) <=> (Joined(e, s, u) /\ Joined(e, u, t))
  BY DEF Joined
<1>3. (u # s /\ u # t /\ (u > s <=> u < t)) <=> (s < u /\ u < t) \/ (t < u /\ u < s)
  BY DEF Square
<1> QED BY <1>1, <1>2, <1>3

(* Between is between from either end.                                     *)
LEMMA EitherEnd ==
  ASSUME NEW s \in Square, NEW t \in Square
  PROVE  abb_obstacle[s][t] = abb_obstacle[t][s] /\ abb_obstacle[s][t] \subseteq Square
<1>1. \A e : \A x, y : Joined(e, x, y) <=> Joined(e, y, x)
  BY DEF Joined
<1>2. \A u \in abb_obstacle[s][t] \cup abb_obstacle[t][s] : u \in Square
  BY BetweenIsSquares
<1>3. \A u \in Square : u \in abb_obstacle[s][t] <=> u \in abb_obstacle[t][s]
  BY <1>1, BetweenIs
<1> QED BY <1>2, <1>3

(* Of two squares behind one another one is between.                       *)
LEMMA NotBothBetween ==
  ASSUME NEW s \in Square, NEW t \in Square, NEW u \in Square, u \in abb_obstacle[s][t]
  PROVE  t # u /\ t \notin abb_obstacle[s][u]
<1>1. (s < u /\ u < t) \/ (t < u /\ u < s)
  BY BetweenIs
<1>2. t \in abb_obstacle[s][u] => (s < t /\ t < u) \/ (u < t /\ t < s)
  BY BetweenIs
<1> QED BY <1>1, <1>2 DEF Square

(* A square between two others parts what is between them.                 *)
LEMMA BetweenParted ==
  ASSUME NEW s \in Square, NEW t \in Square, NEW u \in abb_obstacle[s][t], NEW v \in Square
  PROVE  v \in abb_obstacle[s][t] <=> v \in abb_obstacle[s][u] \/ v = u \/ v \in abb_obstacle[u][t]
<1>1. u \in Square
  BY EitherEnd
<1>2. PICK e \in 2..5 : Joined(e, s, u) /\ Joined(e, u, t)
  BY <1>1, BetweenIs
<1>3. (s < u /\ u < t) \/ (t < u /\ u < s)
  BY <1>1, BetweenIs
<1>4. \A d : \A x, y, z : Joined(d, x, y) /\ Joined(d, y, z) => Joined(d, x, z)
  BY DEF Joined
<1>5. \A d : \A x, y : Joined(d, x, y) <=> Joined(d, y, x)
  BY DEF Joined
<1>6. s # u /\ s # t /\ u # t
  BY <1>1, <1>3 DEF Square
<1>7. Joined(e, s, t)
  BY <1>2, <1>4
<1>8. v \in abb_obstacle[s][t] <=> ((s < v /\ v < t) \/ (t < v /\ v < s)) /\ Joined(e, s, v)
  <2>1. ASSUME NEW d \in 2..5, Joined(d, s, v), Joined(d, v, t) PROVE Joined(e, s, v)
    <3>1. d = e
      BY <1>4, <1>6, <1>7, <2>1, OneLineOnly
    <3> QED BY <2>1, <3>1
  <2>2. Joined(e, s, v) => Joined(e, v, t)
    BY <1>4, <1>5, <1>7
  <2> QED BY <2>1, <2>2, BetweenIs
<1>9. v \in abb_obstacle[s][u] <=> ((s < v /\ v < u) \/ (u < v /\ v < s)) /\ Joined(e, s, v)
  <2>1. ASSUME NEW d \in 2..5, Joined(d, s, v), Joined(d, v, u) PROVE Joined(e, s, v)
    <3>1. d = e
      BY <1>1, <1>2, <1>4, <1>6, <2>1, OneLineOnly
    <3> QED BY <2>1, <3>1
  <2>2. Joined(e, s, v) => Joined(e, v, u)
    BY <1>2, <1>4, <1>5
  <2> QED BY <1>1, <2>1, <2>2, BetweenIs
<1>10. v \in abb_obstacle[u][t] <=> ((u < v /\ v < t) \/ (t < v /\ v < u)) /\ Joined(e, s, v)
  <2>1. ASSUME NEW d \in 2..5, Joined(d, u, v), Joined(d, v, t) PROVE Joined(e, s, v)
    <3>1. d = e
      BY <1>1, <1>2, <1>4, <1>6, <2>1, OneLineOnly
    <3> QED BY <1>2, <1>4, <2>1, <3>1
  <2>2. Joined(e, s, v) => Joined(e, u, v) /\ Joined(e, v, t)
    BY <1>2, <1>4, <1>5, <1>7
  <2> QED BY <1>1, <2>1, <2>2, BetweenIs
<1>11. v = u => Joined(e, s, v)
  BY <1>2
<1>12. (s < v /\ v < t) \/ (t < v /\ v < s) <=>
         \/ (s < v /\ v < u) \/ (u < v /\ v < s) \/ v = u
         \/ (u < v /\ v < t) \/ (t < v /\ v < u)
  <2> DEFINE S == s
  <2>1. s \in Int /\ t \in Int /\ u \in Int /\ v \in Int
    BY <1>1 DEF Square
  <2> QED BY <1>3, <2>1
<1> QED BY <1>8, <1>9, <1>10, <1>11, <1>12

(* Up to a square and no further: two squares with a square in common on   *)
(* the way to them from k lie one behind the other.                        *)
UpTo(k, y) == {y} \cup abb_obstacle[k][y]
LEMMA OnOneSide ==
  ASSUME NEW k \in Square, NEW y \in Square \ {k}, NEW z \in Square \ {k}, y # z,
         NEW u \in UpTo(k, y), u \in UpTo(k, z)
  PROVE  y \in abb_obstacle[k][z] \/ z \in abb_obstacle[k][y]
<1>1. u \in Square /\ u # k
  BY EitherEnd, BetweenIsSquares DEF UpTo
<1>2. \A d : \A v, w, x : Joined(d, v, w) /\ Joined(d, w, x) => Joined(d, v, x)
  BY DEF Joined
<1>3. \A d : \A v, w : Joined(d, v, w) <=> Joined(d, w, v)
  BY DEF Joined
<1>4. u = y \/ u \in abb_obstacle[k][y]
  BY DEF UpTo
<1>5. u = z \/ u \in abb_obstacle[k][z]
  BY DEF UpTo
<1>6. CASE u = y \/ u = z
  BY <1>4, <1>5, <1>6
<1>7. CASE u # y /\ u # z
  <2>1. PICK e \in 2..5 : Joined(e, k, u) /\ Joined(e, u, y)
    BY <1>1, <1>4, <1>7, BetweenIs
  <2>2. PICK d \in 2..5 : Joined(d, k, u) /\ Joined(d, u, z)
    BY <1>1, <1>5, <1>7, BetweenIs
  <2>3. d = e
    BY <1>1, <2>1, <2>2, OneLineOnly
  <2>4. Joined(e, k, y) /\ Joined(e, k, z) /\ Joined(e, y, z) /\ Joined(e, z, y)
    <3> HIDE DEF UpTo
    <3> QED BY <1>2, <1>3, <2>1, <2>2, <2>3
  <2>5. (k < u /\ u < y) \/ (y < u /\ u < k)
    BY <1>1, <1>4, <1>7, BetweenIs
  <2>6. (k < u /\ u < z) \/ (z < u /\ u < k)
    BY <1>1, <1>5, <1>7, BetweenIs
  <2>7. \/ (k < y /\ y < z) \/ (z < y /\ y < k)
        \/ (k < z /\ z < y) \/ (y < z /\ z < k)
    <3>1. k \in Int /\ u \in Int /\ y \in Int /\ z \in Int /\ y # z
      BY <1>1 DEF Square
    <3> QED BY <2>5, <2>6, <3>1
  <2> QED BY <2>4, <2>7, BetweenIs
<1> QED BY <1>6, <1>7

(***************************************************************************)
(* What a piece hits: what it aims at, with nothing between.               *)
(***************************************************************************)

(* A piece would hit a square if nothing were in its way.                  *)
Aims(c, k, s, t) ==
  \/ t \in set_attacks(s, Turned(c, StepDirections(k)))
  \/ \E d \in Turned(c, RunDirections(k)) : t \in Ray(s, d)
RunsAlong(c, k, s, t) ==
  /\ t \in Square /\ s # t
  /\ \/ k \in {rook, dragon} /\ (Joined(2, s, t) \/ Joined(3, s, t))
     \/ k \in {bishop, horse} /\ (Joined(4, s, t) \/ Joined(5, s, t))
     \/ k = lance /\ Joined(2, s, t) /\ t \in RaysAhead(c)[s]
Taken(b) == {s \in Square : b[s] # empty}

(* The two rays along a line lead to the squares it joins.                 *)
LEMMA RaysAlong ==
  ASSUME NEW s \in Square, NEW e \in 2..5, NEW t
  PROVE  (\E d \in StepsAlong(e) : t \in Ray(s, d)) <=> t \in Square /\ s # t /\ Joined(e, s, t)
<1>1. PICK p : p = [board |-> [x \in Square |-> empty]]
  OBVIOUS
<1>2. \A x \in Square : p.board[x] = empty
  BY <1>1
<1>3. Occupied(p) = {}
  BY <1>2 DEF Occupied
<1>4. ASSUME NEW d \in StepsAlong(e), t \in Ray(s, d) PROVE Clear(p.board, s, d, t)
  <2>1. d \in LineSteps
    BY DEF StepsAlong
  <2> QED BY <1>3, <1>4, <2>1, RaysJoin
<1>5. t \in Slide(e, s, Occupied(p)) <=> t \in Square /\ s # t /\ Joined(e, s, t)
  BY <1>3 DEF Slide, Line
<1> QED BY <1>4, <1>5, SlidingIsRunning

(* What the pieces that run aim at.                                        *)
LEMMA RunsAre ==
  ASSUME NEW c \in Colour, NEW k \in Kinds, NEW s \in Square, NEW t
  PROVE  (\E d \in Turned(c, RunDirections(k)) : t \in Ray(s, d)) <=> RunsAlong(c, k, s, t)
<1> DEFINE On(e) == t \in Square /\ s # t /\ Joined(e, s, t)
           Led(D) == \E d \in D : t \in Ray(s, d)
<1>1. /\ Led(FileSteps) <=> On(2)
      /\ Led(RankSteps) <=> On(3)
      /\ Led(Diag1Steps) <=> On(4)
      /\ Led(Diag2Steps) <=> On(5)
  <2>1. \A e \in 2..5 : Led(StepsAlong(e)) <=> On(e)
    BY RaysAlong
  <2>2. /\ FileSteps = StepsAlong(2) /\ RankSteps = StepsAlong(3)
        /\ Diag1Steps = StepsAlong(4) /\ Diag2Steps = StepsAlong(5)
    BY StepsOfLines DEF direc_file, direc_rank, direc_diag1, direc_diag2
  <2> HIDE DEF Led, On
  <2> QED BY <2>1, <2>2
<1>2. \A A, B : Led(A \cup B) <=> Led(A) \/ Led(B)
  OBVIOUS
<1>3. Led(Turned(c, RankSteps \cup FileSteps)) <=> On(2) \/ On(3)
  <2>1. Turned(c, RankSteps \cup FileSteps) = RankSteps \cup FileSteps
    BY LinesTurned, SetsTurned
  <2> HIDE DEF Led, On
  <2> QED BY <1>1, <1>2, <2>1
<1>4. Led(Turned(c, Diag1Steps \cup Diag2Steps)) <=> On(4) \/ On(5)
  <2>1. Turned(c, Diag1Steps \cup Diag2Steps) = Diag1Steps \cup Diag2Steps
    BY LinesTurned, SetsTurned
  <2> HIDE DEF Led, On
  <2> QED BY <1>1, <1>2, <2>1
<1>5. Led(Turned(c, {<<-1, 0>>})) <=> On(2) /\ t \in RaysAhead(c)[s]
  <2>1. PICK up, down : up = <<-1, 0>> /\ down = <<1, 0>>
    OBVIOUS
  <2>2. On(2) <=> t \in Ray(s, up) \/ t \in Ray(s, down)
    <3>1. FileSteps = {down, up}
      BY <2>1 DEF FileSteps
    <3> QED BY <1>1, <3>1
  <2>3. (t \in Ray(s, up) => t \in Square /\ t < s /\ Joined(2, s, t))
        /\ (t \in Ray(s, down) => t \in Square /\ t > s /\ Joined(2, s, t))
    BY <2>1, UpAndDown
  <2>4. abb_plus_rays[s] = {u \in s+1 .. 80 : \E d \in 2..5 : Joined(d, s, u)}
        /\ abb_minus_rays[s] = {u \in 0 .. s-1 : \E d \in 2..5 : Joined(d, s, u)}
    BY DEF abb_plus_rays, abb_minus_rays
  <2>5. On(2) => (t \in abb_minus_rays[s] <=> t < s) /\ (t \in abb_plus_rays[s] <=> t > s)
    BY <2>4 DEF Square
  <2>6. On(2) => (t \in Ray(s, up) <=> t < s) /\ (t \in Ray(s, down) <=> t > s)
    BY <2>2, <2>3 DEF Square
  <2>7. CASE c = black
    <3>1. Turned(c, {<<-1, 0>>}) = {up}
      BY <2>1, <2>7 DEF Turned
    <3>2. RaysAhead(c)[s] = abb_minus_rays[s]
      BY <2>7 DEF RaysAhead
    <3>3. Led({up}) <=> t \in Ray(s, up)
      OBVIOUS
    <3> QED BY <2>2, <2>5, <2>6, <3>1, <3>2, <3>3
  <2>8. CASE c = white
    <3>1. Turned(c, {<<-1, 0>>}) = {down}
      BY <2>1, <2>8, UpTurned DEF black, white
    <3>2. RaysAhead(c)[s] = abb_plus_rays[s]
      BY <2>8 DEF RaysAhead, black, white
    <3>3. Led({down}) <=> t \in Ray(s, down)
      OBVIOUS
    <3> QED BY <2>2, <2>5, <2>6, <3>1, <3>2, <3>3
  <2> QED BY <2>7, <2>8 DEF Colour
<1>6. ~Led(Turned(c, {}))
  BY DEF Turned
<1> SUFFICES Led(Turned(c, RunDirections(k))) <=> RunsAlong(c, k, s, t)
  OBVIOUS
<1> HIDE DEF Led
<1>7. CASE k \in {rook, dragon}
  <2>1. RunDirections(k) = RankSteps \cup FileSteps
    BY <1>7, DirectionsOfKinds
  <2>2. RunsAlong(c, k, s, t) <=> On(2) \/ On(3)
    BY <1>7 DEF RunsAlong, rook, dragon, bishop, horse, lance
  <2> QED BY <1>3, <2>1, <2>2
<1>8. CASE k \in {bishop, horse}
  <2>1. RunDirections(k) = Diag1Steps \cup Diag2Steps
    BY <1>8, DirectionsOfKinds
  <2>2. RunsAlong(c, k, s, t) <=> On(4) \/ On(5)
    BY <1>8 DEF RunsAlong, rook, dragon, bishop, horse, lance
  <2> QED BY <1>4, <2>1, <2>2
<1>9. CASE k = lance
  <2>1. RunDirections(k) = {<<-1, 0>>}
    BY <1>9, DirectionsOfKinds
  <2>2. RunsAlong(c, k, s, t) <=> On(2) /\ t \in RaysAhead(c)[s]
    BY <1>9 DEF RunsAlong, rook, dragon, bishop, horse, lance
  <2> QED BY <1>5, <2>1, <2>2
<1>10. CASE k \in {pawn, knight, silver, king} \cup Golds
  <2>1. RunDirections(k) = {}
    <3>1. CASE k \in Golds
      BY <3>1, DirectionsOfKinds
    <3> QED BY <1>10, <3>1, DirectionsOfKinds
  <2>2. ~RunsAlong(c, k, s, t)
    BY <1>10 DEF RunsAlong, rook, dragon, bishop, horse, lance, pawn, knight, silver, king, Golds, gold, promote
  <2> QED BY <1>6, <2>1, <2>2
<1> QED BY <1>7, <1>8, <1>9, <1>10, KindsOfPieces

(* A piece hits what it aims at over free squares; only those that run     *)
(* have any.                                                               *)
LEMMA HitsAre ==
  ASSUME NEW b, NEW c \in Colour, NEW k \in Kinds, NEW s \in Square, b[s] = Signed(c, k), NEW t
  PROVE  Hits(b, c, s, t) <=> Aims(c, k, s, t) /\ abb_obstacle[s][t] \cap Taken(b) = {}
<1>1. PICK p : p = [board |-> b]
  OBVIOUS
<1>2. p.board = b /\ Occupied(p) = Taken(b)
  BY <1>1 DEF Occupied, Taken
<1>3. Hits(p.board, c, s, t) => abb_obstacle[s][t] \cap Occupied(p) = {}
  BY <1>2, HitsElsewhere
<1>4. Hits(b, c, s, t) => Aims(c, k, s, t)
  BY <1>2, HitsOfPiece DEF Aims
<1>5. PICK q : q = [board |-> [x \in Square |-> IF x = s THEN Signed(c, k) ELSE empty]]
  OBVIOUS
<1>6. q.board[s] = Signed(c, k) /\ Occupied(q) \subseteq {s}
  BY <1>5 DEF Occupied
<1>7. Aims(c, k, s, t) => Hits(q.board, c, s, t)
  <2>1. ASSUME NEW d \in Turned(c, RunDirections(k)), t \in Ray(s, d)
        PROVE  Clear(q.board, s, d, t)
    <3>1. d \in LineSteps
      <4>1. Turned(c, {<<-1, 0>>}) \subseteq LineSteps
        <5>1. {<<-1, 0>>, <<1, 0>>} \subseteq LineSteps
          BY DEF LineSteps, FileSteps
        <5> QED BY <5>1, UpTurned
      <4>2. Turned(c, {}) \subseteq LineSteps
        BY DEF Turned
      <4>3. Turned(c, Diag1Steps \cup Diag2Steps) \subseteq LineSteps
        BY LinesTurned, SetsTurned DEF LineSteps
      <4>4. Turned(c, RankSteps \cup FileSteps) \subseteq LineSteps
        BY LinesTurned, SetsTurned DEF LineSteps
      <4>5. CASE k \in Golds
        <5>1. RunDirections(k) = {}
          BY <4>5, DirectionsOfKinds
        <5> QED BY <4>2, <5>1
      <4> QED BY <4>1, <4>2, <4>3, <4>4, <4>5, KindsOfPieces, DirectionsOfKinds
    <3>2. abb_obstacle[s][t] \cap Occupied(q) = {}
      <4>1. t \in Square
        BY <2>1, <3>1, RaysJoin
      <4> QED BY <1>6, <4>1, BetweenIsSquares
    <3> QED BY <2>1, <3>1, <3>2, RaysJoin
  <2> QED BY <1>6, <2>1, HitsOfPiece DEF Aims
<1>8. Aims(c, k, s, t) => (Hits(p.board, c, s, t) <=> abb_obstacle[s][t] \cap Occupied(p) = {})
  BY <1>2, <1>6, <1>7, HitsElsewhere
<1> QED BY <1>2, <1>3, <1>4, <1>8

(* Pieces step to neighbours, knights to the next rank but one.            *)
LEMMA StepsAreShort ==
  ASSUME NEW c, NEW k \in Kinds
  PROVE  \A d \in Turned(c, StepDirections(k)) :
           \/ d[1] \in -1 .. 1 /\ d[2] \in -1 .. 1 /\ (d[1] # 0 \/ d[2] # 0)
           \/ d[1] \in {-2, 2} /\ d[2] \in {-1, 1}
<1> DEFINE Short(S) == \A d \in S : \/ d[1] \in -1 .. 1 /\ d[2] \in -1 .. 1 /\ (d[1] # 0 \/ d[2] # 0)
                                    \/ d[1] \in {-2, 2} /\ d[2] \in {-1, 1}
<1>1. Short(Turned(c, {<<-1, 0>>}))
  BY UpTurned
<1>2. Short(Turned(c, {}))
  BY DEF Turned
<1>3. Short(Turned(c, KnightSteps))
  BY DEF Turned, KnightSteps
<1>4. Short(Turned(c, SilverSteps))
  BY DEF Turned, SilverSteps
<1>5. Short(Turned(c, GoldSteps))
  BY DEF Turned, GoldSteps
<1>6. Short(Turned(c, LineSteps))
  <2>1. Turned(c, LineSteps) = LineSteps
    BY LineStepsTurned
  <2>2. \A d \in LineSteps : d[1] \in -1 .. 1 /\ d[2] \in -1 .. 1 /\ (d[1] # 0 \/ d[2] # 0)
    BY EightDirections
  <2> QED BY <2>1, <2>2
<1> HIDE DEF Short
<1>7. Short(Turned(c, StepDirections(k)))
  <2>1. CASE k \in Golds
    <3>1. StepDirections(k) = GoldSteps
      BY <2>1, DirectionsOfKinds
    <3> QED BY <1>5, <3>1
  <2>2. CASE k \notin Golds
    BY <1>1, <1>2, <1>3, <1>4, <1>6, <2>2, DirectionsOfKinds, KindsOfPieces
  <2> QED BY <2>1, <2>2
<1> QED BY <1>7 DEF Short

(* A piece aims at other squares; one that is on its way to a square aims  *)
(* at what it passes, and runs.                                            *)
LEMMA AimFacts ==
  ASSUME NEW c \in Colour, NEW k \in Kinds, NEW s \in Square, NEW t, Aims(c, k, s, t)
  PROVE  /\ t \in Square /\ t # s
         /\ \A u \in abb_obstacle[s][t] : k \in Running /\ Aims(c, k, s, u) /\ RunsAlong(c, k, s, t)
<1>1. CASE t \in set_attacks(s, Turned(c, StepDirections(k)))
  <2>1. t \in Square /\ abb_obstacle[s][t] = {}
    <3>1. \A d \in Turned(c, StepDirections(k)) : \/ d[1] \in -1 .. 1 /\ d[2] \in -1 .. 1
                                                  \/ d[1] \in {-2, 2} /\ d[2] \in {-1, 1}
      BY StepsAreShort
    <3> QED BY <1>1, <3>1, NothingBetweenSteps
  <2>2. PICK d \in Turned(c, StepDirections(k)) : t = s + 9 * d[1] + d[2]
    BY <1>1 DEF set_attacks
  <2>3. \/ d[1] \in -1 .. 1 /\ d[2] \in -1 .. 1 /\ (d[1] # 0 \/ d[2] # 0)
        \/ d[1] \in {-2, 2} /\ d[2] \in {-1, 1}
    BY StepsAreShort
  <2>4. 9 * d[1] + d[2] # 0 /\ 9 * d[1] + d[2] \in Int /\ 9 * d[1] \in Int /\ d[2] \in Int
    BY <2>3
  <2>5. s \in Int
    BY DEF Square
  <2> QED BY <2>1, <2>2, <2>4, <2>5
<1>2. CASE RunsAlong(c, k, s, t)
  <2>1. t \in Square /\ t # s
    BY <1>2 DEF RunsAlong
  <2>2. ASSUME NEW u \in abb_obstacle[s][t] PROVE k \in Running /\ RunsAlong(c, k, s, u)
    <3>1. u \in Square /\ u # s /\ u # t
      BY <2>1, BetweenIsSquares
    <3>2. PICK e \in 2..5 : Joined(e, s, u) /\ Joined(e, u, t)
      BY <2>1, <3>1, BetweenIs
    <3>3. Joined(e, s, t)
      BY <3>2 DEF Joined
    <3>4. \A d \in 2..5 : Joined(d, s, t) => Joined(d, s, u)
      BY <2>1, <3>2, <3>3, OneLineOnly
    <3>5. k \in Running
      BY <1>2 DEF RunsAlong, Running
    <3>6. t \in RaysAhead(c)[s] => u \in RaysAhead(c)[s]
      <4>1. (s < u /\ u < t) \/ (t < u /\ u < s)
        BY <2>1, <3>1, BetweenIs
      <4>2. abb_plus_rays[s] = {v \in s+1 .. 80 : \E d \in 2..5 : Joined(d, s, v)}
            /\ abb_minus_rays[s] = {v \in 0 .. s-1 : \E d \in 2..5 : Joined(d, s, v)}
        BY DEF abb_plus_rays, abb_minus_rays
      <4>3. t \in abb_plus_rays[s] => u \in abb_plus_rays[s]
        BY <2>1, <3>1, <3>2, <4>1, <4>2 DEF Square
      <4>4. t \in abb_minus_rays[s] => u \in abb_minus_rays[s]
        BY <2>1, <3>1, <3>2, <4>1, <4>2 DEF Square
      <4> QED BY <4>3, <4>4 DEF RaysAhead
    <3>7. 2 \in 2..5 /\ 3 \in 2..5 /\ 4 \in 2..5 /\ 5 \in 2..5
      OBVIOUS
    <3> QED BY <1>2, <3>1, <3>4, <3>5, <3>6, <3>7 DEF RunsAlong
  <2> QED BY <1>2, <2>1, <2>2, RunsAre DEF Aims
<1> QED BY <1>1, <1>2, RunsAre DEF Aims

(* A square is attacked if a piece aims at it over free squares.           *)
Strikes(b, c, k, s, t) ==
  b[s] = Signed(c, k) /\ Aims(c, k, s, t) /\ abb_obstacle[s][t] \cap Taken(b) = {}
LEMMA AttackedAre ==
  ASSUME NEW b, \A s \in Square : b[s] \in Pieces, NEW c \in Colour, NEW t
  PROVE  Attacked(b, c, t) <=> \E s \in Square, k \in Kinds : Strikes(b, c, k, s, t)
<1>1. \A s \in Square : Mine(c, b[s]) <=> \E k \in Kinds : b[s] = Signed(c, k)
  BY MineIsSigned
<1>2. \A s \in Square, k \in Kinds : b[s] = Signed(c, k) => (Hits(b, c, s, t) <=> Strikes(b, c, k, s, t))
  BY HitsAre DEF Strikes
<1>3. \A s \in Square, k \in Kinds : Strikes(b, c, k, s, t) => b[s] = Signed(c, k)
  BY DEF Strikes
<1> QED BY <1>1, <1>2, <1>3 DEF Attacked

(***************************************************************************)
(* What a move opens and shuts.                                            *)
(***************************************************************************)

(* A piece moved, or, from a square that is none, dropped.                 *)
Moved(b, x, y, v) == [s \in Square |-> IF s = y THEN v ELSE IF s = x THEN empty ELSE b[s]]
IsBoard(b) == \A s \in Square : b[s] \in Pieces
NotOf(c, v) == v \in Pieces /\ v # empty /\ \A k \in Kinds : v # Signed(c, k)
Pins(b, c, k, z, x, t) ==
  b[z] = Signed(c, k) /\ Aims(c, k, z, t) /\ abb_obstacle[z][t] \cap Taken(b) = {x}

(* Moving changes two squares.                                             *)
LEMMA MovedBoard ==
  ASSUME NEW b, IsBoard(b), NEW x, NEW y \in Square, NEW v \in Pieces, v # empty, x # y,
         NEW b2, b2 = Moved(b, x, y, v)
  PROVE  /\ IsBoard(b2)
         /\ b2[y] = v
         /\ \A s \in Square \ {x, y} : b2[s] = b[s]
         /\ x \in Square => b2[x] = empty
         /\ Taken(b2) = (Taken(b) \ {x}) \cup {y}
<1>1. empty \in Pieces
  BY DEF Pieces
<1>2. /\ b2[y] = v
      /\ \A s \in Square \ {x, y} : b2[s] = b[s]
      /\ x \in Square => b2[x] = empty
  BY DEF Moved
<1>3. IsBoard(b2)
  BY <1>1, <1>2 DEF IsBoard
<1>4. \A s \in Square : s \in Taken(b2) <=> (s \in Taken(b) /\ s # x) \/ s = y
  BY <1>2 DEF Taken
<1>5. Taken(b2) \subseteq Square /\ Taken(b) \subseteq Square
  BY DEF Taken
<1> QED BY <1>2, <1>3, <1>4, <1>5

(* After a move of the other side, a side attacks with the pieces that     *)
(* were not taken, over what is free now.                                  *)
Remains(b, c, k, z, x, y, t) ==
  /\ b[z] = Signed(c, k) /\ z # y /\ Aims(c, k, z, t)
  /\ y \notin abb_obstacle[z][t] /\ abb_obstacle[z][t] \cap Taken(b) \subseteq {x}
LEMMA AttackedAfter ==
  ASSUME NEW b, IsBoard(b), NEW x, NEW y \in Square, NEW c \in Colour, NEW v, NotOf(c, v), x # y,
         x \in Square => NotOf(c, b[x]), NEW t
  PROVE  Attacked(Moved(b, x, y, v), c, t) <=>
           \E z \in Square, k \in Kinds : Remains(b, c, k, z, x, y, t)
<1>1. PICK b2 : b2 = Moved(b, x, y, v)
  OBVIOUS
<1>2. v \in Pieces /\ v # empty
  BY DEF NotOf
<1>3. /\ IsBoard(b2)
      /\ b2[y] = v
      /\ \A s \in Square \ {x, y} : b2[s] = b[s]
      /\ x \in Square => b2[x] = empty
      /\ Taken(b2) = (Taken(b) \ {x}) \cup {y}
  BY <1>1, <1>2, MovedBoard
<1>4. Attacked(b2, c, t) <=> \E z \in Square, k \in Kinds : Strikes(b2, c, k, z, t)
  BY <1>3, AttackedAre DEF IsBoard
<1>5. ASSUME NEW z \in Square, NEW k \in Kinds
      PROVE  Strikes(b2, c, k, z, t) <=> Remains(b, c, k, z, x, y, t)
  <2>1. Signed(c, k) # empty
    BY SignedIsOne
  <2>2. b2[z] = Signed(c, k) <=> b[z] = Signed(c, k) /\ z # y
    BY <1>3, <2>1 DEF NotOf
  <2>3. abb_obstacle[z][t] \cap Taken(b2) = {} <=>
          y \notin abb_obstacle[z][t] /\ abb_obstacle[z][t] \cap Taken(b) \subseteq {x}
    BY <1>3
  <2> QED BY <2>2, <2>3 DEF Strikes, Remains
<1> QED BY <1>1, <1>4, <1>5

(* A king attacked by nothing that runs steps on a square that is attacked *)
(* just if it was: it was not in the way of what attacks there.            *)
LEMMA KingSteps ==
  ASSUME NEW b, IsBoard(b), NEW c \in Colour, NEW x \in Square, NEW y \in Square, x # y,
         NotOf(c, b[x]), NEW v, NotOf(c, v),
         \A z \in Square, k \in Running : ~Strikes(b, c, k, z, x)
  PROVE  Attacked(Moved(b, x, y, v), c, y) <=> Attacked(b, c, y)
<1>1. Attacked(Moved(b, x, y, v), c, y) <=>
        \E z \in Square, k \in Kinds : Remains(b, c, k, z, x, y, y)
  BY AttackedAfter
<1>2. Attacked(b, c, y) <=> \E z \in Square, k \in Kinds : Strikes(b, c, k, z, y)
  BY AttackedAre DEF IsBoard
<1>3. ASSUME NEW z \in Square, NEW k \in Kinds, Strikes(b, c, k, z, y)
      PROVE  Remains(b, c, k, z, x, y, y)
  <2>1. y # z /\ y \notin abb_obstacle[z][y]
    BY <1>3, AimFacts, BetweenIsSquares DEF Strikes
  <2> QED BY <1>3, <2>1 DEF Strikes, Remains
<1>4. ASSUME NEW z \in Square, NEW k \in Kinds, Remains(b, c, k, z, x, y, y)
      PROVE  Strikes(b, c, k, z, y)
  <2>1. b[z] = Signed(c, k) /\ Aims(c, k, z, y) /\ abb_obstacle[z][y] \cap Taken(b) \subseteq {x}
    BY <1>4 DEF Remains
  <2>2. ASSUME x \in abb_obstacle[z][y] PROVE FALSE
    <3>1. k \in Running /\ Aims(c, k, z, x)
      BY <2>1, <2>2, AimFacts
    <3>2. abb_obstacle[z][x] \subseteq abb_obstacle[z][y]
      BY <2>2, EitherEnd, BetweenParted
    <3>3. x \notin abb_obstacle[z][x]
      BY BetweenIsSquares
    <3>4. Strikes(b, c, k, z, x)
      BY <2>1, <3>1, <3>2, <3>3 DEF Strikes
    <3> QED BY <3>1, <3>4
  <2> QED BY <2>1, <2>2 DEF Strikes
<1> QED BY <1>1, <1>2, <1>3, <1>4

(* A pawn dropped where its side did not attack the king attacks it alone  *)
(* or not at all.                                                          *)
LEMMA PawnChecksAlone ==
  ASSUME NEW b, IsBoard(b), NEW c \in Colour, NEW x, x \notin Square, NEW y \in Square, b[y] = empty,
         NEW t \in Square, ~Attacked(b, c, t), NEW b2, b2 = Moved(b, x, y, Signed(c, pawn))
  PROVE  /\ \A z \in Square, k \in Kinds :
              Strikes(b2, c, k, z, t) => z = y /\ k = pawn /\ t = y + Ahead(c)
         /\ Attacked(b2, c, t) <=> t = y + Ahead(c)
<1>1. pawn \in Kinds
  BY KindsApart
<1>2. Signed(c, pawn) \in Pieces /\ Signed(c, pawn) # empty
  BY <1>1, SignedIsOne DEF Pieces
<1>3. /\ IsBoard(b2)
      /\ b2[y] = Signed(c, pawn)
      /\ \A s \in Square \ {y} : b2[s] = b[s]
      /\ Taken(b2) = Taken(b) \cup {y}
  <2>1. Taken(b) \ {x} = Taken(b) /\ Square \ {x, y} = Square \ {y} /\ x # y
    BY DEF Taken
  <2> QED BY <1>2, <2>1, MovedBoard
<1>4. ASSUME NEW z \in Square, NEW k \in Kinds, Strikes(b2, c, k, z, t)
      PROVE  z = y /\ k = pawn /\ t = y + Ahead(c)
  <2>1. CASE z = y
    <3>1. k = pawn
      BY <1>1, <1>3, <1>4, <2>1, SignedIsOne DEF Strikes
    <3>2. PICK p : p = [board |-> b2]
      OBVIOUS
    <3>3. Hits(p.board, c, y, t)
      BY <1>3, <1>4, <2>1, <3>2, HitsAre DEF Strikes
    <3> QED BY <1>3, <2>1, <3>1, <3>2, <3>3, PawnsHit
  <2>2. CASE z # y
    <3>1. Strikes(b, c, k, z, t)
      BY <1>3, <1>4, <2>2 DEF Strikes
    <3> QED BY <3>1, AttackedAre DEF IsBoard
  <2> QED BY <2>1, <2>2
<1>5. ASSUME t = y + Ahead(c) PROVE Strikes(b2, c, pawn, y, t)
  <2>1. PICK p : p = [board |-> b2]
    OBVIOUS
  <2>2. Hits(p.board, c, y, t)
    BY <1>3, <1>5, <2>1, PawnsHit
  <2> QED BY <1>1, <1>3, <2>1, <2>2, HitsAre DEF Strikes
<1>6. Attacked(b2, c, t) <=> \E z \in Square, k \in Kinds : Strikes(b2, c, k, z, t)
  BY <1>3, AttackedAre DEF IsBoard
<1> QED BY <1>1, <1>4, <1>5, <1>6

(***************************************************************************)
(* Pins.                                                                   *)
(***************************************************************************)

(* The table of lines between squares.                                     *)
LEMMA DirecIs ==
  ASSUME NEW s \in Square, NEW t \in Square, s # t
  PROVE  /\ adirec[s][t] # direc_misc <=> adirec[s][t] \in 2..5
         /\ \A e \in 2..5 : adirec[s][t] = e <=> Joined(e, s, t)
<1>1. adirec[s][t] = IF ~\E d \in 2..5 : Joined(d, s, t) THEN direc_misc
                     ELSE CHOOSE d \in 2..5 : Joined(d, s, t)
  BY DEF adirec
<1>2. CASE ~\E d \in 2..5 : Joined(d, s, t)
  BY <1>1, <1>2 DEF direc_misc
<1>3. CASE \E d \in 2..5 : Joined(d, s, t)
  <2>1. PICK d \in 2..5 : d = (CHOOSE e \in 2..5 : Joined(e, s, t)) /\ Joined(d, s, t)
    BY <1>3
  <2>2. adirec[s][t] = d
    BY <1>1, <1>3, <2>1
  <2>3. \A e \in 2..5 : d = e <=> Joined(e, s, t)
    BY <2>1, OneLineOnly
  <2> QED BY <2>2, <2>3 DEF direc_misc
<1> QED BY <1>2, <1>3

(* What may pin along a line.                                              *)
RunsOn(e, d, k, z, x) ==
  \/ k \in {rook, dragon} /\ e \in {2, 3}
  \/ k \in {bishop, horse} /\ e \in {4, 5}
  \/ k = lance /\ e = 2 /\ z \in RaysBehind(d)[x]
LEMMA RunnersAre ==
  ASSUME NEW p, IsPosition(p), Copies(p), NEW d \in Colour, NEW x \in Square, NEW e \in 2..5, NEW z
  PROVE  z \in Runners(d, p, x, e) <=>
           z \in Square /\ \E k \in Kinds : p.board[z] = Signed(d, k) /\ RunsOn(e, d, k, z, x)
<1> DEFINE Is(K) == z \in Square /\ \E k \in K : p.board[z] = Signed(d, k)
<1>1. z \in p.union[d].rd <=> Is({rook, dragon})
  <2>1. "rd" \in DOMAIN Unions /\ Unions["rd"] = {rook, dragon}
    BY DEF Unions
  <2>2. p.union[d].rd = OnBoard(p.board, d, {rook, dragon})
    BY <2>1 DEF Copies
  <2> QED BY <2>2 DEF OnBoard
<1>2. z \in p.union[d].bh <=> Is({bishop, horse})
  <2>1. "bh" \in DOMAIN Unions /\ Unions["bh"] = {bishop, horse}
    BY DEF Unions
  <2>2. p.union[d].bh = OnBoard(p.board, d, {bishop, horse})
    BY <2>1 DEF Copies
  <2> QED BY <2>2 DEF OnBoard
<1>3. z \in p.bb[d][lance] <=> Is({lance})
  <2>1. lance \in BoardKinds
    BY DEF BoardKinds, Kinds, lance, king
  <2>2. p.bb[d][lance] = OnBoard(p.board, d, {lance})
    BY <2>1 DEF Copies
  <2> QED BY <2>2 DEF OnBoard
<1>4. {rook, dragon, bishop, horse, lance} \subseteq Kinds
  BY DEF Kinds, rook, dragon, bishop, horse, lance
<1>5. direc_rank = 3 /\ direc_file = 2
  BY DEF direc_rank, direc_file
<1>6. Runners(d, p, x, e) = IF e = 3 THEN p.union[d].rd
                            ELSE IF e = 2 THEN p.union[d].rd \cup (p.bb[d][lance] \cap RaysBehind(d)[x])
                            ELSE p.union[d].bh
  BY <1>5 DEF Runners
<1>7. z \in Runners(d, p, x, e) <=>
        \/ e \in {2, 3} /\ Is({rook, dragon})
        \/ e \in {4, 5} /\ Is({bishop, horse})
        \/ e = 2 /\ Is({lance}) /\ z \in RaysBehind(d)[x]
  <2> HIDE DEF Is
  <2> QED BY <1>1, <1>2, <1>3, <1>6
<1> QED BY <1>4, <1>7 DEF RunsOn

(* A lance pins from behind.                                               *)
LEMMA BehindAndAhead ==
  ASSUME NEW d \in Colour, NEW z \in Square, NEW x \in Square, NEW t \in Square,
         x \in abb_obstacle[z][t], NEW e \in 2..5, Joined(e, z, t), Joined(e, x, z)
  PROVE  z \in RaysBehind(d)[x] <=> t \in RaysAhead(d)[z]
<1>1. \A s \in Square : /\ abb_plus_rays[s] = {v \in s+1 .. 80 : \E f \in 2..5 : Joined(f, s, v)}
                        /\ abb_minus_rays[s] = {v \in 0 .. s-1 : \E f \in 2..5 : Joined(f, s, v)}
  BY DEF abb_plus_rays, abb_minus_rays
<1>2. (z < x /\ x < t) \/ (t < x /\ x < z)
  BY BetweenIs
<1>3. z \in abb_plus_rays[x] <=> z > x
  BY <1>1 DEF Square
<1>4. z \in abb_minus_rays[x] <=> z < x
  BY <1>1 DEF Square
<1>5. t \in abb_plus_rays[z] <=> t > z
  BY <1>1 DEF Square
<1>6. t \in abb_minus_rays[z] <=> t < z
  BY <1>1 DEF Square
<1> QED BY <1>2, <1>3, <1>4, <1>5, <1>6 DEF RaysBehind, RaysAhead, Square

(* Of three squares on a line one is between the others.                   *)
LEMMA ThreeOnALine ==
  ASSUME NEW x \in Square, NEW y \in Square, NEW z \in Square, x # y, x # z, y # z,
         NEW e \in 2..5, Joined(e, x, y), Joined(e, x, z)
  PROVE  y \in abb_obstacle[x][z] \/ z \in abb_obstacle[x][y] \/ x \in abb_obstacle[y][z]
<1>1. Joined(e, y, x) /\ Joined(e, z, y) /\ Joined(e, y, z)
  BY DEF Joined
<1>2. \/ (x < y /\ y < z) \/ (z < y /\ y < x)
      \/ (x < z /\ z < y) \/ (y < z /\ z < x)
      \/ (y < x /\ x < z) \/ (z < x /\ x < y)
  BY DEF Square
<1> QED BY <1>1, <1>2, BetweenIs

(* is_pinned_on_white_king and is_pinned_on_black_king find the pieces     *)
(* that stand alone between their king and an enemy's that runs.           *)
LEMMA PinnedIs ==
  ASSUME NEW p, IsPosition(p), Copies(p), NEW c \in Colour, NEW x \in Square,
         NEW t \in Square, t = p.sq_king[c], x # t, p.board[x] # empty, NEW e, e = adirec[t][x]
  PROVE  e # direc_misc /\ is_pinned_on(c, p, x, e) <=>
           \E z \in Square, k \in Kinds : Pins(p.board, Flip(c), k, z, x, t)
<1> DEFINE b == p.board
           d == Flip(c)
<1>1. d \in Colour /\ d # c
  BY Flips
<1>2. b[t] = Signed(c, king) /\ king \in Kinds
  <2>1. OnBoard(b, c, {king}) = {t}
    BY DEF Copies
  <2> QED BY <2>1, KindsApart DEF OnBoard
<1>3. x \in Taken(b) /\ t \in Taken(b) /\ Taken(b) = Occupied(p)
  BY <1>2, SignedIsOne DEF Taken, Occupied
<1>4. \A f : \A u, v, w : Joined(f, u, v) /\ Joined(f, v, w) => Joined(f, u, w)
  BY DEF Joined
<1>5. \A f : \A u, v : Joined(f, u, v) <=> Joined(f, v, u)
  BY DEF Joined
<1>6. /\ e # direc_misc <=> e \in 2..5
      /\ \A f \in 2..5 : e = f <=> Joined(f, t, x)
  BY DirecIs
<1>7. ASSUME e \in 2..5
      PROVE  Along(p, x, e) = Slide(e, x, Taken(b))
  <2>1. e = 2 \/ e = 3 \/ e = 4 \/ e = 5
    BY <1>7
  <2> QED BY <1>3, <2>1, AttacksSlide DEF Along, direc_rank, direc_file, direc_diag1
<1>8. ASSUME e \in 2..5
      PROVE  is_pinned_on(c, p, x, e) <=>
               /\ t \in Slide(e, x, Taken(b))
               /\ \E z \in Slide(e, x, Taken(b)) : z \in Runners(d, p, x, e)
  BY <1>7, <1>8 DEF is_pinned_on, BothOn
<1>9. ASSUME e \in 2..5, NEW y \in Square
      PROVE  y \in Slide(e, x, Taken(b)) <=>
               y # x /\ Joined(e, x, y) /\ abb_obstacle[x][y] \cap Taken(b) = {}
  BY <1>9 DEF Slide, Line
<1>10. ASSUME e \in 2..5, is_pinned_on(c, p, x, e)
       PROVE  \E z \in Square, k \in Kinds : Pins(b, d, k, z, x, t)
  <2>1. t \in Slide(e, x, Taken(b))
    BY <1>8, <1>10
  <2>2. PICK z \in Slide(e, x, Taken(b)) : z \in Runners(d, p, x, e)
    BY <1>8, <1>10
  <2>3. PICK k \in Kinds : z \in Square /\ b[z] = Signed(d, k) /\ RunsOn(e, d, k, z, x)
    BY <1>1, <1>10, <2>2, RunnersAre
  <2>4. z # t /\ z \in Taken(b)
    <3>1. Signed(d, k) # Signed(c, king) /\ Signed(d, k) # empty
      BY <1>1, <1>2, SignedIsOne
    <3> QED BY <1>2, <2>3, <3>1 DEF Taken
  <2>5. /\ z # x /\ Joined(e, x, z) /\ abb_obstacle[x][z] \cap Taken(b) = {}
        /\ Joined(e, x, t) /\ abb_obstacle[x][t] \cap Taken(b) = {}
    BY <1>9, <1>10, <2>1, <2>2, <2>3
  <2>6. x \in abb_obstacle[z][t]
    <3>1. x \in abb_obstacle[t][z]
      BY <1>3, <1>10, <2>3, <2>4, <2>5, ThreeOnALine
    <3> QED BY <2>3, <3>1, EitherEnd
  <2>7. abb_obstacle[z][t] \cap Taken(b) = {x}
    <3>1. abb_obstacle[z][x] = abb_obstacle[x][z]
      BY <2>3, EitherEnd
    <3>2. \A v \in Square : v \in abb_obstacle[z][t] <=>
                              v \in abb_obstacle[z][x] \/ v = x \/ v \in abb_obstacle[x][t]
      BY <2>3, <2>6, BetweenParted
    <3>3. Taken(b) \subseteq Square
      BY DEF Taken
    <3> QED BY <1>3, <2>5, <2>6, <3>1, <3>2, <3>3
  <2>8. RunsAlong(d, k, z, t)
    <3>1. Joined(e, z, t)
      BY <1>4, <1>5, <2>5
    <3>2. z \in RaysBehind(d)[x] <=> t \in RaysAhead(d)[z]
      BY <1>1, <1>10, <2>3, <2>5, <2>6, <3>1, BehindAndAhead
    <3> QED BY <2>3, <2>4, <3>1, <3>2 DEF RunsOn, RunsAlong
  <2>9. Aims(d, k, z, t)
    BY <1>1, <2>3, <2>8, RunsAre DEF Aims
  <2> QED BY <2>3, <2>7, <2>9 DEF Pins
<1>11. ASSUME NEW z \in Square, NEW k \in Kinds, Pins(b, d, k, z, x, t)
       PROVE  e \in 2..5 /\ is_pinned_on(c, p, x, e)
  <2>1. b[z] = Signed(d, k) /\ Aims(d, k, z, t) /\ abb_obstacle[z][t] \cap Taken(b) = {x}
    BY <1>11 DEF Pins
  <2>2. x \in abb_obstacle[z][t] /\ RunsAlong(d, k, z, t)
    BY <1>1, <2>1, AimFacts
  <2>3. PICK f \in 2..5 : Joined(f, z, x) /\ Joined(f, x, t)
    BY <2>2, BetweenIs
  <2>4. f = e /\ Joined(e, x, z) /\ Joined(e, x, t) /\ Joined(e, z, t)
    BY <1>4, <1>5, <1>6, <2>3
  <2>5. x # z /\ x # t /\ z # t
    BY <1>1, <2>1, <2>2, AimFacts, BetweenIsSquares
  <2>6. abb_obstacle[x][z] \cap Taken(b) = {} /\ abb_obstacle[x][t] \cap Taken(b) = {}
    <3>1. abb_obstacle[z][x] = abb_obstacle[x][z]
      BY EitherEnd
    <3>2. \A v \in Square : v \in abb_obstacle[z][t] <=>
                              v \in abb_obstacle[z][x] \/ v = x \/ v \in abb_obstacle[x][t]
      BY <2>2, BetweenParted
    <3>3. Taken(b) \subseteq Square
      BY DEF Taken
    <3>4. x \notin abb_obstacle[x][z] /\ x \notin abb_obstacle[x][t]
      BY BetweenIsSquares
    <3> QED BY <2>1, <3>1, <3>2, <3>3, <3>4
  <2>7. RunsOn(e, d, k, z, x)
    <3>1. \A g \in 2..5 : Joined(g, z, t) => g = e
      BY <2>3, <2>4, <2>5, OneLineOnly
    <3>2. 2 \in 2..5 /\ 3 \in 2..5 /\ 4 \in 2..5 /\ 5 \in 2..5
      OBVIOUS
    <3>3. z \in RaysBehind(d)[x] <=> t \in RaysAhead(d)[z]
      BY <1>1, <2>2, <2>3, <2>4, BehindAndAhead
    <3> QED BY <2>2, <3>1, <3>2, <3>3 DEF RunsOn, RunsAlong
  <2>8. z \in Runners(d, p, x, e)
    BY <1>1, <2>1, <2>3, <2>4, <2>7, RunnersAre
  <2>9. e \in 2..5
    BY <2>3, <2>4
  <2> QED BY <1>8, <1>9, <2>4, <2>5, <2>6, <2>8, <2>9
<1> QED BY <1>6, <1>10, <1>11

(***************************************************************************)
(* Mate by a dropped pawn.                                                 *)
(***************************************************************************)

(* The strikers of a square are the pieces that hit it, pawns left out.    *)
LEMMA StrikersAre ==
  ASSUME NEW p, IsPosition(p), Copies(p), NEW c \in Colour, NEW t \in Square, NEW s
  PROVE  s \in Strikers(c, p, t) <=>
           s \in Square /\ \E k \in Kinds \ {pawn} : p.board[s] = Signed(c, k) /\ Hits(p.board, c, s, t)
<1>1. ASSUME s \in Strikers(c, p, t)
      PROVE  s \in Square /\ \E k \in Kinds \ {pawn} : p.board[s] = Signed(c, k) /\ Hits(p.board, c, s, t)
  BY <1>1, StrikersReach, ReachIsHits
<1>2. ASSUME s \in Square, NEW k \in Kinds \ {pawn}, p.board[s] = Signed(c, k), Hits(p.board, c, s, t)
      PROVE  s \in Strikers(c, p, t)
  BY <1>2, ReachIsHits, WhatReachesStrikes
<1> QED BY <1>1, <1>2

(* Whom is_mate_b_pawn_drop and is_mate_w_pawn_drop let take the pawn.     *)
Takers(c, p, y) ==
  LET d == Flip(c)
  IN (p.bb[d][knight] \cap Knight(c, y))
       \cup (p.bb[d][silver] \cap Silver(c, y))
       \cup (p.union[d].tgold \cap Gold(c, y))
       \cup (p.union[d].bh \cap AttackBishop(p, y))
       \cup (p.union[d].rd \cap AttackRook(p, y))
       \cup ((p.bb[d][horse] \cup p.bb[d][dragon]) \cap abb_king_attacks[y])
LEMMA TakersAre ==
  ASSUME NEW p, IsPosition(p), Copies(p), NEW c \in Colour, NEW y \in Square, NEW x
  PROVE  x \in Takers(c, p, y) <=>
           x \in Square /\ \E k \in Kinds \ {pawn, lance, king} :
                             p.board[x] = Signed(Flip(c), k) /\ Hits(p.board, Flip(c), x, y)
<1> DEFINE d == Flip(c)
           On(K) == x \in Square /\ \E k \in K : p.board[x] = Signed(d, k)
           near == x \in abb_king_attacks[y]
           others == \/ x \in p.bb[d][knight] \cap Knight(c, y)
                     \/ x \in p.bb[d][silver] \cap Silver(c, y)
                     \/ x \in p.union[d].tgold \cap Gold(c, y)
                     \/ x \in p.union[d].bh \cap AttackBishop(p, y)
                     \/ x \in p.union[d].rd \cap AttackRook(p, y)
<1>1. d \in Colour /\ Flip(d) = c
  BY Flips
<1>2. /\ x \in p.union[d].tgold <=> On(Golds)
      /\ x \in p.union[d].bh <=> On({bishop, horse})
      /\ x \in p.union[d].rd <=> On({rook, dragon})
      /\ x \in p.union[d].hdk <=> On({king, horse, dragon})
  <2>1. \A u \in DOMAIN Unions : p.union[d][u] = OnBoard(p.board, d, Unions[u])
    BY <1>1 DEF Copies
  <2>2. /\ p.union[d].tgold = OnBoard(p.board, d, Golds)
        /\ p.union[d].bh = OnBoard(p.board, d, {bishop, horse})
        /\ p.union[d].rd = OnBoard(p.board, d, {rook, dragon})
        /\ p.union[d].hdk = OnBoard(p.board, d, {king, horse, dragon})
    BY <2>1 DEF Unions
  <2> QED BY <2>2 DEF OnBoard
<1>3. \A j \in BoardKinds : x \in p.bb[d][j] <=> On({j})
  <2>1. \A j \in BoardKinds : p.bb[d][j] = OnBoard(p.board, d, {j})
    BY <1>1 DEF Copies
  <2> QED BY <2>1 DEF OnBoard
<1>4. {knight, silver, lance, horse, dragon} \subseteq BoardKinds
  BY DEF BoardKinds, Kinds, king, knight, silver, lance, horse, dragon
<1>5. x \in Takers(c, p, y) <=> others \/ (near /\ (On({horse}) \/ On({dragon})))
  BY <1>3, <1>4 DEF Takers
<1>6. x \in Strikers(d, p, y) <=>
        \/ others \/ (near /\ On({king, horse, dragon}))
        \/ x \in p.bb[d][lance] \cap RaysBehind(d)[y] \cap AttackFile(p, y)
  BY <1>1, <1>2 DEF Strikers, AttackRook
<1>7. others => \E K : K \subseteq Kinds \ {pawn, lance, king} /\ On(K)
  <2>1. /\ {knight} \subseteq Kinds \ {pawn, lance, king} /\ {silver} \subseteq Kinds \ {pawn, lance, king}
        /\ Golds \subseteq Kinds \ {pawn, lance, king} /\ {bishop, horse} \subseteq Kinds \ {pawn, lance, king}
        /\ {rook, dragon} \subseteq Kinds \ {pawn, lance, king}
    BY DEF Kinds, Golds, gold, promote, pawn, lance, knight, silver, bishop, rook, king, horse, dragon
  <2>2. others => On({knight}) \/ On({silver}) \/ On(Golds) \/ On({bishop, horse}) \/ On({rook, dragon})
    BY <1>2, <1>3, <1>4
  <2> HIDE DEF On, others
  <2> QED BY <2>1, <2>2
<1>8. \A k \in Kinds : On({k}) => \A K \in SUBSET Kinds : On(K) <=> k \in K
  BY <1>1, SignedIsOne
<1>9. \A K \in SUBSET Kinds : On(K) => \E k \in K : On({k})
  OBVIOUS
<1> DEFINE taking == Kinds \ {pawn, lance, king}
<1>10. /\ {horse, dragon} \subseteq taking /\ {king, horse, dragon} \subseteq Kinds
       /\ {king, horse, dragon} \cap taking = {horse, dragon} /\ lance \in Kinds /\ lance \notin taking
       /\ taking \subseteq Kinds
  BY DEF Kinds, pawn, lance, king, horse, dragon
<1>11. x \in Strikers(d, p, y) => On(Kinds \ {pawn}) /\ Hits(p.board, d, x, y)
  BY <1>1, StrikersAre
<1>12. \A k \in taking : On({k}) /\ Hits(p.board, d, x, y) => x \in Strikers(d, p, y)
  BY <1>1, StrikersAre
<1>13. x \in Takers(c, p, y) => x \in Square /\ \E k \in taking : On({k}) /\ Hits(p.board, d, x, y)
  <2> SUFFICES ASSUME x \in Takers(c, p, y)
               PROVE  x \in Square /\ \E k \in taking : On({k}) /\ Hits(p.board, d, x, y)
    OBVIOUS
  <2>1. On({horse}) => On({king, horse, dragon})
    OBVIOUS
  <2>2. On({dragon}) => On({king, horse, dragon})
    OBVIOUS
  <2>3. x \in Square
    <3>1. others \/ On({horse}) \/ On({dragon})
      BY <1>5
    <3> QED BY <1>7, <3>1
  <2> HIDE DEF On, others, taking
  <2>4. x \in Strikers(d, p, y)
    BY <1>5, <1>6, <2>1, <2>2
  <2>5. \E k \in taking : On({k})
    <3>1. CASE others
      <4>1. PICK K : K \subseteq taking /\ On(K)
        BY <1>7, <3>1 DEF taking
      <4>2. K \in SUBSET Kinds
        BY <1>10, <4>1
      <4> QED BY <1>9, <4>1, <4>2
    <3>2. CASE On({horse}) \/ On({dragon})
      BY <1>10, <3>2
    <3> QED BY <1>5, <3>1, <3>2
  <2> QED BY <1>11, <2>3, <2>4, <2>5
<1>14. ASSUME NEW k \in taking, On({k}), Hits(p.board, d, x, y) PROVE x \in Takers(c, p, y)
  <2> HIDE DEF On, others, taking
  <2>1. x \in Strikers(d, p, y)
    BY <1>12, <1>14
  <2>2. x \notin p.bb[d][lance]
    <3>1. ~On({lance})
      BY <1>8, <1>10, <1>14
    <3> QED BY <1>3, <1>4, <3>1
  <2>3. On({king, horse, dragon}) => On({horse}) \/ On({dragon})
    BY <1>8, <1>10, <1>14
  <2> QED BY <1>5, <1>6, <2>1, <2>2, <2>3
<1> QED BY <1>13, <1>14

(* A square next to the king: nothing is between the two.                  *)
LEMMA PawnIsNext ==
  ASSUME NEW c \in Colour, NEW y \in Square, NEW t \in Square, t = y + Ahead(c)
  PROVE  /\ y # t /\ abb_obstacle[t][y] = {} /\ abb_obstacle[y][t] = {} /\ Joined(2, t, y)
         /\ c = black => t < y
         /\ c = white => y < t
<1>1. y = t - Ahead(c) /\ (c = black => t = y - 9) /\ (c = white => t = y + 9)
  BY DEF Ahead, Square, black, white
<1>2. t - Ahead(c) \in Square
  BY <1>1
<1>3. abb_obstacle[t][y] = {}
  BY <1>1, <1>2, AboveAndBelow
<1>4. t % 9 = y % 9
  <2>1. c = black \/ c = white
    BY DEF Colour
  <2> QED BY <1>1, <2>1 DEF Square
<1>5. Joined(2, t, y)
  BY <1>4, JoinedBy
<1>6. y # t /\ (c = black => t < y) /\ (c = white => y < t)
  <2>1. c = black \/ c = white
    BY DEF Colour
  <2> QED BY <1>1, <2>1 DEF Square
<1> QED BY <1>3, <1>5, <1>6, EitherEnd

(* Pawns and lances cannot take a pawn that gives check: their king is     *)
(* behind it.                                                              *)
LEMMA NeitherPawnNorLanceTakes ==
  ASSUME NEW b, NEW c \in Colour, NEW d, d = Flip(c), NEW y \in Square, NEW t \in Square, t = y + Ahead(c),
         b[t] = Signed(d, king), NEW k \in {pawn, lance}, NEW x \in Square, b[x] = Signed(d, k)
  PROVE  ~Hits(b, d, x, y)
<1>1. d \in Colour /\ d # c
  BY Flips
<1>2. {pawn, lance, king} \subseteq Kinds /\ k # king
  BY DEF Kinds, pawn, lance, king
<1>3. x # t /\ t \in Taken(b)
  BY <1>1, <1>2, SignedIsOne DEF Taken
<1>4. y # t /\ abb_obstacle[t][y] = {} /\ Joined(2, t, y) /\ (c = black => t < y) /\ (c = white => y < t)
  BY PawnIsNext
<1>5. CASE k = pawn
  <2>1. Hits(b, d, x, y) => y = x + Ahead(d)
    <3>1. PICK p : p = [board |-> b]
      OBVIOUS
    <3> QED BY <1>1, <1>5, <3>1, PawnsHit
  <2>2. y = x + Ahead(d) => x = t
    BY <1>1 DEF Ahead, Square, Colour, black, white
  <2> QED BY <1>3, <2>1, <2>2
<1>6. CASE k = lance
  <2> SUFFICES ASSUME Hits(b, d, x, y) PROVE FALSE
    OBVIOUS
  <2>1. Aims(d, lance, x, y) /\ abb_obstacle[x][y] \cap Taken(b) = {}
    BY <1>1, <1>2, <1>6, HitsAre
  <2>2. RunsAlong(d, lance, x, y)
    <3>1. StepDirections(lance) = {}
      BY DirectionsOfKinds
    <3>2. set_attacks(x, Turned(d, {})) = {}
      BY DEF Turned, set_attacks
    <3> QED BY <1>1, <1>2, <2>1, <3>1, <3>2, RunsAre DEF Aims
  <2>3. Joined(2, x, y) /\ y \in RaysAhead(d)[x] /\ x # y
    BY <2>2 DEF RunsAlong, lance, rook, dragon, bishop, horse
  <2>4. t \notin abb_obstacle[x][y]
    BY <1>3, <2>1
  <2>5. t \notin abb_obstacle[y][x] /\ x \notin abb_obstacle[y][t]
    BY <1>4, <2>4, EitherEnd
  <2>6. y \in abb_obstacle[t][x]
    <3>1. Joined(2, y, t) /\ Joined(2, y, x) /\ 2 \in 2..5
      BY <1>4, <2>3 DEF Joined
    <3> QED BY <1>3, <1>4, <2>3, <2>5, <3>1, ThreeOnALine
  <2>7. (t < y /\ y < x) \/ (x < y /\ y < t)
    BY <2>6, BetweenIs
  <2>8. /\ abb_plus_rays[x] = {v \in x+1 .. 80 : \E f \in 2..5 : Joined(f, x, v)}
        /\ abb_minus_rays[x] = {v \in 0 .. x-1 : \E f \in 2..5 : Joined(f, x, v)}
    BY DEF abb_plus_rays, abb_minus_rays
  <2>9. c = white => y < x
    BY <1>1, <2>3, <2>8 DEF RaysAhead, Colour, black, white, Square
  <2>10. c = black => y > x
    BY <1>1, <2>3, <2>8 DEF RaysAhead, Colour, black, white, Square
  <2>11. c = black \/ c = white
    BY DEF Colour
  <2> QED BY <1>4, <2>7, <2>9, <2>10, <2>11 DEF Square
<1> QED BY <1>5, <1>6

(* The side attacks t once the other has moved from x to y.                *)
Opens(b, c, x, y, t) == \E z \in Square, k \in Kinds : Remains(b, c, k, z, x, y, t)

(* IsDiscoverWK and IsDiscoverBK tell of a step of either side, one that   *)
(* does not take a piece of c, whether it would open a line to the king.   *)
LEMMA DiscoverIs ==
  ASSUME NEW p, IsPosition(p), Copies(p), NEW c \in Colour, NEW d, d = Flip(c),
         NEW t \in Square, t = p.sq_king[d], ~Attacked(p.board, c, t),
         NEW y \in Square, y # t, \A k \in Kinds : p.board[y] # Signed(c, k),
         NEW g \in Colour, NEW x \in Square, NEW j \in Kinds, p.board[x] = Signed(g, j), x # t,
         Hits(p.board, g, x, y)
  PROVE  IsDiscover(d, p, x, y) <=> Opens(p.board, c, x, y, t)
<1> DEFINE b == p.board
           e == adirec[t][x]
<1>1. d \in Colour /\ d # c /\ Flip(d) = c
  BY Flips
<1>2. b[x] # empty
  BY SignedIsOne
<1>3. x # y
  BY HitsAre, AimFacts
<1>4. e # direc_misc /\ is_pinned_on(d, p, x, e) <=>
        \E z \in Square, k \in Kinds : Pins(b, c, k, z, x, t)
  <2>1. PICK f : f = adirec[t][x]
    OBVIOUS
  <2>2. f # direc_misc /\ is_pinned_on(d, p, x, f) <=>
          \E z \in Square, k \in Kinds : Pins(p.board, Flip(d), k, z, x, t)
    BY <1>1, <1>2, <2>1, PinnedIs
  <2> QED BY <1>1, <2>1, <2>2
<1>5. t \in Taken(b) /\ b[t] = Signed(d, king)
  <2>1. OnBoard(b, d, {king}) = {t}
    BY <1>1 DEF Copies
  <2>2. b[t] = Signed(d, king) /\ king \in Kinds
    BY <2>1, KindsApart DEF OnBoard
  <2> QED BY <1>1, <2>2, SignedIsOne DEF Taken
<1>6. \A z \in Square, k \in Kinds : ~Strikes(b, c, k, z, t)
  BY AttackedAre DEF IsPosition
<1>7. ASSUME NEW z \in Square, NEW k \in Kinds
      PROVE  Remains(b, c, k, z, x, y, t) <=> Pins(b, c, k, z, x, t) /\ y \notin abb_obstacle[z][t]
  <2>1. b[z] = Signed(c, k) => z # y
    OBVIOUS
  <2>2. ~(b[z] = Signed(c, k) /\ Aims(c, k, z, t) /\ abb_obstacle[z][t] \cap Taken(b) = {})
    BY <1>6 DEF Strikes
  <2> QED BY <2>1, <2>2 DEF Remains, Pins
<1>8. \A f \in 2..5 : /\ e = f <=> Joined(f, t, x)
                      /\ adirec[t][y] = f <=> Joined(f, t, y)
  BY DirecIs
<1>9. ASSUME NEW z \in Square, NEW k \in Kinds, Pins(b, c, k, z, x, t)
      PROVE  e # adirec[t][y] <=> y \notin abb_obstacle[z][t]
  <2>1. x \in abb_obstacle[z][t]
    BY <1>9 DEF Pins
  <2>2. PICK f \in 2..5 : Joined(f, z, x) /\ Joined(f, x, t)
    BY <2>1, BetweenIs
  <2>3. e = f /\ Joined(f, t, x) /\ Joined(f, z, t) /\ z # t
    <3>1. Joined(f, t, x) /\ Joined(f, z, t)
      BY <2>2 DEF Joined
    <3> QED BY <1>8, <1>9, <3>1, AimFacts DEF Pins
  <2>4. ASSUME y \in abb_obstacle[z][t] PROVE e = adirec[t][y]
    <3>1. PICK h \in 2..5 : Joined(h, z, y) /\ Joined(h, y, t)
      BY <2>4, BetweenIs
    <3>2. Joined(h, z, t) /\ Joined(h, t, y)
      BY <3>1 DEF Joined
    <3>3. h = f
      BY <2>3, <3>2, OneLineOnly
    <3> QED BY <1>8, <2>3, <3>2, <3>3
  <2>5. ASSUME e = adirec[t][y] PROVE y \in abb_obstacle[z][t]
    <3>1. Joined(f, t, y)
      BY <1>8, <2>3, <2>5
    <3>2. abb_obstacle[x][y] \cap Taken(b) = {}
      BY HitsAre
    <3>3. x \in abb_obstacle[t][z] /\ abb_obstacle[z][t] = abb_obstacle[t][z]
      BY <2>1, EitherEnd
    <3>4. x \in abb_obstacle[t][y] \/ y \in abb_obstacle[t][x]
      BY <1>3, <1>5, <2>3, <3>1, <3>2, ThreeOnALine
    <3>5. ASSUME x \in abb_obstacle[t][y] PROVE y \in abb_obstacle[t][z]
      <4>1. z \in Taken(b) /\ z # y
        BY <1>9, SignedIsOne DEF Pins, Taken
      <4>2. y \in abb_obstacle[t][z] \/ z \in abb_obstacle[t][y]
        BY <2>3, <3>3, <3>5, <4>1, OnOneSide DEF UpTo
      <4>3. ASSUME z \in abb_obstacle[t][y] PROVE FALSE
        <5>1. z \in abb_obstacle[t][x] \/ z = x \/ z \in abb_obstacle[x][y]
          BY <3>5, <4>3, BetweenParted
        <5>2. z # x /\ z \notin abb_obstacle[t][x]
          BY <3>3, NotBothBetween
        <5> QED BY <3>2, <4>1, <5>1, <5>2
      <4> QED BY <4>2, <4>3
    <3>6. ASSUME y \in abb_obstacle[t][x] PROVE y \in abb_obstacle[t][z]
      BY <3>3, <3>6, BetweenParted
    <3> QED BY <3>3, <3>4, <3>5, <3>6
  <2> QED BY <2>4, <2>5
<1>10. IsDiscover(d, p, x, y) <=> e # direc_misc /\ e # adirec[t][y] /\ is_pinned_on(d, p, x, e)
  BY DEF IsDiscover
<1>11. Opens(b, c, x, y, t) <=> \E z \in Square, k \in Kinds : Remains(p.board, c, k, z, x, y, t)
  BY DEF Opens
<1> QED BY <1>4, <1>7, <1>9, <1>10, <1>11

(* Where a side's king is when the side, or the other, has moved.          *)
LEMMA TheKingMoved ==
  ASSUME NEW b, NEW d \in Colour, NEW t \in Square, OnBoard(b, d, {king}) = {t},
         NEW y \in Square, y # t
  PROVE  KingOf(Moved(b, t, y, Signed(d, king)), d) = y
<1>1. PICK b2 : b2 = Moved(b, t, y, Signed(d, king))
  OBVIOUS
<1>2. \A s \in Square : b[s] = Signed(d, king) <=> s = t
  BY DEF OnBoard
<1>3. empty # Signed(d, king)
  BY SignedIsOne, KindsApart
<1>4. \A s \in Square : b2[s] = Signed(d, king) <=> s = y
  BY <1>1, <1>2, <1>3 DEF Moved
<1>5. KingOf(b2, d) = CHOOSE s \in Square : b2[s] = Signed(d, king)
  BY DEF KingOf, Signed
<1> QED BY <1>1, <1>4, <1>5
LEMMA TheKingStays ==
  ASSUME NEW b, NEW d \in Colour, NEW t \in Square, OnBoard(b, d, {king}) = {t},
         NEW x, x # t, NEW y \in Square, y # t, NEW v, v # Signed(d, king)
  PROVE  KingOf(Moved(b, x, y, v), d) = t
<1>1. PICK b2 : b2 = Moved(b, x, y, v)
  OBVIOUS
<1>2. \A s \in Square : b[s] = Signed(d, king) <=> s = t
  BY DEF OnBoard
<1>3. empty # Signed(d, king)
  BY SignedIsOne, KindsApart
<1>4. \A s \in Square : b2[s] = Signed(d, king) <=> s = t
  BY <1>1, <1>2, <1>3 DEF Moved
<1>5. KingOf(b2, d) = CHOOSE s \in Square : b2[s] = Signed(d, king)
  BY DEF KingOf, Signed
<1> QED BY <1>1, <1>4, <1>5

(* The position after a pawn is dropped.                                   *)
PawnDropped(c, p, y, q) ==
  /\ IsPosition(q) /\ Copies(q)
  /\ q.board = Moved(p.board, Drop2From(pawn), y, Signed(c, pawn))
  /\ q.board = After(p.board, c, DropMove(pawn, y))
  /\ q.sq_king = p.sq_king
LEMMA PawnIsDropped ==
  ASSUME NEW p, IsPosition(p), Copies(p), Alive(p), NEW c \in Colour, NEW y, DropByRules(c, p, pawn, y),
         NEW q, q = make_move(c, p, DropMove(pawn, y))
  PROVE  PawnDropped(c, p, y, q)
<1> DEFINE m == DropMove(pawn, y)
<1>1. m.from = Drop2From(pawn) /\ m.to = y /\ m.piece = empty /\ m.promo = FALSE /\ m.cap = empty
  BY DEF DropMove, Move
<1>2. pawn \in Hands /\ y \in Square
  BY DEF DropByRules
<1>3. Fits(c, p, m)
  BY <1>1, <1>2 DEF Fits, DropFits, DropByRules
<1>4. m.from \in Int
  BY <1>1 DEF Drop2From, nsquare, pawn
<1>5. MadeOf(c, p, m, q)
  BY PositionHasFields, MadeFields
<1>6. IsPosition(q) /\ Copies(q)
  BY <1>3, MakingKeepsCopies
<1>7. q.board = BoardAfter(c, p, m) /\ q.board = After(p.board, c, m)
  BY <1>4, <1>5, AfterIsBoardAfter DEF MadeOf
<1>8. Comes(m) = pawn
  BY <1>1, <1>2, PartsOfDrops DEF Comes
<1>9. q.board = Moved(p.board, Drop2From(pawn), y, Signed(c, pawn))
  BY <1>1, <1>7, <1>8 DEF BoardAfter, Moved
<1>10. q.sq_king = p.sq_king
  BY <1>1, <1>5, KindsAreNumbers DEF MadeOf
<1> QED BY <1>6, <1>7, <1>9, <1>10 DEF PawnDropped

(* is_mate_b_pawn_drop and is_mate_w_pawn_drop see what is attacked after  *)
(* the drop by marking the square in the occupancies alone.                *)
LEMMA MarkedIsDropped ==
  ASSUME NEW p, IsPosition(p), Copies(p), NEW c \in Colour, NEW y \in Square, p.board[y] = empty,
         NEW q, PawnDropped(c, p, y, q), NEW t \in Square, t # y + Ahead(c)
  PROVE  is_attacked_by(c, Occupying(c, p, y), t) <=> Attacked(q.board, c, t)
<1> DEFINE r == Occupying(c, p, y)
           b == p.board
<1>1. IsPosition(q) /\ Copies(q) /\ q.board = Moved(b, Drop2From(pawn), y, Signed(c, pawn))
  BY DEF PawnDropped
<1>2. Drop2From(pawn) \notin Square
  BY DEF Drop2From, nsquare, pawn, Square
<1>3. \A s \in Square : q.board[s] = IF s = y THEN Signed(c, pawn) ELSE b[s]
  BY <1>1, <1>2 DEF Moved
<1>4. pawn \in Kinds /\ king \in Kinds /\ BoardKinds \subseteq Kinds /\ pawn \in BoardKinds
  BY KindsApart
<1>5. Signed(c, pawn) # empty
  BY <1>4, SignedIsOne
<1>6. ASSUME NEW K \in SUBSET Kinds
      PROVE  OnBoard(q.board, c, K) = IF pawn \in K THEN OnBoard(b, c, K) \cup {y} ELSE OnBoard(b, c, K)
  <2>1. Signed(c, pawn) \in {Signed(c, k) : k \in K} <=> pawn \in K
    BY <1>4, SignedAmong
  <2>2. empty \notin {Signed(c, k) : k \in K}
    BY <1>4, SignedAmong
  <2> QED BY <1>3, <2>1, <2>2 DEF OnBoard
<1>7. \A k \in BoardKinds \ {pawn} : q.bb[c][k] = p.bb[c][k]
  <2> TAKE k \in BoardKinds \ {pawn}
  <2>1. OnBoard(q.board, c, {k}) = OnBoard(b, c, {k})
    BY <1>4, <1>6
  <2> QED BY <1>1, <2>1 DEF Copies
<1>8. \A u \in DOMAIN Unions : q.union[c][u] = p.union[c][u]
  <2> TAKE u \in DOMAIN Unions
  <2>1. Unions[u] \in SUBSET Kinds
    BY SetsOfKinds
  <2>2. pawn \notin Unions[u]
    BY DEF Unions, Golds, pawn, king, bishop, rook, horse, dragon, gold, promote, lance, knight, silver
  <2>3. OnBoard(q.board, c, Unions[u]) = OnBoard(b, c, Unions[u])
    BY <1>6, <2>1, <2>2
  <2> QED BY <1>1, <2>3 DEF Copies
<1>9. q.rl90 = p.rl90 \cup {y} /\ y \notin p.rl90 /\ p.rr45 = p.rl90 /\ p.rl45 = p.rl90
      /\ q.rr45 = q.rl90 /\ q.rl45 = q.rl90
  BY <1>1, <1>3, <1>5 DEF Copies
<1>10. /\ r.rl90 = q.rl90 /\ r.rr45 = q.rr45 /\ r.rl45 = q.rl45
       /\ r.bb = p.bb /\ r.union = p.union /\ r.pawn_atk = p.pawn_atk
  <2>1. HasFields(p)
    BY DEF IsPosition
  <2>2. /\ r.rl90 = Toggle(p.rl90, {y}) /\ r.rr45 = Toggle(p.rr45, {y}) /\ r.rl45 = Toggle(p.rl45, {y})
        /\ r.bb = p.bb /\ r.union = p.union /\ r.pawn_atk = p.pawn_atk
    BY <2>1 DEF Occupying, HasFields, Fields
  <2>3. Toggle(p.rl90, {y}) = p.rl90 \cup {y}
    BY <1>9 DEF Toggle
  <2> QED BY <1>9, <2>2, <2>3
<1>11. q.pawn_atk[c] = p.pawn_atk[c] \cup {y + Ahead(c)}
  <2>1. OnBoard(q.board, c, {pawn}) = OnBoard(b, c, {pawn}) \cup {y}
    BY <1>4, <1>6
  <2>2. /\ q.pawn_atk[c] = {s + Ahead(c) : s \in OnBoard(q.board, c, {pawn})}
        /\ p.pawn_atk[c] = {s + Ahead(c) : s \in OnBoard(b, c, {pawn})}
    BY <1>1 DEF Copies
  <2> HIDE DEF b
  <2> QED BY <2>1, <2>2
<1>12. Strikers(c, r, t) = Strikers(c, q, t)
  <2>1. /\ {knight, silver, lance} \subseteq BoardKinds \ {pawn}
        /\ {"tgold", "hdk", "bh", "rd"} \subseteq DOMAIN Unions
    BY DEF BoardKinds, Kinds, Unions, pawn, king, knight, silver, lance
  <2>2. /\ r.bb[c][knight] = q.bb[c][knight] /\ r.bb[c][silver] = q.bb[c][silver]
        /\ r.bb[c][lance] = q.bb[c][lance]
        /\ r.union[c].tgold = q.union[c].tgold /\ r.union[c].hdk = q.union[c].hdk
        /\ r.union[c].bh = q.union[c].bh /\ r.union[c].rd = q.union[c].rd
    BY <1>7, <1>8, <1>10, <2>1
  <2>3. /\ AttackBishop(r, t) = AttackBishop(q, t)
        /\ AttackRank(r, t) = AttackRank(q, t)
        /\ AttackFile(r, t) = AttackFile(q, t)
    <3>1. r.occ = [p.occ EXCEPT ![c] = Toggle(p.occ[c], {y})]
      BY DEF Occupying, IsPosition, HasFields, Fields
    <3>2. /\ p.occ[black] \cup p.occ[white] = p.rl90
          /\ q.occ[black] \cup q.occ[white] = q.rl90
      <4>1. /\ p.occ[black] \cup p.occ[white] = Occupied(p)
            /\ q.occ[black] \cup q.occ[white] = Occupied(q)
        BY <1>1, OccupiedIsBoth
      <4>2. Occupied(p) = p.rl90 /\ Occupied(q) = q.rl90
        BY <1>1 DEF Copies, Occupied
      <4> QED BY <4>1, <4>2
    <3>3. r.occ[c] = p.occ[c] \cup {y} /\ r.occ[Flip(c)] = p.occ[Flip(c)]
      BY <3>1, <3>2, <1>9, Flips DEF IsPosition, Toggle, Colour
    <3>4. r.occ[black] \cup r.occ[white] = r.rl90
      <4>1. {black, white} = {c, Flip(c)}
        BY DEF Colour, Flip, black, white
      <4>2. /\ r.occ[black] \cup r.occ[white] = r.occ[c] \cup r.occ[Flip(c)]
            /\ p.occ[black] \cup p.occ[white] = p.occ[c] \cup p.occ[Flip(c)]
        BY <4>1
      <4> HIDE DEF r
      <4> QED BY <1>9, <1>10, <3>2, <3>3, <4>2
    <3>5. q.occ[black] \cup q.occ[white] = q.rl90
      BY <3>2
    <3> HIDE DEF r
    <3> QED BY <1>9, <1>10, <3>4, <3>5 DEF AttackBishop, AttackRank, AttackFile, AttackDiag1, AttackDiag2
  <2> HIDE DEF r
  <2> QED BY <2>2, <2>3 DEF Strikers
<1>13. is_attacked_by(c, r, t) <=> is_attacked_by(c, q, t)
  BY <1>10, <1>11, <1>12 DEF is_attacked_by
<1> QED BY <1>1, <1>13, AttackedByTheRules

(* A move of the other side that does not take the pawn leaves its check.  *)
LEMMA OthersLeaveTheCheck ==
  ASSUME NEW b, IsBoard(b), NEW c \in Colour, NEW y \in Square, b[y] = Signed(c, pawn),
         NEW t \in Square, t = y + Ahead(c), NEW x, NEW w \in Square, w # y, x # w,
         x \in Square => NotOf(c, b[x]), NEW v, NotOf(c, v)
  PROVE  Attacked(Moved(b, x, w, v), c, t)
<1>1. pawn \in Kinds
  BY KindsApart
<1>2. PICK p : p = [board |-> b]
  OBVIOUS
<1>3. Hits(b, c, y, t)
  BY <1>2, PawnsHit
<1>4. Aims(c, pawn, y, t)
  BY <1>1, <1>3, HitsAre
<1>5. abb_obstacle[y][t] = {}
  BY PawnIsNext
<1>6. Remains(b, c, pawn, y, x, w, t)
  BY <1>4, <1>5 DEF Remains
<1>7. Attacked(Moved(b, x, w, v), c, t) <=> \E z \in Square, k \in Kinds : Remains(b, c, k, z, x, w, t)
  BY AttackedAfter
<1> QED BY <1>1, <1>6, <1>7

(* A pawn dropped on y gives check to the king on t: q is the position     *)
(* after it.                                                               *)
Checking(c, p, y, q, t) ==
  /\ IsPosition(p) /\ Copies(p) /\ Alive(p) /\ KingIsSafe(c, p)
  /\ DropByRules(c, p, pawn, y)
  /\ PawnDropped(c, p, y, q)
  /\ t = p.sq_king[Flip(c)] /\ t = y + Ahead(c)
PawnChecks(c, d, p, y, q, t) ==
  /\ d \in Colour /\ d # c /\ Flip(d) = c /\ y \in Square /\ t \in Square /\ t # y
  /\ IsPosition(p) /\ Copies(p) /\ IsBoard(p.board) /\ p.board[y] = empty /\ t = p.sq_king[d]
  /\ p.board[t] = Signed(d, king)
  /\ ~Attacked(p.board, c, t)
  /\ IsPosition(q) /\ Copies(q) /\ IsBoard(q.board) /\ q.sq_king[d] = t
  /\ q.board = Moved(p.board, Drop2From(pawn), y, Signed(c, pawn)) /\ Drop2From(pawn) \notin Square
  /\ q.board[y] = Signed(c, pawn)
  /\ q.board[t] = Signed(d, king) /\ OnBoard(q.board, d, {king}) = {t}
  /\ \A z \in Square, k \in Kinds : Strikes(q.board, c, k, z, t) => z = y /\ k = pawn
  /\ Checked(q.board, d)
LEMMA CheckingFacts ==
  ASSUME NEW p, NEW c \in Colour, NEW d, d = Flip(c), NEW y, NEW q, NEW t, Checking(c, p, y, q, t)
  PROVE  PawnChecks(c, d, p, y, q, t)
<1>1. /\ IsPosition(p) /\ Copies(p) /\ KingIsSafe(c, p) /\ PawnDropped(c, p, y, q)
      /\ t = p.sq_king[d] /\ t = y + Ahead(c)
  BY DEF Checking
<1>2. y \in Square /\ p.board[y] = empty
  BY DEF Checking, DropByRules
<1>3. d \in Colour /\ d # c /\ Flip(d) = c
  BY Flips
<1>4. t \in Square
  BY <1>1, <1>3 DEF IsPosition
<1>5. /\ IsPosition(q) /\ Copies(q) /\ q.sq_king = p.sq_king
      /\ q.board = Moved(p.board, Drop2From(pawn), y, Signed(c, pawn))
  BY <1>1 DEF PawnDropped
<1>6. IsBoard(p.board) /\ IsBoard(q.board)
  BY <1>1, <1>5 DEF IsPosition, IsBoard
<1>7. ~Attacked(p.board, c, t)
  BY <1>1, <1>4, AttackedByTheRules DEF KingIsSafe
<1>8. Drop2From(pawn) \notin Square
  BY DEF Drop2From, nsquare, pawn, Square
<1>9. /\ \A z \in Square, k \in Kinds :
            Strikes(q.board, c, k, z, t) => z = y /\ k = pawn /\ t = y + Ahead(c)
      /\ Attacked(q.board, c, t) <=> t = y + Ahead(c)
  BY <1>2, <1>4, <1>5, <1>6, <1>7, <1>8, PawnChecksAlone
<1>10. /\ OnBoard(q.board, d, {king}) = {t} /\ q.sq_king[d] = t
       /\ q.board[t] = Signed(d, king) /\ p.board[t] = Signed(d, king)
  <2>1. OnBoard(q.board, d, {king}) = {t} /\ q.sq_king[d] = t
    BY <1>1, <1>3, <1>5 DEF Copies
  <2>2. \A o : Copies(o) => o.sq_king[d] \in Square /\ o.board[o.sq_king[d]] = Signed(d, king)
    BY <1>3, PieceOf
  <2> QED BY <1>1, <1>5, <2>1, <2>2
<1>11. q.board[y] = Signed(c, pawn)
  BY <1>2, <1>5 DEF Moved
<1>12. Checked(q.board, d)
  <2>1. KingOf(q.board, d) = t
    BY <1>3, <1>5, <1>10, TheKingIsThere
  <2> QED BY <1>1, <1>3, <1>9, <2>1 DEF Checked
<1>13. t # y
  BY <1>2, <1>3, <1>10, SignedIsOne, KindsApart
<1> QED BY <1>1, <1>2, <1>3, <1>4, <1>5, <1>6, <1>7, <1>8, <1>9, <1>10, <1>11, <1>12, <1>13 DEF PawnChecks

(* Where the king may go.                                                  *)
LEMMA KingsAnswers ==
  ASSUME NEW p, NEW c \in Colour, NEW d, d = Flip(c), NEW y, NEW q, NEW t, Checking(c, p, y, q, t),
         NEW s \in Square
  PROVE  /\ s \in abb_king_attacks[t] \ p.occ[d] <=> ByRules(d, q, king, t, s, FALSE)
         /\ ByRules(d, q, king, t, s, FALSE) =>
              (Safe(q.board, d, Board(q, king, FALSE, t, s)) <=> ~is_attacked_by(c, Occupying(c, p, y), s))
<1>1. /\ d \in Colour /\ d # c /\ Flip(d) = c /\ y \in Square /\ t \in Square /\ t # y
      /\ IsPosition(p) /\ Copies(p) /\ p.board[y] = empty
      /\ IsPosition(q) /\ Copies(q) /\ IsBoard(q.board)
      /\ q.board = Moved(p.board, Drop2From(pawn), y, Signed(c, pawn)) /\ Drop2From(pawn) \notin Square
      /\ q.board[y] = Signed(c, pawn)
      /\ q.board[t] = Signed(d, king) /\ OnBoard(q.board, d, {king}) = {t}
      /\ \A z \in Square, k \in Kinds : Strikes(q.board, c, k, z, t) => z = y /\ k = pawn
  <2>1. PawnChecks(c, d, p, y, q, t)
    BY CheckingFacts
  <2> QED BY <2>1 DEF PawnChecks
<1>2. king \in Kinds /\ king # pawn /\ pawn \in Kinds
  BY KindsApart
<1>3. s \in abb_king_attacks[t] <=> Hits(q.board, d, t, s)
  BY <1>1, <1>2, ReachIsHits, ReachOfKinds
<1>4. s \in p.occ[d] <=> Mine(d, q.board[s])
  <2>1. \A o : IsPosition(o) /\ Copies(o) => (s \in o.occ[d] <=> \E k \in Kinds : o.board[s] = Signed(d, k))
    BY <1>1 DEF Copies, OnBoard
  <2>2. CASE s = y
    <3>1. \A k \in Kinds : empty # Signed(d, k) /\ Signed(c, pawn) # Signed(d, k)
      BY <1>1, <1>2, SignedIsOne
    <3> QED BY <1>1, <2>1, <2>2, <3>1, MineInCopies
  <2>3. CASE s # y
    <3>1. q.board[s] = p.board[s]
      BY <1>1, <2>3 DEF Moved
    <3> QED BY <1>1, <2>1, <3>1, MineInCopies
  <2> QED BY <2>2, <2>3
<1>5. s \in abb_king_attacks[t] \ p.occ[d] <=> ByRules(d, q, king, t, s, FALSE)
  <2>1. ~Stuck(d, king, s)
    <3>1. king \in Kinds \ {pawn, lance, knight}
      BY DEF Kinds, king, lance, knight, pawn
    <3> QED BY <3>1, WhereStuck
  <2> QED BY <1>1, <1>2, <1>3, <1>4, <2>1 DEF ByRules
<1>6. ASSUME ByRules(d, q, king, t, s, FALSE)
      PROVE  Safe(q.board, d, Board(q, king, FALSE, t, s)) <=> ~is_attacked_by(c, Occupying(c, p, y), s)
  <2> DEFINE m == Board(q, king, FALSE, t, s)
             v == Signed(d, king)
             b2 == Moved(q.board, t, s, v)
  <2>1. s # t
    BY <1>1, <1>2, <1>6, AbsOfSigned DEF ByRules
  <2>2. After(q.board, d, m) = b2
    <3>1. PICK m2 : m2 = m
      OBVIOUS
    <3>2. m2.from = t /\ m2.to = s /\ m2.piece = king /\ m2.promo = FALSE
      BY <3>1 DEF Board, Move
    <3>3. ~(t > 80)
      BY <1>1 DEF Square
    <3>4. After(q.board, d, m2) = Moved(q.board, t, s, v)
      <4> HIDE DEF m
      <4> QED BY <3>2, <3>3 DEF After, Moved, Signed
    <3> QED BY <3>1, <3>4
  <2>3. KingOf(b2, d) = s
    BY <1>1, <2>1, TheKingMoved
  <2>4. NotOf(c, v)
    BY <1>1, <1>2, SignedIsOne DEF NotOf, Pieces
  <2>5. \A z \in Square, k \in Running : ~Strikes(q.board, c, k, z, t)
    <3>1. Running \subseteq Kinds /\ pawn \notin Running
      BY DEF Running, Kinds, pawn, lance, bishop, rook, horse, dragon
    <3> QED BY <1>1, <3>1
  <2>6. Attacked(b2, c, s) <=> Attacked(q.board, c, s)
    BY <1>1, <2>1, <2>4, <2>5, KingSteps
  <2>7. s # y + Ahead(c)
    BY <2>1 DEF Checking
  <2>8. is_attacked_by(c, Occupying(c, p, y), s) <=> Attacked(q.board, c, s)
    <3>1. PawnDropped(c, p, y, q)
      BY DEF Checking
    <3> QED BY <1>1, <2>7, <3>1, MarkedIsDropped
  <2> QED BY <1>1, <2>2, <2>3, <2>6, <2>8 DEF Safe, Checked
<1> QED BY <1>5, <1>6

(* A pawn just dropped is in the way of nothing that hits its square.      *)
LEMMA HitsOnThePawn ==
  ASSUME NEW b, IsBoard(b), NEW y \in Square, NEW z, z \notin Square, NEW v \in Pieces, v # empty,
         NEW d \in Colour, NEW k \in Kinds, NEW x \in Square, b[x] = Signed(d, k), x # y,
         NEW b2, b2 = Moved(b, z, y, v)
  PROVE  b2[x] = b[x] /\ (Hits(b2, d, x, y) <=> Hits(b, d, x, y))
<1>1. /\ Taken(b2) = (Taken(b) \ {z}) \cup {y}
      /\ \A s \in Square \ {z, y} : b2[s] = b[s]
  <2>1. z # y
    OBVIOUS
  <2> QED BY <2>1, MovedBoard, SMTT(30)
<1>2. b2[x] = b[x]
  BY <1>1
<1>3. Taken(b2) = Taken(b) \cup {y}
  BY <1>1 DEF Taken
<1>4. y \notin abb_obstacle[x][y]
  BY BetweenIsSquares
<1>5. Hits(b, d, x, y) <=> Aims(d, k, x, y) /\ abb_obstacle[x][y] \cap Taken(b) = {}
  BY HitsAre
<1>6. Hits(b2, d, x, y) <=> Aims(d, k, x, y) /\ abb_obstacle[x][y] \cap Taken(b2) = {}
  BY <1>2, HitsAre
<1> QED BY <1>2, <1>3, <1>4, <1>5, <1>6

(* What a side's own pieces are.                                           *)
LEMMA OwnAreNot ==
  ASSUME NEW c \in Colour, NEW d \in Colour, d # c, NEW k \in Kinds
  PROVE  NotOf(c, Signed(d, k))
  BY SignedIsOne DEF NotOf, Pieces

(* The squares of a step of the other side, and what comes.                *)
LEMMA AfterStep ==
  ASSUME NEW q, NEW d \in Colour, NEW k \in Kinds, k # king, NEW x \in Square, NEW w \in Square, NEW f \in BOOLEAN,
         ByRules(d, q, k, x, w, f), NEW t \in Square, q.board[t] = Signed(d, king),
         NEW m, m = Board(q, k, f, x, w)
  PROVE  /\ q.board[x] = Signed(d, k) /\ x # t /\ w # t /\ x # w
         /\ \E j \in Kinds \ {king} : After(q.board, d, m) = Moved(q.board, x, w, Signed(d, j))
<1>1. /\ q.board[x] = Signed(d, k) /\ ~Mine(d, q.board[w])
      /\ f => k \in Promotable
  BY DEF ByRules
<1>2. king \in Kinds
  BY KindsApart
<1>3. Mine(d, q.board[x]) /\ Mine(d, q.board[t])
  BY <1>1, <1>2, AbsOfSigned
<1>4. x # t
  BY <1>1, <1>2, SignedIsOne
<1>6. m.from = x /\ m.to = w /\ m.piece = k /\ m.promo = f
  BY PartsOfSteps
<1>7. ~(x > 80)
  BY DEF Square
<1>8. CASE f
  <2>1. k + promote \in Kinds \ {king}
    BY <1>1, <1>8, KindsAreNumbers
  <2>2. After(q.board, d, m) = Moved(q.board, x, w, Signed(d, k + promote))
    BY <1>6, <1>7, <1>8 DEF After, Moved, Signed
  <2> QED BY <1>1, <1>3, <1>4, <2>1, <2>2
<1>9. CASE ~f
  <2>1. After(q.board, d, m) = Moved(q.board, x, w, Signed(d, k))
    BY <1>6, <1>7, <1>9 DEF After, Moved, Signed
  <2> QED BY <1>1, <1>3, <1>4, <2>1
<1> QED BY <1>8, <1>9

(* A piece other than the king answers the check by taking the pawn only,  *)
(* and only if it does not open a line to the king.                        *)
LEMMA OtherAnswers ==
  ASSUME NEW p, NEW c \in Colour, NEW d, d = Flip(c), NEW y, NEW q, NEW t, Checking(c, p, y, q, t),
         NEW k \in Kinds, k # king, NEW x \in Square, NEW w \in Square, NEW f \in BOOLEAN, ByRules(d, q, k, x, w, f)
  PROVE  Safe(q.board, d, Board(q, k, f, x, w)) <=> w = y /\ ~IsDiscover(d, p, x, y)
<1>1. /\ d \in Colour /\ d # c /\ Flip(d) = c /\ y \in Square /\ t \in Square /\ t # y
      /\ IsPosition(p) /\ Copies(p) /\ IsBoard(p.board) /\ p.board[y] = empty /\ t = p.sq_king[d]
      /\ ~Attacked(p.board, c, t)
      /\ IsBoard(q.board)
      /\ q.board = Moved(p.board, Drop2From(pawn), y, Signed(c, pawn)) /\ Drop2From(pawn) \notin Square
      /\ q.board[y] = Signed(c, pawn)
      /\ q.board[t] = Signed(d, king) /\ OnBoard(q.board, d, {king}) = {t}
  <2>1. PawnChecks(c, d, p, y, q, t)
    BY CheckingFacts
  <2> QED BY <2>1 DEF PawnChecks
<1>2. t = y + Ahead(c)
  BY DEF Checking
<1>3. king \in Kinds /\ pawn \in Kinds
  BY KindsApart
<1>11. PICK m : m = Board(q, k, f, x, w)
  OBVIOUS
<1>4. /\ q.board[x] = Signed(d, k) /\ x # t /\ w # t /\ x # w
      /\ \E j \in Kinds \ {king} : After(q.board, d, m) = Moved(q.board, x, w, Signed(d, j))
  BY <1>1, <1>11, AfterStep
<1>5. PICK j \in Kinds \ {king} : After(q.board, d, m) = Moved(q.board, x, w, Signed(d, j))
  BY <1>4
<1>6. Signed(d, j) # Signed(d, king) /\ NotOf(c, Signed(d, j)) /\ NotOf(c, q.board[x])
  BY <1>1, <1>3, <1>4, SignedIsOne, OwnAreNot
<1>7. KingOf(Moved(q.board, x, w, Signed(d, j)), d) = t
  <2>1. x # t /\ w # t /\ d \in Colour /\ t \in Square /\ OnBoard(q.board, d, {king}) = {t}
    BY <1>1, <1>4
  <2>2. PICK v : v = Signed(d, j)
    OBVIOUS
  <2>3. KingOf(Moved(q.board, x, w, v), d) = t
    BY <1>6, <2>1, <2>2, TheKingStays
  <2> QED BY <2>2, <2>3
<1>8. Safe(q.board, d, Board(q, k, f, x, w)) <=> ~Attacked(Moved(q.board, x, w, Signed(d, j)), c, t)
  BY <1>1, <1>5, <1>7, <1>11 DEF Safe, Checked
<1>9. CASE w # y
  BY <1>1, <1>2, <1>4, <1>6, <1>8, <1>9, OthersLeaveTheCheck
<1>10. CASE w = y
  <2>1. x # y
    BY <1>4, <1>10
  <2>2. Signed(c, pawn) \in Pieces /\ Signed(c, pawn) # empty
    BY <1>3, SignedIsOne DEF Pieces
  <2>3. q.board[x] = p.board[x]
    BY <1>1, <2>1 DEF Moved
  <2>4. p.board[x] = Signed(d, k)
    BY <1>4, <2>3
  <2>5. Hits(p.board, d, x, y)
    <3>1. Hits(q.board, d, x, y)
      BY <1>10 DEF ByRules
    <3> QED BY <1>1, <2>1, <2>2, <2>4, <3>1, HitsOnThePawn
  <2>6. Moved(q.board, x, w, Signed(d, j)) = Moved(p.board, x, y, Signed(d, j))
    BY <1>1, <1>10 DEF Moved
  <2>7. Attacked(Moved(p.board, x, y, Signed(d, j)), c, t) <=> Opens(p.board, c, x, y, t)
    BY <1>1, <1>6, <2>1, <2>3, AttackedAfter DEF Opens
  <2>8. IsDiscover(d, p, x, y) <=> Opens(p.board, c, x, y, t)
    <3>1. \A i \in Kinds : p.board[y] # Signed(c, i)
      BY <1>1, SignedIsOne
    <3> QED BY <1>1, <1>4, <2>4, <2>5, <3>1, DiscoverIs
  <2> QED BY <1>8, <1>10, <2>6, <2>7, <2>8
<1> QED BY <1>9, <1>10

(* No drop answers the check.                                              *)
LEMMA DropAnswers ==
  ASSUME NEW p, NEW c \in Colour, NEW d, d = Flip(c), NEW y, NEW q, NEW t, Checking(c, p, y, q, t),
         NEW h, NEW m \in Drops(q.board, h, d)
  PROVE  ~Safe(q.board, d, m)
<1>1. /\ d \in Colour /\ d # c /\ Flip(d) = c /\ y \in Square /\ t \in Square /\ t # y
      /\ IsBoard(q.board) /\ q.board[y] = Signed(c, pawn)
      /\ q.board[t] = Signed(d, king) /\ OnBoard(q.board, d, {king}) = {t}
  <2>1. PawnChecks(c, d, p, y, q, t)
    BY CheckingFacts
  <2> QED BY <2>1 DEF PawnChecks
<1>2. t = y + Ahead(c)
  BY DEF Checking
<1>3. PICK k \in Hands, w \in Square : q.board[w] = empty /\ m.from = 80 + k /\ m.to = w
  BY DEF Drops
<1>4. king \in Kinds /\ pawn \in Kinds /\ k \in Kinds /\ k # king
  BY KindsAreNumbers
<1>5. 80 + k > 80 /\ 80 + k \notin Square /\ (80 + k) - 80 = k
  BY DEF Hands, Square, pawn, rook
<1>6. After(q.board, d, m) = Moved(q.board, 80 + k, w, Signed(d, k))
  BY <1>3, <1>5 DEF After, Moved, Signed
<1>7. w # y /\ w # t
  BY <1>1, <1>3, <1>4, SignedIsOne
<1>8. Signed(d, k) # Signed(d, king) /\ NotOf(c, Signed(d, k))
  BY <1>1, <1>4, SignedIsOne, OwnAreNot
<1>9. KingOf(After(q.board, d, m), d) = t
  BY <1>1, <1>5, <1>6, <1>7, <1>8, TheKingStays
<1>10. Attacked(After(q.board, d, m), c, t)
  BY <1>1, <1>2, <1>5, <1>6, <1>7, <1>8, OthersLeaveTheCheck
<1> QED BY <1>1, <1>9, <1>10 DEF Safe, Checked

(* Every move after a pawn gives check, made safe or not.                  *)
Refuted(q, h, d) == \A m \in BoardMoves(q.board, d) \cup Drops(q.board, h, d) : ~Safe(q.board, d, m)

LEMMA MateRefutes ==
  ASSUME NEW p, NEW c \in Colour, NEW d, d = Flip(c), NEW y, NEW q, NEW t, Checking(c, p, y, q, t),
         is_mate_pawn_drop(c, p, y), NEW h
  PROVE  Refuted(q, h, d)
<1>1. /\ d \in Colour /\ d # c /\ y \in Square /\ t \in Square /\ t # y
      /\ IsPosition(p) /\ Copies(p) /\ IsBoard(p.board) /\ p.board[y] = empty /\ t = p.sq_king[d]
      /\ p.board[t] = Signed(d, king)
      /\ IsPosition(q) /\ Copies(q) /\ IsBoard(q.board)
      /\ q.board = Moved(p.board, Drop2From(pawn), y, Signed(c, pawn)) /\ Drop2From(pawn) \notin Square
      /\ q.board[y] = Signed(c, pawn)
      /\ OnBoard(q.board, d, {king}) = {t}
  <2>1. PawnChecks(c, d, p, y, q, t)
    BY CheckingFacts
  <2> QED BY <2>1 DEF PawnChecks
<1>2. t = y + Ahead(c)
  BY DEF Checking
<1>3. /\ \A x \in Takers(c, p, y) : IsDiscover(d, p, x, y)
      /\ \A s \in abb_king_attacks[t] \ p.occ[d] : is_attacked_by(c, Occupying(c, p, y), s)
  BY <1>1 DEF is_mate_pawn_drop, Takers
<1>4. ASSUME NEW k \in Kinds, NEW x \in Square, NEW w \in Square, NEW f \in BOOLEAN, ByRules(d, q, k, x, w, f)
      PROVE  ~Safe(q.board, d, Board(q, k, f, x, w))
  <2>1. q.board[x] = Signed(d, k) /\ (f => k \in Promotable) /\ Hits(q.board, d, x, w)
    BY <1>4 DEF ByRules
  <2>2. CASE k = king
    <3>1. x = t
      BY <1>1, <2>1, <2>2 DEF OnBoard
    <3>2. f = FALSE
      BY <2>1, <2>2, KindsAreNumbers
    <3>3. ByRules(d, q, king, t, w, FALSE)
      BY <1>4, <2>2, <3>1, <3>2
    <3>4. w \in abb_king_attacks[t] \ p.occ[d]
      BY <3>3, KingsAnswers
    <3>5. Safe(q.board, d, Board(q, king, FALSE, t, w)) <=> ~is_attacked_by(c, Occupying(c, p, y), w)
      BY <3>3, KingsAnswers
    <3> QED BY <1>3, <2>2, <3>1, <3>2, <3>4, <3>5
  <2>3. CASE k # king
    <3> SUFFICES ASSUME Safe(q.board, d, Board(q, k, f, x, w)) PROVE FALSE
      OBVIOUS
    <3>1. w = y /\ ~IsDiscover(d, p, x, y)
      BY <1>4, <2>3, OtherAnswers
    <3>2. pawn \in Kinds /\ Signed(c, pawn) \in Pieces /\ Signed(c, pawn) # empty
      BY KindsApart, SignedIsOne DEF Pieces
    <3>3. x # y
      BY <1>1, <2>1, <3>2, SignedIsOne
    <3>4. p.board[x] = Signed(d, k)
      BY <1>1, <2>1, <3>3 DEF Moved
    <3>5. Hits(p.board, d, x, y)
      BY <1>1, <2>1, <3>1, <3>2, <3>3, <3>4, HitsOnThePawn
    <3>6. k \notin {pawn, lance}
      BY <1>1, <1>2, <3>4, <3>5, NeitherPawnNorLanceTakes
    <3>7. x \in Takers(c, p, y)
      <4>1. k \in Kinds \ {pawn, lance, king}
        BY <2>3, <3>6
      <4> QED BY <1>1, <3>4, <3>5, <4>1, TakersAre
    <3> QED BY <1>3, <3>1, <3>7
  <2> QED BY <2>2, <2>3
<1>5. ASSUME NEW m \in BoardMoves(q.board, d) PROVE ~Safe(q.board, d, m)
  <2>1. \A n : n \in BoardMoves(q.board, d) <=>
          \E k \in Kinds, s \in Square, w \in Square, f \in BOOLEAN :
            ByRules(d, q, k, s, w, f) /\ n = Board(q, k, f, s, w)
    BY <1>1, BoardMovesAre
  <2>2. PICK k \in Kinds, s \in Square, w \in Square, f \in BOOLEAN :
               ByRules(d, q, k, s, w, f) /\ m = Board(q, k, f, s, w)
    BY <2>1
  <2> QED BY <1>4, <2>2
<1> QED BY <1>5, DropAnswers DEF Refuted

LEMMA RefutedIsMate ==
  ASSUME NEW p, NEW c \in Colour, NEW d, d = Flip(c), NEW y, NEW q, NEW t, Checking(c, p, y, q, t),
         NEW h, Refuted(q, h, d)
  PROVE  is_mate_pawn_drop(c, p, y)
<1>1. /\ d \in Colour /\ d # c /\ y \in Square /\ t \in Square /\ t # y
      /\ IsPosition(p) /\ Copies(p) /\ IsBoard(p.board) /\ p.board[y] = empty /\ t = p.sq_king[d]
      /\ IsPosition(q) /\ Copies(q) /\ IsBoard(q.board)
      /\ q.board = Moved(p.board, Drop2From(pawn), y, Signed(c, pawn)) /\ Drop2From(pawn) \notin Square
      /\ q.board[y] = Signed(c, pawn)
  <2>1. PawnChecks(c, d, p, y, q, t)
    BY CheckingFacts
  <2> QED BY <2>1 DEF PawnChecks
<1>2. pawn \in Kinds /\ king \in Kinds /\ Signed(c, pawn) \in Pieces /\ Signed(c, pawn) # empty
  BY KindsApart, SignedIsOne DEF Pieces
<1>3. ASSUME NEW k \in Kinds, NEW x \in Square, NEW w \in Square, NEW f \in BOOLEAN, ByRules(d, q, k, x, w, f)
      PROVE  ~Safe(q.board, d, Board(q, k, f, x, w))
  <2>1. \A n : n \in BoardMoves(q.board, d) <=>
          \E i \in Kinds, s \in Square, v \in Square, g \in BOOLEAN :
            ByRules(d, q, i, s, v, g) /\ n = Board(q, i, g, s, v)
    BY <1>1, BoardMovesAre
  <2>2. Board(q, k, f, x, w) \in BoardMoves(q.board, d)
    BY <1>3, <2>1
  <2> QED BY <2>2 DEF Refuted
<1>4. ASSUME NEW s \in abb_king_attacks[t] \ p.occ[d] PROVE is_attacked_by(c, Occupying(c, p, y), s)
  <2>1. s \in Square
    BY <1>1, StepsAreMutual
  <2>2. ByRules(d, q, king, t, s, FALSE)
    BY <2>1, KingsAnswers
  <2>3. FALSE \in BOOLEAN
    OBVIOUS
  <2>4. ~Safe(q.board, d, Board(q, king, FALSE, t, s))
    BY <1>1, <1>2, <1>3, <2>1, <2>2, <2>3
  <2>5. Safe(q.board, d, Board(q, king, FALSE, t, s)) <=> ~is_attacked_by(c, Occupying(c, p, y), s)
    BY <2>1, <2>2, KingsAnswers
  <2> QED BY <2>4, <2>5
<1>5. ASSUME NEW x \in Takers(c, p, y) PROVE IsDiscover(d, p, x, y)
  <2>1. PICK k \in Kinds \ {pawn, lance, king} : x \in Square /\ p.board[x] = Signed(d, k) /\ Hits(p.board, d, x, y)
    BY <1>1, TakersAre
  <2>2. x # y
    BY <1>1, <2>1, SignedIsOne
  <2>3. q.board[x] = Signed(d, k) /\ Hits(q.board, d, x, y)
    BY <1>1, <1>2, <2>1, <2>2, HitsOnThePawn
  <2>4. ~Mine(d, q.board[y])
    <3>1. \A i \in Kinds : q.board[y] # Signed(d, i)
      BY <1>1, <1>2, SignedIsOne
    <3>2. q.board[y] \in Pieces
      BY <1>1 DEF IsBoard
    <3> QED BY <1>1, <3>1, <3>2, MineIsSigned
  <2>5. Stuck(d, k, y) => k \in Promotable /\ y \in Zone(d)
    <3>1. ASSUME Stuck(d, k, y) PROVE k = knight /\ y \in Zone(d)
      <4>1. k = knight
        BY <1>1, <2>1, <3>1, WhereStuck
      <4>2. y \in Deep(d)
        BY <1>1, <3>1, <4>1, WhereStuck
      <4> QED BY <1>1, <4>1, <4>2 DEF Deep, Zone, Row, airank, Square
    <3> QED BY <3>1, KindsApart
  <2>6. PICK f \in BOOLEAN : f <=> Stuck(d, k, y)
    OBVIOUS
  <2>7. ByRules(d, q, k, x, y, f)
    BY <1>1, <2>1, <2>3, <2>4, <2>5, <2>6 DEF ByRules
  <2>8. ~Safe(q.board, d, Board(q, k, f, x, y))
    BY <1>1, <1>3, <2>1, <2>7
  <2>9. k \in Kinds /\ k # king /\ x \in Square /\ y \in Square
    BY <1>1, <2>1
  <2>10. Safe(q.board, d, Board(q, k, f, x, y)) <=> y = y /\ ~IsDiscover(d, p, x, y)
    BY <2>7, <2>9, OtherAnswers
  <2> QED BY <2>8, <2>10
<1> QED BY <1>1, <1>4, <1>5 DEF is_mate_pawn_drop, Takers

(* is_mate_b_pawn_drop and is_mate_w_pawn_drop are right.                  *)
LEMMA MateIsMate ==
  ASSUME NEW p, IsPosition(p), Copies(p), Alive(p), NEW c \in Colour, KingIsSafe(c, p),
         NEW y, DropByRules(c, p, pawn, y)
  PROVE  IsMatePawnDrop(c, p, y) <=> PawnDropMate(p.board, p.hand, c, DropMove(pawn, y))
<1>1. PICK d \in Colour : d = Flip(c) /\ d # c
  BY Flips
<1>2. PICK t \in Square : t = p.sq_king[d]
  BY DEF IsPosition
<1>3. PICK q : q = make_move(c, p, DropMove(pawn, y))
  OBVIOUS
<1>4. PawnDropped(c, p, y, q)
  BY <1>3, PawnIsDropped
<1>5. PICK h : h = HandAfter(p.hand, c, DropMove(pawn, y))
  OBVIOUS
<1>6. PawnDropMate(p.board, p.hand, c, DropMove(pawn, y)) <=> Mated(q.board, h, d)
  <2>1. DropMove(pawn, y).from = 80 + pawn
    BY DEF DropMove, Move, Drop2From, nsquare, pawn
  <2>2. q.board = After(p.board, c, DropMove(pawn, y))
    BY <1>4 DEF PawnDropped
  <2> QED BY <1>1, <1>5, <2>1, <2>2 DEF PawnDropMate
<1>7. y \in Square /\ p.board[y] = empty /\ y + Ahead(c) \in Square
  <2>1. y \in Square /\ p.board[y] = empty /\ ~Stuck(c, pawn, y)
    BY DEF DropByRules
  <2>2. Row(c, y) >= 1
    BY <2>1, WhereStuck
  <2> QED BY <2>1, <2>2 DEF Row, Ahead, airank, Square, Colour, black, white
<1>8. p.board[y + Ahead(c)] = Signed(d, king) <=> t = y + Ahead(c)
  <2>1. OnBoard(p.board, d, {king}) = {t}
    BY <1>2 DEF Copies
  <2> QED BY <1>7, <2>1 DEF OnBoard
<1>9. IsMatePawnDrop(c, p, y) <=> t = y + Ahead(c) /\ is_mate_pawn_drop(c, p, y)
  BY <1>1, <1>8 DEF IsMatePawnDrop
<1>10. CASE t = y + Ahead(c)
  <2>1. Checking(c, p, y, q, t)
    BY <1>1, <1>2, <1>4, <1>10 DEF Checking
  <2>2. Checked(q.board, d)
    <3>1. PawnChecks(c, d, p, y, q, t)
      BY <1>1, <2>1, CheckingFacts
    <3> QED BY <3>1 DEF PawnChecks
  <2>3. Mated(q.board, h, d) <=> Refuted(q, h, d)
    BY <2>2 DEF Mated, Refuted
  <2>4. is_mate_pawn_drop(c, p, y) => Refuted(q, h, d)
    BY <1>1, <2>1, MateRefutes
  <2>5. Refuted(q, h, d) => is_mate_pawn_drop(c, p, y)
    BY <1>1, <2>1, RefutedIsMate
  <2> QED BY <1>6, <1>9, <1>10, <2>3, <2>4, <2>5
<1>11. CASE t # y + Ahead(c)
  <2>1. ~Attacked(p.board, c, t)
    BY <1>1, <1>2, AttackedByTheRules DEF KingIsSafe
  <2>2. /\ IsPosition(q) /\ Copies(q) /\ q.sq_king = p.sq_king
        /\ q.board = Moved(p.board, Drop2From(pawn), y, Signed(c, pawn))
    BY <1>4 DEF PawnDropped
  <2>3. Drop2From(pawn) \notin Square
    BY DEF Drop2From, nsquare, pawn, Square
  <2>4. IsBoard(p.board)
    BY DEF IsPosition, IsBoard
  <2>5. ~Attacked(q.board, c, t)
    BY <1>7, <1>11, <2>1, <2>2, <2>3, <2>4, PawnChecksAlone
  <2>6. KingOf(q.board, d) = t
    BY <1>2, <2>2, TheKingIsThere
  <2>7. Flip(d) = c
    BY <1>1, Flips
  <2>8. ~Checked(q.board, d)
    BY <2>5, <2>6, <2>7 DEF Checked
  <2> QED BY <1>6, <1>9, <1>11, <2>8 DEF Mated
<1> QED BY <1>10, <1>11

(***************************************************************************)
(* The generators find the legal moves.                                    *)
(***************************************************************************)

(* The engine's moves are those of the rules.                              *)
LEMMA MovesByRulesArePseudoLegal ==
  ASSUME NEW p, IsPosition(p), Copies(p), Alive(p), NEW c \in Colour, KingIsSafe(c, p)
  PROVE  MovesByRules(c, p) = PseudoLegal(p.board, p.hand, c)
<1>1. ASSUME NEW m \in Drops(p.board, p.hand, c)
      PROVE  (m.from = Drop2From(pawn) => ~IsMatePawnDrop(c, p, m.to)) <=> ~PawnDropMate(p.board, p.hand, c, m)
  <2>1. PICK k \in Hands, t \in Square : DropByRules(c, p, k, t) /\ m = DropMove(k, t)
    BY DropsAre
  <2>2. m.from = 80 + k /\ m.to = t /\ Drop2From(pawn) = 80 + pawn
    BY <2>1 DEF DropMove, Move, Drop2From, nsquare
  <2>3. CASE k = pawn
    <3>1. IsMatePawnDrop(c, p, t) <=> PawnDropMate(p.board, p.hand, c, DropMove(pawn, t))
      BY <2>1, <2>3, MateIsMate
    <3> QED BY <2>1, <2>2, <2>3, <3>1
  <2>4. CASE k # pawn
    <3>1. m.from # 80 + pawn
      BY <2>2, <2>4 DEF Hands, pawn, rook
    <3> QED BY <2>2, <3>1 DEF PawnDropMate
  <2> QED BY <2>3, <2>4
<1> QED BY <1>1 DEF MovesByRules, PseudoLegal

(* is_mate_b_pawn_drop and is_mate_w_pawn_drop (attack.c:104) tell of a     *)
(* pawn that may be dropped on a square whether that gives mate by the     *)
(* rules: whatever could take it, pinned or not, and wherever the king     *)
(* could go, also where the pawn shuts the line of a piece behind it.      *)
THEOREM PawnDropMatesAreFound ==
  Spec => [](Sound => \A t \in Square :
               DropByRules(turn, pos, pawn, t) =>
                 (IsMatePawnDrop(turn, pos, t) <=> PawnDropMate(board, hand, turn, DropMove(pawn, t))))
<1>1. ASSUME WalkInv, Sound, NEW t \in Square, DropByRules(turn, pos, pawn, t)
      PROVE  IsMatePawnDrop(turn, pos, t) <=> PawnDropMate(board, hand, turn, DropMove(pawn, t))
  <2>1. Sane(pos) /\ turn \in Colour /\ ~InCheck(Flip(turn), pos)
    BY <1>1 DEF WalkInv, Walk, Reached, Sound
  <2>2. KingIsSafe(turn, pos)
    BY <2>1, Flips DEF KingIsSafe, InCheck
  <2> QED BY <1>1, <2>1, <2>2, MateIsMate DEF Sane, board, hand
<1>2. WalkInv => (Sound => \A t \in Square :
        DropByRules(turn, pos, pawn, t) =>
          (IsMatePawnDrop(turn, pos, t) <=> PawnDropMate(board, hand, turn, DropMove(pawn, t))))
  BY <1>1
<1> QED BY <1>2, EveryWalk, PTL

(* A move remembered from an earlier position of the walk passes           *)
(* is_move_valid (valid.c:7) only where it may be played here as well.     *)
THEOREM RememberedMovesAreCheckedByTheRules == Spec => []RememberedMovesAreChecked
<1>1. ASSUME WalkInv, Sound => \A m \in Remembered : is_move_valid(turn, pos, m) <=> m \in MovesByRules(turn, pos)
      PROVE  RememberedMovesAreChecked
  <2> SUFFICES ASSUME Sound
               PROVE  \A m \in Remembered : is_move_valid(turn, pos, m) <=> m \in PseudoLegal(board, hand, turn)
    BY DEF RememberedMovesAreChecked
  <2>1. Sane(pos) /\ turn \in Colour /\ ~InCheck(Flip(turn), pos)
    BY <1>1 DEF WalkInv, Walk, Reached, Sound
  <2>2. KingIsSafe(turn, pos)
    BY <2>1, Flips DEF KingIsSafe, InCheck
  <2>3. MovesByRules(turn, pos) = PseudoLegal(pos.board, pos.hand, turn)
    BY <2>1, <2>2, MovesByRulesArePseudoLegal DEF Sane
  <2> QED BY <1>1, <2>3 DEF board, hand
<1>2. WalkInv /\ (Sound => \A m \in Remembered : is_move_valid(turn, pos, m) <=> m \in MovesByRules(turn, pos))
        => RememberedMovesAreChecked
  BY <1>1
<1> QED BY <1>2, EveryWalk, RememberedMovesAreByTheRules, PTL

(* Out of check the generators find the legal moves: what they make and    *)
(* the search does not throw away because the king is left attacked        *)
(* (gencap.c, gennocap.c, gendrop.c, movgenex.c).                          *)
THEOREM QuietPositionsAreComplete ==
  Spec => [](Sound /\ ~InCheck(turn, pos) => FoundWith(GenEx2(turn, pos)))
<1>1. ASSUME WalkInv, Sound, ~InCheck(turn, pos)
      PROVE  FoundWith(GenEx2(turn, pos))
  <2>1. Sane(pos) /\ turn \in Colour /\ ~InCheck(Flip(turn), pos)
    BY <1>1 DEF WalkInv, Walk, Reached, Sound
  <2>2. KingIsSafe(turn, pos)
    BY <2>1, Flips DEF KingIsSafe, InCheck
  <2>3. MovesByRules(turn, pos) = PseudoLegal(pos.board, pos.hand, turn)
    BY <2>1, <2>2, MovesByRulesArePseudoLegal DEF Sane
  <2>4. {m \in Generated(turn, pos) : ~InCheck(turn, MakeMove(turn, pos, m))}
          = {m \in MovesByRules(turn, pos) : Safe(pos.board, turn, m)}
    BY <1>1, <2>1, <2>2, SafeOnesAreKept DEF Sane
  <2>5. Generated(turn, pos) = GenAll(turn, pos) \cup GenEx2(turn, pos)
    BY <1>1 DEF Generated
  <2>6. LegalMoves = {m \in MovesByRules(turn, pos) : Safe(pos.board, turn, m)}
    BY <2>3 DEF LegalMoves, Legal, board, hand
  <2> QED BY <1>1, <2>4, <2>5, <2>6 DEF FoundWith
<1>2. WalkInv => (Sound /\ ~InCheck(turn, pos) => FoundWith(GenEx2(turn, pos)))
  BY <1>1
<1> QED BY <1>2, EveryWalk, PTL

(***************************************************************************)
(* Answers to a check.  genevasn.c lifts the king off the board to see where*)
(* it may go, and lets the pieces that are not pinned take what gives check*)
(* or come between, if a single piece does.                                *)
(***************************************************************************)

(* A piece does not step to its own square.                                *)
LEMMA NotOnItself ==
  ASSUME NEW e \in Colour, NEW t \in Square
  PROVE  t \notin Knight(e, t) /\ t \notin Silver(e, t) /\ t \notin Gold(e, t) /\ t \notin abb_king_attacks[t]
<1>1. ASSUME NEW S, t \in set_attacks(t, S),
             \A d \in S : \/ d[1] \in -1 .. 1 /\ d[2] \in -1 .. 1 /\ (d[1] # 0 \/ d[2] # 0)
                          \/ d[1] \in {-2, 2} /\ d[2] \in {-1, 1}
      PROVE  FALSE
  <2>1. PICK d \in S : t = t + 9 * d[1] + d[2]
    BY <1>1 DEF set_attacks
  <2> QED BY <1>1, <2>1 DEF Square
<1>2. /\ Knight(e, t) = set_attacks(t, Turned(e, KnightSteps))
      /\ Silver(e, t) = set_attacks(t, Turned(e, SilverSteps))
      /\ Gold(e, t) = set_attacks(t, Turned(e, GoldSteps))
      /\ abb_king_attacks[t] = set_attacks(t, Around)
  BY DEF Knight, abb_knight_attacks, abb_b_knight_attacks, abb_w_knight_attacks, Silver, abb_silver_attacks,
         Gold, abb_gold_attacks, abb_king_attacks, Turned, Colour, black, white
<1>3. /\ \A d \in Turned(e, KnightSteps) : d[1] \in {-2, 2} /\ d[2] \in {-1, 1}
      /\ \A d \in Turned(e, SilverSteps) \cup Turned(e, GoldSteps) \cup Around :
           d[1] \in -1 .. 1 /\ d[2] \in -1 .. 1 /\ (d[1] # 0 \/ d[2] # 0)
  <2>2. \A d \in Turned(e, KnightSteps) : d[1] \in {-2, 2} /\ d[2] \in {-1, 1}
    BY DEF Turned, KnightSteps
  <2>3. \A d \in Turned(e, SilverSteps) : d[1] \in -1 .. 1 /\ d[2] \in -1 .. 1 /\ (d[1] # 0 \/ d[2] # 0)
    BY DEF Turned, SilverSteps
  <2>4. \A d \in Turned(e, GoldSteps) : d[1] \in -1 .. 1 /\ d[2] \in -1 .. 1 /\ (d[1] # 0 \/ d[2] # 0)
    BY DEF Turned, GoldSteps
  <2>5. \A d \in Around : d[1] \in -1 .. 1 /\ d[2] \in -1 .. 1 /\ (d[1] # 0 \/ d[2] # 0)
    BY DEF Around
  <2> QED BY <2>2, <2>3, <2>4, <2>5
<1> QED BY <1>1, <1>2, <1>3

(* A slider sees no difference on its own square.                          *)
LEMMA OwnSquareApart ==
  ASSUME NEW e \in 2..5, NEW t \in Square, NEW X
  PROVE  Slide(e, t, X \cup {t}) = Slide(e, t, X) /\ t \notin Slide(e, t, X)
<1>1. \A u \in Line[e][t] : u \in Square /\ u # t
  BY DEF Line
<1>2. \A u \in Square : t \notin abb_obstacle[t][u]
  BY BetweenIsSquares
<1> QED BY <1>1, <1>2 DEF Slide

(* The position after the king has stepped from K to t.                    *)
KingMoved(c, p, K, t, q) ==
  /\ IsPosition(q) /\ Copies(q)
  /\ q.board = Moved(p.board, K, t, Signed(c, king))
  /\ q.sq_king[c] = t
LEMMA KingIsMoved ==
  ASSUME NEW p, IsPosition(p), Copies(p), Alive(p), NEW c \in Colour, KingIsSafe(c, p),
         NEW K, K = p.sq_king[c], NEW t \in Square, NEW f, f = FALSE, ByRules(c, p, king, K, t, f),
         NEW m, m = Board(p, king, f, K, t), NEW q, q = make_move(c, p, m)
  PROVE  /\ KingMoved(c, p, K, t, q)
         /\ InCheck(c, q) <=> ~Safe(p.board, c, m)
<1>1. m.from = K /\ m.to = t /\ m.piece = king /\ m.promo = f /\ ~IsDrop(m)
  BY PieceOf, PartsOfSteps
<1>2. m \in BoardMoves(p.board, c)
  <2>1. f \in BOOLEAN /\ king \in Kinds /\ K \in Square
    BY PieceOf, KindsApart
  <2> QED BY <2>1, BoardMovesAre
<1>3. Fits(c, p, m) /\ m.from \in Int
  BY <1>2, MovesByRulesAreGood DEF Good
<1>4. MadeOf(c, p, m, q)
  BY PositionHasFields, MadeFields
<1>5. IsPosition(q) /\ Copies(q)
  BY <1>3, MakingKeepsCopies
<1>6. q.board = BoardAfter(c, p, m) /\ q.sq_king = [p.sq_king EXCEPT ![c] = t]
  BY <1>1, <1>4 DEF MadeOf
<1>7. Comes(m) = king
  BY <1>1 DEF Comes
<1>8. q.board = Moved(p.board, K, t, Signed(c, king))
  <2>1. BoardAfter(c, p, m) = [s \in Square |-> IF s = m.to THEN Signed(c, Comes(m))
                                                ELSE IF s = m.from THEN empty ELSE p.board[s]]
    BY DEF BoardAfter
  <2> QED BY <1>1, <1>6, <1>7, <2>1 DEF Moved
<1>9. q.sq_king[c] = t
  BY <1>6 DEF IsPosition
<1>10. InCheck(c, q) <=> ~Safe(p.board, c, m)
  BY <1>3, SafetyIsTested, MoveIsMade
<1> QED BY <1>5, <1>8, <1>9, <1>10 DEF KingMoved

(* genevasn.c lifts the king off the occupancies to see where it may go:   *)
(* what attacks a square then attacks the king that has gone there.        *)
LEMMA LiftedIsMoved ==
  ASSUME NEW p, IsPosition(p), Copies(p), NEW c \in Colour, NEW d, d = Flip(c),
         NEW K \in Square, K = p.sq_king[c], NEW t \in Square, t # K,
         NEW q, KingMoved(c, p, K, t, q)
  PROVE  is_attacked_by(d, Occupying(c, p, K), t) <=> is_attacked_by(d, q, t)
<1> DEFINE r == Occupying(c, p, K)
           b == p.board
<1>1. IsPosition(q) /\ Copies(q) /\ q.board = Moved(b, K, t, Signed(c, king))
  BY DEF KingMoved
<1>2. \A s \in Square : q.board[s] = IF s = t THEN Signed(c, king) ELSE IF s = K THEN empty ELSE b[s]
  BY <1>1 DEF Moved
<1>3. pawn \in Kinds /\ king \in Kinds /\ BoardKinds \subseteq Kinds /\ pawn \in BoardKinds
  BY KindsApart
<1>4. Signed(c, king) # empty /\ b[K] = Signed(c, king)
  BY <1>3, SignedIsOne, PieceOf
<1>5. d \in Colour /\ d # c /\ Flip(d) = c
  BY Flips
<1>6. ASSUME NEW S \in SUBSET Kinds
      PROVE  OnBoard(q.board, d, S) = OnBoard(b, d, S) \ {t}
  <2>1. Signed(c, king) \notin {Signed(d, k) : k \in S} /\ empty \notin {Signed(d, k) : k \in S}
    BY <1>3, <1>5, SignedAmong
  <2> QED BY <1>2, <1>4, <2>1 DEF OnBoard
<1>7. \A k \in BoardKinds : q.bb[d][k] = p.bb[d][k] \ {t}
  <2> TAKE k \in BoardKinds
  <2>1. OnBoard(q.board, d, {k}) = OnBoard(b, d, {k}) \ {t}
    BY <1>3, <1>6
  <2> QED BY <1>1, <1>5, <2>1 DEF Copies
<1>8. \A u \in DOMAIN Unions : q.union[d][u] = p.union[d][u] \ {t}
  <2> TAKE u \in DOMAIN Unions
  <2>1. Unions[u] \in SUBSET Kinds
    BY SetsOfKinds
  <2>2. OnBoard(q.board, d, Unions[u]) = OnBoard(b, d, Unions[u]) \ {t}
    BY <1>6, <2>1
  <2> QED BY <1>1, <1>5, <2>2 DEF Copies
<1>9. /\ q.rl90 = (p.rl90 \ {K}) \cup {t} /\ K \in p.rl90 /\ p.rr45 = p.rl90 /\ p.rl45 = p.rl90
      /\ q.rr45 = q.rl90 /\ q.rl45 = q.rl90
  BY <1>1, <1>2, <1>4 DEF Copies
<1>10. /\ r.rl90 = p.rl90 \ {K} /\ r.rr45 = r.rl90 /\ r.rl45 = r.rl90
       /\ r.bb = p.bb /\ r.union = p.union /\ r.pawn_atk = p.pawn_atk
       /\ r.occ = [p.occ EXCEPT ![c] = Toggle(p.occ[c], {K})]
  <2>1. HasFields(p)
    BY DEF IsPosition
  <2>2. /\ r.rl90 = Toggle(p.rl90, {K}) /\ r.rr45 = Toggle(p.rr45, {K}) /\ r.rl45 = Toggle(p.rl45, {K})
        /\ r.bb = p.bb /\ r.union = p.union /\ r.pawn_atk = p.pawn_atk
        /\ r.occ = [p.occ EXCEPT ![c] = Toggle(p.occ[c], {K})]
    BY <2>1 DEF Occupying, HasFields, Fields
  <2>3. Toggle(p.rl90, {K}) = p.rl90 \ {K}
    BY <1>9 DEF Toggle
  <2> QED BY <1>9, <2>2, <2>3
<1>11. t \in q.pawn_atk[d] <=> t \in r.pawn_atk[d]
  <2>1. OnBoard(q.board, d, {pawn}) = OnBoard(b, d, {pawn}) \ {t}
    BY <1>3, <1>6
  <2>2. /\ q.pawn_atk[d] = {s + Ahead(d) : s \in OnBoard(q.board, d, {pawn})}
        /\ p.pawn_atk[d] = {s + Ahead(d) : s \in OnBoard(b, d, {pawn})}
    BY <1>1, <1>5 DEF Copies
  <2>3. PICK X, a : X = OnBoard(b, d, {pawn}) /\ a = Ahead(d)
    OBVIOUS
  <2>4. X \subseteq Square /\ a \in {-9, 9}
    BY <2>3 DEF OnBoard, Ahead
  <2>5. t \in {s + a : s \in X \ {t}} <=> t \in {s + a : s \in X}
    BY <2>4 DEF Square
  <2> HIDE DEF b, r
  <2> QED BY <1>10, <2>1, <2>2, <2>3, <2>5
<1>12. Strikers(d, r, t) = Strikers(d, q, t)
  <2>1. /\ {knight, silver, lance} \subseteq BoardKinds
        /\ {"tgold", "hdk", "bh", "rd"} \subseteq DOMAIN Unions
    BY KindsApart DEF Unions
  <2>2. /\ q.bb[d][knight] = r.bb[d][knight] \ {t} /\ q.bb[d][silver] = r.bb[d][silver] \ {t}
        /\ q.bb[d][lance] = r.bb[d][lance] \ {t}
        /\ q.union[d].tgold = r.union[d].tgold \ {t} /\ q.union[d].hdk = r.union[d].hdk \ {t}
        /\ q.union[d].bh = r.union[d].bh \ {t} /\ q.union[d].rd = r.union[d].rd \ {t}
    BY <1>7, <1>8, <1>10, <2>1
  <2>3. /\ AttackBishop(r, t) = AttackBishop(q, t) /\ t \notin AttackBishop(q, t)
        /\ AttackRank(r, t) = AttackRank(q, t) /\ t \notin AttackRank(q, t)
        /\ AttackFile(r, t) = AttackFile(q, t) /\ t \notin AttackFile(q, t)
    <3>1. q.rl90 = r.rl90 \cup {t}
      BY <1>9, <1>10
    <3>2. /\ p.occ[black] \cup p.occ[white] = p.rl90
          /\ q.occ[black] \cup q.occ[white] = q.rl90
      <4>1. /\ p.occ[black] \cup p.occ[white] = Occupied(p)
            /\ q.occ[black] \cup q.occ[white] = Occupied(q)
        BY <1>1, OccupiedIsBoth
      <4>2. Occupied(p) = p.rl90 /\ Occupied(q) = q.rl90
        BY <1>1 DEF Copies, Occupied
      <4> QED BY <4>1, <4>2
    <3>3. K \in p.occ[c] /\ K \notin p.occ[d]
      <4>1. p.occ[c] = OnBoard(b, c, Kinds) /\ p.occ[d] = OnBoard(b, d, Kinds)
        BY <1>5 DEF Copies
      <4>2. \A k \in Kinds : b[K] # Signed(d, k)
        BY <1>3, <1>4, <1>5, SignedIsOne
      <4> QED BY <1>3, <1>4, <4>1, <4>2 DEF OnBoard
    <3>4. r.occ[c] = p.occ[c] \ {K} /\ r.occ[d] = p.occ[d]
      BY <1>5, <1>10, <3>3 DEF IsPosition, Toggle
    <3>5. r.occ[black] \cup r.occ[white] = r.rl90
      <4>1. {black, white} = {c, d}
        BY <1>5 DEF Colour, Flip, black, white
      <4>2. /\ r.occ[black] \cup r.occ[white] = r.occ[c] \cup r.occ[d]
            /\ p.occ[black] \cup p.occ[white] = p.occ[c] \cup p.occ[d]
        BY <4>1
      <4> HIDE DEF r
      <4> QED BY <1>9, <1>10, <3>2, <3>3, <3>4, <4>2
    <3>6. \A e \in 2..5 : Slide(e, t, q.rl90) = Slide(e, t, r.rl90) /\ t \notin Slide(e, t, r.rl90)
      BY <3>1, OwnSquareApart
    <3> HIDE DEF r
    <3>7. /\ AttackFile(q, t) = Slide(2, t, q.rl90) /\ AttackRank(q, t) = Slide(3, t, q.rl90)
          /\ AttackDiag1(q, t) = Slide(4, t, q.rl90) /\ AttackDiag2(q, t) = Slide(5, t, q.rl90)
      BY <1>9, <3>2 DEF AttackFile, AttackRank, AttackDiag1, AttackDiag2, abb_file_attacks, ai_rook_attacks_r0,
             abb_bishop_attacks_rl45, abb_bishop_attacks_rr45, direc_file, direc_rank, direc_diag1, direc_diag2
    <3>8. /\ AttackFile(r, t) = Slide(2, t, r.rl90) /\ AttackRank(r, t) = Slide(3, t, r.rl90)
          /\ AttackDiag1(r, t) = Slide(4, t, r.rl90) /\ AttackDiag2(r, t) = Slide(5, t, r.rl90)
      BY <1>10, <3>5 DEF AttackFile, AttackRank, AttackDiag1, AttackDiag2, abb_file_attacks, ai_rook_attacks_r0,
             abb_bishop_attacks_rl45, abb_bishop_attacks_rr45, direc_file, direc_rank, direc_diag1, direc_diag2
    <3> QED BY <3>6, <3>7, <3>8 DEF AttackBishop
  <2>4. t \notin Knight(c, t) /\ t \notin Silver(c, t) /\ t \notin Gold(c, t) /\ t \notin abb_king_attacks[t]
    BY NotOnItself
  <2> HIDE DEF r
  <2> QED BY <1>5, <2>2, <2>3, <2>4 DEF Strikers
<1>13. is_attacked_by(d, r, t) <=> is_attacked_by(d, q, t)
  BY <1>11, <1>12 DEF is_attacked_by
<1> QED BY <1>13

(* The king's moves that genevasn.c makes are those of the rules that      *)
(* leave it safe.                                                          *)
LEMMA KingEvades ==
  ASSUME NEW p, IsPosition(p), Copies(p), Alive(p), NEW c \in Colour, KingIsSafe(c, p),
         NEW K, K = p.sq_king[c], NEW m
  PROVE  m \in evade_king(c, p) <=>
           \E t \in Square : /\ ByRules(c, p, king, K, t, FALSE)
                             /\ m = Board(p, king, FALSE, K, t)
                             /\ Safe(p.board, c, m)
<1>1. K \in Square /\ p.board[K] = Signed(c, king) /\ king \in Kinds /\ king # pawn
  BY PieceOf, KindsApart
<1>2. PICK d : d = Flip(c)
  OBVIOUS
<1>3. m \in evade_king(c, p) <=>
        \E t : /\ t \in abb_king_attacks[K] \ Occupying(c, p, K).occ[c]
               /\ ~is_attacked_by(d, Occupying(c, p, K), t)
               /\ m = Board(p, king, FALSE, K, t)
  BY <1>2 DEF evade_king
<1>4. Occupying(c, p, K).occ[c] = p.occ[c] \ {K}
  <2>1. Occupying(c, p, K).occ = [p.occ EXCEPT ![c] = Toggle(p.occ[c], {K})]
    BY DEF Occupying, IsPosition, HasFields, Fields
  <2>2. K \in p.occ[c]
    BY <1>1, PiecesInCopies
  <2> QED BY <2>1, <2>2 DEF IsPosition, Toggle
<1>5. \A t : t \in abb_king_attacks[K] \ (p.occ[c] \ {K}) <=> t \in Square /\ ByRules(c, p, king, K, t, FALSE)
  <2> TAKE t
  <2>1. t \in abb_king_attacks[K] <=> Hits(p.board, c, K, t)
    BY <1>1, ReachIsHits, ReachOfKinds
  <2>2. t \in abb_king_attacks[K] => t \in Square /\ t # K
    BY <1>1, StepsAreMutual, NotOnItself
  <2>3. t \in Square => (t \in p.occ[c] <=> Mine(c, p.board[t]))
    BY MineInCopies
  <2>4. t \in Square => ~Stuck(c, king, t)
    <3>1. king \in Kinds \ {pawn, lance, knight}
      BY DEF Kinds, king, lance, knight, pawn
    <3> QED BY <3>1, WhereStuck
  <2> QED BY <1>1, <2>1, <2>2, <2>3, <2>4 DEF ByRules
<1>6. ASSUME NEW t \in Square, ByRules(c, p, king, K, t, FALSE), m = Board(p, king, FALSE, K, t)
      PROVE  Safe(p.board, c, m) <=> ~is_attacked_by(d, Occupying(c, p, K), t)
  <2>1. PICK q, f : q = make_move(c, p, m) /\ f = FALSE
    OBVIOUS
  <2>2. KingMoved(c, p, K, t, q) /\ (InCheck(c, q) <=> ~Safe(p.board, c, m))
    <3>1. ByRules(c, p, king, K, t, f) /\ m = Board(p, king, f, K, t)
      BY <1>6, <2>1
    <3> QED BY <2>1, <3>1, KingIsMoved
  <2>3. t # K
    BY <1>1, <1>6, AbsOfSigned DEF ByRules
  <2>4. is_attacked_by(d, Occupying(c, p, K), t) <=> is_attacked_by(d, q, t)
    BY <1>1, <1>2, <2>2, <2>3, LiftedIsMoved
  <2>5. q.sq_king[c] = t
    BY <2>2 DEF KingMoved
  <2> QED BY <1>2, <2>2, <2>4, <2>5 DEF InCheck
<1> QED BY <1>3, <1>4, <1>5, <1>6

(* The pieces of c that attack t.                                          *)
Giving(b, c, t) == {z \in Square : \E k \in Kinds : Strikes(b, c, k, z, t)}
Pinned(b, c, x, t) == \E z \in Square, k \in Kinds : Pins(b, c, k, z, x, t)

(* What gives check stands apart from the king, on a free line to it.      *)
LEMMA GivingFacts ==
  ASSUME NEW b, NEW c \in Colour, NEW t \in Square, NEW z \in Giving(b, c, t)
  PROVE  /\ z \in Square /\ z # t /\ z \in Taken(b)
         /\ abb_obstacle[t][z] \cap Taken(b) = {}
         /\ \E k \in Kinds : b[z] = Signed(c, k) /\ Aims(c, k, z, t)
<1>1. PICK k \in Kinds : b[z] = Signed(c, k) /\ Aims(c, k, z, t) /\ abb_obstacle[z][t] \cap Taken(b) = {}
  BY DEF Giving, Strikes
<1>2. z \in Square
  BY DEF Giving
<1>3. z # t
  BY <1>1, <1>2, AimFacts
<1>4. z \in Taken(b)
  BY <1>1, <1>2, SignedIsOne DEF Taken
<1> QED BY <1>1, <1>2, <1>3, <1>4, EitherEnd

(* The way from the square to such a piece is free.                        *)
LEMMA GivingIsFree ==
  ASSUME NEW b, NEW c, c \in Colour, NEW t, t \in Square, NEW z, z \in Giving(b, c, t)
  PROVE  z \in Square /\ abb_obstacle[t][z] \cap Taken(b) = {}
<1>1. z \in Square
  BY DEF Giving
<1>2. abb_obstacle[t][z] \cap Taken(b) = {}
  BY GivingFacts
<1> QED BY <1>1, <1>2

(* attacks_to_piece, where genevasn.c calls it, finds the pieces that give *)
(* check.                                                                  *)
LEMMA CheckersAre ==
  ASSUME NEW p, IsPosition(p), Copies(p), NEW c \in Colour, NEW K, K = p.sq_king[c]
  PROVE  Checkers(c, p) = Giving(p.board, Flip(c), K)
<1>1. PICK d, b : d = Flip(c) /\ b = p.board
  OBVIOUS
<1>2. d \in Colour /\ d # c /\ K \in Square /\ pawn \in Kinds
  BY <1>1, Flips, PieceOf, KindsApart
<1>3. \A z : z \in Checkers(c, p) <=>
        /\ z \in p.occ[d]
        /\ \/ z \in Square /\ \E e \in Colour : z = K - Ahead(e) /\ b[z] = Signed(e, pawn)
           \/ z \in Strikers(c, p, K) \/ z \in Strikers(d, p, K)
  <2>1. Strikers(black, p, K) \cup Strikers(white, p, K) = Strikers(c, p, K) \cup Strikers(d, p, K)
    BY <1>1 DEF Colour, Flip, black, white
  <2> QED BY <1>1, <2>1 DEF Checkers, attacks_to_piece
<1>4. Strikers(c, p, K) \cap p.occ[d] = {}
  BY <1>1, StrikersAreOwn, FreeOfOwn
<1>5. \A z \in Square, k \in Kinds : b[z] = Signed(d, k) => z \in p.occ[d]
  BY <1>1, <1>2, PiecesInCopies
<1>6. \A z \in Square : \A e \in Colour : z \in p.occ[d] /\ b[z] = Signed(e, pawn) => e = d
  <2>1. \A z \in p.occ[d] : \E k \in Kinds : b[z] = Signed(d, k)
    BY <1>1, <1>2 DEF Copies, OnBoard
  <2> QED BY <1>2, <2>1, SignedIsOne
<1>7. \A z \in Square, k \in Kinds : b[z] = Signed(d, k) => (Hits(b, d, z, K) <=> Strikes(b, d, k, z, K))
  BY <1>2, HitsAre DEF Strikes
<1>8. \A z : z \in Strikers(d, p, K) <=>
         z \in Square /\ \E k \in Kinds \ {pawn} : b[z] = Signed(d, k) /\ Hits(b, d, z, K)
  BY <1>1, <1>2, StrikersAre
<1>9. \A z \in Square : b[z] = Signed(d, pawn) => (z = K - Ahead(d) <=> Strikes(b, d, pawn, z, K))
  <2> TAKE z \in Square
  <2> HAVE b[z] = Signed(d, pawn)
  <2>1. Hits(b, d, z, K) <=> K = z + Ahead(d)
    <3>1. p.board[z] = Signed(d, pawn)
      BY <1>1
    <3>2. Hits(p.board, d, z, K) <=> K = z + Ahead(d)
      BY <1>2, <3>1, PawnsHit
    <3> QED BY <1>1, <3>2
  <2>2. z = K - Ahead(d) <=> K = z + Ahead(d)
    BY <1>2, AheadIsOneRank DEF Square
  <2> QED BY <1>2, <1>7, <2>1, <2>2
<1>10. ASSUME NEW z \in Square PROVE z \in Checkers(c, p) <=> \E k \in Kinds : Strikes(b, d, k, z, K)
  <2>1. ASSUME z \in Checkers(c, p) PROVE \E k \in Kinds : Strikes(b, d, k, z, K)
    <3>1. CASE z \in Strikers(d, p, K)
      BY <1>7, <1>8, <3>1
    <3>2. CASE \E e \in Colour : z = K - Ahead(e) /\ b[z] = Signed(e, pawn)
      BY <1>2, <1>3, <1>6, <1>9, <2>1, <3>2
    <3> QED BY <1>3, <1>4, <2>1, <3>1, <3>2
  <2>2. ASSUME NEW k \in Kinds, Strikes(b, d, k, z, K) PROVE z \in Checkers(c, p)
    <3>1. b[z] = Signed(d, k) /\ Hits(b, d, z, K)
      BY <1>7, <2>2 DEF Strikes
    <3>2. CASE k = pawn
      BY <1>2, <1>3, <1>5, <1>9, <2>2, <3>1, <3>2
    <3>3. CASE k # pawn
      BY <1>3, <1>5, <1>8, <3>1, <3>3
    <3> QED BY <3>2, <3>3
  <2> QED BY <2>1, <2>2
<1>11. Checkers(c, p) \subseteq Square
  BY CheckersAreEnemies
<1> QED BY <1>1, <1>10, <1>11 DEF Giving

(* They are the attackers of the rules.                                    *)
LEMMA AttackersAre ==
  ASSUME NEW b, IsBoard(b), NEW c \in Colour, NEW t
  PROVE  Attackers(b, c, t) = Giving(b, c, t)
<1>1. ASSUME NEW s \in Square PROVE Mine(c, b[s]) /\ Hits(b, c, s, t) <=> \E k \in Kinds : Strikes(b, c, k, s, t)
  <2>1. Mine(c, b[s]) <=> \E k \in Kinds : b[s] = Signed(c, k)
    BY MineIsSigned DEF IsBoard
  <2>2. \A k \in Kinds : b[s] = Signed(c, k) => (Hits(b, c, s, t) <=> Strikes(b, c, k, s, t))
    BY HitsAre DEF Strikes
  <2> QED BY <2>1, <2>2 DEF Strikes
<1> QED BY <1>1 DEF Attackers, Giving

(* genevasn.c lets the pieces go that are not pinned.                      *)
LEMMA FreeIs ==
  ASSUME NEW p, IsPosition(p), Copies(p), NEW c \in Colour, NEW K, K = p.sq_king[c],
         NEW x \in Square, x # K, p.board[x] # empty
  PROVE  Free(c, p, x) <=> ~Pinned(p.board, Flip(c), x, K)
<1>1. K \in Square
  BY PieceOf
<1>2. PICK e : e = adirec[K][x]
  OBVIOUS
<1>3. e # direc_misc /\ is_pinned_on(c, p, x, e) <=> Pinned(p.board, Flip(c), x, K)
  BY <1>1, <1>2, PinnedIs DEF Pinned
<1> QED BY <1>2, <1>3 DEF Free

(* A single piece z0 gives check: a move that is not the king's answers it *)
(* if it takes z0 or comes between, and its piece is not pinned.           *)
LEMMA OneChecker ==
  ASSUME NEW b, NEW d \in Colour, NEW K \in Square, NEW z0, Giving(b, d, K) = {z0},
         NEW x, x \in Square => NotOf(d, b[x]), NEW w \in Square
  PROVE  ~Opens(b, d, x, w, K) <=> w \in UpTo(K, z0) /\ ~Pinned(b, d, x, K)
<1>1. /\ z0 \in Square /\ z0 # K /\ z0 \in Taken(b)
      /\ abb_obstacle[K][z0] \cap Taken(b) = {}
  BY GivingFacts
<1>2. PICK k0 \in Kinds : b[z0] = Signed(d, k0) /\ Aims(d, k0, z0, K)
  BY GivingFacts
<1>3. x # z0
  BY <1>1, <1>2 DEF NotOf
<1>4. \A z \in Square : abb_obstacle[z][K] = abb_obstacle[K][z] /\ abb_obstacle[z][K] \subseteq Square
  BY EitherEnd
<1>5. ASSUME w \in UpTo(K, z0), ~Pinned(b, d, x, K), NEW z \in Square, NEW k \in Kinds, Remains(b, d, k, z, x, w, K)
      PROVE  FALSE
  <2>1. /\ b[z] = Signed(d, k) /\ z # w /\ Aims(d, k, z, K)
        /\ w \notin abb_obstacle[z][K] /\ abb_obstacle[z][K] \cap Taken(b) \subseteq {x}
    BY <1>5 DEF Remains
  <2>2. CASE abb_obstacle[z][K] \cap Taken(b) = {}
    <3>1. z = z0
      BY <2>1, <2>2 DEF Giving, Strikes
    <3> QED BY <1>1, <1>4, <1>5, <2>1, <3>1 DEF UpTo
  <2>3. CASE abb_obstacle[z][K] \cap Taken(b) = {x}
    BY <1>5, <2>1, <2>3 DEF Pinned, Pins
  <2> QED BY <2>1, <2>2, <2>3
<1>6. ASSUME w \notin UpTo(K, z0) PROVE Opens(b, d, x, w, K)
  <2>1. Remains(b, d, k0, z0, x, w, K)
    BY <1>1, <1>2, <1>4, <1>6 DEF Remains, UpTo
  <2> QED BY <1>1, <2>1 DEF Opens
<1>7. ASSUME w \in UpTo(K, z0), Pinned(b, d, x, K) PROVE Opens(b, d, x, w, K)
  <2>1. PICK z \in Square, k \in Kinds : b[z] = Signed(d, k) /\ Aims(d, k, z, K) /\ abb_obstacle[z][K] \cap Taken(b) = {x}
    BY <1>7 DEF Pinned, Pins
  <2>2. z # K
    BY <2>1, AimFacts
  <2>3. z # z0
    BY <1>1, <1>4, <2>1
  <2>4. z \in Taken(b)
    BY <2>1, SignedIsOne DEF Taken
  <2>5. w \notin UpTo(K, z)
    <3>1. SUFFICES ASSUME w \in UpTo(K, z) PROVE FALSE
      OBVIOUS
    <3>2. z \in abb_obstacle[K][z0] \/ z0 \in abb_obstacle[K][z]
      BY <1>1, <1>7, <2>2, <2>3, <3>1, OnOneSide
    <3> QED BY <1>1, <1>3, <1>4, <2>1, <2>4, <3>2
  <2>6. Remains(b, d, k, z, x, w, K)
    BY <1>4, <2>1, <2>5 DEF Remains, UpTo
  <2> QED BY <2>6 DEF Opens
<1> QED BY <1>5, <1>6, <1>7 DEF Opens

(* Two pieces give check: only the king can answer.                        *)
LEMMA TwoCheckers ==
  ASSUME NEW b, NEW d \in Colour, NEW K \in Square, NEW y \in Giving(b, d, K), NEW z \in Giving(b, d, K), y # z,
         NEW x, NEW w \in Square
  PROVE  Opens(b, d, x, w, K)
<1>1. /\ y \in Square /\ y # K /\ y \in Taken(b) /\ abb_obstacle[K][y] \cap Taken(b) = {}
      /\ z \in Square /\ z # K /\ z \in Taken(b) /\ abb_obstacle[K][z] \cap Taken(b) = {}
  BY GivingFacts
<1>2. \A v \in Square : abb_obstacle[v][K] = abb_obstacle[K][v]
  BY EitherEnd
<1>3. ASSUME NEW v \in Giving(b, d, K), w \notin UpTo(K, v) PROVE Opens(b, d, x, w, K)
  <2>1. PICK k \in Kinds : b[v] = Signed(d, k) /\ Aims(d, k, v, K)
    BY GivingFacts
  <2>2. v \in Square /\ abb_obstacle[K][v] \cap Taken(b) = {}
    BY GivingFacts
  <2>3. Remains(b, d, k, v, x, w, K)
    BY <1>2, <1>3, <2>1, <2>2 DEF Remains, UpTo
  <2> QED BY <2>2, <2>3 DEF Opens
<1>4. w \in UpTo(K, y) /\ w \in UpTo(K, z) => FALSE
  BY <1>1, OnOneSide
<1> QED BY <1>3, <1>4

(* A move that is not the king's leaves the king safe unless it opens, or  *)
(* leaves open, a line to it.                                              *)
LEMMA SafeUnlessOpened ==
  ASSUME NEW p, IsPosition(p), Copies(p), NEW c \in Colour, NEW d, d = Flip(c), NEW K, K = p.sq_king[c],
         NEW x, NEW w \in Square, x # w, x # K, w # K, x \in Square => NotOf(d, p.board[x]),
         NEW j \in Kinds \ {king}, NEW m, After(p.board, c, m) = Moved(p.board, x, w, Signed(c, j))
  PROVE  Safe(p.board, c, m) <=> ~Opens(p.board, d, x, w, K)
<1>1. d \in Colour /\ d # c /\ K \in Square /\ OnBoard(p.board, c, {king}) = {K} /\ IsBoard(p.board)
  BY Flips, PieceOf DEF Copies, IsBoard, IsPosition
<1>2. Signed(c, j) # Signed(c, king) /\ NotOf(d, Signed(c, j))
  BY <1>1, KindsApart, SignedIsOne, OwnAreNot
<1>3. KingOf(Moved(p.board, x, w, Signed(c, j)), c) = K
  BY <1>1, <1>2, TheKingStays
<1>4. Attacked(Moved(p.board, x, w, Signed(c, j)), d, K) <=> Opens(p.board, d, x, w, K)
  BY <1>1, <1>2, AttackedAfter DEF Opens
<1> QED BY <1>3, <1>4 DEF Safe, Checked

(* The pieces on the squares of a step of a piece.                         *)
LEMMA StepIsSafe ==
  ASSUME NEW p, IsPosition(p), Copies(p), NEW c \in Colour, NEW d, d = Flip(c), NEW K, K = p.sq_king[c],
         NEW k \in Kinds, k # king, NEW x \in Square, NEW w \in Square, NEW f \in BOOLEAN,
         ByRules(c, p, k, x, w, f), NEW m, m = Board(p, k, f, x, w)
  PROVE  /\ Safe(p.board, c, m) <=> ~Opens(p.board, d, x, w, K)
         /\ x # K /\ p.board[x] # empty /\ NotOf(d, p.board[x])
<1>1. d \in Colour /\ d # c /\ K \in Square /\ p.board[K] = Signed(c, king)
  BY Flips, PieceOf
<1>2. /\ p.board[x] = Signed(c, k) /\ x # K /\ w # K /\ x # w
      /\ \E j \in Kinds \ {king} : After(p.board, c, m) = Moved(p.board, x, w, Signed(c, j))
  BY <1>1, AfterStep
<1>3. PICK j \in Kinds \ {king} : After(p.board, c, m) = Moved(p.board, x, w, Signed(c, j))
  BY <1>2
<1>4. NotOf(d, p.board[x]) /\ p.board[x] # empty
  BY <1>1, <1>2, OwnAreNot, SignedIsOne
<1> QED BY <1>2, <1>3, <1>4, SafeUnlessOpened

(* A drop opens no line, and shuts those it is in the way of.              *)
LEMMA DropIsSafe ==
  ASSUME NEW p, IsPosition(p), Copies(p), NEW c \in Colour, NEW d, d = Flip(c), NEW K, K = p.sq_king[c],
         NEW k, NEW w, DropByRules(c, p, k, w), NEW m, m = DropMove(k, w)
  PROVE  /\ Safe(p.board, c, m) <=> ~Opens(p.board, d, Drop2From(k), w, K)
         /\ k \in Hands /\ w \in Square /\ w # K /\ p.board[w] = empty /\ Drop2From(k) \notin Square
<1>1. k \in Hands /\ w \in Square /\ p.board[w] = empty
  BY DEF DropByRules
<1>2. m.from = 80 + k /\ m.to = w /\ Drop2From(k) = 80 + k
  BY <1>1 DEF DropMove, Move, Drop2From, nsquare, Hands, pawn, rook
<1>3. k \in Kinds \ {king}
  BY <1>1, KindsAreNumbers
<1>4. 80 + k > 80 /\ 80 + k \notin Square /\ (80 + k) - 80 = k
  BY <1>1 DEF Hands, Square, pawn, rook
<1>5. After(p.board, c, m) = Moved(p.board, 80 + k, w, Signed(c, k))
  BY <1>2, <1>4 DEF After, Moved, Signed
<1>6. K \in Square /\ p.board[K] = Signed(c, king) /\ p.board[K] # empty
  BY PieceOf, KindsApart, SignedIsOne
<1>7. Safe(p.board, c, m) <=> ~Opens(p.board, d, 80 + k, w, K)
  <2>1. PICK x : x = 80 + k
    OBVIOUS
  <2>2. /\ x # w /\ x # K /\ w # K /\ x \notin Square
        /\ After(p.board, c, m) = Moved(p.board, x, w, Signed(c, k))
    BY <1>1, <1>4, <1>5, <1>6, <2>1
  <2>3. Safe(p.board, c, m) <=> ~Opens(p.board, d, x, w, K)
    BY <1>1, <1>3, <2>2, SafeUnlessOpened
  <2> QED BY <2>1, <2>3
<1> QED BY <1>1, <1>2, <1>4, <1>6, <1>7

(* One piece z0 gives check: what is pinned and what is not onto UpTo is   *)
(* what the rules forbid.                                                  *)
LEMMA AnswersToOne ==
  ASSUME NEW p, IsPosition(p), Copies(p), NEW c \in Colour, NEW K, K = p.sq_king[c],
         NEW z0, Giving(p.board, Flip(c), K) = {z0}
  PROVE  /\ \A k \in Kinds \ {king}, x \in Square, w \in Square, f \in BOOLEAN :
              ByRules(c, p, k, x, w, f) =>
                (Safe(p.board, c, Board(p, k, f, x, w)) <=> w \in UpTo(K, z0) /\ Free(c, p, x))
         /\ \A k, w : DropByRules(c, p, k, w) =>
                (Safe(p.board, c, DropMove(k, w)) <=> w \in abb_obstacle[K][z0])
<1>1. Flip(c) \in Colour /\ K \in Square
  BY Flips, PieceOf
<1>2. ASSUME NEW k \in Kinds \ {king}, NEW x \in Square, NEW w \in Square, NEW f \in BOOLEAN, ByRules(c, p, k, x, w, f)
      PROVE  Safe(p.board, c, Board(p, k, f, x, w)) <=> w \in UpTo(K, z0) /\ Free(c, p, x)
  <2>1. PICK m : m = Board(p, k, f, x, w)
    OBVIOUS
  <2>2. /\ Safe(p.board, c, m) <=> ~Opens(p.board, Flip(c), x, w, K)
        /\ x # K /\ p.board[x] # empty /\ NotOf(Flip(c), p.board[x])
    BY <1>2, <2>1, StepIsSafe
  <2>3. Free(c, p, x) <=> ~Pinned(p.board, Flip(c), x, K)
    BY <2>2, FreeIs
  <2>4. ~Opens(p.board, Flip(c), x, w, K) <=> w \in UpTo(K, z0) /\ ~Pinned(p.board, Flip(c), x, K)
    BY <1>1, <2>2, OneChecker
  <2> QED BY <2>1, <2>2, <2>3, <2>4
<1>3. ASSUME NEW k, NEW w, DropByRules(c, p, k, w)
      PROVE  Safe(p.board, c, DropMove(k, w)) <=> w \in abb_obstacle[K][z0]
  <2>1. PICK m, x : m = DropMove(k, w) /\ x = Drop2From(k)
    OBVIOUS
  <2>2. /\ Safe(p.board, c, m) <=> ~Opens(p.board, Flip(c), x, w, K)
        /\ w \in Square /\ p.board[w] = empty /\ x \notin Square
    BY <1>3, <2>1, DropIsSafe
  <2>3. ~Opens(p.board, Flip(c), x, w, K) <=> w \in UpTo(K, z0) /\ ~Pinned(p.board, Flip(c), x, K)
    BY <1>1, <2>2, OneChecker
  <2>4. ~Pinned(p.board, Flip(c), x, K)
    BY <2>2 DEF Pinned, Pins, Taken
  <2>5. w # z0
    <3>1. z0 \in Taken(p.board)
      BY <1>1, GivingFacts
    <3> QED BY <2>2, <3>1 DEF Taken
  <2> QED BY <2>1, <2>2, <2>3, <2>4, <2>5 DEF UpTo
<1> QED BY <1>2, <1>3

(* Two pieces give check: no move but the king's is safe.                  *)
LEMMA AnswersToTwo ==
  ASSUME NEW p, IsPosition(p), Copies(p), NEW c \in Colour, NEW K, K = p.sq_king[c],
         NEW y \in Giving(p.board, Flip(c), K), NEW z \in Giving(p.board, Flip(c), K), y # z
  PROVE  /\ \A k \in Kinds \ {king}, x \in Square, w \in Square, f \in BOOLEAN :
              ByRules(c, p, k, x, w, f) => ~Safe(p.board, c, Board(p, k, f, x, w))
         /\ \A k, w : DropByRules(c, p, k, w) => ~Safe(p.board, c, DropMove(k, w))
<1>1. Flip(c) \in Colour /\ K \in Square
  BY Flips, PieceOf
<1>2. \A x : \A w \in Square : Opens(p.board, Flip(c), x, w, K)
  BY <1>1, TwoCheckers
<1>3. ASSUME NEW k \in Kinds \ {king}, NEW x \in Square, NEW w \in Square, NEW f \in BOOLEAN, ByRules(c, p, k, x, w, f)
      PROVE  ~Safe(p.board, c, Board(p, k, f, x, w))
  <2>1. PICK m : m = Board(p, k, f, x, w)
    OBVIOUS
  <2>2. Safe(p.board, c, m) <=> ~Opens(p.board, Flip(c), x, w, K)
    BY <1>3, <2>1, StepIsSafe
  <2> QED BY <1>2, <2>1, <2>2
<1>4. ASSUME NEW k, NEW w, DropByRules(c, p, k, w)
      PROVE  ~Safe(p.board, c, DropMove(k, w))
  <2>1. PICK m, x : m = DropMove(k, w) /\ x = Drop2From(k)
    OBVIOUS
  <2>2. (Safe(p.board, c, m) <=> ~Opens(p.board, Flip(c), x, w, K)) /\ w \in Square
    BY <1>4, <2>1, DropIsSafe
  <2> QED BY <1>2, <2>1, <2>2
<1> QED BY <1>3, <1>4

(* Squares on a file.                                                      *)
LEMMA OneFile ==
  ASSUME NEW s \in Square, NEW t \in Square
  PROVE  /\ Joined(2, s, t) <=> Joined(2, t, s)
         /\ \A u \in Square : Joined(2, s, t) /\ Joined(2, t, u) => Joined(2, s, u)
<1>1. \A x \in Square, y \in Square : Joined(2, x, y) <=> OnLine(2, x \div 9, x % 9, y \div 9, y % 9)
  BY JoinedOnLine
<1>2. \A x \in Square, y \in Square : Joined(2, x, y) <=> x % 9 = y % 9
  BY <1>1 DEF OnLine
<1> QED BY <1>2

(* What is between two squares is neither of them.                         *)
LEMMA BetweenApart ==
  ASSUME NEW s \in Square, NEW t \in Square, NEW u \in abb_obstacle[s][t]
  PROVE  u \in Square /\ u # s /\ u # t /\ s # t
<1>1. u \in Square
  BY EitherEnd
<1>2. (s < u /\ u < t) \/ (t < u /\ u < s)
  BY <1>1, BetweenIs
<1> QED BY <1>1, <1>2 DEF Square

(* A lance that stands free of the line of a check has one square of it in *)
(* its reach at most: genevasn.c looks at the nearest only.                *)
LEMMA LanceCrosses ==
  ASSUME NEW X, NEW K \in Square, NEW z \in Square, NEW s \in Square, K # z, K # s, s # z,
         K \in X, z \in X, s \in X, abb_obstacle[K][z] \cap X = {},
         NEW u \in abb_obstacle[K][z], NEW v \in UpTo(K, z), u \in abb_obstacle[s][v],
         Joined(2, s, v), abb_obstacle[s][v] \cap X = {}
  PROVE  FALSE
<1>1. v \in Square /\ u \in Square /\ u # v /\ u # K /\ u # s /\ u # z
  <2>1. v \in Square /\ u \in Square
    BY EitherEnd DEF UpTo
  <2> QED BY <2>1, BetweenApart
<1>2. Joined(2, s, u) /\ Joined(2, u, v)
  <2>1. PICK e \in 2..5 : Joined(e, s, u) /\ Joined(e, u, v)
    BY <1>1, BetweenIs
  <2>2. s # v
    BY <1>1, BetweenApart
  <2>3. PICK x \in Square, y \in Square : x = s /\ y = v
    BY <1>1
  <2>4. \A e1 \in 2..5 : Joined(e1, s, u) /\ Joined(e1, u, v) => Joined(e1, s, v)
    <3>1. \A x1 \in Square, y1 \in Square, e1 \in 2..5 :
            Joined(e1, x1, y1) <=> OnLine(e1, x1 \div 9, x1 % 9, y1 \div 9, y1 % 9)
      BY JoinedOnLine
    <3>2. \A w \in Square : w % 9 \in 0..8 /\ w \div 9 \in 0..8
      BY DEF Square
    <3> QED BY <1>1, <3>1, <3>2 DEF OnLine
  <2>5. e = 2
    BY <1>1, <2>1, <2>2, <2>4, OneLineOnly
  <2> QED BY <2>1, <2>5
<1>3. PICK e \in 2..5 : Joined(e, K, u) /\ Joined(e, u, z)
  BY <1>1, BetweenIs
<1>4. abb_obstacle[K][z] = abb_obstacle[z][K]
  BY EitherEnd
<1>5. Joined(2, K, u)
  <2>1. CASE v = z
    BY <1>1, <1>2, <1>3, <2>1, OneLineOnly
  <2>2. CASE v \in abb_obstacle[K][u]
    <3>1. PICK g \in 2..5 : Joined(g, K, v) /\ Joined(g, v, u)
      BY <1>1, <2>2, BetweenIs
    <3>2. Joined(2, v, u)
      BY <1>1, <1>2, OneFile
    <3>3. g = 2
      BY <1>1, <3>1, <3>2, OneLineOnly
    <3> QED BY <1>1, <3>1, <3>3, OneFile
  <2>3. CASE v \in abb_obstacle[u][z]
    <3>1. PICK g \in 2..5 : Joined(g, u, v) /\ Joined(g, v, z)
      BY <1>1, <2>3, BetweenIs
    <3>2. g = 2
      BY <1>1, <1>2, <3>1, OneLineOnly
    <3>3. Joined(2, u, z)
      BY <1>1, <3>1, <3>2, OneFile
    <3> QED BY <1>1, <1>3, <3>3, OneLineOnly
  <2> QED BY <1>1, <2>1, <2>2, <2>3, BetweenParted DEF UpTo
<1>6. Joined(2, u, K) /\ Joined(2, u, s)
  BY <1>1, <1>2, <1>5, OneFile
<1>7. \A w : w \in abb_obstacle[u][s] => w \notin X
  <2>1. abb_obstacle[s][u] = abb_obstacle[u][s] /\ abb_obstacle[s][u] \subseteq Square
    BY <1>1, EitherEnd
  <2>2. \A w \in Square : w \in abb_obstacle[s][u] => w \in abb_obstacle[s][v]
    BY <1>1, BetweenParted
  <2> QED BY <2>1, <2>2
<1>8. \A w : w \in abb_obstacle[u][K] => w \in abb_obstacle[K][z]
  <2>1. abb_obstacle[K][u] = abb_obstacle[u][K] /\ abb_obstacle[K][u] \subseteq Square
    BY <1>1, EitherEnd
  <2>2. \A w \in Square : w \in abb_obstacle[K][u] => w \in abb_obstacle[K][z]
    BY <1>1, BetweenParted
  <2> QED BY <2>1, <2>2
<1>9. K \notin abb_obstacle[u][s]
  BY <1>7
<1>10. s \notin abb_obstacle[u][K]
  BY <1>8
<1>11. u \notin abb_obstacle[K][s]
  <2>1. SUFFICES ASSUME u \in abb_obstacle[K][s] PROVE FALSE
    OBVIOUS
  <2>2. z \in abb_obstacle[K][s]
    <3>1. u \in UpTo(K, s) /\ u \in UpTo(K, z)
      BY <2>1 DEF UpTo
    <3> QED BY <1>1, <3>1, OnOneSide
  <2>3. z \in abb_obstacle[K][u] \/ z = u \/ z \in abb_obstacle[u][s]
    BY <1>1, <2>1, <2>2, BetweenParted
  <2>4. z \notin abb_obstacle[K][u]
    <3>1. abb_obstacle[K][u] = abb_obstacle[u][K]
      BY <1>1, EitherEnd
    <3> QED BY <1>8, <3>1
  <2> QED BY <1>1, <1>7, <2>3, <2>4
<1>12. u \in abb_obstacle[K][s] \/ K \in abb_obstacle[u][s] \/ s \in abb_obstacle[u][K]
  BY <1>1, <1>6, ThreeOnALine
<1> QED BY <1>9, <1>10, <1>11, <1>12

(* So a lance lands on one square of the line at most.                     *)
LEMMA LanceLandsOnce ==
  ASSUME NEW p, IsPosition(p), Copies(p), NEW c \in Colour, NEW K, K = p.sq_king[c],
         NEW z, Giving(p.board, Flip(c), K) = {z},
         NEW s \in Square, p.board[s] = Signed(c, lance),
         NEW u \in AttackLance(c, p, s), NEW v \in AttackLance(c, p, s), u \in UpTo(K, z), v \in UpTo(K, z)
  PROVE  u = v
<1>1. /\ K \in Square /\ p.board[K] = Signed(c, king) /\ Flip(c) \in Colour /\ Flip(c) # c
      /\ lance \in Kinds /\ king \in Kinds /\ lance # king /\ lance # pawn
  <2>1. lance \in Kinds /\ king \in Kinds /\ lance # king /\ lance # pawn
    BY KindsAreNumbers, KindsApart
  <2> QED BY <2>1, PieceOf, Flips
<1>2. PICK X : X = Taken(p.board)
  OBVIOUS
<1>3. /\ z \in Square /\ z # K /\ z \in X /\ abb_obstacle[K][z] \cap X = {}
      /\ \E k \in Kinds : p.board[z] = Signed(Flip(c), k)
  BY <1>1, <1>2, GivingFacts
<1>4. K \in X /\ s \in X /\ s # K /\ s # z
  BY <1>1, <1>2, <1>3, SignedIsOne DEF Taken
<1>5. ASSUME NEW w \in AttackLance(c, p, s)
      PROVE  w \in Square /\ s # w /\ Joined(2, s, w) /\ w \in RaysAhead(c)[s] /\ abb_obstacle[s][w] \cap X = {}
  <2>1. Reach(c, p, lance, s) = AttackLance(c, p, s)
    BY ReachOfKinds
  <2>2. Hits(p.board, c, s, w)
    BY <1>1, <1>5, <2>1, ReachIsHits
  <2>3. \A t : Hits(p.board, c, s, t) <=> Aims(c, lance, s, t) /\ abb_obstacle[s][t] \cap Taken(p.board) = {}
    BY <1>1, HitsAre
  <2>4. \E d \in Turned(c, RunDirections(lance)) : w \in Ray(s, d)
    BY <2>2, <2>3, DirectionsOfKinds DEF Aims, set_attacks, Turned
  <2>5. RunsAlong(c, lance, s, w)
    BY <1>1, <2>4, RunsAre
  <2>6. w \in Square /\ s # w /\ Joined(2, s, w) /\ w \in RaysAhead(c)[s]
    BY <2>5 DEF RunsAlong, lance, rook, dragon, bishop, horse
  <2> QED BY <1>2, <2>2, <2>3, <2>6
<1>6. ASSUME NEW a \in AttackLance(c, p, s), NEW b \in AttackLance(c, p, s), a \in UpTo(K, z), b \in UpTo(K, z),
             a \in abb_obstacle[s][b]
      PROVE  FALSE
  <2>1. a \in abb_obstacle[K][z]
    BY <1>3, <1>5, <1>6 DEF UpTo
  <2>2. Joined(2, s, b) /\ abb_obstacle[s][b] \cap X = {}
    BY <1>5
  <2> QED BY <1>1, <1>3, <1>4, <1>6, <2>1, <2>2, LanceCrosses
<1>7. s \notin abb_obstacle[u][v]
  <2>1. u \in RaysAhead(c)[s] /\ v \in RaysAhead(c)[s] /\ u \in Square /\ v \in Square
    BY <1>5
  <2>2. (u < s /\ v < s) \/ (u > s /\ v > s)
    <3>1. /\ abb_plus_rays[s] = {t \in s+1 .. 80 : \E f \in 2..5 : Joined(f, s, t)}
          /\ abb_minus_rays[s] = {t \in 0 .. s-1 : \E f \in 2..5 : Joined(f, s, t)}
      BY DEF abb_plus_rays, abb_minus_rays
    <3>2. \A t : (t \in abb_plus_rays[s] => t > s) /\ (t \in abb_minus_rays[s] => t < s)
      BY <3>1 DEF Square
    <3> QED BY <2>1, <3>2 DEF RaysAhead
  <2>3. s \in abb_obstacle[u][v] => (u < s /\ s < v) \/ (v < s /\ s < u)
    BY <2>1, BetweenIs
  <2> QED BY <2>1, <2>2, <2>3 DEF Square
<1>8. u # v => v \in abb_obstacle[s][u] \/ u \in abb_obstacle[s][v] \/ s \in abb_obstacle[u][v]
  <2>1. /\ u \in Square /\ s # u /\ Joined(2, s, u)
        /\ v \in Square /\ s # v /\ Joined(2, s, v)
    BY <1>5
  <2> QED BY <2>1, ThreeOnALine
<1> QED BY <1>6, <1>7, <1>8

(***************************************************************************)
(* Steps, and the promotions that the generators force or decline.         *)
(***************************************************************************)

(* A step by the rules, promotion and the safety of the king apart.        *)
StepOf(c, p, k, s, t) ==
  /\ s \in Square /\ t \in Square /\ p.board[s] = Signed(c, k)
  /\ Hits(p.board, c, s, t) /\ ~Mine(c, p.board[t])

(* What steps become moves of the rules.                                   *)
LEMMA StepsByRules ==
  ASSUME NEW c, NEW p, NEW k \in Kinds, NEW s, NEW t, NEW f
  PROVE  ByRules(c, p, k, s, t, f) <=>
           /\ StepOf(c, p, k, s, t) /\ f \in BOOLEAN
           /\ f => k \in Promotable /\ (s \in Zone(c) \/ t \in Zone(c))
           /\ ~f => ~Stuck(c, k, t)
  BY DEF ByRules, StepOf

(* The steps that Go makes.                                                *)
LEMMA GoAre ==
  ASSUME NEW p, IsPosition(p), Copies(p), NEW c \in Colour, NEW k \in Kinds, k # pawn,
         NEW S, \A s \in S : s \in Square /\ p.board[s] = Signed(c, k),
         NEW T, T \subseteq Movable(c, p), NEW f, NEW m
  PROVE  m \in Go(c, p, k, S, T, f) <=>
           \E s \in S, t \in T : StepOf(c, p, k, s, t) /\ m = Board(p, k, f, s, t)
<1>1. ASSUME NEW s \in S, NEW t \in T PROVE t \in Reach(c, p, k, s) <=> StepOf(c, p, k, s, t)
  <2>1. s \in Square /\ p.board[s] = Signed(c, k) /\ t \in Square
    BY DEF Movable
  <2>2. ~Mine(c, p.board[t])
    BY <2>1, MovableIs
  <2>3. t \in Reach(c, p, k, s) <=> Hits(p.board, c, s, t)
    BY <2>1, ReachIsHits
  <2> QED BY <2>1, <2>2, <2>3 DEF StepOf
<1>2. m \in Go(c, p, k, S, T, f) <=> \E s \in S, t \in T : t \in Reach(c, p, k, s) /\ m = Board(p, k, f, s, t)
  BY DEF Go
<1> QED BY <1>1, <1>2

(* The steps that Push makes.                                              *)
LEMMA PushAre ==
  ASSUME NEW p, IsPosition(p), Copies(p), NEW c \in Colour, NEW T, T \subseteq Movable(c, p), NEW f, NEW m
  PROVE  m \in Push(c, p, T, f) <=>
           \E s \in Square, t \in T : StepOf(c, p, pawn, s, t) /\ s = t - Ahead(c) /\ m = Board(p, pawn, f, s, t)
<1>1. \A t \in T : t \in Square /\ ~Mine(c, p.board[t])
  <2>1. T \subseteq Square
    BY DEF Movable
  <2> QED BY <2>1, MovableIs
<1>2. ASSUME NEW t \in T, NEW s, s = t - Ahead(c)
      PROVE  t \in p.pawn_atk[c] <=> StepOf(c, p, pawn, s, t)
  <2>1. t \in p.pawn_atk[c] => s \in Square /\ t = s + Ahead(c) /\ p.board[s] = Signed(c, pawn)
    BY <1>2, PieceOf
  <2>2. s \in Square /\ p.board[s] = Signed(c, pawn) => (Hits(p.board, c, s, t) <=> t = s + Ahead(c))
    BY <1>1, PawnsHit
  <2>3. s \in Square /\ p.board[s] = Signed(c, pawn) /\ t = s + Ahead(c) => t \in p.pawn_atk[c]
    BY DEF Copies, OnBoard
  <2> QED BY <1>1, <2>1, <2>2, <2>3 DEF StepOf
<1>3. m \in Push(c, p, T, f) <=> \E t \in T : t \in p.pawn_atk[c] /\ m = Board(p, pawn, f, t - Ahead(c), t)
  BY DEF Push
<1> QED BY <1>2, <1>3 DEF StepOf

(* The steps of silvers.                                                   *)
LEMMA SilverAre ==
  ASSUME NEW p, IsPosition(p), Copies(p), NEW c \in Colour,
         NEW S, \A s \in S : s \in Square /\ p.board[s] = Signed(c, silver),
         NEW T, T \subseteq Movable(c, p), NEW m
  PROVE  m \in SilverMoves(c, p, S, T) <=>
           \E s \in S, t \in T, f \in BOOLEAN :
             StepOf(c, p, silver, s, t) /\ (f => s \in Zone(c) \/ t \in Zone(c)) /\ m = Board(p, silver, f, s, t)
<1>1. silver \in Kinds /\ silver # pawn
  BY KindsAreNumbers, KindsApart
<1> DEFINE either(s) == IF s \in Zone(c) THEN T ELSE T \cap Zone(c)
<1>2. m \in SilverMoves(c, p, S, T) <=>
        m \in Go(c, p, silver, S, T, FALSE) \/ \E s \in S : m \in Go(c, p, silver, {s}, either(s), TRUE)
  BY DEF SilverMoves
<1>3. ASSUME NEW f
      PROVE  m \in Go(c, p, silver, S, T, f) <=>
               \E s \in S, t \in T : StepOf(c, p, silver, s, t) /\ m = Board(p, silver, f, s, t)
  BY <1>1, GoAre
<1>4. ASSUME NEW s \in S, NEW f
      PROVE  m \in Go(c, p, silver, {s}, either(s), f) <=>
               \E t \in either(s) : StepOf(c, p, silver, s, t) /\ m = Board(p, silver, f, s, t)
  <2>1. PICK Y, Z : Y = either(s) /\ Z = {s}
    OBVIOUS
  <2>2. Y \subseteq Movable(c, p) /\ \A x \in Z : x \in Square /\ p.board[x] = Signed(c, silver)
    BY <2>1
  <2>3. m \in Go(c, p, silver, Z, Y, f) <=>
          \E x \in Z, t \in Y : StepOf(c, p, silver, x, t) /\ m = Board(p, silver, f, x, t)
    BY <1>1, <2>2, GoAre
  <2> QED BY <2>1, <2>3
<1>5. \A s : \A t : t \in either(s) <=> t \in T /\ (s \in Zone(c) \/ t \in Zone(c))
  OBVIOUS
<1> HIDE DEF either
<1>6. m \in Go(c, p, silver, S, T, FALSE) <=>
        \E s \in S, t \in T : StepOf(c, p, silver, s, t) /\ m = Board(p, silver, FALSE, s, t)
  BY <1>3
<1>7. ASSUME NEW s \in S
      PROVE  m \in Go(c, p, silver, {s}, either(s), TRUE) <=>
               \E t \in either(s) : StepOf(c, p, silver, s, t) /\ m = Board(p, silver, TRUE, s, t)
  BY <1>4
<1> QED BY <1>2, <1>5, <1>6, <1>7

(* The steps that promote where they may.                                  *)
LEMMA ForcedAre ==
  ASSUME NEW p, IsPosition(p), Copies(p), NEW c \in Colour, NEW k \in Kinds, k # pawn,
         NEW S, \A s \in S : s \in Square /\ p.board[s] = Signed(c, k),
         NEW T, T \subseteq Movable(c, p), NEW m
  PROVE  m \in ForcedPromotion(c, p, k, S, T) <=>
           \E s \in S, t \in T, f \in BOOLEAN :
             StepOf(c, p, k, s, t) /\ (f <=> s \in Zone(c) \/ t \in Zone(c)) /\ m = Board(p, k, f, s, t)
<1> DEFINE touching(s) == IF s \in Zone(c) THEN T ELSE T \cap Zone(c)
<1> DEFINE both(s) == Go(c, p, k, {s}, touching(s), TRUE) \cup Go(c, p, k, {s}, T \ touching(s), FALSE)
<1>1. ForcedPromotion(c, p, k, S, T) = UNION {both(s) : s \in S}
  BY DEF ForcedPromotion
<1>2. m \in ForcedPromotion(c, p, k, S, T) <=> \E s \in S : m \in both(s)
  <2> HIDE DEF both
  <2> QED BY <1>1
<1>3. \A s : m \in both(s) <=>
        m \in Go(c, p, k, {s}, touching(s), TRUE) \/ m \in Go(c, p, k, {s}, T \ touching(s), FALSE)
  OBVIOUS
<1>4. ASSUME NEW s \in S, NEW Y, Y \subseteq T, NEW f
      PROVE  m \in Go(c, p, k, {s}, Y, f) <=>
               \E t \in Y : StepOf(c, p, k, s, t) /\ m = Board(p, k, f, s, t)
  <2>1. PICK Z : Z = {s}
    OBVIOUS
  <2>2. Y \subseteq Movable(c, p) /\ \A x \in Z : x \in Square /\ p.board[x] = Signed(c, k)
    BY <1>4, <2>1
  <2>3. m \in Go(c, p, k, Z, Y, f) <=>
          \E x \in Z, t \in Y : StepOf(c, p, k, x, t) /\ m = Board(p, k, f, x, t)
    BY <2>2, GoAre
  <2> QED BY <2>1, <2>3
<1>5. \A s : \A t : t \in touching(s) <=> t \in T /\ (s \in Zone(c) \/ t \in Zone(c))
  OBVIOUS
<1>6. \A s : touching(s) \subseteq T
  OBVIOUS
<1> HIDE DEF touching, both
<1>7. ASSUME NEW s \in S
      PROVE  /\ m \in Go(c, p, k, {s}, touching(s), TRUE) <=>
                  \E t \in T : StepOf(c, p, k, s, t) /\ (s \in Zone(c) \/ t \in Zone(c)) /\ m = Board(p, k, TRUE, s, t)
             /\ m \in Go(c, p, k, {s}, T \ touching(s), FALSE) <=>
                  \E t \in T : StepOf(c, p, k, s, t) /\ ~(s \in Zone(c) \/ t \in Zone(c)) /\ m = Board(p, k, FALSE, s, t)
  <2>1. m \in Go(c, p, k, {s}, touching(s), TRUE) <=>
          \E t \in touching(s) : StepOf(c, p, k, s, t) /\ m = Board(p, k, TRUE, s, t)
    BY <1>4, <1>6
  <2>2. PICK Y : Y = T \ touching(s)
    OBVIOUS
  <2>3. m \in Go(c, p, k, {s}, Y, FALSE) <=>
          \E t \in Y : StepOf(c, p, k, s, t) /\ m = Board(p, k, FALSE, s, t)
    BY <1>4, <2>2
  <2> QED BY <1>5, <2>1, <2>2, <2>3
<1> QED BY <1>2, <1>3, <1>7

(* A promotion declined that the generators force: movgenex.c makes those. *)
Declines(c, k, s, t, f) ==
  /\ ~f
  /\ \/ k = pawn /\ Row(c, t) \in {1, 2}
     \/ k = lance /\ Row(c, t) = 1
     \/ k \in {bishop, rook} /\ (s \in Zone(c) \/ t \in Zone(c))
(* The moves of the rules that make such a choice, and that do not.        *)
Declining(c, p, k, s, t, f) == ByRules(c, p, k, s, t, f) /\ Declines(c, k, s, t, f)
Forthright(c, p, k, s, t, f) == ByRules(c, p, k, s, t, f) /\ ~Declines(c, k, s, t, f)

(* When a step is which.                                                   *)
LEMMA ForthrightAre ==
  ASSUME NEW p, IsPosition(p), Copies(p), NEW c \in Colour, NEW k \in Kinds, NEW s, NEW t, StepOf(c, p, k, s, t),
         NEW f \in BOOLEAN
  PROVE  /\ k = pawn => (Forthright(c, p, k, s, t, f) <=> (f <=> t \in Zone(c)))
         /\ k \in {lance, knight} => (Forthright(c, p, k, s, t, f) <=> (f => t \in Zone(c)) /\ (~f => t \notin Deep(c)))
         /\ k = silver => (Forthright(c, p, k, s, t, f) <=> (f => s \in Zone(c) \/ t \in Zone(c)))
         /\ k \in {bishop, rook} => (Forthright(c, p, k, s, t, f) <=> (f <=> s \in Zone(c) \/ t \in Zone(c)))
         /\ k \in Golds \cup {horse, dragon} => (Forthright(c, p, k, s, t, f) <=> ~f)
<1>1. ByRules(c, p, k, s, t, f) <=> /\ f => k \in Promotable /\ (s \in Zone(c) \/ t \in Zone(c))
                                    /\ ~f => ~Stuck(c, k, t)
  BY StepsByRules
<1>2. s \in Square /\ t \in Square /\ p.board[s] = Signed(c, k) /\ Hits(p.board, c, s, t)
  BY DEF StepOf
<1>3. k \in {pawn, lance, knight} /\ s \in Zone(c) => t \in Zone(c)
  BY <1>2, ForwardOnly
<1>4. Promotable = {pawn, lance, knight, silver, bishop, rook} /\ Golds = {5, 9, 10, 11, 12}
  BY KindsApart DEF Golds, gold, promote, pawn, lance, knight, silver
<1>5. /\ \A j \in Kinds \ {pawn, lance, knight} : ~Stuck(c, j, t)
      /\ Stuck(c, pawn, t) <=> ~(Row(c, t) >= 1)
      /\ Stuck(c, lance, t) <=> ~(Row(c, t) >= 1)
      /\ Stuck(c, knight, t) <=> t \in Deep(c)
      /\ Row(c, t) \in 0..8
      /\ t \in Zone(c) <=> Row(c, t) <= 2
      /\ t \in Deep(c) <=> Row(c, t) <= 1
  BY <1>2, WhereStuck
<1>6. k = pawn => (Forthright(c, p, k, s, t, f) <=> (f <=> t \in Zone(c)))
  BY <1>1, <1>3, <1>4, <1>5 DEF Forthright, Declines, pawn, lance, bishop, rook
<1>7. k \in {lance, knight} => (Forthright(c, p, k, s, t, f) <=> (f => t \in Zone(c)) /\ (~f => t \notin Deep(c)))
  BY <1>1, <1>3, <1>4, <1>5 DEF Forthright, Declines, pawn, lance, knight, bishop, rook
<1>8. k = silver => (Forthright(c, p, k, s, t, f) <=> (f => s \in Zone(c) \/ t \in Zone(c)))
  BY <1>1, <1>4, <1>5 DEF Forthright, Declines, pawn, lance, knight, silver, bishop, rook
<1>9. k \in {bishop, rook} => (Forthright(c, p, k, s, t, f) <=> (f <=> s \in Zone(c) \/ t \in Zone(c)))
  BY <1>1, <1>4, <1>5 DEF Forthright, Declines, pawn, lance, knight, bishop, rook
<1>10. k \in Golds \cup {horse, dragon} => (Forthright(c, p, k, s, t, f) <=> ~f)
  BY <1>1, <1>4, <1>5 DEF Forthright, Declines, pawn, lance, knight, silver, bishop, rook, horse, dragon
<1> QED BY <1>6, <1>7, <1>8, <1>9, <1>10

(* What a piece of a kind may play onto T if it is free to go.             *)
Plays(c, p, k, S, T, m) ==
  \E s \in S, t \in T, f \in BOOLEAN : Forthright(c, p, k, s, t, f) /\ m = Board(p, k, f, s, t)

(* Only steps are played.                                                  *)
LEMMA PlaysAreSteps ==
  ASSUME NEW c, NEW p, NEW k \in Kinds, NEW s, NEW t, NEW f \in BOOLEAN, Forthright(c, p, k, s, t, f)
  PROVE  StepOf(c, p, k, s, t)
  BY StepsByRules DEF Forthright

(* Knights and lances.                                                     *)
LEMMA FarPlay ==
  ASSUME NEW p, IsPosition(p), Copies(p), NEW c \in Colour, NEW k \in {lance, knight},
         NEW S, \A s \in S : s \in Square /\ p.board[s] = Signed(c, k),
         NEW T, T \subseteq Movable(c, p), NEW m
  PROVE  m \in Go(c, p, k, S, T \cap Zone(c), TRUE) \cup Go(c, p, k, S, T \ Deep(c), FALSE)
           <=> Plays(c, p, k, S, T, m)
<1>1. k \in Kinds /\ k # pawn
  BY KindsAreNumbers, KindsApart
<1>2. ASSUME NEW Y, Y \subseteq T, NEW f
      PROVE  m \in Go(c, p, k, S, Y, f) <=>
               \E s \in S, t \in Y : StepOf(c, p, k, s, t) /\ m = Board(p, k, f, s, t)
  <2>1. Y \subseteq Movable(c, p)
    BY <1>2
  <2> QED BY <1>1, <2>1, GoAre
<1>3. m \in Go(c, p, k, S, T \cap Zone(c), TRUE) <=>
        \E s \in S, t \in T : t \in Zone(c) /\ StepOf(c, p, k, s, t) /\ m = Board(p, k, TRUE, s, t)
  <2>1. PICK Y : Y = T \cap Zone(c)
    OBVIOUS
  <2>2. m \in Go(c, p, k, S, Y, TRUE) <=>
          \E s \in S, t \in Y : StepOf(c, p, k, s, t) /\ m = Board(p, k, TRUE, s, t)
    BY <1>2, <2>1
  <2> QED BY <2>1, <2>2
<1>4. m \in Go(c, p, k, S, T \ Deep(c), FALSE) <=>
        \E s \in S, t \in T : t \notin Deep(c) /\ StepOf(c, p, k, s, t) /\ m = Board(p, k, FALSE, s, t)
  <2>1. PICK Y : Y = T \ Deep(c)
    OBVIOUS
  <2>2. m \in Go(c, p, k, S, Y, FALSE) <=>
          \E s \in S, t \in Y : StepOf(c, p, k, s, t) /\ m = Board(p, k, FALSE, s, t)
    BY <1>2, <2>1
  <2> QED BY <2>1, <2>2
<1>5. ASSUME NEW s, NEW t, NEW f \in BOOLEAN
      PROVE  Forthright(c, p, k, s, t, f) <=>
               StepOf(c, p, k, s, t) /\ (f => t \in Zone(c)) /\ (~f => t \notin Deep(c))
  <2>1. Forthright(c, p, k, s, t, f) => StepOf(c, p, k, s, t)
    BY <1>1, PlaysAreSteps
  <2> QED BY <1>1, <2>1, ForthrightAre
<1>6. Plays(c, p, k, S, T, m) <=>
        \E s \in S, t \in T, f \in BOOLEAN :
          StepOf(c, p, k, s, t) /\ (f => t \in Zone(c)) /\ (~f => t \notin Deep(c)) /\ m = Board(p, k, f, s, t)
  BY <1>5 DEF Plays
<1> QED BY <1>3, <1>4, <1>6

(* Pawns.                                                                  *)
LEMMA PawnsPlay ==
  ASSUME NEW p, IsPosition(p), Copies(p), NEW c \in Colour, NEW T, T \subseteq Movable(c, p), NEW m,
         NEW S, NEW U, S = {s \in p.bb[c][pawn] : Free(c, p, s)},
         U = {t \in T \cap p.pawn_atk[c] : Free(c, p, t - Ahead(c))}
  PROVE  m \in Push(c, p, U \cap Zone(c), TRUE) \cup Push(c, p, U \ Zone(c), FALSE)
           <=> Plays(c, p, pawn, S, T, m)
<1>1. pawn \in Kinds /\ pawn \in BoardKinds
  BY KindsAreNumbers
<1>2. ASSUME NEW Y, Y \subseteq U, NEW f
      PROVE  m \in Push(c, p, Y, f) <=>
               \E s \in Square, t \in Y : StepOf(c, p, pawn, s, t) /\ s = t - Ahead(c) /\ m = Board(p, pawn, f, s, t)
  <2>1. Y \subseteq Movable(c, p)
    BY <1>2
  <2> QED BY <2>1, PushAre
<1>3. ASSUME NEW s, NEW t \in T, StepOf(c, p, pawn, s, t)
      PROVE  s = t - Ahead(c) /\ t \in p.pawn_atk[c] /\ s \in p.bb[c][pawn]
  <2>1. s \in Square /\ t \in Square /\ p.board[s] = Signed(c, pawn) /\ Hits(p.board, c, s, t)
    BY <1>3 DEF StepOf
  <2>2. t = s + Ahead(c)
    BY <2>1, PawnsHit
  <2>3. s = t - Ahead(c)
    BY <2>1, <2>2 DEF Square, Ahead
  <2>4. t \in p.pawn_atk[c]
    BY <2>1, <2>2 DEF Copies, OnBoard
  <2> QED BY <1>1, <2>1, <2>3, <2>4, PiecesInCopies
<1>4. ASSUME NEW s, NEW t \in T, StepOf(c, p, pawn, s, t)
      PROVE  t \in U <=> s \in S
  BY <1>3, <1>4
<1>5. ASSUME NEW f
      PROVE  /\ m \in Push(c, p, U \cap Zone(c), f) <=>
                  \E s \in S, t \in T : StepOf(c, p, pawn, s, t) /\ t \in Zone(c) /\ m = Board(p, pawn, f, s, t)
             /\ m \in Push(c, p, U \ Zone(c), f) <=>
                  \E s \in S, t \in T : StepOf(c, p, pawn, s, t) /\ t \notin Zone(c) /\ m = Board(p, pawn, f, s, t)
  <2>1. PICK Y, Z : Y = U \cap Zone(c) /\ Z = U \ Zone(c)
    OBVIOUS
  <2>2. /\ m \in Push(c, p, Y, f) <=>
             \E s \in Square, t \in Y : StepOf(c, p, pawn, s, t) /\ s = t - Ahead(c) /\ m = Board(p, pawn, f, s, t)
        /\ m \in Push(c, p, Z, f) <=>
             \E s \in Square, t \in Z : StepOf(c, p, pawn, s, t) /\ s = t - Ahead(c) /\ m = Board(p, pawn, f, s, t)
    BY <1>2, <2>1
  <2>3. \A s \in S : s \in Square
    BY <1>1, PieceOf
  <2>4. \A s, t : t \in U => t \in T
    OBVIOUS
  <2> QED BY <1>3, <1>4, <2>1, <2>2, <2>3, <2>4
<1>6. ASSUME NEW s, NEW t, NEW f \in BOOLEAN
      PROVE  Forthright(c, p, pawn, s, t, f) <=> StepOf(c, p, pawn, s, t) /\ (f <=> t \in Zone(c))
  <2>1. Forthright(c, p, pawn, s, t, f) => StepOf(c, p, pawn, s, t)
    BY <1>1, PlaysAreSteps
  <2> QED BY <1>1, <2>1, ForthrightAre
<1>7. Plays(c, p, pawn, S, T, m) <=>
        \E s \in S, t \in T, f \in BOOLEAN :
          StepOf(c, p, pawn, s, t) /\ (f <=> t \in Zone(c)) /\ m = Board(p, pawn, f, s, t)
  BY <1>6 DEF Plays
<1>8. m \in Push(c, p, U \cap Zone(c), TRUE) <=>
        \E s \in S, t \in T : StepOf(c, p, pawn, s, t) /\ t \in Zone(c) /\ m = Board(p, pawn, TRUE, s, t)
  BY <1>5
<1>9. m \in Push(c, p, U \ Zone(c), FALSE) <=>
        \E s \in S, t \in T : StepOf(c, p, pawn, s, t) /\ t \notin Zone(c) /\ m = Board(p, pawn, FALSE, s, t)
  BY <1>5
<1> QED BY <1>7, <1>8, <1>9

(* Silvers, bishops and rooks, and the pieces that never promote.          *)
LEMMA OthersPlay ==
  ASSUME NEW p, IsPosition(p), Copies(p), NEW c \in Colour, NEW k \in Kinds, k # pawn,
         NEW S, \A s \in S : s \in Square /\ p.board[s] = Signed(c, k),
         NEW T, T \subseteq Movable(c, p), NEW m
  PROVE  /\ k = silver => (m \in SilverMoves(c, p, S, T) <=> Plays(c, p, k, S, T, m))
         /\ k \in {bishop, rook} => (m \in ForcedPromotion(c, p, k, S, T) <=> Plays(c, p, k, S, T, m))
         /\ k \in Golds \cup {horse, dragon} => (m \in Go(c, p, k, S, T, FALSE) <=> Plays(c, p, k, S, T, m))
<1>1. ASSUME NEW s, NEW t, NEW f \in BOOLEAN
      PROVE  /\ k = silver =>
                  (Forthright(c, p, k, s, t, f) <=> StepOf(c, p, k, s, t) /\ (f => s \in Zone(c) \/ t \in Zone(c)))
             /\ k \in {bishop, rook} =>
                  (Forthright(c, p, k, s, t, f) <=> StepOf(c, p, k, s, t) /\ (f <=> s \in Zone(c) \/ t \in Zone(c)))
             /\ k \in Golds \cup {horse, dragon} => (Forthright(c, p, k, s, t, f) <=> StepOf(c, p, k, s, t) /\ ~f)
  <2>1. Forthright(c, p, k, s, t, f) => StepOf(c, p, k, s, t)
    BY PlaysAreSteps
  <2> QED BY <2>1, ForthrightAre
<1>2. ASSUME k = silver PROVE m \in SilverMoves(c, p, S, T) <=> Plays(c, p, k, S, T, m)
  <2>1. m \in SilverMoves(c, p, S, T) <=>
           \E s \in S, t \in T, f \in BOOLEAN :
             StepOf(c, p, silver, s, t) /\ (f => s \in Zone(c) \/ t \in Zone(c)) /\ m = Board(p, silver, f, s, t)
    BY <1>2, SilverAre
  <2> QED BY <1>1, <1>2, <2>1 DEF Plays
<1>3. ASSUME k \in {bishop, rook} PROVE m \in ForcedPromotion(c, p, k, S, T) <=> Plays(c, p, k, S, T, m)
  <2>1. m \in ForcedPromotion(c, p, k, S, T) <=>
           \E s \in S, t \in T, f \in BOOLEAN :
             StepOf(c, p, k, s, t) /\ (f <=> s \in Zone(c) \/ t \in Zone(c)) /\ m = Board(p, k, f, s, t)
    BY ForcedAre
  <2> QED BY <1>1, <1>3, <2>1 DEF Plays
<1>4. ASSUME k \in Golds \cup {horse, dragon} PROVE m \in Go(c, p, k, S, T, FALSE) <=> Plays(c, p, k, S, T, m)
  <2>1. ASSUME NEW f
        PROVE  m \in Go(c, p, k, S, T, f) <=> \E s \in S, t \in T : StepOf(c, p, k, s, t) /\ m = Board(p, k, f, s, t)
    BY GoAre
  <2>2. m \in Go(c, p, k, S, T, FALSE) <=>
          \E s \in S, t \in T : StepOf(c, p, k, s, t) /\ m = Board(p, k, FALSE, s, t)
    BY <2>1
  <2>3. Plays(c, p, k, S, T, m) <=>
          \E s \in S, t \in T, f \in BOOLEAN : StepOf(c, p, k, s, t) /\ ~f /\ m = Board(p, k, f, s, t)
    BY <1>1, <1>4 DEF Plays
  <2> QED BY <2>2, <2>3
<1> QED BY <1>2, <1>3, <1>4

(* Lances, one by one: genevasn.c takes the square they reach first.       *)
LEMMA LancePlays ==
  ASSUME NEW p, IsPosition(p), Copies(p), NEW c \in Colour, NEW K, K = p.sq_king[c],
         NEW z, Giving(p.board, Flip(c), K) = {z}, NEW T, T = UpTo(K, z), T \subseteq Movable(c, p), NEW m,
         NEW s \in p.bb[c][lance], NEW R, R = AttackLance(c, p, s) \cap T,
         NEW L, L = (IF R = {} THEN {} ELSE {Furthest(c, R)})
  PROVE  m \in Go(c, p, lance, {s}, L \cap Zone(c), TRUE) \cup Go(c, p, lance, {s}, L \ Deep(c), FALSE)
           <=> Plays(c, p, lance, {s}, T, m)
<1>1. lance \in Kinds /\ lance # pawn /\ lance \in BoardKinds
  BY KindsAreNumbers, KindsApart
<1>2. s \in Square /\ p.board[s] = Signed(c, lance)
  BY <1>1, PieceOf
<1>3. L = R
  <2>1. \A u, v : u \in R /\ v \in R => u = v
    BY <1>2, LanceLandsOnce
  <2>2. ASSUME NEW u \in R PROVE Furthest(c, R) = u
    <3>1. R = {u}
      BY <2>1
    <3>2. (CHOOSE y \in {u} : \A t \in {u} : Rel(c, t) <= Rel(c, y)) = u
      <4>1. Rel(c, u) \in Int
        BY <1>2 DEF Rel, nsquare, Movable, Square
      <4> QED BY <4>1
    <3> QED BY <3>1, <3>2 DEF Furthest
  <2> QED BY <2>1, <2>2
<1>4. R \subseteq Movable(c, p) /\ \A x \in {s} : x \in Square /\ p.board[x] = Signed(c, lance)
  BY <1>2
<1>5. m \in Go(c, p, lance, {s}, R \cap Zone(c), TRUE) \cup Go(c, p, lance, {s}, R \ Deep(c), FALSE)
        <=> Plays(c, p, lance, {s}, R, m)
  <2>1. PICK S : S = {s}
    OBVIOUS
  <2>2. \A x \in S : x \in Square /\ p.board[x] = Signed(c, lance)
    BY <1>4, <2>1
  <2>3. m \in Go(c, p, lance, S, R \cap Zone(c), TRUE) \cup Go(c, p, lance, S, R \ Deep(c), FALSE)
          <=> Plays(c, p, lance, S, R, m)
    BY <1>4, <2>2, FarPlay
  <2> QED BY <2>1, <2>3
<1>6. ASSUME NEW t \in T, NEW f \in BOOLEAN, Forthright(c, p, lance, s, t, f) PROVE t \in R
  <2>1. StepOf(c, p, lance, s, t)
    BY <1>1, <1>6, PlaysAreSteps
  <2>2. t \in Reach(c, p, lance, s)
    BY <1>1, <1>2, <2>1, ReachIsHits DEF StepOf
  <2> QED BY <2>2, ReachOfKinds
<1>7. Plays(c, p, lance, {s}, R, m) <=> Plays(c, p, lance, {s}, T, m)
  BY <1>6 DEF Plays
<1> QED BY <1>3, <1>5, <1>7

(* The pieces of a kind that genevasn.c lets go.                           *)
FreeOnes(c, p, k) == {s \in p.bb[c][k] : Free(c, p, s)}
LEMMA FreeOnesAre ==
  ASSUME NEW p, IsPosition(p), Copies(p), NEW c \in Colour, NEW k \in BoardKinds
  PROVE  /\ \A s \in FreeOnes(c, p, k) : s \in Square /\ p.board[s] = Signed(c, k)
         /\ \A s \in Square : p.board[s] = Signed(c, k) => (s \in FreeOnes(c, p, k) <=> Free(c, p, s))
<1>1. k \in Kinds
  BY KindsAreNumbers
<1> QED BY <1>1, PieceOf, PiecesInCopies DEF FreeOnes

(* Pawns, knights, silvers and lances in answer to a check.                *)
LEMMA StepsAnswer ==
  ASSUME NEW p, IsPosition(p), Copies(p), NEW c \in Colour, NEW K, K = p.sq_king[c],
         NEW z, Giving(p.board, Flip(c), K) = {z}, NEW T, T = UpTo(K, z), T \subseteq Movable(c, p), NEW m
  PROVE  m \in evade_steps(c, p, T) <=>
           \E k \in {pawn, knight, silver, lance} : Plays(c, p, k, FreeOnes(c, p, k), T, m)
<1> DEFINE U == {t \in T \cap p.pawn_atk[c] : Free(c, p, t - Ahead(c))}
           landing(s) == LET R == AttackLance(c, p, s) \cap T IN IF R = {} THEN {} ELSE {Furthest(c, R)}
           far(k, S, Y) == Go(c, p, k, S, Y \cap Zone(c), TRUE) \cup Go(c, p, k, S, Y \ Deep(c), FALSE)
           lancing(s) == far(lance, {s}, landing(s))
<1>1. evade_steps(c, p, T) =
        Push(c, p, U \cap Zone(c), TRUE) \cup Push(c, p, U \ Zone(c), FALSE)
          \cup far(knight, FreeOnes(c, p, knight), T)
          \cup SilverMoves(c, p, FreeOnes(c, p, silver), T)
          \cup UNION {lancing(s) : s \in FreeOnes(c, p, lance)}
  BY DEF evade_steps, FreeOnes
<1>2. /\ pawn \in BoardKinds /\ knight \in BoardKinds /\ silver \in BoardKinds /\ lance \in BoardKinds
      /\ \A k \in BoardKinds : k \in Kinds
      /\ pawn # knight /\ pawn # silver /\ pawn # lance
  BY KindsAreNumbers, KindsApart
<1>3. m \in Push(c, p, U \cap Zone(c), TRUE) \cup Push(c, p, U \ Zone(c), FALSE)
        <=> Plays(c, p, pawn, FreeOnes(c, p, pawn), T, m)
  <2>1. PICK S, V : S = FreeOnes(c, p, pawn) /\ V = U
    OBVIOUS
  <2>2. S = {s \in p.bb[c][pawn] : Free(c, p, s)} /\ V = {t \in T \cap p.pawn_atk[c] : Free(c, p, t - Ahead(c))}
    BY <2>1 DEF FreeOnes
  <2>3. m \in Push(c, p, V \cap Zone(c), TRUE) \cup Push(c, p, V \ Zone(c), FALSE) <=> Plays(c, p, pawn, S, T, m)
    BY <2>2, PawnsPlay
  <2> QED BY <2>1, <2>3
<1>4. m \in far(knight, FreeOnes(c, p, knight), T) <=> Plays(c, p, knight, FreeOnes(c, p, knight), T, m)
  <2>1. PICK S : S = FreeOnes(c, p, knight)
    OBVIOUS
  <2>2. \A s \in S : s \in Square /\ p.board[s] = Signed(c, knight)
    BY <1>2, <2>1, FreeOnesAre
  <2>3. m \in Go(c, p, knight, S, T \cap Zone(c), TRUE) \cup Go(c, p, knight, S, T \ Deep(c), FALSE)
          <=> Plays(c, p, knight, S, T, m)
    BY <2>2, FarPlay
  <2> QED BY <2>1, <2>3
<1>5. m \in SilverMoves(c, p, FreeOnes(c, p, silver), T) <=> Plays(c, p, silver, FreeOnes(c, p, silver), T, m)
  <2>1. PICK S : S = FreeOnes(c, p, silver)
    OBVIOUS
  <2>2. \A s \in S : s \in Square /\ p.board[s] = Signed(c, silver)
    BY <1>2, <2>1, FreeOnesAre
  <2>3. m \in SilverMoves(c, p, S, T) <=> Plays(c, p, silver, S, T, m)
    BY <1>2, <2>2, OthersPlay
  <2> QED BY <2>1, <2>3
<1>6. ASSUME NEW s \in FreeOnes(c, p, lance) PROVE m \in lancing(s) <=> Plays(c, p, lance, {s}, T, m)
  <2>1. PICK R, L : R = AttackLance(c, p, s) \cap T /\ L = IF R = {} THEN {} ELSE {Furthest(c, R)}
    OBVIOUS
  <2>2. s \in p.bb[c][lance]
    BY DEF FreeOnes
  <2>3. m \in Go(c, p, lance, {s}, L \cap Zone(c), TRUE) \cup Go(c, p, lance, {s}, L \ Deep(c), FALSE)
           <=> Plays(c, p, lance, {s}, T, m)
    BY <2>1, <2>2, LancePlays
  <2>4. landing(s) = L
    BY <2>1
  <2> QED BY <2>3, <2>4
<1> HIDE DEF lancing, far, landing
<1>7. Plays(c, p, lance, FreeOnes(c, p, lance), T, m) <=>
        \E s \in FreeOnes(c, p, lance) : Plays(c, p, lance, {s}, T, m)
  BY DEF Plays
<1>8. m \in UNION {lancing(s) : s \in FreeOnes(c, p, lance)} <=> Plays(c, p, lance, FreeOnes(c, p, lance), T, m)
  BY <1>6, <1>7
<1> HIDE DEF U
<1> QED BY <1>1, <1>3, <1>4, <1>5, <1>8

(* Bishops, rooks, golds, horses and dragons in answer to a check.         *)
LEMMA OthersAnswer ==
  ASSUME NEW p, IsPosition(p), Copies(p), NEW c \in Colour, NEW T, T \subseteq Movable(c, p), NEW m
  PROVE  m \in evade_others(c, p, T) <=>
           \E k \in {bishop, rook, horse, dragon} \cup Golds : Plays(c, p, k, FreeOnes(c, p, k), T, m)
<1> DEFINE going(k) == Go(c, p, k, FreeOnes(c, p, k), T, FALSE)
<1>1. evade_others(c, p, T) =
        ForcedPromotion(c, p, bishop, FreeOnes(c, p, bishop), T)
          \cup ForcedPromotion(c, p, rook, FreeOnes(c, p, rook), T)
          \cup UNION {going(k) : k \in Golds \cup {horse, dragon}}
  BY DEF evade_others, FreeOnes
<1>2. \A k \in {bishop, rook, horse, dragon} \cup Golds : k \in BoardKinds /\ k \in Kinds /\ k # pawn
  BY KindsAreNumbers, KindsApart
<1>3. ASSUME NEW k \in {bishop, rook, horse, dragon} \cup Golds
      PROVE  /\ k \in {bishop, rook} => (m \in ForcedPromotion(c, p, k, FreeOnes(c, p, k), T)
                                           <=> Plays(c, p, k, FreeOnes(c, p, k), T, m))
             /\ k \in Golds \cup {horse, dragon} => (m \in going(k) <=> Plays(c, p, k, FreeOnes(c, p, k), T, m))
  <2>1. PICK S : S = FreeOnes(c, p, k)
    OBVIOUS
  <2>2. \A s \in S : s \in Square /\ p.board[s] = Signed(c, k)
    BY <1>2, <2>1, FreeOnesAre
  <2>3. /\ k \in {bishop, rook} => (m \in ForcedPromotion(c, p, k, S, T) <=> Plays(c, p, k, S, T, m))
        /\ k \in Golds \cup {horse, dragon} => (m \in Go(c, p, k, S, T, FALSE) <=> Plays(c, p, k, S, T, m))
    BY <1>2, <2>2, OthersPlay
  <2> QED BY <2>1, <2>3
<1> HIDE DEF going
<1>4. m \in UNION {going(k) : k \in Golds \cup {horse, dragon}} <=>
        \E k \in Golds \cup {horse, dragon} : m \in going(k)
  OBVIOUS
<1> QED BY <1>1, <1>3, <1>4

(* The steps that answer a check by one piece, but for the king's: to take *)
(* it or come between, by the pieces that are not pinned.                  *)
Answering(c, p, T, m) ==
  \E k \in Kinds \ {king}, s \in Square, t \in T, f \in BOOLEAN :
    Forthright(c, p, k, s, t, f) /\ Free(c, p, s) /\ m = Board(p, k, f, s, t)
LEMMA AnswersAreSteps ==
  ASSUME NEW p, IsPosition(p), Copies(p), NEW c \in Colour, NEW K, K = p.sq_king[c],
         NEW z, Giving(p.board, Flip(c), K) = {z}, NEW T, T = UpTo(K, z), T \subseteq Movable(c, p), NEW m
  PROVE  m \in evade_steps(c, p, T) \cup evade_others(c, p, T) <=> Answering(c, p, T, m)
<1>1. Kinds \ {king} = {pawn, knight, silver, lance} \cup {bishop, rook, horse, dragon} \cup Golds
  BY DEF Kinds, Golds, gold, promote, pawn, lance, knight, silver, bishop, rook, king, horse, dragon
<1>2. \A k \in Kinds \ {king} : k \in BoardKinds
  BY DEF Kinds, BoardKinds, Golds, gold, promote, pawn, lance, knight, silver, bishop, rook, king, horse, dragon
<1>3. ASSUME NEW k \in Kinds \ {king}
      PROVE  Plays(c, p, k, FreeOnes(c, p, k), T, m) <=>
               \E s \in Square, t \in T, f \in BOOLEAN :
                 Forthright(c, p, k, s, t, f) /\ Free(c, p, s) /\ m = Board(p, k, f, s, t)
  <2>1. PICK S : S = FreeOnes(c, p, k)
    OBVIOUS
  <2>2. /\ \A s \in S : s \in Square /\ Free(c, p, s)
        /\ \A s \in Square : p.board[s] = Signed(c, k) => (s \in S <=> Free(c, p, s))
    <3>1. \A s \in FreeOnes(c, p, k) : s \in Square /\ Free(c, p, s)
      BY <1>2, FreeOnesAre DEF FreeOnes
    <3> QED BY <1>2, <2>1, <3>1, FreeOnesAre
  <2>4. ASSUME NEW s, NEW t \in T, NEW f \in BOOLEAN, Forthright(c, p, k, s, t, f)
        PROVE  s \in S <=> s \in Square /\ Free(c, p, s)
    <3>1. s \in Square /\ p.board[s] = Signed(c, k)
      BY <2>4 DEF Forthright, ByRules
    <3> QED BY <2>2, <3>1
  <2>5. Plays(c, p, k, S, T, m) <=>
          \E s \in Square, t \in T, f \in BOOLEAN :
            Forthright(c, p, k, s, t, f) /\ Free(c, p, s) /\ m = Board(p, k, f, s, t)
    BY <2>4 DEF Plays
  <2> QED BY <2>1, <2>5
<1>4. m \in evade_steps(c, p, T) <=>
        \E k \in {pawn, knight, silver, lance} : Plays(c, p, k, FreeOnes(c, p, k), T, m)
  BY StepsAnswer
<1>5. m \in evade_others(c, p, T) <=>
        \E k \in {bishop, rook, horse, dragon} \cup Golds : Plays(c, p, k, FreeOnes(c, p, k), T, m)
  BY OthersAnswer
<1> QED BY <1>1, <1>3, <1>4, <1>5 DEF Answering

(* When a step declines.                                                   *)
LEMMA DecliningAre ==
  ASSUME NEW p, IsPosition(p), Copies(p), NEW c \in Colour, NEW k \in Kinds, NEW s, NEW t, StepOf(c, p, k, s, t),
         NEW f \in BOOLEAN
  PROVE  Declining(c, p, k, s, t, f) <=>
           /\ ~f
           /\ \/ k = pawn /\ Row(c, t) \in {1, 2}
              \/ k = lance /\ Row(c, t) = 1
              \/ k \in {bishop, rook} /\ (s \in Zone(c) \/ t \in Zone(c))
<1>1. ByRules(c, p, k, s, t, f) <=> /\ f => k \in Promotable /\ (s \in Zone(c) \/ t \in Zone(c))
                                    /\ ~f => ~Stuck(c, k, t)
  BY StepsByRules
<1>2. t \in Square
  BY DEF StepOf
<1>3. /\ \A j \in Kinds \ {pawn, lance, knight} : ~Stuck(c, j, t)
      /\ Stuck(c, pawn, t) <=> ~(Row(c, t) >= 1)
      /\ Stuck(c, lance, t) <=> ~(Row(c, t) >= 1)
  BY <1>2, WhereStuck
<1> QED BY <1>1, <1>3 DEF Declining, Declines, pawn, lance, knight, bishop, rook

(* What may decline onto T.                                                *)
Forgoes(c, p, k, T, m) ==
  \E s \in Square, t \in T, f \in BOOLEAN : Declining(c, p, k, s, t, f) /\ m = Board(p, k, f, s, t)

(* Where a piece of a kind has a promotion to decline.                     *)
Declinable(c, k, s, t) ==
  \/ k = pawn /\ Row(c, t) \in {1, 2}
  \/ k = lance /\ Row(c, t) = 1
  \/ k \in {bishop, rook} /\ (s \in Zone(c) \/ t \in Zone(c))
(* The steps of a kind from or to such a place, made without promotion.    *)
Refusing(c, p, k, T, m) ==
  \E s \in Square, t \in T : StepOf(c, p, k, s, t) /\ Declinable(c, k, s, t) /\ m = Board(p, k, FALSE, s, t)

(* What forgoes a promotion is a step from or to such a place.             *)
LEMMA ForgoneAre ==
  ASSUME NEW p, IsPosition(p), Copies(p), NEW c \in Colour, NEW k \in Kinds, NEW T, NEW m
  PROVE  Forgoes(c, p, k, T, m) <=> Refusing(c, p, k, T, m)
<1>1. ASSUME NEW s, NEW t, NEW f \in BOOLEAN
      PROVE  Declining(c, p, k, s, t, f) <=> StepOf(c, p, k, s, t) /\ ~f /\ Declinable(c, k, s, t)
  <2>1. Declining(c, p, k, s, t, f) => StepOf(c, p, k, s, t)
    BY StepsByRules DEF Declining
  <2> QED BY <2>1, DecliningAre DEF Declinable
<1>2. Forgoes(c, p, k, T, m) <=>
        \E s \in Square, t \in T, f \in BOOLEAN :
          StepOf(c, p, k, s, t) /\ ~f /\ Declinable(c, k, s, t) /\ m = Board(p, k, f, s, t)
  BY <1>1 DEF Forgoes
<1> QED BY <1>2 DEF Refusing

(* movgenex.c makes the moves that decline a promotion, and no other.      *)
LEMMA DeclinedAre ==
  ASSUME NEW p, IsPosition(p), Copies(p), NEW c \in Colour, NEW T, T \subseteq Movable(c, p), NEW m
  PROVE  m \in Declined(c, p, T) <=> \E k \in Kinds : Forgoes(c, p, k, T, m)
<1> DEFINE second == {s \in Square : Row(c, s) = 1}
           third == {s \in Square : Row(c, s) = 2}
           onto(s) == IF s \in Zone(c) THEN T ELSE T \cap Zone(c)
           going(k, s) == Go(c, p, k, {s}, onto(s), FALSE)
           of(k) == UNION {going(k, s) : s \in p.bb[c][k]}
<1>1. Declined(c, p, T) = Push(c, p, T \cap (second \cup third), FALSE) \cup of(bishop) \cup of(rook)
                            \cup Go(c, p, lance, p.bb[c][lance], T \cap second, FALSE)
  BY DEF Declined
<1>2. T \subseteq Square
  BY DEF Movable
<1>3. /\ pawn \in Kinds /\ lance \in Kinds /\ bishop \in Kinds /\ rook \in Kinds
      /\ lance \in BoardKinds /\ bishop \in BoardKinds /\ rook \in BoardKinds
      /\ pawn # lance /\ pawn # bishop /\ pawn # rook /\ lance # bishop /\ lance # rook
  BY KindsAreNumbers, KindsApart DEF lance, bishop, rook
<1>4. m \in Push(c, p, T \cap (second \cup third), FALSE) <=> Forgoes(c, p, pawn, T, m)
  <2>1. PICK Y : Y = T \cap (second \cup third)
    OBVIOUS
  <2>2. \A t : t \in Y <=> t \in T /\ Row(c, t) \in {1, 2}
    BY <1>2, <2>1
  <2>3. Y \subseteq Movable(c, p)
    BY <2>1
  <2>4. ASSUME NEW f
        PROVE  m \in Push(c, p, Y, f) <=>
                 \E s \in Square, t \in Y : StepOf(c, p, pawn, s, t) /\ s = t - Ahead(c) /\ m = Board(p, pawn, f, s, t)
    BY <2>3, PushAre
  <2>5. m \in Push(c, p, Y, FALSE) <=>
          \E s \in Square, t \in Y : StepOf(c, p, pawn, s, t) /\ s = t - Ahead(c) /\ m = Board(p, pawn, FALSE, s, t)
    BY <2>4
  <2>6. ASSUME NEW s \in Square, NEW t \in T, StepOf(c, p, pawn, s, t) PROVE s = t - Ahead(c)
    <3>1. t \in Square /\ p.board[s] = Signed(c, pawn) /\ Hits(p.board, c, s, t)
      BY <2>6 DEF StepOf
    <3>2. t = s + Ahead(c)
      BY <3>1, PawnsHit
    <3> QED BY <3>1, <3>2 DEF Square, Ahead
  <2>7. Forgoes(c, p, pawn, T, m) <=>
           \E s \in Square, t \in T :
             StepOf(c, p, pawn, s, t) /\ Row(c, t) \in {1, 2} /\ m = Board(p, pawn, FALSE, s, t)
    <3>0. Forgoes(c, p, pawn, T, m) <=> Refusing(c, p, pawn, T, m)
      BY <1>3, ForgoneAre
    <3>1. Forgoes(c, p, pawn, T, m) <=>
            \E s \in Square, t \in T :
              StepOf(c, p, pawn, s, t) /\ Declinable(c, pawn, s, t) /\ m = Board(p, pawn, FALSE, s, t)
      BY <3>0 DEF Refusing
    <3>2. \A s, t : Declinable(c, pawn, s, t) <=> Row(c, t) \in {1, 2}
      BY <1>3 DEF Declinable
    <3> QED BY <3>1, <3>2
  <2> QED BY <2>1, <2>2, <2>5, <2>6, <2>7
<1>5. m \in Go(c, p, lance, p.bb[c][lance], T \cap second, FALSE) <=> Forgoes(c, p, lance, T, m)
  <2>1. PICK Y, S : Y = T \cap second /\ S = p.bb[c][lance]
    OBVIOUS
  <2>2. \A t : t \in Y <=> t \in T /\ Row(c, t) = 1
    BY <1>2, <2>1
  <2>3. Y \subseteq Movable(c, p) /\ \A s \in S : s \in Square /\ p.board[s] = Signed(c, lance)
    BY <1>3, <2>1, PieceOf
  <2>4. ASSUME NEW f
        PROVE  m \in Go(c, p, lance, S, Y, f) <=>
                 \E s \in S, t \in Y : StepOf(c, p, lance, s, t) /\ m = Board(p, lance, f, s, t)
    BY <1>3, <2>3, GoAre
  <2>5. m \in Go(c, p, lance, S, Y, FALSE) <=>
          \E s \in S, t \in Y : StepOf(c, p, lance, s, t) /\ m = Board(p, lance, FALSE, s, t)
    BY <2>4
  <2>6. \A s, t : StepOf(c, p, lance, s, t) => s \in Square /\ s \in S
    BY <1>3, <2>1, PiecesInCopies DEF StepOf
  <2>7. Forgoes(c, p, lance, T, m) <=>
           \E s \in Square, t \in T :
             StepOf(c, p, lance, s, t) /\ Row(c, t) = 1 /\ m = Board(p, lance, FALSE, s, t)
    <3>0. Forgoes(c, p, lance, T, m) <=> Refusing(c, p, lance, T, m)
      BY <1>3, ForgoneAre
    <3>1. Forgoes(c, p, lance, T, m) <=>
            \E s \in Square, t \in T :
              StepOf(c, p, lance, s, t) /\ Declinable(c, lance, s, t) /\ m = Board(p, lance, FALSE, s, t)
      BY <3>0 DEF Refusing
    <3>2. \A s, t : Declinable(c, lance, s, t) <=> Row(c, t) = 1
      BY <1>3 DEF Declinable
    <3> QED BY <3>1, <3>2
  <2> QED BY <2>1, <2>2, <2>5, <2>6, <2>7
<1>6. ASSUME NEW k \in {bishop, rook} PROVE m \in of(k) <=> Forgoes(c, p, k, T, m)
  <2>0. k \in Kinds /\ k # pawn /\ k # lance /\ k \in BoardKinds
    BY <1>3
  <2>1. ASSUME NEW s \in p.bb[c][k], NEW f
        PROVE  m \in Go(c, p, k, {s}, onto(s), f) <=>
                 \E t \in onto(s) : StepOf(c, p, k, s, t) /\ m = Board(p, k, f, s, t)
    <3>1. PICK Y, S : Y = onto(s) /\ S = {s}
      OBVIOUS
    <3>2. Y \subseteq Movable(c, p) /\ \A x \in S : x \in Square /\ p.board[x] = Signed(c, k)
      BY <2>0, <3>1, PieceOf
    <3>3. m \in Go(c, p, k, S, Y, f) <=> \E x \in S, t \in Y : StepOf(c, p, k, x, t) /\ m = Board(p, k, f, x, t)
      BY <2>0, <3>2, GoAre
    <3> QED BY <3>1, <3>3
  <2>2. ASSUME NEW s \in p.bb[c][k]
        PROVE  m \in going(k, s) <=>
                 \E t \in onto(s) : StepOf(c, p, k, s, t) /\ m = Board(p, k, FALSE, s, t)
    BY <2>1
  <2>3. \A s : \A t : t \in onto(s) <=> t \in T /\ (s \in Zone(c) \/ t \in Zone(c))
    OBVIOUS
  <2>4. m \in of(k) <=> \E s \in p.bb[c][k] : m \in going(k, s)
    <3> HIDE DEF going
    <3> QED OBVIOUS
  <2> HIDE DEF onto, going, of
  <2>5. m \in of(k) <=> \E s \in p.bb[c][k], t \in T :
          StepOf(c, p, k, s, t) /\ (s \in Zone(c) \/ t \in Zone(c)) /\ m = Board(p, k, FALSE, s, t)
    BY <2>2, <2>3, <2>4
  <2>6. \A s, t : StepOf(c, p, k, s, t) => s \in Square /\ s \in p.bb[c][k]
    BY <2>0, PiecesInCopies DEF StepOf
  <2>7. Forgoes(c, p, k, T, m) <=>
           \E s \in Square, t \in T :
             StepOf(c, p, k, s, t) /\ (s \in Zone(c) \/ t \in Zone(c)) /\ m = Board(p, k, FALSE, s, t)
    <3>0. Forgoes(c, p, k, T, m) <=> Refusing(c, p, k, T, m)
      BY <2>0, ForgoneAre
    <3>1. Forgoes(c, p, k, T, m) <=>
            \E s \in Square, t \in T :
              StepOf(c, p, k, s, t) /\ Declinable(c, k, s, t) /\ m = Board(p, k, FALSE, s, t)
      BY <3>0 DEF Refusing
    <3>2. \A s, t : Declinable(c, k, s, t) <=> (s \in Zone(c) \/ t \in Zone(c))
      BY <2>0 DEF Declinable
    <3> QED BY <3>1, <3>2
  <2> QED BY <2>5, <2>6, <2>7
<1>7. ASSUME NEW k \in Kinds \ {pawn, lance, bishop, rook} PROVE ~Forgoes(c, p, k, T, m)
  BY <1>7, ForgoneAre DEF Declinable, Refusing
<1> HIDE DEF of, second, third
<1> QED BY <1>1, <1>3, <1>4, <1>5, <1>6, <1>7

(***************************************************************************)
(* The moves genevasn.c makes.                                             *)
(***************************************************************************)

(* Two pieces give check, or one, if they are no more than two.            *)
LEMMA OneOrTwo ==
  ASSUME NEW S, NEW u, NEW v, S \subseteq {u, v}, S # {}
  PROVE  /\ Cardinality(S) = 2 => \E y \in S, z \in S : y # z
         /\ Cardinality(S) # 2 => \E z : S = {z}
<1>1. CASE \E z : S = {z}
  <2>1. PICK z : S = {z}
    BY <1>1
  <2>2. Cardinality(S) = 1
    BY <2>1, FS_Singleton
  <2> QED BY <1>1, <2>2
<1>2. CASE ~\E z : S = {z}
  <2>1. PICK y, z : y \in S /\ z \in S /\ y # z
    BY <1>2
  <2>2. S = {y, z}
    BY <2>1
  <2>3. Cardinality(S) = 2
    <3>1. IsFiniteSet({z}) /\ Cardinality({z}) = 1
      BY FS_Singleton
    <3>2. Cardinality({z} \cup {y}) = 2
      BY <2>1, <3>1, FS_AddElement
    <3> QED BY <2>2, <3>2
  <2> QED BY <2>1, <2>3
<1> QED BY <1>1, <1>2

(* Between the king and a single piece that gives check: the squares to    *)
(* move to.                                                                *)
LEMMA TargetsAre ==
  ASSUME NEW p, IsPosition(p), Copies(p), NEW c \in Colour, NEW K, K = p.sq_king[c],
         NEW z, Giving(p.board, Flip(c), K) = {z}
  PROVE  /\ Between(c, p) = abb_obstacle[K][z]
         /\ Between(c, p) \cup Checkers(c, p) = UpTo(K, z)
         /\ Between(c, p) \subseteq Empty(p)
         /\ UpTo(K, z) \subseteq Movable(c, p)
<1>1. Checkers(c, p) = {z}
  BY CheckersAre
<1>2. Furthest(c, {z}) = z
  BY DEF Furthest
<1>3. Between(c, p) = abb_obstacle[K][z]
  BY <1>1, <1>2 DEF Between
<1>4. z \in Square /\ abb_obstacle[K][z] \cap Taken(p.board) = {}
  <2>1. PICK b, d : b = p.board /\ d = Flip(c)
    OBVIOUS
  <2>2. z \in Giving(b, d, K)
    BY <2>1
  <2>3. K \in Square /\ d \in Colour
    BY <2>1, TheKingIsThere, Flips
  <2>4. z \in Square /\ abb_obstacle[K][z] \cap Taken(b) = {}
    BY <2>2, <2>3, GivingIsFree
  <2> QED BY <2>1, <2>4
<1>5. K \in Square
  BY TheKingIsThere
<1>6. abb_obstacle[K][z] \subseteq Square
  BY <1>4, <1>5, EitherEnd
<1>7. abb_obstacle[K][z] \subseteq Empty(p)
  BY <1>4, <1>6, EmptyIs DEF Taken
<1>8. z \in p.occ[Flip(c)]
  BY <1>1 DEF Checkers
<1>9. UpTo(K, z) \subseteq Movable(c, p)
  BY <1>4, <1>6, <1>7, <1>8, MovableIs DEF UpTo
<1> QED BY <1>1, <1>3, <1>7, <1>9 DEF UpTo

(* A move of a piece on the board by the rules, forthright or declining.   *)
BoardStep(c, p, m) ==
  \E k \in Kinds, s \in Square, t \in Square, f \in BOOLEAN : ByRules(c, p, k, s, t, f) /\ m = Board(p, k, f, s, t)
ForthrightStep(c, p, m) ==
  \E k \in Kinds, s \in Square, t \in Square, f \in BOOLEAN : Forthright(c, p, k, s, t, f) /\ m = Board(p, k, f, s, t)
Drop(c, p, m) ==
  \E k \in Hands, t \in Square : /\ DropByRules(c, p, k, t) /\ m = DropMove(k, t)
                                 /\ k = pawn => ~IsMatePawnDrop(c, p, t)

(* Which halves are called.                                                *)
LEMMA HalvesOfEvasion ==
  ASSUME NEW p, NEW c \in Colour
  PROVE  /\ GenEvasion(c, p) = gen_evasion(c, p)
         /\ GenEx2(c, p) = Declined(c, p, p.occ[Flip(c)]) \cup Declined(c, p, Empty(p))
<1>1. CASE c = white
  BY <1>1 DEF GenEvasion, w_gen_evasion, gen_evasion, w_evade_king, w_evade_steps, w_evade_others, w_evade_drops,
       GenEx2, GenCapNoProEx2, GenNoCapNoProEx2, w_gen_cap_nopro_ex2, w_gen_nocap_nopro_ex2, gen_cap_nopro_ex2,
       gen_nocap_nopro_ex2
<1>2. CASE c = black
  BY <1>2 DEF GenEvasion, GenEx2, GenCapNoProEx2, GenNoCapNoProEx2, gen_cap_nopro_ex2, gen_nocap_nopro_ex2, white, black
<1> QED BY <1>1, <1>2 DEF Colour

(* movgenex.c makes the declining moves.                                   *)
LEMMA Ex2Is ==
  ASSUME NEW p, IsPosition(p), Copies(p), NEW c \in Colour, NEW m
  PROVE  m \in GenEx2(c, p) <=>
           \E k \in Kinds, s \in Square, t \in Square, f \in BOOLEAN :
             Declining(c, p, k, s, t, f) /\ m = Board(p, k, f, s, t)
<1>1. p.occ[Flip(c)] \subseteq Movable(c, p) /\ Empty(p) \subseteq Movable(c, p)
  <2>1. p.occ[Flip(c)] \subseteq Square /\ Empty(p) \subseteq Square
    <3>1. p.occ[Flip(c)] \subseteq Square
      BY FreeOfOwn DEF Movable
    <3> QED BY <3>1, EmptyIs
  <2> QED BY <2>1, MovableIs
<1>2. m \in GenEx2(c, p) <=> \/ \E k \in Kinds : Forgoes(c, p, k, p.occ[Flip(c)], m)
                             \/ \E k \in Kinds : Forgoes(c, p, k, Empty(p), m)
  BY <1>1, HalvesOfEvasion, DeclinedAre
<1>3. ASSUME NEW k \in Kinds, NEW s, NEW t, NEW f \in BOOLEAN, Declining(c, p, k, s, t, f)
      PROVE  t \in p.occ[Flip(c)] \/ t \in Empty(p)
  <2>1. StepOf(c, p, k, s, t)
    BY <1>3, StepsByRules DEF Declining
  <2> QED BY <2>1, MovableIs DEF StepOf
<1>4. \A t : t \in p.occ[Flip(c)] \/ t \in Empty(p) => t \in Square
  BY <1>1 DEF Movable
<1> QED BY <1>2, <1>3, <1>4 DEF Forgoes

(* No two steps are the same move.                                         *)
Written(p, k, f, s, t, m) == m = Board(p, k, f, s, t) /\ s \in Square
LEMMA WhatIsWritten ==
  ASSUME NEW p, NEW k, NEW f, NEW s, NEW t, NEW m, Written(p, k, f, s, t, m)
  PROVE  m.from = s /\ m.to = t /\ m.piece = k /\ m.promo = f
  BY PartsOfSteps DEF Written

(* The steps that decline nothing.                                         *)
LEMMA ForthrightStepsAre ==
  ASSUME NEW p, IsPosition(p), Copies(p), NEW c \in Colour, NEW m
  PROVE  /\ BoardStep(c, p, m) /\ m \notin GenEx2(c, p) <=> ForthrightStep(c, p, m)
         /\ Drop(c, p, m) => m \notin GenEx2(c, p)
<1>2. ASSUME BoardStep(c, p, m), m \notin GenEx2(c, p) PROVE ForthrightStep(c, p, m)
  BY <1>2, Ex2Is DEF BoardStep, ForthrightStep, Forthright, Declining
<1>3. ASSUME ForthrightStep(c, p, m) PROVE BoardStep(c, p, m) /\ m \notin GenEx2(c, p)
  <2>1. PICK k \in Kinds, s \in Square, t \in Square, f \in BOOLEAN :
          Forthright(c, p, k, s, t, f) /\ Written(p, k, f, s, t, m)
    BY <1>3 DEF ForthrightStep, Written
  <2>2. ASSUME m \in GenEx2(c, p) PROVE FALSE
    <3>1. PICK k2 \in Kinds, s2 \in Square, t2 \in Square, f2 \in BOOLEAN :
            Declining(c, p, k2, s2, t2, f2) /\ Written(p, k2, f2, s2, t2, m)
      BY <2>2, Ex2Is DEF Written
    <3>2. k = k2 /\ s = s2 /\ t = t2 /\ f = f2
      <4>1. m.from = s /\ m.to = t /\ m.piece = k /\ m.promo = f
        BY <2>1, WhatIsWritten
      <4>2. m.from = s2 /\ m.to = t2 /\ m.piece = k2 /\ m.promo = f2
        BY <3>1, WhatIsWritten
      <4> QED BY <4>1, <4>2
    <3>3. ~Declines(c, k, s, t, f)
      BY <2>1 DEF Forthright
    <3>4. Declines(c, k2, s2, t2, f2)
      BY <3>1 DEF Declining
    <3> QED BY <3>2, <3>3, <3>4
  <2>3. BoardStep(c, p, m)
    BY <2>1 DEF BoardStep, Forthright, Written
  <2> QED BY <2>2, <2>3
<1>4. ASSUME Drop(c, p, m), m \in GenEx2(c, p) PROVE FALSE
  <2>1. PICK k \in Hands, t \in Square : m = DropMove(k, t)
    BY <1>4 DEF Drop
  <2>2. IsDrop(m)
    BY <2>1, PartsOfDrops
  <2>3. PICK k2 \in Kinds, s2 \in Square, t2 \in Square, f2 \in BOOLEAN : m = Board(p, k2, f2, s2, t2)
    BY <1>4, Ex2Is
  <2>4. ~IsDrop(m)
    BY <2>3, PartsOfSteps
  <2> QED BY <2>2, <2>4
<1> QED BY <1>2, <1>3, <1>4

(* The legal moves that decline nothing.                                   *)
LEMMA LegalAre ==
  ASSUME NEW p, IsPosition(p), Copies(p), Alive(p), NEW c \in Colour, KingIsSafe(c, p), NEW m
  PROVE  m \in Legal(p.board, p.hand, c) \ GenEx2(c, p) <=>
           (ForthrightStep(c, p, m) \/ Drop(c, p, m)) /\ Safe(p.board, c, m)
<1>1. m \in Legal(p.board, p.hand, c) <=> m \in MovesByRules(c, p) /\ Safe(p.board, c, m)
  BY MovesByRulesArePseudoLegal DEF Legal
<1>2. m \in MovesByRules(c, p) <=> BoardStep(c, p, m) \/ Drop(c, p, m)
  BY MovesByRulesAre DEF BoardStep, Drop
<1> QED BY <1>1, <1>2, ForthrightStepsAre

(* At most two pieces give check to c.                                     *)
Few(c, p) == \E u, v : Giving(p.board, Flip(c), p.sq_king[c]) \subseteq {u, v}

(* The king's steps decline nothing.                                       *)
LEMMA KingsAreForthright ==
  ASSUME NEW p, IsPosition(p), Copies(p), NEW c \in Colour, NEW K, K = p.sq_king[c],
         NEW s \in Square, NEW t \in Square, NEW f \in BOOLEAN
  PROVE  Forthright(c, p, king, s, t, f) <=> s = K /\ ~f /\ ByRules(c, p, king, s, t, f)
<1>1. king \in Kinds /\ king \notin Promotable /\ king \notin {pawn, lance, bishop, rook}
  BY KindsAreNumbers, KindsApart DEF king, Promotable, pawn, lance, knight, silver, bishop, rook
<1>2. ByRules(c, p, king, s, t, f) => ~f
  BY <1>1 DEF ByRules
<1>3. ~Declines(c, king, s, t, f)
  BY <1>1 DEF Declines
<1>4. ByRules(c, p, king, s, t, f) => s = K
  <2>1. OnBoard(p.board, c, {king}) = {K}
    BY DEF Copies
  <2> QED BY <2>1 DEF ByRules, OnBoard
<1> QED BY <1>2, <1>3, <1>4 DEF Forthright

(* The legal moves of the king that decline nothing: all of them, as       *)
(* genevasn.c makes them.                                                  *)
KingsStep(c, p, m) ==
  \E s \in Square, t \in Square, f \in BOOLEAN : Forthright(c, p, king, s, t, f) /\ m = Board(p, king, f, s, t)
LEMMA KingsEvasionsAre ==
  ASSUME NEW p, IsPosition(p), Copies(p), Alive(p), NEW c \in Colour, KingIsSafe(c, p), NEW m
  PROVE  m \in evade_king(c, p) <=> KingsStep(c, p, m) /\ Safe(p.board, c, m)
<1>1. PICK K : K = p.sq_king[c]
  OBVIOUS
<1>2. K \in Square
  BY <1>1, TheKingIsThere
<1>3. m \in evade_king(c, p) <=>
        \E t \in Square : /\ ByRules(c, p, king, K, t, FALSE)
                          /\ m = Board(p, king, FALSE, K, t)
                          /\ Safe(p.board, c, m)
  BY <1>1, KingEvades
<1>4. KingsStep(c, p, m) <=>
        \E s \in Square, t \in Square, f \in BOOLEAN :
          s = K /\ ~f /\ ByRules(c, p, king, s, t, f) /\ m = Board(p, king, f, s, t)
  BY <1>1, KingsAreForthright DEF KingsStep
<1>5. KingsStep(c, p, m) <=>
        \E t \in Square : ByRules(c, p, king, K, t, FALSE) /\ m = Board(p, king, FALSE, K, t)
  BY <1>2, <1>4
<1> QED BY <1>3, <1>5

(* The steps of the other pieces.                                          *)
OthersStep(c, p, m) ==
  \E k \in Kinds \ {king}, s \in Square, t \in Square, f \in BOOLEAN :
    Forthright(c, p, k, s, t, f) /\ m = Board(p, k, f, s, t)
LEMMA ForthrightSplit ==
  ASSUME NEW p, NEW c, NEW m
  PROVE  ForthrightStep(c, p, m) <=> KingsStep(c, p, m) \/ OthersStep(c, p, m)
<1>1. king \in Kinds
  BY KindsAreNumbers
<1> QED BY <1>1 DEF ForthrightStep, KingsStep, OthersStep

(* One piece gives check: the answers that are not the king's.             *)
LEMMA EvasionsOfOne ==
  ASSUME NEW p, IsPosition(p), Copies(p), Alive(p), NEW c \in Colour, KingIsSafe(c, p),
         NEW K, K = p.sq_king[c], NEW z, Giving(p.board, Flip(c), K) = {z}, NEW T, T = UpTo(K, z), NEW m
  PROVE  m \in evade_steps(c, p, T) \cup evade_others(c, p, T) \cup evade_drops(c, p) <=>
           (OthersStep(c, p, m) \/ Drop(c, p, m)) /\ Safe(p.board, c, m)
<1>1. /\ Between(c, p) = abb_obstacle[K][z] /\ Between(c, p) \subseteq Empty(p)
      /\ T \subseteq Movable(c, p) /\ T \subseteq Square
  <2>1. Between(c, p) = abb_obstacle[K][z] /\ Between(c, p) \subseteq Empty(p) /\ T \subseteq Movable(c, p)
    BY TargetsAre
  <2> QED BY <2>1 DEF Movable
<1>2. m \in evade_steps(c, p, T) \cup evade_others(c, p, T) <=> Answering(c, p, T, m)
  BY <1>1, AnswersAreSteps
<1>3. ASSUME NEW k \in Kinds \ {king}, NEW s \in Square, NEW t \in Square, NEW f \in BOOLEAN,
             Forthright(c, p, k, s, t, f), m = Board(p, k, f, s, t)
      PROVE  Safe(p.board, c, m) <=> t \in T /\ Free(c, p, s)
  <2>1. ByRules(c, p, k, s, t, f)
    BY <1>3 DEF Forthright
  <2> QED BY <1>3, <2>1, AnswersToOne
<1>4. m \in evade_steps(c, p, T) \cup evade_others(c, p, T) <=> OthersStep(c, p, m) /\ Safe(p.board, c, m)
  BY <1>1, <1>2, <1>3 DEF OthersStep, Answering
<1>5. m \in evade_drops(c, p) <=>
        \E k \in Hands, t \in abb_obstacle[K][z] :
          /\ DropByRules(c, p, k, t) /\ m = DropMove(k, t)
          /\ k = pawn => ~IsMatePawnDrop(c, p, t)
  BY <1>1, DropsOnAre DEF evade_drops
<1>6. \A k, w : DropByRules(c, p, k, w) => (Safe(p.board, c, DropMove(k, w)) <=> w \in abb_obstacle[K][z])
  BY AnswersToOne
<1>7. \A t \in abb_obstacle[K][z] : t \in Square
  BY <1>1, EmptyIs
<1>8. m \in evade_drops(c, p) <=> Drop(c, p, m) /\ Safe(p.board, c, m)
  BY <1>5, <1>6, <1>7 DEF Drop
<1> QED BY <1>4, <1>8

(* The moves genevasn.c makes in check are the legal moves but for the     *)
(* promotions declined.                                                    *)
LEMMA EvasionsAre ==
  ASSUME NEW p, IsPosition(p), Copies(p), Alive(p), NEW c \in Colour, KingIsSafe(c, p), InCheck(c, p), Few(c, p)
  PROVE  GenEvasion(c, p) = Legal(p.board, p.hand, c) \ GenEx2(c, p)
<1>1. PICK K : K = p.sq_king[c]
  OBVIOUS
<1>2. PICK b, d, S : b = p.board /\ d = Flip(c) /\ S = Giving(b, d, K)
  OBVIOUS
<1>0. Checkers(c, p) = S
  BY <1>1, <1>2, CheckersAre
<1>3. GenEvasion(c, p) = gen_evasion(c, p)
  BY HalvesOfEvasion
<1>4. ASSUME NEW m
      PROVE  m \in Legal(p.board, p.hand, c) \ GenEx2(c, p) <=>
               (KingsStep(c, p, m) \/ OthersStep(c, p, m) \/ Drop(c, p, m)) /\ Safe(p.board, c, m)
  BY LegalAre, ForthrightSplit
<1>5. \A m : m \in evade_king(c, p) <=> KingsStep(c, p, m) /\ Safe(p.board, c, m)
  BY KingsEvasionsAre
<1>6. S # {}
  BY <1>0, SomethingGivesCheck
<1>7. PICK u, v : S \subseteq {u, v}
  BY <1>1, <1>2 DEF Few
<1>8. CASE Cardinality(Checkers(c, p)) = 2
  <2>1. gen_evasion(c, p) = evade_king(c, p)
    BY <1>8 DEF gen_evasion
  <2>2. PICK y \in S, z \in S : y # z
    BY <1>0, <1>7, <1>8, <1>6, OneOrTwo
  <2>3. ASSUME NEW m, OthersStep(c, p, m) PROVE ~Safe(p.board, c, m)
    <3>1. PICK k \in Kinds \ {king}, s \in Square, t \in Square, f \in BOOLEAN :
            Forthright(c, p, k, s, t, f) /\ m = Board(p, k, f, s, t)
      BY <2>3 DEF OthersStep
    <3>2. ByRules(c, p, k, s, t, f)
      BY <3>1 DEF Forthright
    <3> QED BY <1>1, <1>2, <2>2, <3>1, <3>2, AnswersToTwo
  <2>4. ASSUME NEW m, Drop(c, p, m) PROVE ~Safe(p.board, c, m)
    BY <1>1, <1>2, <2>2, <2>4, AnswersToTwo DEF Drop
  <2> QED BY <1>3, <1>4, <1>5, <2>1, <2>3, <2>4
<1>9. CASE Cardinality(Checkers(c, p)) # 2
  <2>1. PICK z : S = {z}
    BY <1>0, <1>6, <1>7, <1>9, OneOrTwo
  <2>2. PICK T : T = UpTo(K, z)
    OBVIOUS
  <2>3. Between(c, p) \cup Checkers(c, p) = T
    <3>1. Giving(p.board, Flip(c), K) = {z}
      BY <1>2, <2>1
    <3>2. Between(c, p) \cup Checkers(c, p) = UpTo(K, z)
      BY <1>1, <3>1, TargetsAre
    <3> QED BY <2>2, <3>2
  <2>4. gen_evasion(c, p) =
          evade_king(c, p) \cup (evade_steps(c, p, T) \cup evade_others(c, p, T) \cup evade_drops(c, p))
    BY <1>9, <2>3 DEF gen_evasion
  <2>5. ASSUME NEW m
        PROVE  m \in evade_steps(c, p, T) \cup evade_others(c, p, T) \cup evade_drops(c, p) <=>
                 (OthersStep(c, p, m) \/ Drop(c, p, m)) /\ Safe(p.board, c, m)
    BY <1>1, <1>2, <2>1, <2>2, EvasionsOfOne
  <2> QED BY <1>3, <1>4, <1>5, <2>4, <2>5
<1> QED BY <1>8, <1>9

(***************************************************************************)
(* At most two pieces give check in a walk.                                *)
(***************************************************************************)

(* A finite set of no more than two elements.                              *)
LEMMA AtMostTwo ==
  ASSUME NEW S, IsFiniteSet(S), Cardinality(S) <= 2
  PROVE  \E u, v : S \subseteq {u, v}
<1>1. CASE \E y \in S, z \in S : y # z
  <2>1. PICK y \in S, z \in S : y # z
    BY <1>1
  <2>2. IsFiniteSet(S \ {y}) /\ Cardinality(S \ {y}) = Cardinality(S) - 1
    BY FS_RemoveElement
  <2>3. IsFiniteSet((S \ {y}) \ {z}) /\ Cardinality((S \ {y}) \ {z}) = Cardinality(S) - 1 - 1
    BY <2>1, <2>2, FS_RemoveElement
  <2>4. Cardinality((S \ {y}) \ {z}) = 0
    <3>1. Cardinality((S \ {y}) \ {z}) \in Nat /\ Cardinality(S) \in Nat
      BY <2>3, FS_CardinalityType
    <3> QED BY <2>3, <3>1
  <2>5. (S \ {y}) \ {z} = {}
    BY <2>3, <2>4, FS_EmptySet
  <2> QED BY <2>5
<1>2. CASE ~\E y \in S, z \in S : y # z
  <2>1. CASE S = {}
    BY <2>1
  <2>2. CASE S # {}
    <3>1. PICK y : y \in S
      BY <2>2
    <3>2. S \subseteq {y, y}
      BY <1>2, <3>1
    <3> QED BY <3>2
  <2> QED BY <2>1, <2>2
<1> QED BY <1>1, <1>2

(* Two pieces that a move uncovers would stand one behind the other.       *)
LEMMA OneDiscoverer ==
  ASSUME NEW b, NEW b2, NEW c \in Colour, NEW t \in Square, NEW x \in Square,
         NEW z1, NEW z2, NEW j1 \in Kinds, NEW j2 \in Kinds,
         Strikes(b2, c, j1, z1, t), Strikes(b2, c, j2, z2, t), z1 \in Square, z2 \in Square,
         x \in abb_obstacle[z1][t], x \in abb_obstacle[z2][t]
  PROVE  z1 = z2
<1>1. z1 \in Taken(b2) /\ z2 \in Taken(b2)
  <2>1. \A j \in Kinds : Signed(c, j) # empty
    BY SignedIsOne
  <2> QED BY <2>1 DEF Strikes, Taken
<1>2. abb_obstacle[z1][t] \cap Taken(b2) = {} /\ abb_obstacle[z2][t] \cap Taken(b2) = {}
  BY DEF Strikes
<1>3. z1 # t /\ z2 # t
  BY AimFacts DEF Strikes
<1>4. abb_obstacle[z1][t] = abb_obstacle[t][z1] /\ abb_obstacle[z2][t] = abb_obstacle[t][z2]
  BY EitherEnd
<1>5. x \in UpTo(t, z1) /\ x \in UpTo(t, z2)
  BY <1>4 DEF UpTo
<1>6. ASSUME z1 # z2 PROVE z1 \in abb_obstacle[t][z2] \/ z2 \in abb_obstacle[t][z1]
  BY <1>3, <1>5, <1>6, OnOneSide
<1> QED BY <1>1, <1>2, <1>4, <1>6

(* After a move two pieces at most give check: the one that has moved and  *)
(* one that it has uncovered.                                              *)
LEMMA MovesCheckTwice ==
  ASSUME NEW p, Sane(p), NEW c \in Colour, KingIsSafe(c, p), NEW m, Good(c, p, m),
         NEW q, q = make_move(c, p, m), IsPosition(q), Copies(q), NEW d, d = Flip(c)
  PROVE  Few(d, q)
<1>1. IsPosition(p) /\ Copies(p) /\ Fits(c, p, m) /\ d \in Colour /\ Flip(d) = c /\ d # c
  BY Flips DEF Sane, Good
<1>2. MoveFacts(c, p, m)
  BY <1>1, FittingMoves
<1>3. q.board = BoardAfter(c, p, m)
  <2>1. MadeOf(c, p, m, q)
    BY <1>1, PositionHasFields, MadeFields
  <2> QED BY <2>1 DEF MadeOf
<1>4. PICK b, b2, t : b = p.board /\ b2 = q.board /\ t = p.sq_king[d]
  OBVIOUS
<1>5. t = q.sq_king[d]
  <2>1. OnBoard(q.board, d, {king}) = {p.sq_king[d]}
    <3>1. OnBoard(BoardAfter(c, p, m), d, {king}) = {IF m.piece = king /\ d = c THEN m.to ELSE p.sq_king[d]}
      BY <1>1, <1>2, KingsFollow, SMTT(30)
    <3> QED BY <1>1, <1>3, <3>1
  <2>2. OnBoard(q.board, d, {king}) = {q.sq_king[d]}
    BY <1>1 DEF Copies
  <2> QED BY <1>4, <2>1, <2>2
<1>6. t \in Square
  BY <1>1, <1>4, TheKingIsThere
<1>7. \A s \in Square, k \in Kinds : ~Strikes(b, c, k, s, t)
  <2>1. \A s \in Square : b[s] \in Pieces
    BY <1>1, <1>4 DEF IsPosition
  <2>2. ~Attacked(b, c, t)
    BY <1>1, <1>4, <1>6, AttackedByTheRules DEF KingIsSafe
  <2> QED BY <2>1, <2>2, AttackedAre
<1>8. PICK y, L : y = m.to /\ L = Left(m)
  OBVIOUS
<1>9. /\ y \in Square /\ L \subseteq Square /\ y \notin L
      /\ \A s \in Square : s # y => b2[s] = IF s \in L THEN empty ELSE b[s]
      /\ \A s, u : s \in L /\ u \in L => s = u
  BY <1>2, <1>3, <1>4, <1>8 DEF MoveFacts
<1>10. ASSUME NEW z \in Giving(b2, c, t), z # y
       PROVE  z \in Square /\ \E k \in Kinds : Strikes(b2, c, k, z, t) /\ \E x \in L : x \in abb_obstacle[z][t]
  <2>1. z \in Square
    BY DEF Giving
  <2>2. PICK k \in Kinds : Strikes(b2, c, k, z, t)
    BY <1>10 DEF Giving
  <2>3. b2[z] = Signed(c, k) /\ Aims(c, k, z, t) /\ abb_obstacle[z][t] \cap Taken(b2) = {}
    BY <2>2 DEF Strikes
  <2>4. Signed(c, k) # empty
    BY SignedIsOne
  <2>5. b[z] = Signed(c, k)
    BY <1>9, <1>10, <2>1, <2>3, <2>4
  <2>6. PICK x \in abb_obstacle[z][t] : x \in Taken(b)
    BY <1>7, <2>1, <2>3, <2>5 DEF Strikes
  <2>7. x \in Square /\ b[x] # empty /\ x \notin Taken(b2)
    BY <2>3, <2>6 DEF Taken
  <2>8. b2[x] = empty
    BY <2>7 DEF Taken
  <2>9. x # y
    <3>1. b2[y] = Signed(c, Comes(m)) /\ Comes(m) \in Kinds
      BY <1>2, <1>3, <1>4, <1>8 DEF MoveFacts
    <3> QED BY <2>8, <3>1, SignedIsOne
  <2>10. x \in L
    BY <1>9, <2>7, <2>8, <2>9
  <2> QED BY <2>1, <2>2, <2>6, <2>10
<1>11. ASSUME NEW z1 \in Giving(b2, c, t), z1 # y, NEW z2 \in Giving(b2, c, t), z2 # y
       PROVE  z1 = z2
  <2>1. z1 \in Square /\ \E k \in Kinds : Strikes(b2, c, k, z1, t) /\ \E x \in L : x \in abb_obstacle[z1][t]
    BY <1>10, <1>11
  <2>2. z2 \in Square /\ \E k \in Kinds : Strikes(b2, c, k, z2, t) /\ \E x \in L : x \in abb_obstacle[z2][t]
    BY <1>10, <1>11
  <2>3. PICK j1 \in Kinds, x \in L : Strikes(b2, c, j1, z1, t) /\ x \in abb_obstacle[z1][t]
    BY <2>1
  <2>4. PICK j2 \in Kinds, x2 \in L : Strikes(b2, c, j2, z2, t) /\ x2 \in abb_obstacle[z2][t]
    BY <2>2
  <2>5. x2 = x /\ x \in Square
    BY <1>9, <2>3, <2>4
  <2> QED BY <1>6, <2>1, <2>2, <2>3, <2>4, <2>5, OneDiscoverer
<1>12. \E u, v : Giving(b2, c, t) \subseteq {u, v}
  <2>1. CASE \E z \in Giving(b2, c, t) : z # y
    <3>1. PICK z \in Giving(b2, c, t) : z # y
      BY <2>1
    <3>2. Giving(b2, c, t) \subseteq {y, z}
      BY <1>11, <3>1
    <3> QED BY <3>2
  <2>2. CASE ~\E z \in Giving(b2, c, t) : z # y
    <3>1. Giving(b2, c, t) \subseteq {y, y}
      BY <2>2
    <3> QED BY <3>1
  <2> QED BY <2>1, <2>2
<1> QED BY <1>1, <1>4, <1>5, <1>12 DEF Few

(* So it is in the positions a walk may start from.                        *)
LEMMA StartsCheckTwice ==
  ASSUME NEW x, WellFormed(x), Playable(x), NEW p, p = SetUp(x.board, x.hand), Sane(p), NEW c, c = x.turn
  PROVE  Few(c, p)
<1>1. c \in Colour /\ Cardinality(Attackers(x.board, Flip(c), KingOf(x.board, c))) <= 2
  BY DEF Playable
<1>2. p.board = x.board
  <2>1. PICK b, h : b = x.board /\ h = x.hand
    OBVIOUS
  <2>2. SetUpOf(b, h, p)
    BY <2>1, SetUpFields
  <2> QED BY <2>1, <2>2 DEF SetUpOf
<1>3. IsPosition(p) /\ Copies(p)
  BY DEF Sane
<1>4. PICK d, K, b : d = Flip(c) /\ K = p.sq_king[c] /\ b = p.board
  OBVIOUS
<1>5. KingOf(x.board, c) = K /\ d \in Colour
  BY <1>1, <1>2, <1>3, <1>4, TheKingIsThere, Flips
<1>6. PICK S : S = Giving(b, d, K)
  OBVIOUS
<1>7. Attackers(b, d, K) = S
  <2>1. IsBoard(b)
    BY <1>3, <1>4 DEF IsPosition, IsBoard
  <2> QED BY <1>5, <1>6, <2>1, AttackersAre
<1>8. Cardinality(S) <= 2
  BY <1>1, <1>2, <1>4, <1>5, <1>7
<1>9. IsFiniteSet(S)
  <2>1. S \subseteq Square
    BY <1>6 DEF Giving
  <2> QED BY <2>1, SquaresAreFinite, FS_Subset
<1>10. \E u, v : S \subseteq {u, v}
  BY <1>8, <1>9, AtMostTwo
<1> QED BY <1>4, <1>6, <1>10 DEF Few

(* In no position of a walk do more than two pieces give check to the      *)
(* side to move: genevasn.c knows one and two.                             *)
Sparse(x, p, t, l, r) ==
  /\ p = NoPosition => t = x.turn
  /\ p # NoPosition => Few(t, p)
  /\ \A i \in 1..Len(l) : Few(Mover(t, Len(l), i), r[i])

(* Who moved from a position stays the same when the walk goes on.         *)
LEMMA MoversStay ==
  ASSUME NEW t \in Colour, NEW n \in Nat, NEW i \in 1..n
  PROVE  Mover(Flip(t), n + 1, i) = Mover(t, n, i) /\ Mover(Flip(t), n, i) = Mover(t, n + 1, i)
<1>1. (n + 1 - i) % 2 = 0 <=> (n - i) % 2 # 0
  BY Parity
<1> QED BY <1>1, Flips DEF Mover

(* A move made.                                                            *)
LEMMA SparseGoesOn ==
  ASSUME NEW x, NEW p, NEW t, NEW l, NEW r, Walk(x, p, t, l, r), Sparse(x, p, t, l, r),
         p # NoPosition, ~InCheck(Flip(t), p), NEW m \in Generated(t, p), NEW q, q = MakeMove(t, p, m),
         NEW e, NEW l2, l2 = Append(l, e), NEW r2, r2 = Append(r, p), q # NoPosition
  PROVE  Sparse(x, q, Flip(t), l2, r2)
<1>1. t \in Colour /\ Flip(t) \in Colour /\ Flip(Flip(t)) = t /\ Sane(p)
  BY Flips DEF Walk, Reached
<1>2. IsPosition(p) /\ Copies(p)
  BY <1>1 DEF Sane
<1>3. Good(t, p, m) /\ KingIsSafe(t, p)
  BY <1>1, <1>2, GeneratedAreGood DEF KingIsSafe, InCheck
<1>4. q = make_move(t, p, m)
  BY <1>1, MoveIsMade
<1>5. IsPosition(q) /\ Copies(q)
  BY <1>2, <1>1, <1>3, <1>4, MakingKeepsCopies DEF Good
<1>6. Few(Flip(t), q)
  BY <1>1, <1>3, <1>4, <1>5, MovesCheckTwice
<1>7. Extended(l, e, l2) /\ Extended(r, p, r2) /\ Len(r) = Len(l)
  BY Appended DEF Walk
<1>8. PICK n \in Nat : n = Len(l)
  BY <1>7 DEF Extended
<1>9. Len(l2) = n + 1 /\ r2[n + 1] = p /\ \A i \in 1..n : r2[i] = r[i]
  BY <1>7, <1>8 DEF Extended
<1>10. ASSUME NEW i \in 1..(n + 1) PROVE Few(Mover(Flip(t), n + 1, i), r2[i])
  <2>1. CASE i = n + 1
    <3>1. Mover(Flip(t), n + 1, i) = t
      BY <1>1, <2>1 DEF Mover
    <3> QED BY <1>9, <2>1, <3>1 DEF Sparse
  <2>2. CASE i \in 1..n
    <3>1. Few(Mover(t, n, i), r[i])
      BY <1>8, <2>2 DEF Sparse
    <3>2. Mover(Flip(t), n + 1, i) = Mover(t, n, i)
      BY <1>1, <2>2, MoversStay
    <3> QED BY <1>9, <2>2, <3>1, <3>2
  <2>3. i = n + 1 \/ i \in 1..n
    OBVIOUS
  <2> QED BY <2>1, <2>2, <2>3
<1> QED BY <1>6, <1>9, <1>10 DEF Sparse

(* A move taken back.                                                      *)
LEMMA SparseComesBack ==
  ASSUME NEW x, NEW p, NEW t, NEW l, NEW r, Walk(x, p, t, l, r), Sparse(x, p, t, l, r), l # <<>>,
         NEW q, NEW l2, NEW r2, WentBack(p, t, l, r, q, l2, r2), q = r[Len(r)], q # NoPosition
  PROVE  Sparse(x, q, Flip(t), l2, r2)
<1>1. t \in Colour /\ Flip(t) \in Colour
  BY Flips DEF Walk
<1>2. /\ Len(l) \in Nat /\ Len(l) > 0 /\ Len(l2) = Len(l) - 1
  BY Shortened DEF Walk, WentBack
<1>3. Len(r) = Len(l) /\ \A i \in 1..Len(l2) : r2[i] = r[i]
  <2>1. IsASequence(r) /\ Len(r) = Len(l)
    BY DEF Walk
  <2>2. r # <<>>
    BY <1>2, <2>1
  <2>3. Len(r2) = Len(r) - 1 /\ \A i \in 1..Len(r2) : r2[i] = r[i]
    BY <2>1, <2>2, Shortened DEF WentBack
  <2> QED BY <1>2, <2>1, <2>3
<1>4. PICK n \in Nat : n = Len(l) - 1
  BY <1>2
<1>5. Len(l) = n + 1 /\ Len(l2) = n /\ q = r[n + 1]
  BY <1>2, <1>3, <1>4
<1>6. \A i \in 1..(n + 1) : Few(Mover(t, n + 1, i), r[i])
  BY <1>5 DEF Sparse
<1>7. Few(Flip(t), q)
  <2>1. Mover(t, n + 1, n + 1) = Flip(t)
    BY DEF Mover
  <2> QED BY <1>5, <1>6, <2>1
<1>8. ASSUME NEW i \in 1..n PROVE Few(Mover(Flip(t), n, i), r2[i])
  <2>1. Mover(Flip(t), n, i) = Mover(t, n + 1, i)
    BY <1>1, MoversStay
  <2> QED BY <1>3, <1>5, <1>6, <2>1
<1> QED BY <1>5, <1>7, <1>8 DEF Sparse

SparseInv == WalkInv /\ Sparse(start, pos, turn, line, seen)

(* A position that is none is not reached.                                 *)
LEMMA ReachedIsSome == ASSUME NEW x, NEW q, Reached(x, q) PROVE q # NoPosition
  BY NoPositionIsNone DEF Reached

(* The start.                                                              *)
LEMMA SparseInvInit == Init => SparseInv
<1> SUFFICES ASSUME Init PROVE SparseInv
  OBVIOUS
<1>1. line = <<>> /\ pos = NoPosition /\ turn = start.turn
  BY DEF Init
<1>2. Len(line) = 0
  BY <1>1
<1>3. \A i \in 1..Len(line) : FALSE
  BY <1>2
<1> QED BY <1>1, <1>3, WalkInvInit, Zenon DEF SparseInv, Sparse

(* ini_game.                                                               *)
LEMMA SparseInvBegun == ASSUME SparseInv, ini_game PROVE SparseInv'
<1>1. WalkInv' /\ start \in Starts /\ WellFormed(start) /\ Playable(start)
  BY WalkInvBegun, MovesAssumption DEF SparseInv, WalkInv
<1>2. pos = NoPosition /\ pos' = SetUp(start.board, start.hand)
      /\ start' = start /\ turn' = turn /\ line' = line /\ seen' = seen
  BY DEF ini_game
<1>3. turn = start.turn
  BY <1>2 DEF SparseInv, Sparse
<1>4. line = <<>>
  BY <1>2 DEF SparseInv, WalkInv, Walk
<1>5. Sane(pos')
  BY <1>1, <1>2, SetUpIsSane
<1>6. Few(turn, pos')
  BY <1>1, <1>2, <1>3, <1>5, StartsCheckTwice
<1>7. pos' # NoPosition
  BY <1>5, NoPositionIsNone
<1>8. Len(line) = 0
  BY <1>4
<1>9. \A i \in 1..Len(line) : FALSE
  BY <1>8
<1>10. Sparse(start, pos', turn, line, seen)
  BY <1>6, <1>7, <1>9, Zenon DEF Sparse
<1> QED BY <1>1, <1>2, <1>10 DEF SparseInv

(* make_move.                                                              *)
LEMMA SparseInvMade == ASSUME SparseInv, Make PROVE SparseInv'
<1>1. WalkInv /\ Walk(start, pos, turn, line, seen) /\ Sparse(start, pos, turn, line, seen)
  BY DEF SparseInv, WalkInv
<1>2. WalkInv' /\ Len(line') > Len(line)
  BY <1>1, WalkInvMade
<1>3. pos # NoPosition /\ ~InCheck(Flip(turn), pos)
  BY DEF Make, Sound
<1>4. PICK m \in Generated(turn, pos) :
        /\ pos' = MakeMove(turn, pos, m)
        /\ line' = Append(line, [move |-> m, key |-> pos.key, material |-> pos.material])
  BY DEF Make
<1>5. turn' = Flip(turn) /\ seen' = Append(seen, pos) /\ start' = start
  BY DEF Make
<1>6. pos' # NoPosition
  <2>1. Walk(start', pos', turn', line', seen')
    BY <1>2 DEF WalkInv
  <2>2. line' # <<>>
    <3>1. IsASequence(line)
      BY <1>1 DEF Walk
    <3>2. Len(line) \in Nat
      BY <3>1 DEF IsASequence
    <3> QED BY <1>2, <3>2
  <2> QED BY <2>1, <2>2 DEF Walk
<1>7. PICK e : line' = Append(line, e)
  BY <1>4
<1>8. Sparse(start, pos', Flip(turn), line', seen')
  BY <1>1, <1>3, <1>4, <1>5, <1>6, <1>7, SparseGoesOn
<1> QED BY <1>2, <1>5, <1>8 DEF SparseInv

(* unmake_move.                                                            *)
LEMMA SparseInvUnmade == ASSUME SparseInv, UnMake PROVE SparseInv'
<1>1. WalkInv /\ Walk(start, pos, turn, line, seen) /\ Sparse(start, pos, turn, line, seen)
  BY DEF SparseInv, WalkInv
<1>2. WalkInv' /\ pos' = seen[Len(seen)]
  BY <1>1, WalkInvUnmade
<1>3. line # <<>> /\ WentBack(pos, turn, line, seen, pos', line', seen')
  BY DEF UnMake, WentBack
<1>4. turn' = Flip(turn) /\ start' = start
  BY DEF UnMake
<1>5. pos' # NoPosition
  <2>1. Len(line) \in Nat /\ Len(line) > 0 /\ Len(seen) = Len(line)
    BY <1>1, <1>3, Shortened DEF Walk, WentBack
  <2>2. Reached(start, seen[Len(seen)])
    BY <1>1, <2>1 DEF Walk
  <2> QED BY <1>2, <2>2, ReachedIsSome
<1>6. Sparse(start, pos', Flip(turn), line', seen')
  BY <1>1, <1>2, <1>3, <1>5, SparseComesBack
<1> QED BY <1>2, <1>4, <1>6 DEF SparseInv

(* In every position of a walk at most two pieces give check to the side   *)
(* that is to move, as genevasn.c, which tells one from two and no more,   *)
(* takes for granted.                                                      *)
THEOREM NoTripleCheck == Spec => []SparseInv
<1>1. ASSUME SparseInv, [Next]_vars PROVE SparseInv'
  <2>1. CASE UNCHANGED vars
    <3>1. start' = start /\ pos' = pos /\ turn' = turn /\ line' = line /\ seen' = seen
      BY <2>1 DEF vars
    <3>2. WalkInv'
      BY <1>1, <2>1, WalkInvStutters DEF SparseInv
    <3> QED BY <1>1, <3>1, <3>2 DEF SparseInv
  <2> QED BY <1>1, <2>1, SparseInvBegun, SparseInvMade, SparseInvUnmade DEF Next
<1> QED BY <1>1, SparseInvInit, PTL DEF Spec

(* In check and out of it the generators find the legal moves, in every    *)
(* position the search goes on from.                                       *)
THEOREM EveryLegalMoveIsFound == Spec => [](Sound => FoundWith(GenEx2(turn, pos)))
<1>1. ASSUME SparseInv, Sound, InCheck(turn, pos) PROVE FoundWith(GenEx2(turn, pos))
  <2>1. Sane(pos) /\ turn \in Colour /\ ~InCheck(Flip(turn), pos) /\ Few(turn, pos)
    BY <1>1 DEF SparseInv, Sparse, WalkInv, Walk, Reached, Sound
  <2>2. KingIsSafe(turn, pos)
    BY <2>1, Flips DEF KingIsSafe, InCheck
  <2>3. GenEvasion(turn, pos) = Legal(pos.board, pos.hand, turn) \ GenEx2(turn, pos)
    BY <1>1, <2>1, <2>2, EvasionsAre DEF Sane
  <2> QED BY <1>1, <2>3 DEF FoundWith, LegalMoves, board, hand
<1>2. SparseInv /\ (Sound /\ ~InCheck(turn, pos) => FoundWith(GenEx2(turn, pos)))
        => (Sound => FoundWith(GenEx2(turn, pos)))
  BY <1>1
<1> QED BY <1>2, NoTripleCheck, QuietPositionsAreComplete, PTL

(* The generators (gencap.c, gennocap.c, gendrop.c, movgenex.c and, in     *)
(* check, genevasn.c) find the legal moves.                                *)
THEOREM TheGeneratorsFindTheLegalMoves == Spec => []GeneratorsFindTheLegalMoves
<1>1. (Sound => FoundWith(GenEx2(turn, pos))) => GeneratorsFindTheLegalMoves
  BY DEF GeneratorsFindTheLegalMoves, AtStart
<1> QED BY <1>1, EveryLegalMoveIsFound, PTL
=============================================================================
