------------------------------ MODULE MCSearch ------------------------------
(* A small game to search.  A position is <<layer, board, pawn>>: a move goes   *)
(* to the next layer, pawn is 1 if Black holds the pawn and 0 if White does;    *)
(* whatever else is in hand is the same on every way to a board and left out.   *)
(* Boards 0 to 3 form a ring: one move stays, the other goes on to the next     *)
(* board, so that moves transpose.  On boards 4 to 7 the pawn has been dropped  *)
(* and can be taken.  On 10 to 17 the side to move before has passed.  On board *)
(* 8 the side to move is mated unless it can drop the pawn, and board 9 is on a *)
(* forced way there.                                                            *)
EXTENDS SearchValues

Layers == 0 .. 9
ThePositions ==
    (Layers \X (0 .. 9) \X {0, 1}) \cup ((1 .. 9) \X (10 .. 17) \X {0, 1})
HasPassed(p) == p[2] >= 10
Layer(p) == p[1]
Board(p) == p[2] % 10
At(p)    == <<Layer(p), p[2]>>
Origin(p) == IF HasPassed(p) THEN Layer(p) - 1 ELSE Layer(p)

TheTurn  == [p \in ThePositions |-> Layer(p) % 2]
IsBlacks(p) == p[3] = 1
PawnDropped(p) == Board(p) \in 4 .. 7
Mine(p)  == (TheTurn[p] = 0) = IsBlacks(p)

(* The key is that of the board, with a dropped pawn of either side; ten keys   *)
(* share the two places of a row of always[].                                   *)
KeyOf(layer, i) == 1 + 14 * layer + i
Keys == 0 .. 140
TheHASH_KEY ==
    [p \in ThePositions |->
       KeyOf(Origin(p), Board(p) + (IF PawnDropped(p) /\ IsBlacks(p) THEN 6 ELSE 0))]
TheIndex == [k \in Keys |-> k % 5]
TheSlot  == [k \in Keys |-> (k \div 5) % 2]

NoHand  == [x \in HandPieces |-> 0]
OnePawn == [NoHand EXCEPT !["pawn"] = 1]
TheHAND ==
    [p \in ThePositions |-> [c \in Sides |->
       IF ~ PawnDropped(p) /\ (c = 0) = IsBlacks(p) THEN OnePawn ELSE NoHand]]

Stay == <<"board", 1>>
Go   == <<"board", 2>>
Mate == <<"board", 3>>
Back == <<"board", 4>>
Drop == <<"pawn", 7>>

(* Where Mate leads to board 8, and where to board 9; it mates only the side    *)
(* that has no pawn to drop.                                                    *)
MateFrom   == {<<5, 1>>, <<4, 2>>, <<6, 0>>, <<2, 2>>, <<7, 9>>}
ForcedFrom == {<<5, 3>>}
TheMateIn1Ply ==
    [p \in ThePositions |->
       IF At(p) \in MateFrom \ {<<6, 0>>} /\ Mine(p) THEN Mate ELSE MOVE_NA]
TheMateIn3Ply == {p \in ThePositions : At(p) \in ForcedFrom /\ Mine(p)}
CheckedAt  == {<<1, 0>>, <<3, 3>>, <<4, 1>>, <<6, 9>>} \cup (Layers \X {8})
TheChecked == {p \in ThePositions : At(p) \in CheckedAt}
BackFrom   == {<<2, 2>>, <<3, 2>>}
BackTo(layer) == IF layer = 2 THEN <<1, 0>> ELSE <<2, 0>>

Escape(p) == IF Mine(p) THEN <<Drop>> ELSE << >>
DropsPawn(p) ==
    Board(p) \in {0, 1} /\ Mine(p) /\ Layer(p) \in 1 .. 3 /\ p \notin TheChecked
TheMoves ==
    [p \in ThePositions |->
       CASE Layer(p) = 9          -> << >>
         [] Board(p) = 8          -> Escape(p)
         [] At(p) = <<7, 9>>      -> <<Mate>>
         [] At(p) = <<6, 9>>      -> <<Stay>> \o Escape(p)
         [] At(p) = <<3, 3>>      -> <<Stay>>
         [] PawnDropped(p) /\ ~ Mine(p) -> <<Go, Stay>>
         [] OTHER ->
              (IF Board(p) % 2 = 1 THEN <<Go, Stay>> ELSE <<Stay, Go>>)
                \o (IF At(p) \in MateFrom \cup ForcedFrom THEN <<Mate>> ELSE << >>)
                \o (IF At(p) \in BackFrom THEN <<Back>> ELSE << >>)
                \o (IF DropsPawn(p) THEN <<Drop>> ELSE << >>)]

Moved(p, m) ==
    LET next == Layer(p) + 1
        i    == Board(p)
    IN  CASE m = Mate -> <<next, IF At(p) \in ForcedFrom THEN 9 ELSE 8, p[3]>>
          [] m = Back -> <<BackTo(Layer(p))[1], BackTo(Layer(p))[2], p[3]>>
          [] m = Drop -> <<next, (i % 4) + 4, p[3]>>
          [] m = Stay -> <<next, i, p[3]>>
          [] m = Go /\ PawnDropped(p) /\ ~ Mine(p) -> <<next, i - 4, 1 - p[3]>>
          [] OTHER -> <<next, 4 * (i \div 4) + ((i + 1) % 4), p[3]>>
TheMade ==
    [p \in ThePositions |-> [m \in ToSet(TheMoves[p]) |-> Moved(p, m)]]
ThePassed ==
    [p \in {q \in ThePositions : q[2] < 8 /\ Layer(q) < 9} |->
       <<Layer(p) + 1, p[2] + 10, p[3]>>]

TheCaptures ==
    [p \in ThePositions |->
       IF Board(p) % 2 = 1 \/ (PawnDropped(p) /\ ~ Mine(p))
       THEN {Go} \cap ToSet(TheMoves[p]) ELSE {}]
TheMinor    ==
    [p \in ThePositions |-> IF PawnDropped(p) THEN TheCaptures[p] ELSE {}]
TheLosing   == [p \in ThePositions |-> IF Board(p) = 3 THEN TheCaptures[p] ELSE {}]
TheIllegal  ==
    [p \in ThePositions |-> IF At(p) \in {<<2, 3>>, <<3, 0>>} THEN {Go} ELSE {}]
TheDeclined ==
    [p \in ThePositions |-> IF At(p) = <<1, 1>> THEN {<<2, 3, p[3]>>} ELSE {}]

(* Any numbers do, if holding the pawn is worth more than not.                  *)
Blacks(layer, i, pawn) ==
    ((layer * 137 + i * 283 + 59 * layer * i * i) % 401) - 400 + 400 * pawn
TheEval ==
    [p \in ThePositions |->
       LET value == Blacks(Origin(p), Board(p), p[3])
       IN  IF TheTurn[p] = 0 THEN value ELSE - value]
TheMaxScore ==
    [p \in ThePositions |->
       [m \in ToSet(TheMoves[p]) |-> 40 - TheEval[TheMade[p][m]]]]

TheRoots      == {<<0, 0, 0>>, <<0, 1, 1>>}
TheReplies    == [p \in ThePositions |-> ToSet(TheMoves[p]) \ TheIllegal[p]]
TheRecaptures == [x \in {<<Go, Go>>} |-> EXT_RECAP1]
TheRefusable  ==
    {p \in ThePositions : TheHASH_KEY[p] \in {KeyOf(1, 0), KeyOf(2, 0)} /\ ~ HasPassed(p)}
ThePromotions  == {Mate}
TheDullKillers == {Drop}
TheSignals     == {n \in 1 .. 1000 : n % 4 = 0}
=============================================================================
