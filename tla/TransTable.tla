----------------------------- MODULE TransTable -----------------------------
(* The transposition table of the search: hash_store, hash_store_pv, hash_probe *)
(* and eval_supe of hash.c, is_hand_eq_supe of utility.c.                       *)
(*                                                                              *)
(* An entry is two 64-bit words in C and a record here; the signature that      *)
(* xors one word with the other is left out, as one thread writes the table.    *)
(* A key is that of the board alone: the hand of Black and the turn are fields  *)
(* of their own, so one entry speaks of a position with other pieces in hand.   *)
EXTENDS Integers

CONSTANTS
    Positions,  \* the positions: board, pieces in hand and side to move
    HASH_KEY,   \* HASH_KEY[p]: the hash key of the board, not 0
    HAND,       \* HAND[p][c]: what side c has in hand
    Turn,       \* Turn[p]: the side to move, 0 for Black
    Index,      \* Index[key]: the row of the table
    Slot        \* Slot[key]: bit 31 of the key, the place in always[]

HandPieces == {"pawn", "lance", "knight", "silver", "gold", "bishop", "rook"}
Sides == {0, 1}
Flip(c) == 1 - c

ASSUME TransTableAssumption ==
    /\ HASH_KEY \in [Positions -> Nat \ {0}]
    /\ Turn \in [Positions -> Sides]
    /\ HAND \in [Positions -> [Sides -> [HandPieces -> Nat]]]
    /\ \A p \in Positions :
         HASH_KEY[p] \in DOMAIN Index /\ HASH_KEY[p] \in DOMAIN Slot
    /\ Slot \in [DOMAIN Slot -> {0, 1}] /\ 0 \in DOMAIN Slot

PLY_INC == 8
score_draw     == 1
score_max_eval == 30000
score_mate1ply == 32598
score_inferior == 32599
score_bound    == 32600
MT_CAP_DRAGON  == 1602
EFUTIL_MG1     == (MT_CAP_DRAGON * 2) \div 8
EFUTIL_MG2     == (MT_CAP_DRAGON * 2) \div 8

Magnitude(n) == IF n < 0 THEN -n ELSE n
Larger(a, b) == IF a < b THEN b ELSE a

(* A move is <<"board", id>> or <<piece, square>>: a drop of the piece.         *)
MOVE_NA   == <<"none", 0>>
MOVE_PASS == <<"pass", 0>>
IsMove(m) == m \notin {MOVE_NA, MOVE_PASS}
IsDrop(m) == m[1] \in HandPieces

(* The depth a null move is searched to. *)
NullDepth(d) ==
    CASE d < (PLY_INC * 26) \div 4  -> d - (PLY_INC * 12) \div 4
      [] d >= (PLY_INC * 26) \div 4
           /\ d <= (PLY_INC * 30) \div 4 -> (PLY_INC * 14) \div 4
      [] OTHER                      -> d - (PLY_INC * 16) \div 4

------------------------------------------------------------------------------
(* Mates are counted from the root in the search, and from the position itself  *)
(* in the table.                                                                *)
FromHere(value, ply) ==
    CASE value > score_max_eval    -> value + (ply - 1)
      [] value < - score_max_eval  -> value - (ply - 1)
      [] OTHER                     -> value
FromRoot_Unshifted(value, ply) == value
FromRoot(value, ply) ==
    CASE value > score_max_eval    -> value - (ply - 1)
      [] value < - score_max_eval  -> value + (ply - 1)
      [] OTHER                     -> value

(* Both words 0. *)
EmptyEntry ==
    [key |-> 0, turn |-> 0, threat |-> FALSE, type |-> "null", age |-> 0,
     depth |-> 0, value |-> -32768, move |-> MOVE_NA,
     hand |-> [h \in HandPieces |-> 0]]

clear_trans_table ==
    [age    |-> 1,
     prefer |-> [i \in {Index[k] : k \in DOMAIN Index} |-> EmptyEntry],
     always |-> [s \in {Index[k] : k \in DOMAIN Index} \X {0, 1} |-> EmptyEntry]]

(* A deep entry of this search keeps the preferred place.  What it displaces    *)
(* moves to always[] only if both its hand and its key, turn or high bit of the *)
(* type are others: the mask ~0x2f leaves bit 4 in the comparison.              *)
HighBit(type) == type \in {"lower", "exact"}
MovesAside(old, new) ==
    /\ old.hand # new.hand
    /\ <<old.key, old.turn, HighBit(old.type)>>
         # <<new.key, new.turn, HighBit(new.type)>>

hash_store(tt, p, ply, depth, type, value, move, threat) ==
    LET d   == Larger(depth, 0)
        new == [key |-> HASH_KEY[p], turn |-> Turn[p], threat |-> threat,
                type |-> type, age |-> tt.age, depth |-> d,
                value |-> FromHere(value, ply), move |-> move,
                hand |-> HAND[p][0]]
        i   == Index[new.key]
        old == tt.prefer[i]
    IN  CASE Magnitude(value) > score_mate1ply -> tt
          [] Magnitude(value) <= score_mate1ply
               /\ (old.age # tt.age \/ old.depth <= d) ->
               [tt EXCEPT !.prefer[i] = new,
                          !.always[<<i, Slot[old.key]>>] =
                             IF MovesAside(old, new) THEN old ELSE @]
          [] OTHER -> [tt EXCEPT !.always[<<i, Slot[new.key]>>] = new]

(* The moves of the last principal variation are put in the table before an     *)
(* iteration.                                                                   *)
WithMove(e, move) ==
    IF e.move = move THEN e ELSE [e EXCEPT !.move = move, !.type = "null"]

hash_store_pv(tt, p, move) ==
    LET k == HASH_KEY[p]
        i == Index[k]
        IsHere(e) == e.hand = HAND[p][0] /\ e.key = k /\ e.turn = Turn[p]
    IN  CASE IsHere(tt.prefer[i]) -> [tt EXCEPT !.prefer[i] = WithMove(@, move)]
          [] ~ IsHere(tt.prefer[i]) /\ IsHere(tt.always[<<i, Slot[k]>>]) ->
               [tt EXCEPT !.always[<<i, Slot[k]>>] = WithMove(@, move)]
          [] OTHER ->
               [tt EXCEPT !.prefer[i] =
                  [EmptyEntry EXCEPT !.key = k, !.turn = Turn[p], !.age = tt.age,
                                     !.value = 0, !.move = move,
                                     !.hand = HAND[p][0]]]

------------------------------------------------------------------------------
(* At least as much in hand, where a lance, silver, gold or rook makes up for   *)
(* a pawn, and a rook for a lance.                                              *)
is_hand_eq_supe(h, ref) ==
    LET More(x) == h[x] - ref[x]
    IN  /\ \A x \in {"knight", "silver", "gold", "bishop", "rook"} : More(x) >= 0
        /\ More("rook") + More("lance") >= 0
        /\ More("rook") + More("lance") + More("silver") + More("gold")
             + More("pawn") >= 0

(* What an entry for the same board says of the position: it is superior (1),   *)
(* inferior (-1) or incomparable (0), for the side to move.  With the other     *)
(* side to move a superior hand makes up for the move, by passing.              *)
Opposite(type) ==
    CASE type = "lower" -> "upper" [] type = "upper" -> "lower" [] OTHER -> type

eval_supe(p, e) ==
    LET mine == HAND[p][0]
        more == is_hand_eq_supe(mine, e.hand)
        less == is_hand_eq_supe(e.hand, mine)
        supe == CASE mine = e.hand                  -> 0
                  [] mine # e.hand /\ more          -> IF Turn[p] = 1 THEN -1 ELSE 1
                  [] mine # e.hand /\ ~more /\ less -> IF Turn[p] = 1 THEN 1 ELSE -1
                  [] OTHER                          -> 0
    IN  IF (mine # e.hand /\ ~more /\ ~less) \/ e.turn = Turn[p]
        THEN [superior |-> supe, value |-> e.value, type |-> e.type]
        ELSE IF supe = -1
        THEN [superior |-> 0, value |-> e.value, type |-> e.type]
        ELSE [superior |-> 1, value |-> -e.value, type |-> Opposite(e.type)]

------------------------------------------------------------------------------
(* hash_probe looks at the preferred entry and then at the one in always[], in  *)
(* the same way.  A look changes                                                *)
(*   answer      [type, value], with type "none" while there is none            *)
(*   move        amove_hash[ply]                                                *)
(*   supe, infe  moves of superior and inferior positions                       *)
(*   state       what the search may still try: the flags node_*                *)
NoAnswer == [type |-> "none", value |-> 0]
Answers(look, type, value) ==
    [look EXCEPT !.answer = [type |-> type, value |-> value]]

(* Two plies from the leaves a value well above beta is taken for a cut-off.    *)
FarAbove(type, value, q) ==
    /\ type \in {"lower", "exact"}
    /\ ~ q.checks
    /\ \/ q.depth < 2 * PLY_INC /\ q.beta + EFUTIL_MG1 <= value
       \/ q.depth < 3 * PLY_INC /\ q.beta + EFUTIL_MG2 <= value

NullDepthOf(q) == LET d == NullDepth(q.depth) IN IF d < PLY_INC THEN 0 ELSE d

(* What an upper bound rules out. *)
RuledOut(e, value, q) ==
    (IF value <= score_max_eval THEN {"do_mate"} ELSE {})
      \cup (IF value < q.beta /\ NullDepthOf(q) <= e.depth THEN {"do_null"} ELSE {})

Threat(e) == IF e.threat THEN {"mate_threat"} ELSE {}

SamePosition(look, e, value, q) ==
    LET seen == IF look.move = MOVE_NA THEN [look EXCEPT !.move = e.move] ELSE look
        deep == e.depth >= q.depth
        st   == seen.state \cup Threat(e)
    IN  CASE deep /\ e.type = "exact"                    -> Answers(seen, "exact", value)
          [] deep /\ e.type = "lower" /\ value >= q.beta  -> Answers(seen, "lower", value)
          [] deep /\ e.type = "upper" /\ value <= q.alpha -> Answers(seen, "upper", value)
          [] ~ (deep /\ \/ e.type = "exact"
                        \/ e.type = "lower" /\ value >= q.beta)
               /\ FarAbove(e.type, value, q)             -> Answers(seen, "lower", q.beta)
          [] OTHER ->
               [seen EXCEPT !.state = IF e.type \in {"upper", "exact"}
                                      THEN st \ RuledOut(e, value, q) ELSE st]

SuperiorPosition(look, e, s, q) ==
    LET same == e.turn = q.turn
        seen == IF same
                THEN [look EXCEPT !.supe = IF @ = MOVE_NA THEN e.move ELSE @,
                                  !.state = IF s.value <= score_max_eval
                                            THEN @ \ {"do_mate"} ELSE @]
                ELSE look
    IN  CASE FarAbove(s.type, s.value, q) -> Answers(seen, "lower", q.beta)
          [] ~ FarAbove(s.type, s.value, q)
               /\ s.type \in {"lower", "exact"} /\ q.beta <= s.value
               /\ \/ q.depth <= e.depth
                  \/ /\ ~ same
                     /\ e.depth >= NullDepthOf(q)
                     /\ "do_null" \in seen.state -> Answers(seen, "lower", s.value)
          [] OTHER -> seen

InferiorPosition(look, e, s, q) ==
    LET st == look.state \cup Threat(e)
    IN  IF s.type \notin {"upper", "exact"} THEN [look EXCEPT !.state = st]
        ELSE IF e.depth >= q.depth /\ s.value <= q.alpha
        THEN Answers(look, "upper", s.value)
        ELSE [look EXCEPT !.state = st \ RuledOut(e, s.value, q)]

OtherPosition(look, e, s, q) ==
    LET infe == IF e.turn = q.turn /\ look.infe = MOVE_NA
                THEN [look EXCEPT !.infe = e.move] ELSE look
    IN  CASE s.superior = 1  -> SuperiorPosition(look, e, s, q)
          [] s.superior = -1 -> InferiorPosition(infe, e, s, q)
          [] OTHER           -> infe
LookAt(look, e, p, q, value) ==
    IF e.turn = q.turn /\ e.hand = HAND[p][0] THEN SamePosition(look, e, value, q)
    ELSE OtherPosition(look, e, eval_supe(p, [e EXCEPT !.value = value]), q)
Look(look, e, p, q) ==
    IF look.answer.type # "none" \/ e.key # HASH_KEY[p] THEN look
    ELSE LookAt(look, e, p, q, FromRoot(e.value, q.ply))

(* A drop of a superior position's pawn or lance is made with the piece that    *)
(* makes up for it; a drop of another position needs its piece in hand.         *)
Dropped(move, hand) ==
    LET Have(x) == hand[x] > 0
        With(x) == <<x, move[2]>>
    IN  CASE move[1] = "pawn" /\ ~ Have("pawn") ->
               CASE Have("lance")                      -> With("lance")
                 [] ~ Have("lance") /\ Have("silver")  -> With("silver")
                 [] ~ Have("lance") /\ ~ Have("silver")
                      /\ Have("gold")                  -> With("gold")
                 [] OTHER                              -> With("rook")
          [] move[1] = "lance" /\ ~ Have("lance") -> With("rook")
          [] OTHER -> move

(* The result: an answer with its type and value, or the state of the node; and *)
(* the move to try first.                                                       *)
OtherMove(look, hand) ==
    CASE look.supe # MOVE_NA -> Dropped(look.supe, hand)
      [] look.supe = MOVE_NA /\ IsDrop(look.infe) /\ hand[look.infe[1]] = 0 -> MOVE_NA
      [] OTHER -> look.infe
Result(look, hand) ==
    [type |-> look.answer.type, value |-> look.answer.value, state |-> look.state,
     move |-> IF look.move = MOVE_NA /\ look.answer.type = "none"
              THEN OtherMove(look, hand) ELSE look.move]
Blank(state) == [answer |-> NoAnswer, move |-> MOVE_NA, supe |-> MOVE_NA,
                 infe |-> MOVE_NA, state |-> state]
BothLooks(look, tt, key, p, q) ==
    Look(Look(look, tt.prefer[Index[key]], p, q), tt.always[<<Index[key], Slot[key]>>], p, q)

hash_probe(tt, p, ply, depth, alpha, beta, state, checks) ==
    Result(BothLooks(Blank(state), tt, HASH_KEY[p], p,
                     [ply |-> ply, depth |-> Larger(depth, 0), alpha |-> alpha,
                      beta |-> beta, turn |-> Turn[p], checks |-> checks]),
           HAND[p][Turn[p]])
=============================================================================
