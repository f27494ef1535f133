--------------------------- MODULE TransTableProofs ---------------------------
(* What the transposition table rests on, for every ply, hand and table: the    *)
(* distance of a mate survives the way into the table and out of it, hands are  *)
(* partially ordered, and a result that was kept is found again.                *)
EXTENDS TransTable, TLAPS

Hands == [HandPieces -> Int]

------------------------------------------------------------------------------
(* hash_store counts a mate from the position and hash_probe counts it from the *)
(* root again: at the same ply the value is the same.                           *)
THEOREM MateDistanceSurvives ==
    ASSUME NEW value \in Int, NEW ply \in Nat \ {0}
    PROVE  FromRoot(FromHere(value, ply), ply) = value
  BY DEF FromRoot, FromHere, score_max_eval

(* Found k plies deeper than it was stored, a mate is k plies later.            *)
THEOREM MateIsLaterDeeper ==
    ASSUME NEW value \in Int, NEW ply \in Nat \ {0}, NEW k \in Nat,
           value > score_max_eval
    PROVE  FromRoot(FromHere(value, ply), ply + k) = value - k
  BY DEF FromRoot, FromHere, score_max_eval

(* A value that the table keeps stays within its 16 bits, biased by 32768.      *)
THEOREM KeptValueFits ==
    ASSUME NEW value \in Int, NEW ply \in Nat \ {0},
           Magnitude(value) + (ply - 1) < 32768
    PROVE  /\ FromHere(value, ply) + 32768 > 0
           /\ FromHere(value, ply) + 32768 < 65536
  BY DEF FromHere, Magnitude, score_max_eval

------------------------------------------------------------------------------
(* Hands are functions: the same number of every piece is the same hand.        *)
LEMMA HandsAreEqual ==
    ASSUME NEW h \in Hands, NEW k \in Hands,
           \A x \in HandPieces : h[x] = k[x]
    PROVE  h = k
  BY DEF Hands

(* is_hand_eq_supe compares sums, in which dearer pieces stand for cheaper ones. *)
LEMMA HandSupe ==
    ASSUME NEW h \in Hands, NEW k \in Hands
    PROVE  is_hand_eq_supe(h, k) <=>
             /\ h["knight"] >= k["knight"]
             /\ h["silver"] >= k["silver"]
             /\ h["gold"] >= k["gold"]
             /\ h["bishop"] >= k["bishop"]
             /\ h["rook"] >= k["rook"]
             /\ h["rook"] + h["lance"] >= k["rook"] + k["lance"]
             /\ h["rook"] + h["lance"] + h["silver"] + h["gold"] + h["pawn"]
                  >= k["rook"] + k["lance"] + k["silver"] + k["gold"] + k["pawn"]
<1>1. /\ h["pawn"] \in Int /\ h["lance"] \in Int /\ h["knight"] \in Int
      /\ h["silver"] \in Int /\ h["gold"] \in Int /\ h["bishop"] \in Int
      /\ h["rook"] \in Int
  BY DEF Hands, HandPieces
<1>2. /\ k["pawn"] \in Int /\ k["lance"] \in Int /\ k["knight"] \in Int
      /\ k["silver"] \in Int /\ k["gold"] \in Int /\ k["bishop"] \in Int
      /\ k["rook"] \in Int
  BY DEF Hands, HandPieces
<1>3. QED
  BY <1>1, <1>2 DEF is_hand_eq_supe

(* is_hand_eq_supe is a partial order on hands, although pieces make up for     *)
(* each other: so eval_supe never takes an entry for superior and inferior at   *)
(* once, and superiority passes on from hand to hand.                           *)
THEOREM HandsAreOrdered ==
    ASSUME NEW h \in Hands, NEW k \in Hands, NEW l \in Hands
    PROVE  /\ is_hand_eq_supe(h, h)
           /\ is_hand_eq_supe(h, k) /\ is_hand_eq_supe(k, l) => is_hand_eq_supe(h, l)
           /\ is_hand_eq_supe(h, k) /\ is_hand_eq_supe(k, h) => h = k
<1>1. \A x \in HandPieces : h[x] \in Int /\ k[x] \in Int /\ l[x] \in Int
  BY DEF Hands
<1>2. is_hand_eq_supe(h, h)
  BY <1>1, HandSupe DEF HandPieces
<1>3. ASSUME is_hand_eq_supe(h, k), is_hand_eq_supe(k, l)
      PROVE  is_hand_eq_supe(h, l)
  BY <1>1, <1>3, HandSupe DEF HandPieces
<1>4. ASSUME is_hand_eq_supe(h, k), is_hand_eq_supe(k, h)
      PROVE  h = k
  <2>1. /\ h["pawn"] \in Int /\ h["lance"] \in Int /\ h["knight"] \in Int
        /\ h["silver"] \in Int /\ h["gold"] \in Int /\ h["bishop"] \in Int
        /\ h["rook"] \in Int
        /\ k["pawn"] \in Int /\ k["lance"] \in Int /\ k["knight"] \in Int
        /\ k["silver"] \in Int /\ k["gold"] \in Int /\ k["bishop"] \in Int
        /\ k["rook"] \in Int
    BY <1>1 DEF HandPieces
  <2>2. /\ h["knight"] = k["knight"] /\ h["silver"] = k["silver"]
        /\ h["gold"] = k["gold"] /\ h["bishop"] = k["bishop"]
        /\ h["rook"] = k["rook"]
    BY <2>1, <1>4, HandSupe
  <2>3. h["lance"] = k["lance"]
    <3>1. h["rook"] + h["lance"] >= k["rook"] + k["lance"]
      BY <1>4, HandSupe
    <3>2. k["rook"] + k["lance"] >= h["rook"] + h["lance"]
      BY <1>4, HandSupe
    <3>3. QED
      BY <2>1, <2>2, <3>1, <3>2
  <2>4. h["pawn"] = k["pawn"]
    BY <2>1, <2>2, <2>3, <1>4, HandSupe
  <2>5. \A x \in HandPieces : h[x] = k[x]
    BY <2>2, <2>3, <2>4 DEF HandPieces
  <2>6. QED
    BY <2>5, HandsAreEqual
<1>5. QED
  BY <1>2, <1>3, <1>4

------------------------------------------------------------------------------
Rows == {Index[k] : k \in DOMAIN Index}
Entries(M) ==
    [key : DOMAIN Slot, turn : Sides, threat : BOOLEAN,
     type : {"null", "lower", "upper", "exact"}, age : Nat, depth : Nat,
     value : Int, move : M, hand : [HandPieces -> Nat]]
Tables(E) == [age : Nat, prefer : [Rows -> E], always : [Rows \X {0, 1} -> E]]

(* What hash_store writes. *)
Stored(tt, p, ply, depth, type, value, move, threat) ==
    [key |-> HASH_KEY[p], turn |-> Turn[p], threat |-> threat, type |-> type,
     age |-> tt.age, depth |-> Larger(depth, 0), value |-> FromHere(value, ply),
     move |-> move, hand |-> HAND[p][0]]
AtPreferred(tt, p, depth) ==
    LET old == tt.prefer[Index[HASH_KEY[p]]]
    IN  old.age # tt.age \/ old.depth <= Larger(depth, 0)

(* hash_store and hash_probe look every position up in a row that exists.       *)
LEMMA RowOfPosition ==
    ASSUME NEW p \in Positions
    PROVE  /\ HASH_KEY[p] \in DOMAIN Slot
           /\ Index[HASH_KEY[p]] \in Rows
  BY TransTableAssumption DEF Rows

(* A result that hash_store puts at the preferred place is what the next probe  *)
(* of the position answers, at the same ply and at any depth that it covers,    *)
(* whatever the window; and its move is the first to try.                       *)
THEOREM KeptResultIsFound ==
    ASSUME NEW M, NEW tt \in Tables(Entries(M)), NEW p \in Positions,
           NEW ply \in Nat \ {0}, NEW depth \in Int, NEW d \in Int, d <= depth,
           NEW value \in Int, Magnitude(value) <= score_mate1ply,
           NEW move \in M, NEW threat \in BOOLEAN,
           AtPreferred(tt, p, depth),
           NEW alpha \in Int, NEW beta \in Int, NEW state, NEW checks \in BOOLEAN
    PROVE  LET st == hash_store(tt, p, ply, depth, "exact", value, move, threat)
               r  == hash_probe(st, p, ply, d, alpha, beta, state, checks)
           IN  r.type = "exact" /\ r.value = value /\ r.move = move
<1> DEFINE e  == Stored(tt, p, ply, depth, "exact", value, move, threat)
           st == hash_store(tt, p, ply, depth, "exact", value, move, threat)
           i  == Index[HASH_KEY[p]]
           q  == [ply |-> ply, depth |-> Larger(d, 0), alpha |-> alpha,
                  beta |-> beta, turn |-> Turn[p], checks |-> checks]
           found == [answer |-> [type |-> "exact", value |-> value], move |-> move,
                     supe |-> MOVE_NA, infe |-> MOVE_NA, state |-> state]
<1>1. st.prefer[i] = e
  <2>1. ~ (Magnitude(value) > score_mate1ply)
    BY DEF Magnitude, score_mate1ply
  <2>2. i \in Rows
    BY RowOfPosition
  <2>3. QED
    BY <2>1, <2>2 DEF hash_store, Stored, AtPreferred, Tables
<1>2. Larger(depth, 0) >= Larger(d, 0)
  BY DEF Larger
<1>3. FromRoot(e.value, ply) = value
  BY MateDistanceSurvives DEF Stored
<1>4. SamePosition(Blank(state), e, value, q) = found
  BY <1>2 DEF SamePosition, Blank, Stored, Answers, NoAnswer
<1>5. Look(Blank(state), e, p, q) = found
  BY <1>3, <1>4 DEF Look, LookAt, Blank, NoAnswer, Stored
<1>6. \A x : Look(found, x, p, q) = found
  BY DEF Look
<1>7. BothLooks(Blank(state), st, HASH_KEY[p], p, q) = found
  BY <1>1, <1>5, <1>6 DEF BothLooks
<1>8. Result(found, HAND[p][Turn[p]]) =
        [type |-> "exact", value |-> value, state |-> state, move |-> move]
  BY DEF Result
<1>9. QED
  BY <1>7, <1>8 DEF hash_probe

Held(tt) ==
    {tt.prefer[i] : i \in Rows} \cup {tt.always[s] : s \in Rows \X {0, 1}}

Displaced(tt, p) == tt.prefer[Index[HASH_KEY[p]]]
Aside(tt, p) == <<Index[HASH_KEY[p]], Slot[Displaced(tt, p).key]>>
Here(p)      == <<Index[HASH_KEY[p]], Slot[HASH_KEY[p]]>>
InFirstPlace(tt, p, e, x) ==
    [tt EXCEPT !.prefer[Index[HASH_KEY[p]]] = e, !.always[Aside(tt, p)] = x]
InSecondPlace(tt, p, e) == [tt EXCEPT !.always[Here(p)] = e]
OneWay(st, tt, p, e) ==
    \/ st = tt
    \/ st = InFirstPlace(tt, p, e, Displaced(tt, p))
    \/ st = InFirstPlace(tt, p, e, tt.always[Aside(tt, p)])
    \/ st = InSecondPlace(tt, p, e)

(* The three places that hash_store writes to exist.                            *)
LEMMA PlacesExist ==
    ASSUME NEW M, NEW tt \in Tables(Entries(M)), NEW p \in Positions
    PROVE  /\ Index[HASH_KEY[p]] \in Rows
           /\ Aside(tt, p) \in Rows \X {0, 1}
           /\ Here(p) \in Rows \X {0, 1}
<1>1. Index[HASH_KEY[p]] \in Rows /\ HASH_KEY[p] \in DOMAIN Slot
  BY RowOfPosition
<1>2. Displaced(tt, p) \in Entries(M)
  BY <1>1 DEF Tables, Displaced
<1>3. Displaced(tt, p).key \in DOMAIN Slot
  BY <1>2 DEF Entries
<1>4. QED
  BY <1>1, <1>3, TransTableAssumption DEF Aside, Here

(* hash_store leaves the table alone, or puts the result in the first place     *)
(* with or without moving the old entry aside, or puts it in the second place.  *)
LEMMA ThreeWays ==
    ASSUME NEW tt, NEW p \in Positions, NEW ply, NEW depth, NEW type,
           NEW value \in Int, NEW move, NEW threat
    PROVE  OneWay(hash_store(tt, p, ply, depth, type, value, move, threat), tt, p,
                  Stored(tt, p, ply, depth, type, value, move, threat))
<1> DEFINE st == hash_store(tt, p, ply, depth, type, value, move, threat)
           e  == Stored(tt, p, ply, depth, type, value, move, threat)
<1>1. CASE Magnitude(value) > score_mate1ply
  <2>1. ~ (Magnitude(value) <= score_mate1ply)
    BY <1>1 DEF Magnitude, score_mate1ply
  <2>2. st = tt
    BY <1>1, <2>1 DEF hash_store
  <2>3. QED
    BY <2>2 DEF OneWay
<1>2. CASE ~ (Magnitude(value) > score_mate1ply) /\ AtPreferred(tt, p, depth)
  <2>1. Magnitude(value) <= score_mate1ply
    BY <1>2 DEF Magnitude, score_mate1ply
  <2>2. st = InFirstPlace(tt, p, e, IF MovesAside(Displaced(tt, p), e)
                                    THEN Displaced(tt, p)
                                    ELSE tt.always[Aside(tt, p)])
    BY <1>2, <2>1
       DEF hash_store, Stored, AtPreferred, InFirstPlace, Displaced, Aside
  <2>3. QED
    BY <2>2 DEF OneWay
<1>3. CASE ~ (Magnitude(value) > score_mate1ply) /\ ~ AtPreferred(tt, p, depth)
  <2>1. st = InSecondPlace(tt, p, e)
    BY <1>3 DEF hash_store, Stored, AtPreferred, InSecondPlace, Here
  <2>2. QED
    BY <2>1 DEF OneWay
<1>4. QED
  BY <1>1, <1>2, <1>3

Untouched(st, tt, i) ==
    /\ st.prefer[i] = tt.prefer[i]
    /\ \A c \in {0, 1} : st.always[<<i, c>>] = tt.always[<<i, c>>]
Keeps(st, tt, p, e) ==
    /\ Held(st) \subseteq Held(tt) \cup {e}
    /\ \A i \in Rows \ {Index[HASH_KEY[p]]} : Untouched(st, tt, i)

(* A write to the first place keeps what the table held, but for what it drops. *)
LEMMA FirstPlaceKeeps ==
    ASSUME NEW M, NEW tt \in Tables(Entries(M)), NEW p \in Positions, NEW e,
           NEW x \in Held(tt)
    PROVE  Keeps(InFirstPlace(tt, p, e, x), tt, p, e)
<1> DEFINE st == InFirstPlace(tt, p, e, x)
<1>1. \A i \in Rows :
        st.prefer[i] = IF i = Index[HASH_KEY[p]] THEN e ELSE tt.prefer[i]
  BY PlacesExist DEF Tables, InFirstPlace
<1>2. \A s \in Rows \X {0, 1} :
        st.always[s] = IF s = Aside(tt, p) THEN x ELSE tt.always[s]
  BY PlacesExist DEF Tables, InFirstPlace
<1> HIDE DEF st
<1>3. Held(st) \subseteq Held(tt) \cup {e}
  BY <1>1, <1>2 DEF Held
<1>4. ASSUME NEW i \in Rows \ {Index[HASH_KEY[p]]} PROVE Untouched(st, tt, i)
  BY <1>1, <1>2 DEF Untouched, Aside
<1>5. QED
  BY <1>3, <1>4 DEF Keeps, st

(* A write to the second place does so too.                                     *)
LEMMA SecondPlaceKeeps ==
    ASSUME NEW M, NEW tt \in Tables(Entries(M)), NEW p \in Positions, NEW e
    PROVE  Keeps(InSecondPlace(tt, p, e), tt, p, e)
<1> DEFINE st == InSecondPlace(tt, p, e)
<1>1. \A i \in Rows : st.prefer[i] = tt.prefer[i]
  BY PlacesExist DEF Tables, InSecondPlace
<1>2. \A s \in Rows \X {0, 1} :
        st.always[s] = IF s = Here(p) THEN e ELSE tt.always[s]
  BY PlacesExist DEF Tables, InSecondPlace
<1> HIDE DEF st
<1>3. Held(st) \subseteq Held(tt) \cup {e}
  BY <1>1, <1>2 DEF Held
<1>4. ASSUME NEW i \in Rows \ {Index[HASH_KEY[p]]} PROVE Untouched(st, tt, i)
  BY <1>1, <1>2 DEF Untouched, Here
<1>5. QED
  BY <1>3, <1>4 DEF Keeps, st

(* hash_store invents nothing: what a place of the table holds afterwards was   *)
(* in the table before or is the new result, in the row of its board; so a      *)
(* property of entries that the new result has outlives every replacement.      *)
THEOREM StoreInventsNothing ==
    ASSUME NEW M, NEW tt \in Tables(Entries(M)), NEW p \in Positions,
           NEW ply \in Nat \ {0}, NEW depth \in Int,
           NEW type \in {"null", "lower", "upper", "exact"}, NEW value \in Int,
           NEW move \in M, NEW threat \in BOOLEAN
    PROVE  Keeps(hash_store(tt, p, ply, depth, type, value, move, threat), tt, p,
                 Stored(tt, p, ply, depth, type, value, move, threat))
<1> DEFINE st == hash_store(tt, p, ply, depth, type, value, move, threat)
           e  == Stored(tt, p, ply, depth, type, value, move, threat)
<1>1. Displaced(tt, p) \in Held(tt) /\ tt.always[Aside(tt, p)] \in Held(tt)
  BY PlacesExist DEF Held, Displaced
<1>2. OneWay(st, tt, p, e)
  BY ThreeWays
<1> HIDE DEF st, e
<1>3. Keeps(tt, tt, p, e)
  BY DEF Keeps, Untouched
<1>4. Keeps(st, tt, p, e)
  BY <1>1, <1>2, <1>3, FirstPlaceKeeps, SecondPlaceKeeps DEF OneWay
<1>5. QED
  BY <1>4 DEF st, e
=============================================================================
