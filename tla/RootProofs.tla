----------------------------- MODULE RootProofs -----------------------------
(***************************************************************************)
(* Theorems about RootPosition, for every graph of positions, every        *)
(* assignment of sides, every bound.                                       *)
(***************************************************************************)
EXTENDS RootPosition, SequenceTheorems, FiniteSetTheorems, TLAPS

-----------------------------------------------------------------------------
(* What the operators return.                                              *)

(* Sides alternate.                                                        *)
LEMMA MoverAlternates ==
  ASSUME NEW n \in Nat
  PROVE  Mover(n) \in Sides /\ Mover(n + 1) = Flip(Mover(n))
<1>1. (n + 1) % 2 = 1 <=> n % 2 # 1
  OBVIOUS
<1> QED BY <1>1, RootAssumption DEF Mover, Flip, Sides

(* The opponent of the opponent.                                           *)
LEMMA FlipTwice == \A s \in Sides : Flip(s) \in Sides /\ Flip(Flip(s)) = s
BY DEF Flip, Sides

(* nsuc_check is an unsigned char.                                         *)
LEMMA ChecksWithType ==
  ASSUME NEW r \in Root, NEW m \in MoveGraph
  PROVE  ChecksWith(r, m) \in 0..255
<1>1. r.check0 \in 0..255
  BY DEF Root
<1>2. (r.check0 + 1) % 256 \in 0..255
  BY <1>1
<1> QED BY <1>2 DEF ChecksWith

(* The repetition table stays a table of hash keys.                        *)
LEMMA RenewedTableType ==
  ASSUME NEW S, NEW rep \in Seq(S), NEW key \in S
  PROVE  RenewedTable(rep, key) \in Seq(S)
<1>1. Append(rep, key) \in Seq(S) /\ Append(rep, key) # <<>>
  BY AppendProperties
<1>2. Tail(Append(rep, key)) \in Seq(S)
  BY <1>1, HeadTailProperties
<1> QED BY <1>1, <1>2 DEF RenewedTable

(* Taking a key off the table leaves a table.                              *)
LEMMA TableBeforeType ==
  ASSUME NEW S, NEW rep \in Seq(S)
  PROVE  /\ TableBefore(rep) \in Seq(S)
         /\ rep # <<>> => Last(rep) \in S
         /\ rep # <<>> => /\ Len(TableBefore(rep)) = Len(rep) - 1
                          /\ \A i \in 1..Len(rep) - 1 : TableBefore(rep)[i] = rep[i]
<1>1. CASE rep = <<>>
  BY <1>1, EmptySeq DEF TableBefore
<1>2. CASE rep # <<>>
  <2>1. Len(rep) \in Nat \ {0}
    BY <1>2, EmptySeq, LenProperties
  <2>2. Last(rep) \in S
    BY <2>1, ElementOfSeq DEF Last
  <2>3. /\ Front(rep) \in Seq(S)
        /\ Len(Front(rep)) = Len(rep) - 1
        /\ \A i \in 1..Len(rep) - 1 : Front(rep)[i] = rep[i]
    BY <2>1, SubSeqProperties DEF Front
  <2> QED BY <1>2, <2>2, <2>3 DEF TableBefore
<1> QED BY <1>1, <1>2

(* What the table holds after one more key.                                *)
LEMMA RenewedTableCells ==
  ASSUME NEW S, NEW rep \in Seq(S), NEW key \in S
  PROVE  \/ /\ Len(RenewedTable(rep, key)) = Len(rep) + 1
            /\ \A i \in 1..Len(rep) : RenewedTable(rep, key)[i] = rep[i]
            /\ RenewedTable(rep, key)[Len(rep) + 1] = key
         \/ /\ Len(rep) >= RepLimit
            /\ Len(RenewedTable(rep, key)) = Len(rep)
            /\ \A i \in 1..Len(rep) - 1 : RenewedTable(rep, key)[i] = rep[i + 1]
            /\ RenewedTable(rep, key)[Len(rep)] = key
<1> DEFINE full == Append(rep, key)
<1>1. /\ full \in Seq(S) /\ Len(full) = Len(rep) + 1 /\ full # <<>>
      /\ \A i \in 1..Len(rep) : full[i] = rep[i]
      /\ full[Len(rep) + 1] = key
  BY AppendProperties
<1>2. Len(rep) \in Nat
  BY LenProperties
<1> HIDE DEF full
<1>3. CASE Len(rep) >= RepLimit
  <2>1. Len(rep) >= 1
    BY <1>2, <1>3, RootAssumption
  <2>2. Len(Tail(full)) = Len(rep) /\ \A i \in 1..Len(rep) : Tail(full)[i] = full[i + 1]
    BY <1>1, <1>2, HeadTailProperties
  <2>3. RenewedTable(rep, key) = Tail(full)
    BY <1>3 DEF RenewedTable, full
  <2>4. \A i \in 1..Len(rep) - 1 : Tail(full)[i] = rep[i + 1]
    BY <2>2, <1>1, <1>2
  <2>5. Tail(full)[Len(rep)] = key
    BY <2>1, <2>2, <1>1, <1>2
  <2> QED BY <1>3, <2>2, <2>3, <2>4, <2>5
<1>4. CASE ~(Len(rep) >= RepLimit)
  BY <1>1, <1>4 DEF RenewedTable, full
<1> QED BY <1>3, <1>4

(* The line that is left is a line of moves.                               *)
LEMMA RenovatedPvType ==
  ASSUME NEW pv \in Seq(MoveGraph), NEW m
  PROVE  RenovatedPv(pv, m) \in Seq(MoveGraph)
<1>1. pv # <<>> => Tail(pv) \in Seq(MoveGraph)
  BY HeadTailProperties
<1>2. <<>> \in Seq(MoveGraph)
  BY EmptySeq
<1> QED BY <1>1, <1>2 DEF RenovatedPv

(* A made move leaves a root position of its type.                         *)
LEMMA MadeType ==
  ASSUME NEW r \in Root, NEW m \in MoveGraph
  PROVE  Made(r, m) \in Root
<1>1. m.to \in Positions /\ m.from \in Positions /\ m.by \in Sides
  BY RootAssumption
<1>2. /\ r.pos \in Positions /\ r.key \in Positions \cup {Garbage}
      /\ r.turn \in Sides /\ r.status \in SUBSET {"mated", "drawn"}
      /\ r.rep \in Seq(Positions \cup {Garbage})
      /\ r.check0 \in 0..255 /\ r.check1 \in 0..255
      /\ r.material \in Int /\ r.pv \in Seq(MoveGraph)
  BY DEF Root
<1>3. Flip(r.turn) \in Sides
  BY <1>2, FlipTwice
<1>4. r.material + Material[m.to] - Material[m.from] \in Int
  BY <1>1, <1>2, RootAssumption
<1>5. RenewedTable(r.rep, r.key) \in Seq(Positions \cup {Garbage})
  BY <1>2, RenewedTableType
<1>6. RenovatedPv(r.pv, m) \in Seq(MoveGraph)
  BY <1>2, RenovatedPvType
<1>7. ChecksWith(r, m) \in 0..255
  BY ChecksWithType
<1>8. \A d, e : r.status \cup (IF d THEN {"drawn"} ELSE {})
                  \cup (IF e THEN {"mated"} ELSE {}) \in SUBSET {"mated", "drawn"}
  BY <1>2
<1> QED BY <1>1, <1>2, <1>3, <1>4, <1>5, <1>6, <1>7, <1>8 DEF Made, Root

(* A move taken back leaves a root position of its type.                   *)
LEMMA UnmadeType ==
  ASSUME NEW r \in Root, NEW m \in MoveGraph
  PROVE  UnmakeMoveRoot(r, m) \in Root
<1>1. m.from \in Positions
  BY RootAssumption
<1>2. /\ r.turn \in Sides /\ r.status \in SUBSET {"mated", "drawn"}
      /\ r.rep \in Seq(Positions \cup {Garbage})
      /\ r.check0 \in 0..255 /\ r.checkSave \in 0..255
      /\ r.materialSave \in Int /\ r.pvSave \in Seq(MoveGraph)
  BY DEF Root
<1>3. Flip(r.turn) \in Sides
  BY <1>2, FlipTwice
<1>4. /\ TableBefore(r.rep) \in Seq(Positions \cup {Garbage})
      /\ r.rep # <<>> => Last(r.rep) \in Positions \cup {Garbage}
  BY <1>2, TableBeforeType
<1> QED BY <1>1, <1>2, <1>3, <1>4 DEF UnmakeMoveRoot, Root

(* make_move_root either makes the move or refuses it.                     *)
LEMMA MakeMoveRootCases ==
  ASSUME NEW r \in Root, NEW m \in MoveGraph, NEW wanted
  PROVE  LET result == MakeMoveRoot(r, m, wanted) IN
         /\ result.root \in Root
         /\ \/ result.verdict = "ok" /\ result.root = Made(r, m)
            \/ result.verdict \in {"hang", "perpetual"} /\ result.root = Refused(r)
<1>1. Refused(r) \in Root
  BY DEF Refused, Root
<1>2. Made(r, m) \in Root
  BY MadeType
<1> QED BY <1>1, <1>2 DEF MakeMoveRoot

-----------------------------------------------------------------------------
(* What an action does, in terms of Made and UnmakeMoveRoot.               *)

(* An answered move was pseudo-legal and was made on the root or on the    *)
(* root with the line of the search as last_pv; a refused one changes      *)
(* nothing but save_material and last_pv.                                  *)
LEMMA AnswerCases ==
  ASSUME RootTypeOK, HumanMove \/ ComputerMove
  PROVE  /\ undone' = undone
         /\ \/ root' = root /\ cookies' = cookies
            \/ \E pv \in Seq(MoveGraph) :
                 /\ root' = Refused([root EXCEPT !.pv = pv])
                 /\ cookies' = cookies
            \/ \E pv \in Seq(MoveGraph), m \in MoveGraph :
                 /\ PseudoLegal(m)
                 /\ Plies < MaxPlies
                 /\ root' = Made([root EXCEPT !.pv = pv], m)
                 /\ cookies' = Append(cookies, m)
         /\ outcome' \in [verdict : Verdicts, move : MoveGraph \cup {NoMove}]
<1>1. root \in Root
  BY DEF RootTypeOK
<1>2. ASSUME HumanMove
      PROVE  /\ undone' = undone
             /\ \E m \in MoveGraph :
                  LET result == MakeMoveRoot(root, m, {"hang"}) IN
                  /\ PseudoLegal(m)
                  /\ Plies < MaxPlies
                  /\ Answer(m, result)
                  /\ outcome' = [verdict |-> result.verdict, move |-> m]
  BY <1>2 DEF HumanMove, Plies, Answer
<1>3. root = [root EXCEPT !.pv = root.pv] /\ root.pv \in Seq(MoveGraph)
  BY <1>1 DEF Root
<1>4. CASE HumanMove
  <2>1. PICK m \in MoveGraph :
          LET result == MakeMoveRoot(root, m, {"hang"}) IN
          /\ PseudoLegal(m)
          /\ Plies < MaxPlies
          /\ Answer(m, result)
          /\ outcome' = [verdict |-> result.verdict, move |-> m]
    BY <1>2, <1>4
  <2> DEFINE result == MakeMoveRoot(root, m, {"hang"})
  <2>2. \/ result.verdict = "ok" /\ result.root = Made(root, m)
        \/ result.verdict \in {"hang", "perpetual"} /\ result.root = Refused(root)
    BY <1>1, MakeMoveRootCases
  <2>3. root' = result.root
        /\ cookies' = IF result.verdict = "ok" THEN Append(cookies, m) ELSE cookies
    BY <2>1 DEF Answer
  <2>4. result.verdict \in Verdicts
    BY <2>2 DEF Verdicts
  <2>5. outcome' \in [verdict : Verdicts, move : MoveGraph \cup {NoMove}]
    BY <2>1, <2>4
  <2> HIDE DEF result
  <2>6. CASE result.verdict = "ok"
    <3>1. root' = Made([root EXCEPT !.pv = root.pv], m) /\ cookies' = Append(cookies, m)
      BY <2>2, <2>3, <2>6, <1>3
    <3> QED BY <3>1, <2>1, <2>5, <1>2, <1>3, <1>4
  <2>7. CASE result.verdict # "ok"
    <3>1. root' = Refused([root EXCEPT !.pv = root.pv]) /\ cookies' = cookies
      BY <2>2, <2>3, <2>7, <1>3
    <3> QED BY <3>1, <2>5, <1>2, <1>3, <1>4
  <2> QED BY <2>6, <2>7
<1>5. CASE ComputerMove
  <2>1. CASE /\ outcome' = [verdict |-> "no moves", move |-> NoMove]
             /\ UNCHANGED <<root, cookies, undone>>
    BY <2>1 DEF Verdicts
  <2>2. ASSUME NEW m \in RootMoveList(root),
               NEW line \in {<<>>} \cup {<<e>> : e \in GenEvasion(Flip(m.by), m.to)},
               Plies < MaxPlies,
               LET result == MakeMoveRoot([root EXCEPT !.pv = <<m>> \o line], m, {}) IN
               /\ Answer(m, result)
               /\ outcome' = IF result.verdict = "ok"
                             THEN [verdict |-> "ok", move |-> ReportedMove(result.root)]
                             ELSE [verdict |-> "no moves", move |-> NoMove]
        PROVE  /\ undone' = undone
               /\ \/ \E pv \in Seq(MoveGraph) :
                       /\ root' = Refused([root EXCEPT !.pv = pv])
                       /\ cookies' = cookies
                  \/ \E pv \in Seq(MoveGraph) :
                       /\ PseudoLegal(m)
                       /\ m \in MoveGraph
                       /\ root' = Made([root EXCEPT !.pv = pv], m)
                       /\ cookies' = Append(cookies, m)
               /\ outcome' \in [verdict : Verdicts, move : MoveGraph \cup {NoMove}]
    <3> DEFINE pv == <<m>> \o line
               r == [root EXCEPT !.pv = pv]
               result == MakeMoveRoot(r, m, {})
    <3>1. m \in MoveGraph /\ PseudoLegal(m)
      BY DEF RootMoveList, PseudoLegal
    <3>2. line \in Seq(MoveGraph)
      <4>1. CASE line = <<>>
        BY <4>1, EmptySeq
      <4>2. ASSUME NEW e \in GenEvasion(Flip(m.by), m.to), line = <<e>>
            PROVE  line \in Seq(MoveGraph)
        BY <4>2 DEF GenEvasion
      <4> QED BY <4>1, <4>2
    <3>3. pv \in Seq(MoveGraph) /\ pv[1] = m /\ pv # <<>>
      <4>1. <<m>> \in Seq(MoveGraph) /\ Len(<<m>>) = 1 /\ <<m>>[1] = m
        BY <3>1
      <4>2. /\ pv \in Seq(MoveGraph)
            /\ Len(pv) = Len(<<m>>) + Len(line)
            /\ pv[1] = <<m>>[1]
        BY <4>1, <3>2, ConcatProperties, LenProperties
      <4> QED BY <4>1, <4>2, <3>2, LenProperties, EmptySeq
    <3>4. r \in Root
      BY <1>1, <3>3 DEF Root
    <3>5. \/ result.verdict = "ok" /\ result.root = Made(r, m)
          \/ result.verdict \in {"hang", "perpetual"} /\ result.root = Refused(r)
      BY <3>1, <3>4, MakeMoveRootCases
    <3>6. /\ root' = result.root
          /\ cookies' = IF result.verdict = "ok" THEN Append(cookies, m) ELSE cookies
          /\ undone' = undone
      BY <2>2 DEF Answer
    <3>7. Made(r, m).pvSave = pv
      BY <1>1 DEF Made, Root
    <3>8. ReportedMove(Made(r, m)) = m
      <4> DEFINE made == Made(r, m)
      <4>1. Head(pv) = m
        <5> HIDE DEF pv
        <5> QED BY ONLY <3>3
      <4>2. made.pvSave = pv
        BY <3>7
      <4>3. ReportedMove(made) = m
        <5> HIDE DEF made, pv
        <5> QED BY <4>1, <4>2 DEF ReportedMove
      <4> QED BY <4>3
    <3>9. outcome' \in [verdict : Verdicts, move : MoveGraph \cup {NoMove}]
      <4>1. outcome' = IF result.verdict = "ok"
                       THEN [verdict |-> "ok", move |-> ReportedMove(result.root)]
                       ELSE [verdict |-> "no moves", move |-> NoMove]
        BY <2>2
      <4> HIDE DEF result, r, pv
      <4>2. result.verdict = "ok" => ReportedMove(result.root) = m
        BY <3>5, <3>8
      <4> QED BY <4>1, <4>2, <3>1 DEF Verdicts
    <3> HIDE DEF result, pv
    <3>10. CASE result.verdict = "ok"
      <4>1. root' = Made(r, m) /\ cookies' = Append(cookies, m)
        BY <3>5, <3>6, <3>10
      <4> QED BY <4>1, <3>1, <3>3, <3>6, <3>9
    <3>11. CASE result.verdict # "ok"
      <4>1. root' = Refused(r) /\ cookies' = cookies
        BY <3>5, <3>6, <3>11
      <4> QED BY <4>1, <3>3, <3>6, <3>9
    <3> QED BY <3>10, <3>11
  <2> QED BY <1>5, <2>1, <2>2 DEF ComputerMove, Plies, RootMoveList
<1> QED BY <1>4, <1>5

-----------------------------------------------------------------------------
(* The moves kept for undo, taken off one at a time.                       *)
LEMMA CookiesTaken ==
  ASSUME cookies \in Seq(MoveGraph), Plies >= 2
  PROVE  /\ SubSeq(cookies, 1, Plies - 2) \in Seq(MoveGraph)
         /\ Len(SubSeq(cookies, 1, Plies - 2)) = Plies - 2
         /\ \A k \in 1..Plies - 2 : SubSeq(cookies, 1, Plies - 2)[k] = cookies[k]
         /\ cookies[Plies] \in MoveGraph /\ cookies[Plies - 1] \in MoveGraph
<1>1. Plies \in Nat /\ Plies = Len(cookies)
  BY LenProperties DEF Plies
<1>2. cookies[Plies] \in MoveGraph /\ cookies[Plies - 1] \in MoveGraph
  BY <1>1, ElementOfSeq
<1>3. 1 \in 1..Plies + 1 /\ Plies - 2 \in 0..Plies
  BY <1>1
<1>4. /\ SubSeq(cookies, 1, Plies - 2) \in Seq(MoveGraph)
      /\ Len(SubSeq(cookies, 1, Plies - 2)) = Plies - 2
      /\ \A k \in 1..Plies - 2 : SubSeq(cookies, 1, Plies - 2)[k] = cookies[k]
  BY <1>1, <1>3, SubSeqProperties
<1> QED BY <1>2, <1>4

(* The moves kept for undo after one more.                                 *)
LEMMA CookiesGrown ==
  ASSUME cookies \in Seq(MoveGraph), NEW m \in MoveGraph,
         cookies' = Append(cookies, m)
  PROVE  /\ cookies' \in Seq(MoveGraph)
         /\ Plies \in Nat /\ Plies = Len(cookies)
         /\ Plies' = Plies + 1
         /\ cookies'[Plies + 1] = m
         /\ \A k \in 1..Plies : cookies'[k] = cookies[k]
         /\ \A k \in 0..Plies : After(k)' = After(k)
         /\ After(Plies)' = m.to
<1>1. Plies \in Nat /\ Plies = Len(cookies)
  BY LenProperties DEF Plies
<1>2. /\ cookies' \in Seq(MoveGraph) /\ Len(cookies') = Len(cookies) + 1
      /\ cookies'[Plies + 1] = m
      /\ \A k \in 1..Plies : cookies'[k] = cookies[k]
  BY <1>1, AppendProperties
<1>3. Plies' = Plies + 1
  BY <1>1, <1>2 DEF Plies
<1>4. \A k \in 0..Plies : After(k)' = After(k)
  BY <1>1, <1>2 DEF After
<1>5. After(Plies)' = m.to
  BY <1>1, <1>2, <1>3 DEF After
<1> QED BY <1>1, <1>2, <1>3, <1>4, <1>5

-----------------------------------------------------------------------------
(* The engine's variables and the callers' cookies keep their types        *)
(* through every move, refusal and undo: no cell of a table or of last_pv  *)
(* holds anything but what was written there.                              *)
LEMMA InitTypeOK == Init => RootTypeOK
<1> SUFFICES ASSUME Init PROVE RootTypeOK
  OBVIOUS
<1>1. Start \in Positions /\ StartTurn \in Sides /\ Material[Start] \in Int
  BY RootAssumption
<1>2. <<>> \in Seq(MoveGraph) /\ <<>> \in Seq(Positions \cup {Garbage})
  BY EmptySeq
<1>3. root \in Root
  BY <1>1, <1>2 DEF Init, Root
<1> QED BY <1>2, <1>3 DEF Init, RootTypeOK, Verdicts

(* Every step keeps the types.                                             *)
LEMMA NextTypeOK == RootTypeOK /\ [Next]_rootVars => RootTypeOK'
<1> SUFFICES ASSUME RootTypeOK, [Next]_rootVars PROVE RootTypeOK'
  OBVIOUS
<1>0. root \in Root /\ cookies \in Seq(MoveGraph)
  BY DEF RootTypeOK
<1>1. ASSUME HumanMove \/ ComputerMove PROVE RootTypeOK'
  <2>1. \A pv \in Seq(MoveGraph) : [root EXCEPT !.pv = pv] \in Root
    BY <1>0 DEF Root
  <2>2. \A r \in Root : Refused(r) \in Root
    BY DEF Refused, Root
  <2>3. \A r \in Root, m \in MoveGraph : Made(r, m) \in Root
    BY MadeType
  <2>4. \A m \in MoveGraph : Append(cookies, m) \in Seq(MoveGraph)
    BY <1>0, AppendProperties
  <2>5. root' \in Root /\ cookies' \in Seq(MoveGraph)
    BY <1>0, <1>1, <2>1, <2>2, <2>3, <2>4, AnswerCases
  <2>6. /\ outcome' \in [verdict : Verdicts, move : MoveGraph \cup {NoMove}]
        /\ undone' = undone
    BY <1>1, AnswerCases
  <2> QED BY <2>5, <2>6 DEF RootTypeOK
<1>2. ASSUME Undo PROVE RootTypeOK'
  <2>1. /\ Plies >= 2
        /\ root' = Undone(root, cookies[Plies], cookies[Plies - 1])
        /\ cookies' = SubSeq(cookies, 1, Plies - 2)
        /\ undone' = undone + 1
        /\ outcome' = [verdict |-> "none", move |-> NoMove]
    BY <1>2 DEF Undo, Plies
  <2>2. /\ cookies' \in Seq(MoveGraph)
        /\ cookies[Plies] \in MoveGraph /\ cookies[Plies - 1] \in MoveGraph
    BY <1>0, <2>1, CookiesTaken
  <2>3. UnmakeMoveRoot(root, cookies[Plies]) \in Root
    BY <1>0, <2>2, UnmadeType
  <2>4. root' \in Root
    BY <2>1, <2>2, <2>3, UnmadeType DEF Undone
  <2>5. outcome' \in [verdict : Verdicts, move : MoveGraph \cup {NoMove}]
    BY <2>1 DEF Verdicts
  <2>6. undone' \in Nat
    BY <2>1 DEF RootTypeOK
  <2> QED BY <2>2, <2>4, <2>5, <2>6 DEF RootTypeOK
<1>3. CASE UNCHANGED rootVars
  BY <1>3 DEF RootTypeOK, rootVars
<1> QED BY <1>1, <1>2, <1>3 DEF Next

(* ini_game, humanMove, computerMove and undo keep the engine's variables  *)
(* in their domains.                                                       *)
THEOREM RootTypeCorrect == Spec => []RootTypeOK
<1> QED BY InitTypeOK, NextTypeOK, PTL DEF Spec

-----------------------------------------------------------------------------
(* The board, the turn and the moves kept for undo are one game.  It is    *)
(* inductive with the types: a move is pseudo-legal when it is appended,   *)
(* and undo unmakes the moves that it takes from the end of the cookies,   *)
(* the last one first.                                                     *)
FollowInv == RootTypeOK /\ BoardFollowsTheGame

(* The game starts at its start.                                           *)
LEMMA InitFollows == Init => BoardFollowsTheGame
<1> SUFFICES ASSUME Init PROVE BoardFollowsTheGame
  OBVIOUS
<1>1. Plies = 0
  BY EmptySeq DEF Init, Plies
<1>2. Mover(1) = StartTurn
  BY DEF Mover
<1> QED BY <1>1, <1>2 DEF Init, BoardFollowsTheGame, After

(* A made move leads from the last position of the game to a new last one. *)
LEMMA MadeFollows ==
  ASSUME FollowInv, NEW m \in MoveGraph, NEW pv, PseudoLegal(m),
         root' = Made([root EXCEPT !.pv = pv], m), cookies' = Append(cookies, m)
  PROVE  BoardFollowsTheGame'
<1>0. root \in Root /\ cookies \in Seq(MoveGraph)
  BY DEF FollowInv, RootTypeOK
<1>1. /\ Plies \in Nat
      /\ Plies' = Plies + 1
      /\ cookies'[Plies + 1] = m
      /\ \A k \in 1..Plies : cookies'[k] = cookies[k]
      /\ \A k \in 0..Plies : After(k)' = After(k)
      /\ After(Plies)' = m.to
  BY <1>0, CookiesGrown
<1>2. /\ root.pos = After(Plies)
      /\ root.turn = Mover(Plies + 1)
      /\ \A k \in 1..Plies : cookies[k].from = After(k - 1) /\ cookies[k].by = Mover(k)
  BY DEF FollowInv, BoardFollowsTheGame
<1>3. root'.pos = m.to /\ root'.turn = Flip(root.turn)
  BY <1>0 DEF Made, Root
<1>4. m.by = root.turn /\ m.from = root.pos
  BY DEF PseudoLegal
<1>5. root'.turn = Mover(Plies' + 1)
  <2>1. Plies + 1 \in Nat
    BY <1>1
  <2>2. Mover((Plies + 1) + 1) = Flip(Mover(Plies + 1))
    BY <2>1, MoverAlternates
  <2> QED BY <1>1, <1>2, <1>3, <2>2
<1>10. Plies \in Nat
  BY <1>1
<1>6. \A k \in 1..Plies + 1 :
        cookies'[k].from = After(k - 1)' /\ cookies'[k].by = Mover(k)
  <2> TAKE k \in 1..Plies + 1
  <2>1. CASE k \in 1..Plies
    <3>1. k - 1 \in 0..Plies
      BY <2>1, <1>10
    <3>2. After(k - 1)' = After(k - 1)
      BY <3>1, <1>1
    <3>3. cookies'[k] = cookies[k]
      BY <2>1, <1>1
    <3>4. cookies[k].from = After(k - 1) /\ cookies[k].by = Mover(k)
      BY <2>1, <1>2
    <3> QED BY <3>2, <3>3, <3>4
  <2>2. CASE k = Plies + 1
    <3>1. cookies'[k] = m /\ After(k - 1)' = After(Plies)
      BY <2>2, <1>1
    <3> QED BY <3>1, <2>2, <1>2, <1>4
  <2>3. k \in 1..Plies \/ k = Plies + 1
    BY <1>10
  <2> QED BY <2>1, <2>2, <2>3
<1>7. BoardFollowsTheGame' = (
        /\ root'.pos = After(Plies)'
        /\ root'.turn = Mover(Plies' + 1)
        /\ \A k \in 1..Plies' :
             cookies'[k].from = After(k - 1)' /\ cookies'[k].by = Mover(k))
  BY DEF BoardFollowsTheGame, Mover
<1> QED BY <1>1, <1>3, <1>5, <1>6, <1>7

(* Two moves taken back lead to the position before them.                  *)
LEMMA UndoneFollows ==
  ASSUME FollowInv, Undo
  PROVE  BoardFollowsTheGame'
<1>0. root \in Root /\ cookies \in Seq(MoveGraph)
  BY DEF FollowInv, RootTypeOK
<1>1. /\ Plies >= 2
      /\ root' = Undone(root, cookies[Plies], cookies[Plies - 1])
      /\ cookies' = SubSeq(cookies, 1, Plies - 2)
  BY DEF Undo, Plies
<1>2. /\ Len(SubSeq(cookies, 1, Plies - 2)) = Plies - 2
      /\ \A k \in 1..Plies - 2 : SubSeq(cookies, 1, Plies - 2)[k] = cookies[k]
  BY <1>0, <1>1, CookiesTaken
<1>3. Plies' = Plies - 2 /\ Plies \in Nat
  BY <1>0, <1>1, <1>2, LenProperties DEF Plies
<1>4. /\ root.turn = Mover(Plies + 1)
      /\ \A k \in 1..Plies : cookies[k].from = After(k - 1) /\ cookies[k].by = Mover(k)
  BY DEF FollowInv, BoardFollowsTheGame
<1>5. root'.pos = cookies[Plies - 1].from /\ root'.turn = Flip(Flip(root.turn))
  BY <1>1 DEF Undone, UnmakeMoveRoot
<1>6. root.turn \in Sides
  BY <1>0 DEF Root
<1>7. root'.turn = Mover(Plies' + 1)
  <2>1. Mover(Plies + 1) = Flip(Mover(Plies))
    BY <1>3, MoverAlternates
  <2>2. Plies - 1 \in Nat /\ (Plies - 1) + 1 = Plies /\ Plies' + 1 = Plies - 1
    BY <1>1, <1>3
  <2>3. Mover(Plies) = Flip(Mover(Plies - 1)) /\ Mover(Plies - 1) \in Sides
    BY <2>2, MoverAlternates
  <2>4. Flip(Flip(root.turn)) = root.turn /\ root.turn = Flip(Flip(Mover(Plies - 1)))
    BY <1>4, <1>6, <2>1, <2>3, FlipTwice
  <2> QED BY <1>5, <2>2, <2>3, <2>4, FlipTwice
<1>8. After(Plies - 2) = root'.pos
  <2>1. Plies - 1 \in 1..Plies /\ (Plies - 1) - 1 = Plies - 2
    BY <1>1, <1>3
  <2> QED BY <1>4, <1>5, <2>1
<1>9. \A k \in 0..Plies - 2 : After(k)' = After(k)
  <2> TAKE k \in 0..Plies - 2
  <2>1. CASE k = 0
    BY <2>1 DEF After
  <2>2. CASE k # 0
    <3>1. k \in 1..Plies - 2
      BY <2>2, <1>3
    <3> QED BY <2>2, <3>1, <1>1, <1>2 DEF After
  <2> QED BY <2>1, <2>2
<1>10. After(Plies)' = root'.pos
  <2>1. Plies' \in 0..Plies - 2 /\ Plies' = Plies - 2
    BY <1>1, <1>3
  <2>2. CASE Plies = 2
    BY <2>1, <2>2, <1>8 DEF After
  <2>3. CASE Plies # 2
    <3>1. Plies - 2 \in 1..Plies - 2 /\ Plies - 2 # 0
      BY <2>3, <1>1, <1>3
    <3>2. cookies'[Plies - 2] = cookies[Plies - 2]
      BY <3>1, <1>1, <1>2
    <3> QED BY <3>1, <3>2, <2>1, <1>8 DEF After
  <2> QED BY <2>2, <2>3
<1>11. \A k \in 1..Plies - 2 :
         cookies'[k].from = After(k - 1)' /\ cookies'[k].by = Mover(k)
  <2> TAKE k \in 1..Plies - 2
  <2>1. k \in 1..Plies /\ k - 1 \in 0..Plies - 2
    BY <1>3
  <2>2. After(k - 1)' = After(k - 1)
    BY <2>1, <1>9
  <2>3. cookies'[k] = cookies[k]
    BY <1>1, <1>2
  <2>4. cookies[k].from = After(k - 1) /\ cookies[k].by = Mover(k)
    BY <2>1, <1>4
  <2> QED BY <2>2, <2>3, <2>4
<1>12. BoardFollowsTheGame' = (
        /\ root'.pos = After(Plies)'
        /\ root'.turn = Mover(Plies' + 1)
        /\ \A k \in 1..Plies' :
             cookies'[k].from = After(k - 1)' /\ cookies'[k].by = Mover(k))
  BY DEF BoardFollowsTheGame, Mover
<1> QED BY <1>3, <1>7, <1>10, <1>11, <1>12

(* Every step keeps the board, the turn and the moves together.            *)
LEMMA NextFollows == FollowInv /\ [Next]_rootVars => FollowInv'
<1> SUFFICES ASSUME FollowInv, [Next]_rootVars PROVE FollowInv'
  OBVIOUS
<1>1. RootTypeOK'
  BY NextTypeOK DEF FollowInv
<1>2. ASSUME root'.pos = root.pos, root'.turn = root.turn, cookies' = cookies
      PROVE  BoardFollowsTheGame'
  BY <1>2 DEF FollowInv, BoardFollowsTheGame, Plies, After, Mover
<1>3. ASSUME HumanMove \/ ComputerMove PROVE BoardFollowsTheGame'
  <2>1. CASE root' = root /\ cookies' = cookies
    BY <1>2, <2>1
  <2>2. ASSUME NEW pv \in Seq(MoveGraph),
               root' = Refused([root EXCEPT !.pv = pv]), cookies' = cookies
        PROVE  BoardFollowsTheGame'
    <3>1. root'.pos = root.pos /\ root'.turn = root.turn
      BY <2>2 DEF Refused, FollowInv, RootTypeOK, Root
    <3> QED BY <1>2, <2>2, <3>1
  <2>3. ASSUME NEW pv \in Seq(MoveGraph), NEW m \in MoveGraph, PseudoLegal(m),
               root' = Made([root EXCEPT !.pv = pv], m), cookies' = Append(cookies, m)
        PROVE  BoardFollowsTheGame'
    BY <2>3, MadeFollows
  <2> QED BY <1>3, <2>1, <2>2, <2>3, AnswerCases DEF FollowInv
<1>4. CASE Undo
  BY <1>4, UndoneFollows, <1>1 DEF FollowInv
<1>5. CASE UNCHANGED rootVars
  BY <1>1, <1>2, <1>5 DEF rootVars, FollowInv
<1>6. CASE HumanMove \/ ComputerMove
  BY <1>1, <1>3, <1>6 DEF FollowInv
<1> QED BY <1>4, <1>5, <1>6 DEF Next

(* The board, root_turn and the moves kept for undo always tell one game:  *)
(* every move starts where the one before it led to.                       *)
THEOREM BoardAlwaysFollowsTheGame == Spec => []BoardFollowsTheGame
<1>1. Init => FollowInv
  BY InitTypeOK, InitFollows DEF FollowInv
<1>2. FollowInv => BoardFollowsTheGame
  BY DEF FollowInv
<1> QED BY <1>1, <1>2, NextFollows, PTL DEF Spec

-----------------------------------------------------------------------------
(* The repetition table is the history of the game.  The invariant that is *)
(* inductive says more: a game that fits into the table is all there, and   *)
(* a table that has forgotten positions is full but for those that undos   *)
(* took, so that undo finds the two positions that it takes back.          *)

(* The position after k plies of a game whose moves are s.                 *)
PositionOf(s, k) == IF k = 0 THEN Start ELSE s[k].to

TableInv ==
  /\ FollowInv
  /\ TableIsHistory
  /\ MaxPlies <= RepLimit => Len(root.rep) = Plies
  /\ Len(root.rep) = Plies \/ RepLimit <= Len(root.rep) + 2 * undone

(* Games fit into the table, or it holds more plies than undos can take.   *)
TableIsLargeEnough == MaxPlies <= RepLimit \/ 2 * MaxUndos <= RepLimit

(* The table starts empty.                                                 *)
LEMMA InitTable == Init => TableInv
<1> SUFFICES ASSUME Init PROVE TableInv
  OBVIOUS
<1>1. Plies = 0 /\ root.rep = <<>> /\ Len(root.rep) = 0 /\ root.key = root.pos
  BY EmptySeq DEF Init, Plies
<1>2. TableIsHistory
  BY <1>1 DEF TableIsHistory
<1> QED BY <1>1, <1>2, InitTypeOK, InitFollows DEF TableInv, FollowInv

(* A made move puts the position it left into the table.                   *)
LEMMA MadeTable ==
  ASSUME TableInv, FollowInv', NEW m \in MoveGraph, NEW pv, Plies < MaxPlies,
         root' = Made([root EXCEPT !.pv = pv], m), cookies' = Append(cookies, m),
         undone' = undone
  PROVE  TableInv'
<1>0. root \in Root /\ cookies \in Seq(MoveGraph)
  BY DEF TableInv, FollowInv, RootTypeOK
<1> DEFINE rep == root.rep
           L == Len(rep)
           new == RenewedTable(rep, root.key)
<1>1. /\ rep \in Seq(Positions \cup {Garbage}) /\ L \in Nat
      /\ root.key \in Positions \cup {Garbage}
  BY <1>0, LenProperties DEF Root
<1>2. root'.rep = new /\ root'.key = root'.pos
  BY <1>0 DEF Made, Root
<1>3. /\ Plies \in Nat
      /\ Plies' = Plies + 1
      /\ \A k \in 0..Plies : PositionOf(cookies', k) = After(k)
  BY <1>0, CookiesGrown DEF After, PositionOf
<1>4. /\ root.key = After(Plies)
      /\ L <= Plies
      /\ \A i \in 1..L : rep[i] = After(Plies - L + i - 1)
  BY DEF TableInv, FollowInv, BoardFollowsTheGame, TableIsHistory
<1>5. /\ MaxPlies <= RepLimit => L = Plies
      /\ L = Plies \/ RepLimit <= L + 2 * undone
      /\ undone \in Nat
  BY DEF TableInv, FollowInv, RootTypeOK
<1>6. TableIsHistory' = (
        /\ root'.key = root'.pos
        /\ Len(root'.rep) <= Plies'
        /\ \A i \in 1..Len(root'.rep) :
             root'.rep[i] = PositionOf(cookies', Plies' - Len(root'.rep) + i - 1))
  BY DEF TableIsHistory, After, PositionOf
<1>7. TableInv' = (FollowInv' /\ TableIsHistory'
                     /\ (MaxPlies <= RepLimit => Len(root'.rep) = Plies')
                     /\ (\/ Len(root'.rep) = Plies'
                         \/ RepLimit <= Len(root'.rep) + 2 * undone'))
  BY DEF TableInv
<1>8. Plies \in Nat /\ Plies' = Plies + 1
  BY <1>3
<1> HIDE DEF new, L, rep
<1>9. ASSUME Len(new) = L + 1,
             \A i \in 1..L : new[i] = rep[i],
             new[L + 1] = root.key
      PROVE  TableInv'
  <2>1. ASSUME NEW i \in 1..L + 1
        PROVE  new[i] = PositionOf(cookies', (Plies + 1) - (L + 1) + i - 1)
    <3>1. CASE i \in 1..L
      <4>1. new[i] = After(Plies - L + i - 1)
        BY <3>1, <1>4, <1>9
      <4>2. (Plies + 1) - (L + 1) + i - 1 = Plies - L + i - 1
            /\ Plies - L + i - 1 \in 0..Plies
        <5>1. L \in Nat /\ Plies \in Nat /\ L <= Plies
          BY <1>1, <1>4, <1>8
        <5> QED BY <3>1, <5>1
      <4> QED BY <4>1, <4>2, <1>3
    <3>2. CASE i = L + 1
      <4>1. (Plies + 1) - (L + 1) + i - 1 = Plies /\ Plies \in 0..Plies
        BY <3>2, <1>1, <1>8
      <4> QED BY <3>2, <4>1, <1>3, <1>4, <1>9
    <3>3. i \in 1..L \/ i = L + 1
      BY <1>1
    <3> QED BY <3>1, <3>2, <3>3
  <2>2. TableIsHistory'
    BY <2>1, <1>1, <1>2, <1>4, <1>6, <1>8, <1>9
  <2>3. \/ Len(root'.rep) = Plies'
        \/ RepLimit <= Len(root'.rep) + 2 * undone'
    <3>1. Len(root'.rep) = L + 1 /\ Plies' = Plies + 1
      BY <1>2, <1>8, <1>9
    <3>2. undone' = undone /\ undone \in Nat /\ L \in Nat /\ Plies \in Nat /\ RepLimit \in Nat
      BY <1>1, <1>5, <1>8, RootAssumption
    <3>3. CASE L = Plies
      BY <3>1, <3>3
    <3>4. CASE RepLimit <= L + 2 * undone
      <4>1. RepLimit <= (L + 1) + 2 * undone
        BY <3>2, <3>4
      <4> QED BY <3>1, <3>2, <4>1
    <3> QED BY <3>3, <3>4, <1>5
  <2> QED BY <2>2, <2>3, <1>1, <1>2, <1>5, <1>7, <1>8, <1>9
<1>10. ASSUME L >= RepLimit,
              Len(new) = L,
              \A i \in 1..L - 1 : new[i] = rep[i + 1],
              new[L] = root.key
       PROVE  TableInv'
  <2>1. ASSUME NEW i \in 1..L
        PROVE  new[i] = PositionOf(cookies', (Plies + 1) - L + i - 1)
    <3>1. CASE i \in 1..L - 1
      <4>1. i + 1 \in 1..L
        BY <3>1, <1>1
      <4>2. new[i] = After(Plies - L + (i + 1) - 1)
        BY <3>1, <4>1, <1>4, <1>10
      <4>3. (Plies + 1) - L + i - 1 = Plies - L + (i + 1) - 1
            /\ Plies - L + (i + 1) - 1 \in 0..Plies
        <5>1. L \in Nat /\ Plies \in Nat /\ L <= Plies
          BY <1>1, <1>4, <1>8
        <5> QED BY <3>1, <5>1
      <4> QED BY <4>2, <4>3, <1>3
    <3>2. CASE i = L
      <4>0. i \in Int /\ L \in Int /\ Plies \in Nat
        BY <1>1, <1>8
      <4>1. (Plies + 1) - L + i - 1 = Plies /\ Plies \in 0..Plies
        BY ONLY <4>0, <3>2
      <4> QED BY <3>2, <4>1, <1>3, <1>4, <1>10
    <3>3. i \in 1..L - 1 \/ i = L
      BY <1>1
    <3> QED BY <3>1, <3>2, <3>3
  <2>2. TableIsHistory'
    BY <2>1, <1>1, <1>2, <1>4, <1>6, <1>8, <1>10
  <2>3. ~(MaxPlies <= RepLimit)
    BY <1>5, <1>8, <1>10, RootAssumption
  <2>4. RepLimit <= Len(root'.rep) + 2 * undone'
    BY <1>1, <1>2, <1>5, <1>10, RootAssumption
  <2> QED BY <2>2, <2>3, <2>4, <1>7
<1>11. \/ /\ Len(new) = L + 1
          /\ \A i \in 1..L : new[i] = rep[i]
          /\ new[L + 1] = root.key
       \/ /\ L >= RepLimit
          /\ Len(new) = L
          /\ \A i \in 1..L - 1 : new[i] = rep[i + 1]
          /\ new[L] = root.key
  BY <1>1, RenewedTableCells DEF new, L
<1> QED BY <1>9, <1>10, <1>11

(* Two moves taken back take two positions out of the table.               *)
LEMMA UndoneTable ==
  ASSUME TableInv, FollowInv', Undo, Len(root.rep) >= 2
  PROVE  TableInv'
<1>0. root \in Root /\ cookies \in Seq(MoveGraph) /\ undone \in Nat
  BY DEF TableInv, FollowInv, RootTypeOK
<1> DEFINE rep == root.rep
           L == Len(rep)
           one == TableBefore(rep)
           two == TableBefore(one)
           S == Positions \cup {Garbage}
<1>1. /\ Plies >= 2
      /\ root' = Undone(root, cookies[Plies], cookies[Plies - 1])
      /\ cookies' = SubSeq(cookies, 1, Plies - 2)
      /\ undone' = undone + 1
  BY DEF Undo, Plies
<1>2. /\ Plies \in Nat
      /\ Len(SubSeq(cookies, 1, Plies - 2)) = Plies - 2
      /\ \A k \in 1..Plies - 2 : SubSeq(cookies, 1, Plies - 2)[k] = cookies[k]
  BY <1>0, <1>1, CookiesTaken, LenProperties DEF Plies
<1>3. Plies' = Plies - 2
  BY <1>1, <1>2 DEF Plies
<1>4. \A k \in 0..Plies - 2 : PositionOf(cookies', k) = After(k)
  BY <1>1, <1>2 DEF PositionOf, After
<1>5. /\ rep \in Seq(S) /\ L \in Nat /\ L >= 2 /\ L <= Plies
      /\ \A i \in 1..L : rep[i] = After(Plies - L + i - 1)
  BY <1>0, LenProperties DEF Root, TableInv, TableIsHistory
<1>6. one \in Seq(S) /\ Len(one) = L - 1 /\ \A i \in 1..L - 1 : one[i] = rep[i]
  <2>1. rep # <<>>
    BY <1>5, EmptySeq
  <2> QED BY <2>1, <1>5, TableBeforeType
<1>7. /\ one # <<>>
      /\ two \in Seq(S) /\ Len(two) = L - 2
      /\ \A i \in 1..L - 2 : two[i] = one[i]
      /\ Last(one) = one[L - 1]
  <2>1. one # <<>>
    BY <1>5, <1>6, EmptySeq
  <2>2. two \in Seq(S) /\ Len(two) = Len(one) - 1 /\ \A i \in 1..Len(one) - 1 : two[i] = one[i]
    BY <2>1, <1>6, TableBeforeType
  <2> QED BY <2>1, <2>2, <1>5, <1>6 DEF Last
<1>8. TableInv' = (FollowInv' /\ TableIsHistory'
                     /\ (MaxPlies <= RepLimit => Len(root'.rep) = Plies')
                     /\ (\/ Len(root'.rep) = Plies'
                         \/ RepLimit <= Len(root'.rep) + 2 * undone'))
  BY DEF TableInv
<1>9. TableIsHistory' = (
        /\ root'.key = root'.pos
        /\ Len(root'.rep) <= Plies'
        /\ \A i \in 1..Len(root'.rep) :
             root'.rep[i] = PositionOf(cookies', Plies' - Len(root'.rep) + i - 1))
  BY DEF TableIsHistory, After, PositionOf
<1>10. /\ MaxPlies <= RepLimit => L = Plies
       /\ L = Plies \/ RepLimit <= L + 2 * undone
  BY DEF TableInv
<1> HIDE DEF one, two, rep
<1>11. /\ root'.rep = two
       /\ root'.key = Last(one)
       /\ root'.pos = cookies[Plies - 1].from
  BY <1>1, <1>7 DEF Undone, UnmakeMoveRoot, one, two, rep
<1>12. cookies[Plies - 1].from = After((Plies - 1) - 1)
  BY <1>1, <1>2 DEF TableInv, FollowInv, BoardFollowsTheGame
<1> HIDE DEF L
<1>13. root'.key = root'.pos
  <2>1. L - 1 \in 1..L /\ L - 1 \in 1..L - 1 /\ Plies - L + (L - 1) - 1 = (Plies - 1) - 1
    BY <1>2, <1>5
  <2>2. Last(one) = After((Plies - 1) - 1)
    BY <2>1, <1>5, <1>6, <1>7
  <2> QED BY <2>2, <1>11, <1>12
<1>14. ASSUME NEW i \in 1..L - 2
       PROVE  two[i] = PositionOf(cookies', (Plies - 2) - (L - 2) + i - 1)
  <2>1. /\ i \in 1..L /\ i \in 1..L - 1
        /\ (Plies - 2) - (L - 2) + i - 1 = Plies - L + i - 1
        /\ Plies - L + i - 1 \in 0..Plies - 2
    BY <1>2, <1>5
  <2> QED BY <2>1, <1>4, <1>5, <1>6, <1>7
<1>15. TableIsHistory'
  BY <1>2, <1>3, <1>5, <1>7, <1>9, <1>11, <1>13, <1>14
<1>16. /\ MaxPlies <= RepLimit => L - 2 = Plies - 2
       /\ L - 2 = Plies - 2 \/ RepLimit <= (L - 2) + 2 * (undone + 1)
  BY <1>0, <1>2, <1>5, <1>10, RootAssumption
<1> QED BY <1>1, <1>3, <1>7, <1>8, <1>11, <1>15, <1>16

(* A table that lost its oldest entries still holds those an undo needs.   *)
LEMMA RoomForAnUndo ==
  ASSUME NEW n \in Nat, NEW u \in Nat, NEW k \in Nat, NEW limit \in Nat,
         u < k, limit <= n + 2 * u, 2 * k <= limit
  PROVE  n >= 2
OBVIOUS

(* Every step keeps the table the history of the game.                     *)
LEMMA NextTable ==
  ASSUME TableIsLargeEnough
  PROVE  TableInv /\ [Next]_rootVars => TableInv'
<1> SUFFICES ASSUME TableInv, [Next]_rootVars PROVE TableInv'
  OBVIOUS
<1>1. FollowInv'
  BY NextFollows DEF TableInv
<1>2. ASSUME root'.pos = root.pos, root'.key = root.key, root'.rep = root.rep,
             cookies' = cookies, undone' = undone
      PROVE  TableInv'
  BY <1>1, <1>2 DEF TableInv, TableIsHistory, Plies, After
<1>3. CASE HumanMove \/ ComputerMove
  <2>0. undone' = undone
    BY <1>3 DEF HumanMove, ComputerMove, Answer
  <2>1. CASE root' = root /\ cookies' = cookies
    BY <1>2, <2>0, <2>1
  <2>2. ASSUME NEW pv \in Seq(MoveGraph),
               root' = Refused([root EXCEPT !.pv = pv]), cookies' = cookies
        PROVE  TableInv'
    <3>1. root'.pos = root.pos /\ root'.key = root.key /\ root'.rep = root.rep
      BY <2>2 DEF Refused, TableInv, FollowInv, RootTypeOK, Root
    <3> QED BY <1>2, <2>0, <2>2, <3>1
  <2>3. ASSUME NEW pv \in Seq(MoveGraph), NEW m \in MoveGraph, Plies < MaxPlies,
               root' = Made([root EXCEPT !.pv = pv], m), cookies' = Append(cookies, m)
        PROVE  TableInv'
    BY <1>1, <2>0, <2>3, MadeTable
  <2> QED BY <1>3, <2>1, <2>2, <2>3, AnswerCases DEF TableInv, FollowInv
<1>4. CASE Undo
  <2>1. /\ Plies \in Nat /\ Plies >= 2
        /\ Len(root.rep) \in Nat
        /\ undone \in Nat /\ undone < MaxUndos
    BY <1>4, LenProperties DEF Undo, Plies, TableInv, FollowInv, RootTypeOK, Root
  <2>2. /\ MaxPlies <= RepLimit => Len(root.rep) = Plies
        /\ Len(root.rep) = Plies \/ RepLimit <= Len(root.rep) + 2 * undone
    BY DEF TableInv
  <2>3. Len(root.rep) >= 2
    <3>1. RepLimit \in Nat /\ MaxUndos \in Nat
      BY RootAssumption
    <3>2. CASE Len(root.rep) = Plies
      BY <2>1, <3>2
    <3>3. CASE RepLimit <= Len(root.rep) + 2 * undone /\ 2 * MaxUndos <= RepLimit
      BY <2>1, <3>1, <3>3, RoomForAnUndo
    <3> QED BY <2>2, <3>2, <3>3 DEF TableIsLargeEnough
  <2> QED BY <1>1, <1>4, <2>3, UndoneTable
<1>5. CASE UNCHANGED rootVars
  BY <1>2, <1>5 DEF rootVars
<1> QED BY <1>3, <1>4, <1>5 DEF Next

(* As long as a game is not longer than the table, or undos take back at   *)
(* most as many plies as it holds, the table holds the last positions of   *)
(* the game and the hash key is that of the board, whatever moves,         *)
(* refusals and undos happened (makemove.c, make_move_root and             *)
(* unmake_move_root).                                                      *)
THEOREM TableAlwaysHistory ==
  ASSUME TableIsLargeEnough
  PROVE  Spec => []TableIsHistory
<1>1. TableInv => TableIsHistory
  BY DEF TableInv
<1>2. TableInv /\ [Next]_rootVars => TableInv'
  BY NextTable
<1> QED BY <1>1, <1>2, InitTable, PTL DEF Spec

-----------------------------------------------------------------------------
(* The session model's view of the root position is right.                 *)

(* The plays that the session model keeps.                                 *)
PlaysOf(s) == [k \in 1..Len(s) |-> [by |-> s[k].by, move |-> s[k]]]

(* The plays of the game, as a sequence.                                   *)
LEMMA PlaysOfSeq ==
  ASSUME NEW s \in Seq(MoveGraph)
  PROVE  /\ PlaysOf(s) \in Seq([by : Sides, move : MoveGraph])
         /\ Len(PlaysOf(s)) = Len(s)
         /\ \A k \in 1..Len(s) : PlaysOf(s)[k] = [by |-> s[k].by, move |-> s[k]]
<1> DEFINE P == [by : Sides, move : MoveGraph]
<1>1. Len(s) \in Nat /\ \A k \in 1..Len(s) : s[k] \in MoveGraph
  BY LenProperties, ElementOfSeq
<1>2. \A k \in 1..Len(s) : [by |-> s[k].by, move |-> s[k]] \in P
  BY <1>1, RootAssumption
<1>3. PlaysOf(s) \in [1..Len(s) -> P]
  BY <1>2 DEF PlaysOf
<1>4. PlaysOf(s) \in Seq(P) /\ Len(PlaysOf(s)) = Len(s)
  <2> DEFINE n == Len(s)
             f == PlaysOf(s)
  <2>1. n \in Nat /\ f \in [1..n -> P]
    BY <1>1, <1>3
  <2> HIDE DEF n, f, P
  <2>2. f \in Seq(P)
    BY <2>1, IsASeq
  <2>3. Len(f) \in Nat /\ DOMAIN f = 1..Len(f) /\ DOMAIN f = 1..n
    BY <2>1, <2>2, LenProperties
  <2>4. Len(f) = n
    BY <2>1, <2>3
  <2> QED BY <2>2, <2>4 DEF n, f
<1> QED BY <1>4 DEF PlaysOf

(* The fields of the tree of the session model.                            *)
LEMMA TreeIs ==
  ASSUME BoardFollowsTheGame
  PROVE  Tree = [plays |-> PlaysOf(cookies), turn |-> root.turn,
                 status |-> root.status, intact |-> TRUE]
BY DEF Tree, PlaysOf, Plies, BoardFollowsTheGame

(* The same after a step.                                                  *)
LEMMA TreeIsNext ==
  ASSUME BoardFollowsTheGame'
  PROVE  Tree' = [plays |-> PlaysOf(cookies'), turn |-> root'.turn,
                  status |-> root'.status, intact |-> TRUE]
BY DEF Tree, PlaysOf, Plies, BoardFollowsTheGame

(* MakeMoveRoot of the session model, field by field.                      *)
LEMMA JNIMakes ==
  ASSUME NEW ps, NEW turn, NEW status, NEW m, NEW raised
  PROVE  JNI!MakeMoveRoot([plays |-> ps, turn |-> turn, status |-> status,
                           intact |-> TRUE], m, raised) =
         [plays |-> Append(ps, [by |-> turn, move |-> m]), turn |-> JNI!Opponent(turn),
          status |-> status \cup raised, intact |-> TRUE]
BY DEF JNI!MakeMoveRoot

(* UnmakeMoveRoot of the session model, field by field.                    *)
LEMMA JNIUnmakes ==
  ASSUME NEW ps, Len(ps) \in Nat \ {0}, NEW turn, NEW status, NEW m, ps[Len(ps)].move = m
  PROVE  JNI!UnmakeMoveRoot([plays |-> ps, turn |-> turn, status |-> status,
                             intact |-> TRUE], m) =
         [plays |-> Front(ps), turn |-> JNI!Opponent(turn),
          status |-> status \ JNI!EndFlags, intact |-> TRUE]
<1> DEFINE n == Len(ps)
<1>1. JNI!UnmakeMoveRoot([plays |-> ps, turn |-> turn, status |-> status,
                          intact |-> TRUE], m) =
        [plays |-> IF n = 0 THEN <<>> ELSE JNI!Front(ps), turn |-> JNI!Opponent(turn),
         status |-> status \ JNI!EndFlags,
         intact |-> TRUE /\ n > 0 /\ (n > 0 => ps[n].move = m)]
  BY Zenon DEF JNI!UnmakeMoveRoot
<1>2. n > 0 /\ n # 0
  OBVIOUS
<1> HIDE DEF n
<1>3. JNI!Front(ps) = Front(ps)
  BY DEF Front, JNI!Front
<1>4. (TRUE /\ n > 0 /\ (n > 0 => ps[n].move = m)) = TRUE
  BY <1>2 DEF n
<1> QED BY Zenon, <1>1, <1>2, <1>3, <1>4

(* A made move is a MakeMoveRoot of the session model.                     *)
LEMMA MadeIsMake ==
  ASSUME FollowInv, BoardFollowsTheGame', NEW m \in MoveGraph, NEW pv, PseudoLegal(m),
         root' = Made([root EXCEPT !.pv = pv], m), cookies' = Append(cookies, m)
  PROVE  \E raised \in SUBSET JNI!EndFlags : Tree' = JNI!MakeMoveRoot(Tree, m, raised)
<1>0. root \in Root /\ cookies \in Seq(MoveGraph) /\ cookies' \in Seq(MoveGraph)
  BY AppendProperties DEF FollowInv, RootTypeOK
<1>1. root.turn \in Sides /\ m.by = root.turn
  BY <1>0 DEF Root, PseudoLegal
<1>2. PICK raised \in SUBSET {"mated", "drawn"} : root'.status = root.status \cup raised
  <2> DEFINE r == [root EXCEPT !.pv = pv]
             drawn == IF Verdict(r, m, RepetitionNth) = "four_fold" THEN {"drawn"} ELSE {}
             mated == IF InCheck(Flip(m.by), m.to) /\ IsMate(Flip(m.by), m.to)
                      THEN {"mated"} ELSE {}
  <2>1. root'.status = r.status \cup drawn \cup mated
    BY DEF Made
  <2>2. r.status = root.status
    BY <1>0 DEF Root
  <2>3. drawn \subseteq {"mated", "drawn"} /\ mated \subseteq {"mated", "drawn"}
    OBVIOUS
  <2> HIDE DEF r, drawn, mated
  <2>4. root'.status = root.status \cup (drawn \cup mated)
    BY <2>1, <2>2
  <2> QED BY <2>3, <2>4
<1>3. root'.turn = JNI!Opponent(root.turn)
  BY <1>0, <1>1 DEF Made, Root, JNI!Opponent, Flip, Sides
<1>4. PlaysOf(cookies') = Append(PlaysOf(cookies), [by |-> root.turn, move |-> m])
  <2> DEFINE P == [by : Sides, move : MoveGraph]
             play == [by |-> root.turn, move |-> m]
  <2>1. play \in P
    BY <1>1
  <2>2. /\ PlaysOf(cookies) \in Seq(P) /\ Len(PlaysOf(cookies)) = Len(cookies)
        /\ \A k \in 1..Len(cookies) :
             PlaysOf(cookies)[k] = [by |-> cookies[k].by, move |-> cookies[k]]
    BY <1>0, PlaysOfSeq
  <2>3. /\ PlaysOf(cookies') \in Seq(P) /\ Len(PlaysOf(cookies')) = Len(cookies')
        /\ \A k \in 1..Len(cookies') :
             PlaysOf(cookies')[k] = [by |-> cookies'[k].by, move |-> cookies'[k]]
    BY <1>0, PlaysOfSeq
  <2>4. /\ Len(cookies') = Len(cookies) + 1 /\ cookies'[Len(cookies) + 1] = m
        /\ \A k \in 1..Len(cookies) : cookies'[k] = cookies[k]
        /\ Len(cookies) \in Nat
    BY <1>0, AppendProperties, LenProperties
  <2> HIDE DEF play, P
  <2>5. /\ Append(PlaysOf(cookies), play) \in Seq(P)
        /\ Len(Append(PlaysOf(cookies), play)) = Len(cookies) + 1
        /\ Append(PlaysOf(cookies), play)[Len(cookies) + 1] = play
        /\ \A k \in 1..Len(cookies) :
             Append(PlaysOf(cookies), play)[k] = PlaysOf(cookies)[k]
    BY <2>1, <2>2, AppendProperties
  <2>6. ASSUME NEW k \in 1..Len(cookies) + 1
        PROVE  PlaysOf(cookies')[k] = Append(PlaysOf(cookies), play)[k]
    <3>1. CASE k \in 1..Len(cookies)
      BY <3>1, <2>2, <2>3, <2>4, <2>5
    <3>2. CASE k = Len(cookies) + 1
      BY <3>2, <2>3, <2>4, <2>5, <1>1 DEF play
    <3>3. k \in 1..Len(cookies) \/ k = Len(cookies) + 1
      <4>1. Len(cookies) \in Nat
        BY <2>4
      <4> QED BY ONLY <4>1, k \in 1..Len(cookies) + 1
    <3> QED BY <3>1, <3>2, <3>3
  <2>7. PlaysOf(cookies') = Append(PlaysOf(cookies), play)
    BY <2>3, <2>4, <2>5, <2>6, SeqEqual
  <2> QED BY <2>7 DEF play
<1>5. Tree' = [plays |-> PlaysOf(cookies'), turn |-> root'.turn,
               status |-> root'.status, intact |-> TRUE]
  BY TreeIsNext
<1>6. Tree = [plays |-> PlaysOf(cookies), turn |-> root.turn,
              status |-> root.status, intact |-> TRUE]
  BY TreeIs DEF FollowInv
<1>7. Tree' = JNI!MakeMoveRoot(Tree, m, raised)
  <2>1. Tree' = [plays |-> Append(PlaysOf(cookies), [by |-> root.turn, move |-> m]),
                 turn |-> JNI!Opponent(root.turn),
                 status |-> root.status \cup raised, intact |-> TRUE]
    BY <1>2, <1>3, <1>4, <1>5
  <2>2. JNI!MakeMoveRoot([plays |-> PlaysOf(cookies), turn |-> root.turn,
                          status |-> root.status, intact |-> TRUE], m, raised) =
          [plays |-> Append(PlaysOf(cookies), [by |-> root.turn, move |-> m]),
           turn |-> JNI!Opponent(root.turn),
           status |-> root.status \cup raised, intact |-> TRUE]
    BY JNIMakes
  <2> QED BY Zenon, <2>1, <2>2, <1>6
<1> QED BY <1>7 DEF JNI!EndFlags

(* The plays without the last one.                                         *)
LEMMA FrontOfPlays ==
  ASSUME NEW s \in Seq(MoveGraph), Len(s) >= 1
  PROVE  /\ SubSeq(s, 1, Len(s) - 1) \in Seq(MoveGraph)
         /\ Len(SubSeq(s, 1, Len(s) - 1)) = Len(s) - 1
         /\ Front(PlaysOf(s)) = PlaysOf(SubSeq(s, 1, Len(s) - 1))
         /\ PlaysOf(s)[Len(s)].move = s[Len(s)]
         /\ Len(PlaysOf(s)) = Len(s)
<1> DEFINE P == [by : Sides, move : MoveGraph]
           n == Len(s)
           ps == PlaysOf(s)
           front == SubSeq(s, 1, n - 1)
<1>1. n \in Nat /\ n >= 1
  BY LenProperties
<1>2. ps \in Seq(P) /\ Len(ps) = n
      /\ \A k \in 1..n : ps[k] = [by |-> s[k].by, move |-> s[k]]
  BY PlaysOfSeq
<1>3. front \in Seq(MoveGraph) /\ Len(front) = n - 1 /\ \A k \in 1..n - 1 : front[k] = s[k]
  <2> HIDE DEF n
  <2>1. 1 \in 1..n + 1 /\ n - 1 \in 0..n /\ n = Len(s)
    BY <1>1 DEF n
  <2>2. /\ front \in Seq(MoveGraph)
        /\ Len(front) = IF 1 <= n - 1 THEN (n - 1) - 1 + 1 ELSE 0
        /\ \A k \in 1..(n - 1) - 1 + 1 : front[k] = s[1 + k - 1]
    BY <2>1, SubSeqProperties
  <2>3. Len(front) = n - 1 /\ (n - 1) - 1 + 1 = n - 1
    BY <1>1, <2>2
  <2>4. \A k \in 1..n - 1 : 1 + k - 1 = k
    OBVIOUS
  <2> QED BY <2>2, <2>3, <2>4
<1>4. /\ PlaysOf(front) \in Seq(P) /\ Len(PlaysOf(front)) = n - 1
      /\ \A k \in 1..n - 1 : PlaysOf(front)[k] = [by |-> front[k].by, move |-> front[k]]
  BY <1>3, PlaysOfSeq
<1> HIDE DEF P, n, ps, front
<1>5. Front(ps) \in Seq(P) /\ Len(Front(ps)) = n - 1 /\ \A k \in 1..n - 1 : Front(ps)[k] = ps[k]
  BY <1>1, <1>2, SubSeqProperties DEF Front
<1>6. \A k \in 1..n - 1 : Front(ps)[k] = PlaysOf(front)[k]
  <2> TAKE k \in 1..n - 1
  <2>1. k \in 1..n
    BY <1>1
  <2>2. Front(ps)[k] = [by |-> s[k].by, move |-> s[k]]
    BY <2>1, <1>2, <1>5
  <2>3. PlaysOf(front)[k] = [by |-> s[k].by, move |-> s[k]]
    BY <1>3, <1>4
  <2> QED BY <2>2, <2>3
<1>7. Front(ps) = PlaysOf(front)
  BY <1>4, <1>5, <1>6, SeqEqual
<1>8. ps[n].move = s[n]
  BY <1>1, <1>2
<1> QED BY <1>2, <1>3, <1>7, <1>8 DEF n, ps, front

(* An undo is two calls of UnmakeMoveRoot of the session model.            *)
LEMMA UndoneIsUnmake ==
  ASSUME FollowInv, BoardFollowsTheGame', Undo
  PROVE  /\ Plies >= 2
         /\ Tree' = JNI!UnmakeMoveRoot(JNI!UnmakeMoveRoot(Tree, cookies[Plies]),
                                       cookies[Plies - 1])
<1> DEFINE one == SubSeq(cookies, 1, Plies - 1)
           two == SubSeq(one, 1, (Plies - 1) - 1)
<1>0. root \in Root /\ cookies \in Seq(MoveGraph)
  BY DEF FollowInv, RootTypeOK
<1>1. /\ Plies >= 2
      /\ root' = Undone(root, cookies[Plies], cookies[Plies - 1])
      /\ cookies' = SubSeq(cookies, 1, Plies - 2)
  BY DEF Undo, Plies
<1>2. Plies \in Nat /\ Plies = Len(cookies)
  BY <1>0, LenProperties DEF Plies
<1>3. /\ one \in Seq(MoveGraph) /\ Len(one) = Plies - 1
      /\ Front(PlaysOf(cookies)) = PlaysOf(one)
      /\ PlaysOf(cookies)[Plies].move = cookies[Plies]
      /\ Len(PlaysOf(cookies)) = Plies
  BY <1>0, <1>1, <1>2, FrontOfPlays
<1>4. one[Plies - 1] = cookies[Plies - 1]
  BY <1>0, <1>1, <1>2, SubSeqProperties
<1>5. cookies' = two
  <2>1. two = SubSeq(cookies, 1, Plies - 2)
    <3>1. /\ \A k \in 1..Plies - 1 : one[k] = cookies[k]
      BY <1>0, <1>1, <1>2, SubSeqProperties
    <3> HIDE DEF one
    <3>2. /\ SubSeq(one, 1, Plies - 2) \in Seq(MoveGraph)
          /\ Len(SubSeq(one, 1, Plies - 2)) = Plies - 2
          /\ \A k \in 1..Plies - 2 : SubSeq(one, 1, Plies - 2)[k] = one[k]
      BY <1>1, <1>2, <1>3, SubSeqProperties
    <3>3. /\ SubSeq(cookies, 1, Plies - 2) \in Seq(MoveGraph)
          /\ Len(SubSeq(cookies, 1, Plies - 2)) = Plies - 2
          /\ \A k \in 1..Plies - 2 : SubSeq(cookies, 1, Plies - 2)[k] = cookies[k]
      BY <1>0, <1>1, CookiesTaken
    <3>4. \A k \in 1..Plies - 2 : SubSeq(one, 1, Plies - 2)[k] = SubSeq(cookies, 1, Plies - 2)[k]
      BY <1>2, <3>1, <3>2, <3>3
    <3>5. SubSeq(one, 1, Plies - 2) = SubSeq(cookies, 1, Plies - 2)
      BY <3>2, <3>3, <3>4, SeqEqual
    <3>6. (Plies - 1) - 1 = Plies - 2
      BY <1>2
    <3> QED BY <3>5, <3>6
  <2> QED BY <1>1, <2>1
<1> HIDE DEF one
<1>6. /\ Front(PlaysOf(one)) = PlaysOf(two)
      /\ PlaysOf(one)[Plies - 1].move = cookies[Plies - 1]
      /\ Len(PlaysOf(one)) = Plies - 1
  BY <1>1, <1>2, <1>3, <1>4, FrontOfPlays
<1> HIDE DEF two
<1> DEFINE ended == root.status \ JNI!EndFlags
           opp == JNI!Opponent(root.turn)
<1>7. Tree = [plays |-> PlaysOf(cookies), turn |-> root.turn,
              status |-> root.status, intact |-> TRUE]
  BY TreeIs DEF FollowInv
<1>8. JNI!UnmakeMoveRoot([plays |-> PlaysOf(cookies), turn |-> root.turn,
                          status |-> root.status, intact |-> TRUE], cookies[Plies]) =
        [plays |-> Front(PlaysOf(cookies)), turn |-> opp, status |-> ended, intact |-> TRUE]
  <2>1. Len(PlaysOf(cookies)) \in Nat \ {0}
        /\ PlaysOf(cookies)[Len(PlaysOf(cookies))].move = cookies[Plies]
    BY <1>1, <1>2, <1>3
  <2> QED BY <2>1, JNIUnmakes
<1>9. JNI!UnmakeMoveRoot(Tree, cookies[Plies]) =
        [plays |-> PlaysOf(one), turn |-> opp, status |-> ended, intact |-> TRUE]
  BY Zenon, <1>3, <1>7, <1>8
<1> HIDE DEF ended, opp
<1>10. JNI!UnmakeMoveRoot([plays |-> PlaysOf(one), turn |-> opp,
                           status |-> ended, intact |-> TRUE], cookies[Plies - 1]) =
         [plays |-> Front(PlaysOf(one)), turn |-> JNI!Opponent(opp),
          status |-> ended \ JNI!EndFlags, intact |-> TRUE]
  <2>1. Len(PlaysOf(one)) \in Nat \ {0}
        /\ PlaysOf(one)[Len(PlaysOf(one))].move = cookies[Plies - 1]
    BY <1>1, <1>2, <1>6
  <2> QED BY <2>1, JNIUnmakes
<1>11. /\ root'.turn = JNI!Opponent(opp)
       /\ root'.status = ended \ JNI!EndFlags
  <2>1. root'.turn = Flip(Flip(root.turn)) /\ root.turn \in Sides
    BY <1>0, <1>1 DEF Undone, UnmakeMoveRoot, Root
  <2>2. root'.status = (root.status \ {"mated", "drawn"}) \ {"mated", "drawn"}
    BY <1>1 DEF Undone, UnmakeMoveRoot
  <2>3. JNI!Opponent(opp) = Flip(Flip(root.turn))
    BY <2>1 DEF opp, JNI!Opponent, Flip, Sides
  <2> QED BY <2>1, <2>2, <2>3 DEF ended, JNI!EndFlags
<1>12. Tree' = [plays |-> PlaysOf(cookies'), turn |-> root'.turn,
                status |-> root'.status, intact |-> TRUE]
  BY TreeIsNext
<1>13. Tree' = JNI!UnmakeMoveRoot([plays |-> PlaysOf(one), turn |-> opp,
                           status |-> ended, intact |-> TRUE], cookies[Plies - 1])
  BY <1>5, <1>6, <1>10, <1>11, <1>12
<1> QED BY Zenon, <1>1, <1>9, <1>13

(* The engine's root position implements the root position of the session  *)
(* model: whatever its tables hold, a step makes one move, takes two back, *)
(* or leaves the plays, the turn and the end flags as they were.           *)
THEOREM RootAlwaysTheTree == Spec => RootIsTheTree
<1>1. Init => FollowInv
  BY InitTypeOK, InitFollows DEF FollowInv
<1> DEFINE Step == \/ UNCHANGED Tree
                   \/ \E m \in MoveGraph, raised \in SUBSET JNI!EndFlags :
                        Tree' = JNI!MakeMoveRoot(Tree, m, raised)
                   \/ /\ Plies >= 2
                      /\ Tree' = JNI!UnmakeMoveRoot(
                                   JNI!UnmakeMoveRoot(Tree, cookies[Plies]),
                                   cookies[Plies - 1])
<1>2. FollowInv /\ FollowInv' /\ [Next]_rootVars => [Step]_rootVars
  <2> SUFFICES ASSUME FollowInv, FollowInv', Next PROVE Step
    OBVIOUS
  <2>1. ASSUME root'.pos = root.pos, root'.turn = root.turn,
               root'.status = root.status, cookies' = cookies
        PROVE  UNCHANGED Tree
    BY <2>1 DEF Tree, Plies, After
  <2>2. CASE HumanMove \/ ComputerMove
    <3>1. CASE root' = root /\ cookies' = cookies
      BY <2>1, <3>1
    <3>2. ASSUME NEW pv \in Seq(MoveGraph),
                 root' = Refused([root EXCEPT !.pv = pv]), cookies' = cookies
          PROVE  Step
      <4>1. root'.pos = root.pos /\ root'.turn = root.turn /\ root'.status = root.status
        BY <3>2 DEF Refused, FollowInv, RootTypeOK, Root
      <4> QED BY <2>1, <3>2, <4>1
    <3>3. ASSUME NEW pv \in Seq(MoveGraph), NEW m \in MoveGraph, PseudoLegal(m),
                 root' = Made([root EXCEPT !.pv = pv], m), cookies' = Append(cookies, m)
          PROVE  Step
      <4>1. \E raised \in SUBSET JNI!EndFlags : Tree' = JNI!MakeMoveRoot(Tree, m, raised)
        BY <3>3, MadeIsMake DEF FollowInv
      <4> QED BY <4>1
    <3> QED BY <2>2, <3>1, <3>2, <3>3, AnswerCases DEF FollowInv
  <2>3. CASE Undo
    BY <2>3, UndoneIsUnmake DEF FollowInv
  <2> QED BY <2>2, <2>3 DEF Next
<1> HIDE DEF Step
<1>3. Spec => [][Step]_rootVars
  BY <1>1, <1>2, NextFollows, PTL DEF Spec
<1> QED BY <1>3 DEF RootIsTheTree, Step

-----------------------------------------------------------------------------
(* What a call of humanMove or computerMove does, with its answer.         *)

(* A move is made when it passed every check.                              *)
MakesMove(m) ==
  /\ PseudoLegal(m) /\ ~InCheck(m.by, m.to)
  /\ Verdict(root, m, RepetitionNth) # "perpetual"
  /\ root.status = {} /\ Plies < MaxPlies
  /\ \E pv \in Seq(MoveGraph) : root' = Made([root EXCEPT !.pv = pv], m)
  /\ cookies' = Append(cookies, m)
  /\ outcome' = [verdict |-> "ok", move |-> m]

(* A move that is refused leaves the game and its repetitions alone.       *)
KeepsGame ==
  /\ cookies' = cookies
  /\ root'.pos = root.pos /\ root'.key = root.key /\ root'.turn = root.turn
  /\ root'.status = root.status /\ root'.rep = root.rep
  /\ root'.check0 = root.check0 /\ root'.check1 = root.check1

SaysNoMove(m) ==
  \/ outcome'.verdict = "hang"
  \/ /\ PseudoLegal(m) /\ Verdict(root, m, RepetitionNth) = "perpetual"
     /\ outcome' = [verdict |-> "perpetual", move |-> m]
  \/ /\ m \in RootMoveList(root) /\ Verdict(root, m, RepetitionNth) = "perpetual"
     /\ outcome'.verdict = "no moves"

(* The line of the search is no part of what make_move_root decides.       *)
LEMMA LineIsIrrelevant ==
  ASSUME NEW r \in Root, NEW pv \in Seq(MoveGraph), NEW m \in MoveGraph,
         NEW s, s = [r EXCEPT !.pv = pv]
  PROVE  /\ Verdict(s, m, RepetitionNth) = Verdict(r, m, RepetitionNth)
         /\ s \in Root /\ Made(s, m).pvSave = pv
         /\ Refused(s).pos = r.pos /\ Refused(s).key = r.key /\ Refused(s).turn = r.turn
         /\ Refused(s).status = r.status /\ Refused(s).rep = r.rep
         /\ Refused(s).check0 = r.check0 /\ Refused(s).check1 = r.check1
<1>1. s.rep = r.rep /\ s.key = r.key /\ s.check0 = r.check0 /\ s \in Root /\ s.pv = pv
  <2>1. s \in Root
    <3>1. [r EXCEPT !.pv = pv] \in Root
      BY DEF Root
    <3> QED BY <3>1
  <2>2. s.rep = r.rep /\ s.key = r.key /\ s.check0 = r.check0 /\ s.pv = pv
    BY DEF Root
  <2> QED BY <2>1, <2>2
<1>2. Verdict(s, m, RepetitionNth) = Verdict(r, m, RepetitionNth)
  BY <1>1 DEF Verdict, ChecksWith
<1>3. Made(s, m).pvSave = pv
  BY <1>1 DEF Made
<1>4. /\ Refused(s).pos = r.pos /\ Refused(s).key = r.key /\ Refused(s).turn = r.turn
      /\ Refused(s).status = r.status /\ Refused(s).rep = r.rep
      /\ Refused(s).check0 = r.check0 /\ Refused(s).check1 = r.check1
  BY DEF Refused, Root
<1> QED BY <1>1, <1>2, <1>3, <1>4

(* humanMove makes the move, or refuses it and keeps the game.             *)
LEMMA HumanMoveCases ==
  ASSUME RootTypeOK, HumanMove
  PROVE  /\ undone' = undone
         /\ \E m \in MoveGraph : MakesMove(m) \/ (KeepsGame /\ SaysNoMove(m))
<1>1. PICK m \in MoveGraph :
        /\ root.status = {} /\ Plies < MaxPlies /\ PseudoLegal(m) /\ undone' = undone
        /\ Answer(m, MakeMoveRoot(root, m, {"hang"}))
        /\ outcome' = [verdict |-> MakeMoveRoot(root, m, {"hang"}).verdict, move |-> m]
  BY DEF HumanMove, Answer, Plies
<1>2. root \in Root /\ root = [root EXCEPT !.pv = root.pv] /\ root.pv \in Seq(MoveGraph)
  BY DEF RootTypeOK, Root
<1>3. Refused(root).pos = root.pos /\ Refused(root).key = root.key
      /\ Refused(root).turn = root.turn /\ Refused(root).status = root.status
      /\ Refused(root).rep = root.rep /\ Refused(root).check0 = root.check0
      /\ Refused(root).check1 = root.check1
  BY <1>2, LineIsIrrelevant
<1>4. CASE InCheck(m.by, m.to)
  <2>1. MakeMoveRoot(root, m, {"hang"}) = [verdict |-> "hang", root |-> Refused(root)]
    BY <1>4 DEF MakeMoveRoot
  <2>2. root' = Refused(root) /\ cookies' = cookies /\ outcome'.verdict = "hang"
    BY <1>1, <2>1 DEF Answer
  <2> QED BY <1>1, <1>3, <2>2 DEF KeepsGame, SaysNoMove
<1>5. CASE ~InCheck(m.by, m.to) /\ Verdict(root, m, RepetitionNth) = "perpetual"
  <2>1. MakeMoveRoot(root, m, {"hang"}) = [verdict |-> "perpetual", root |-> Refused(root)]
    BY <1>5 DEF MakeMoveRoot
  <2>2. /\ root' = Refused(root) /\ cookies' = cookies
        /\ outcome' = [verdict |-> "perpetual", move |-> m]
    BY <1>1, <2>1 DEF Answer
  <2> QED BY <1>1, <1>3, <1>5, <2>2 DEF KeepsGame, SaysNoMove
<1>6. CASE ~InCheck(m.by, m.to) /\ Verdict(root, m, RepetitionNth) # "perpetual"
  <2>1. MakeMoveRoot(root, m, {"hang"}) = [verdict |-> "ok", root |-> Made(root, m)]
    BY <1>6 DEF MakeMoveRoot
  <2>2. /\ root' = Made(root, m) /\ cookies' = Append(cookies, m)
        /\ outcome' = [verdict |-> "ok", move |-> m]
    BY <1>1, <2>1 DEF Answer
  <2>3. \E pv \in Seq(MoveGraph) : root' = Made([root EXCEPT !.pv = pv], m)
    BY <1>2, <2>2
  <2>4. MakesMove(m)
    BY <1>1, <1>6, <2>2, <2>3 DEF MakesMove
  <2> QED BY <1>1, <2>4
<1> QED BY <1>4, <1>5, <1>6

(* computerMove makes a root move, or fails and keeps the game.            *)
LEMMA ComputerMoveCases ==
  ASSUME RootTypeOK, ComputerMove
  PROVE  /\ undone' = undone
         /\ \/ \E m \in MoveGraph : MakesMove(m) \/ (KeepsGame /\ SaysNoMove(m))
            \/ KeepsGame /\ RootMoveList(root) = {} /\ outcome'.verdict = "no moves"
<1>1. root \in Root
  BY DEF RootTypeOK
<1>2. CASE /\ RootMoveList(root) = {}
           /\ outcome' = [verdict |-> "no moves", move |-> NoMove]
           /\ UNCHANGED <<root, cookies, undone>>
  BY <1>2 DEF KeepsGame
<1>3. ASSUME NEW m \in RootMoveList(root),
             NEW line \in {<<>>} \cup {<<e>> : e \in GenEvasion(Flip(m.by), m.to)},
             root.status = {}, Plies < MaxPlies,
             LET result == MakeMoveRoot([root EXCEPT !.pv = <<m>> \o line], m, {}) IN
             /\ Answer(m, result)
             /\ outcome' = IF result.verdict = "ok"
                           THEN [verdict |-> "ok", move |-> ReportedMove(result.root)]
                           ELSE [verdict |-> "no moves", move |-> NoMove]
      PROVE  undone' = undone /\ m \in MoveGraph /\ (MakesMove(m) \/ (KeepsGame /\ SaysNoMove(m)))
  <2> DEFINE pv == <<m>> \o line
  <2>0. PICK r : r = [root EXCEPT !.pv = pv]
    OBVIOUS
  <2> DEFINE result == MakeMoveRoot(r, m, {})
  <2>1. m \in MoveGraph /\ PseudoLegal(m) /\ ~InCheck(m.by, m.to)
    BY DEF RootMoveList, PseudoLegal
  <2>2. line \in Seq(MoveGraph)
    <3>1. CASE line = <<>>
      BY <3>1, EmptySeq
    <3>2. ASSUME NEW e \in GenEvasion(Flip(m.by), m.to), line = <<e>>
          PROVE  line \in Seq(MoveGraph)
      BY <3>2 DEF GenEvasion
    <3> QED BY <3>1, <3>2
  <2>3. pv \in Seq(MoveGraph) /\ Head(pv) = m
    <3>1. <<m>> \in Seq(MoveGraph) /\ Len(<<m>>) = 1 /\ <<m>>[1] = m
      BY <2>1
    <3>2. pv \in Seq(MoveGraph) /\ Len(pv) = 1 + Len(line) /\ pv[1] = m
      BY <3>1, <2>2, ConcatProperties, LenProperties
    <3>3. pv \in Seq(MoveGraph) /\ pv[1] = m /\ pv # <<>>
      BY <3>2, <2>2, LenProperties, EmptySeq
    <3> HIDE DEF pv
    <3> QED BY <3>3
  <2> HIDE DEF pv
  <2>4. /\ Verdict(r, m, RepetitionNth) = Verdict(root, m, RepetitionNth)
        /\ r \in Root /\ Made(r, m).pvSave = pv
        /\ Refused(r).pos = root.pos /\ Refused(r).key = root.key
        /\ Refused(r).turn = root.turn /\ Refused(r).status = root.status
        /\ Refused(r).rep = root.rep /\ Refused(r).check0 = root.check0
        /\ Refused(r).check1 = root.check1
    BY <1>1, <2>0, <2>1, <2>3, LineIsIrrelevant
  <2>5. /\ Answer(m, result)
        /\ outcome' = IF result.verdict = "ok"
                      THEN [verdict |-> "ok", move |-> ReportedMove(result.root)]
                      ELSE [verdict |-> "no moves", move |-> NoMove]
    BY <1>3, <2>0 DEF pv
  <2> HIDE DEF result
  <2>6. CASE Verdict(root, m, RepetitionNth) = "perpetual"
    <3>1. result = [verdict |-> "perpetual", root |-> Refused(r)]
      BY <2>4, <2>6 DEF MakeMoveRoot, result
    <3>2. root' = Refused(r) /\ cookies' = cookies /\ outcome'.verdict = "no moves"
          /\ undone' = undone
      BY <2>5, <3>1 DEF Answer
    <3>3. KeepsGame
      BY <2>4, <3>2 DEF KeepsGame
    <3> QED BY <2>1, <2>6, <3>2, <3>3 DEF SaysNoMove
  <2>7. CASE Verdict(root, m, RepetitionNth) # "perpetual"
    <3>1. result = [verdict |-> "ok", root |-> Made(r, m)]
      BY <2>4, <2>7 DEF MakeMoveRoot, result
    <3>2. root' = Made(r, m) /\ cookies' = Append(cookies, m) /\ undone' = undone
          /\ outcome' = [verdict |-> "ok", move |-> ReportedMove(Made(r, m))]
      BY <2>5, <3>1 DEF Answer
    <3>3. ReportedMove(Made(r, m)) = m
      BY <2>3, <2>4 DEF ReportedMove
    <3>4. \E v \in Seq(MoveGraph) : root' = Made([root EXCEPT !.pv = v], m)
      BY <2>0, <2>3, <3>2
    <3>5. MakesMove(m)
      BY <1>3, <2>1, <2>7, <3>2, <3>3, <3>4 DEF MakesMove
    <3> QED BY <2>1, <3>2, <3>5
  <2> QED BY <2>1, <2>6, <2>7
<1> QED BY <1>2, <1>3 DEF ComputerMove, Plies

(* computerMove reports the move that it made, humanMove the move it was   *)
(* asked to make.                                                          *)
THEOREM TheMadeMoveIsReported == Spec => []ReportedMoveIsMade
<1>1. Init => ReportedMoveIsMade
  BY DEF Init, ReportedMoveIsMade
<1>2. ASSUME RootTypeOK, ReportedMoveIsMade, [Next]_rootVars PROVE ReportedMoveIsMade'
  <2>1. ASSUME NEW m \in MoveGraph, MakesMove(m) PROVE ReportedMoveIsMade'
    <3>1. cookies \in Seq(MoveGraph)
      BY <1>2 DEF RootTypeOK
    <3>2. /\ Append(cookies, m) \in Seq(MoveGraph) /\ Append(cookies, m) # <<>>
          /\ Append(cookies, m)[Len(Append(cookies, m))] = m
      BY <3>1, AppendProperties
    <3>3. cookies' # <<>> /\ Last(cookies') = m
      BY <2>1, <3>2 DEF MakesMove, Last
    <3> QED BY <2>1, <3>3 DEF MakesMove, ReportedMoveIsMade
  <2>2. ASSUME NEW m \in MoveGraph, SaysNoMove(m) PROVE ReportedMoveIsMade'
    BY <2>2 DEF SaysNoMove, ReportedMoveIsMade
  <2>3. CASE outcome'.verdict = "no moves"
    BY <2>3 DEF ReportedMoveIsMade
  <2>4. CASE Undo
    BY <2>4 DEF Undo, ReportedMoveIsMade
  <2>5. CASE UNCHANGED rootVars
    BY <1>2, <2>5 DEF rootVars, ReportedMoveIsMade
  <2> QED BY <1>2, <2>1, <2>2, <2>3, <2>4, <2>5, HumanMoveCases, ComputerMoveCases DEF Next
<1> QED BY <1>1, <1>2, RootTypeCorrect, PTL DEF Spec

-----------------------------------------------------------------------------
(* detect_repetition in terms of the game.  As long as the game fits into  *)
(* the repetition table, the table is the history of the game.             *)
WholeGame == TableInv /\ MaxPlies <= RepLimit

(* The plies from first to last after which the position was p, with the   *)
(* same side to move as after ply last.                                    *)
Same(p, last, first) == {i \in first..last : (last - i) % 2 = 0 /\ After(i) = p}

(* Before the move m of ply Plies + 1, its position occurred here; one     *)
(* move of each side does not lead back to a position.                     *)
Earlier(m) == Same(m.to, Plies - 3, 0)

Evades(m, ncheck, nth) ==
  /\ ncheck >= nth * 2
  /\ \E e \in GenEvasion(Flip(m.by), m.to) :
       Cardinality(Same(e.to, Plies - 2, FirstChecked(Plies + 1, ncheck))) >= nth

NthLast(S, nth) == CHOOSE i \in S : Cardinality({j \in S : j >= i}) = nth

Decision(m, ncheck, nth, n) ==
  IF Evades(m, ncheck, nth) THEN "perpetual"
  ELSE IF Cardinality(Earlier(m)) < nth THEN "no_rep"
  ELSE IF (ncheck - 1) * 2 >= n - NthLast(Earlier(m), nth) THEN "perpetual"
  ELSE "four_fold"

(* What detect_repetition sees of the past is the history of the game.     *)
LEMMA PastIsHistory ==
  ASSUME WholeGame
  PROVE  /\ Plies \in Nat /\ cookies \in Seq(MoveGraph) /\ root \in Root
         /\ Len(Append(root.rep, root.key)) = Plies + 1
         /\ \A i \in 0..Plies : Append(root.rep, root.key)[i + 1] = After(i)
<1> DEFINE past == Append(root.rep, root.key)
           S == Positions \cup {Garbage}
<1>1. root \in Root /\ cookies \in Seq(MoveGraph) /\ Plies \in Nat
  BY LenProperties DEF WholeGame, TableInv, FollowInv, RootTypeOK, Plies
<1>2. root.rep \in Seq(S) /\ root.key \in S
  BY <1>1 DEF Root
<1>3. Len(root.rep) = Plies /\ root.key = After(Plies)
  BY DEF WholeGame, TableInv, TableIsHistory, FollowInv, BoardFollowsTheGame
<1>4. \A i \in 1..Plies : root.rep[i] = After(i - 1)
  <2>1. \A i \in 1..Plies : root.rep[i] = After(Plies - Plies + i - 1)
    BY <1>3 DEF WholeGame, TableInv, TableIsHistory
  <2>2. \A i \in 1..Plies : Plies - Plies + i - 1 = i - 1
    BY <1>1
  <2> QED BY <2>1, <2>2
<1>5. /\ Len(past) = Plies + 1 /\ past[Plies + 1] = root.key
      /\ \A i \in 1..Plies : past[i] = root.rep[i]
  BY <1>2, <1>3, AppendProperties
<1> HIDE DEF past
<1>6. ASSUME NEW i \in 0..Plies PROVE past[i + 1] = After(i)
  <2>1. CASE i = Plies
    BY <1>3, <1>5, <2>1
  <2>2. CASE i # Plies
    <3>1. i + 1 \in 1..Plies /\ (i + 1) - 1 = i
      BY <1>1, <2>2
    <3> QED BY <1>4, <1>5, <3>1
  <2> QED BY <2>1, <2>2
<1> QED BY <1>1, <1>5, <1>6 DEF past

(* The first ply of a row of checks that detect_repetition looks at.       *)
LEMMA FirstCheckedIs ==
  ASSUME NEW n \in Nat, NEW c \in Nat
  PROVE  FirstChecked(n, c) \in Nat /\ FirstChecked(n, c) >= n - c * 2 + 1
         /\ \A i \in Nat : i >= n - c * 2 + 1 => i >= FirstChecked(n, c)
<1>1. n - c * 2 + 1 \in Int
  OBVIOUS
<1> QED BY <1>1 DEF FirstChecked, NotNegative

(* The occurrences it counts are those of the game.                        *)
LEMMA RecurrencesAre ==
  ASSUME WholeGame, NEW p, NEW first \in Nat, NEW last \in Int, last <= Plies
  PROVE  Recurrences(Append(root.rep, root.key), p, last, first) = Same(p, last, first)
<1>1. \A i \in first..last : i \in 0..Plies
  BY PastIsHistory
<1>2. \A i \in first..last : Append(root.rep, root.key)[i + 1] = After(i)
  BY <1>1, PastIsHistory
<1> QED BY <1>2 DEF Recurrences, Same

(* detect_repetition of a root move, in terms of the game.                 *)
LEMMA VerdictIs ==
  ASSUME WholeGame, NEW m \in MoveGraph, NEW nth \in Nat, NEW c, c = ChecksWith(root, m)
  PROVE  Verdict(root, m, nth) = Decision(m, c, nth, Plies + 1)
<1> DEFINE past == Append(root.rep, root.key)
<1>1. Plies \in Nat /\ root \in Root /\ Len(past) = Plies + 1
  BY PastIsHistory
<1>2. c \in Nat
  <2>1. c \in 0..255
    BY <1>1, ChecksWithType
  <2> QED BY <2>1
<1>3. FirstChecked(Plies + 1, c) \in Nat
  BY <1>1, <1>2, FirstCheckedIs
<1>4. (Plies + 1) - 4 = Plies - 3 /\ (Plies + 1) - 3 = Plies - 2
      /\ Plies - 3 \in Int /\ Plies - 2 \in Int /\ Plies - 3 <= Plies /\ Plies - 2 <= Plies
  BY <1>1
<1>5. Recurrences(past, m.to, Len(past) - 4, 0) = Earlier(m)
  BY <1>1, <1>4, RecurrencesAre DEF Earlier
<1>6. \A e : Recurrences(past, e.to, Len(past) - 3, FirstChecked(Len(past), c))
              = Same(e.to, Plies - 2, FirstChecked(Plies + 1, c))
  BY <1>1, <1>3, <1>4, RecurrencesAre
<1>7. Verdict(root, m, nth) = DetectRepetition(past, m.to, Flip(m.by), c, nth)
  BY DEF Verdict
<1>8. (/\ c >= nth * 2
       /\ \E e \in GenEvasion(Flip(m.by), m.to) :
            Cardinality(Recurrences(past, e.to, Len(past) - 3, FirstChecked(Len(past), c))) >= nth)
        <=> Evades(m, c, nth)
  BY <1>6 DEF Evades
<1>9. (CHOOSE i \in Recurrences(past, m.to, Len(past) - 4, 0) :
         Cardinality({j \in Recurrences(past, m.to, Len(past) - 4, 0) : j >= i}) = nth)
        = NthLast(Earlier(m), nth)
  BY <1>5 DEF NthLast
<1> HIDE DEF past
<1>10. DetectRepetition(past, m.to, Flip(m.by), c, nth) =
           IF Evades(m, c, nth) THEN "perpetual"
           ELSE IF Cardinality(Earlier(m)) < nth THEN "no_rep"
           ELSE IF (c - 1) * 2 >= Len(past) - NthLast(Earlier(m), nth) THEN "perpetual"
           ELSE "four_fold"
  BY <1>5, <1>8, <1>9, Zenon DEF DetectRepetition
<1>11. Verdict(root, m, nth) = Decision(m, c, nth, Len(past))
  BY <1>7, <1>10 DEF Decision
<1> QED BY <1>1, <1>11

(* The sets of plies are finite.                                           *)
LEMMA SameIsFinite ==
  ASSUME NEW p, NEW first \in Nat, NEW last \in Int
  PROVE  /\ IsFiniteSet(Same(p, last, first)) /\ Cardinality(Same(p, last, first)) \in Nat
         /\ Same(p, last, first) \in SUBSET Nat
<1>1. IsFiniteSet(first..last)
  BY FS_Interval
<1>2. Same(p, last, first) \in SUBSET (first..last)
  BY DEF Same
<1>3. IsFiniteSet(Same(p, last, first))
  BY <1>1, <1>2, FS_Subset
<1> QED BY <1>2, <1>3, FS_CardinalityType

-----------------------------------------------------------------------------
(* A game is drawn exactly when its position has occurred four times.      *)

(* No two moves in a row, one of each side, lead back to where they began: *)
(* the piece that the first one moved or dropped is still there.           *)
NothingIsMovedBack == \A m, e \in MoveGraph : e.from = m.to => e.to # m.from

DrawInv ==
  /\ TableInv
  /\ DrawnAtTheFourth
  /\ \A k \in 0..Plies - 1 : Cardinality(Occurrences(k)) < 4

(* Making a move adds one occurrence to the earlier ones.                  *)
LEMMA OneMoreOccurrence ==
  ASSUME WholeGame, NothingIsMovedBack, NEW m \in MoveGraph, PseudoLegal(m),
         cookies' = Append(cookies, m)
  PROVE  /\ Plies' = Plies + 1
         /\ Cardinality(Occurrences(Plies)') = Cardinality(Earlier(m)) + 1
         /\ Occurrences(Plies)' = Earlier(m) \cup {Plies + 1}
         /\ \A k \in 0..Plies : Occurrences(k)' = Occurrences(k)
<1>1. /\ Plies \in Nat /\ cookies \in Seq(MoveGraph) /\ Plies' = Plies + 1
      /\ \A k \in 0..Plies : After(k)' = After(k)
      /\ cookies'[Plies + 1] = m
  BY PastIsHistory, CookiesGrown
<1>2. m.from = After(Plies)
  BY DEF PseudoLegal, WholeGame, TableInv, FollowInv, BoardFollowsTheGame
<1>0. PICK n : n = Plies + 1
  OBVIOUS
<1>3. After(n)' = m.to /\ n \in Nat
  BY <1>0, <1>1 DEF After
<1>4. ASSUME NEW k \in 0..Plies PROVE Occurrences(k)' = Occurrences(k)
  <2>1. \A j \in 0..k : After(j)' = After(j)
    BY <1>1
  <2> QED BY <1>1, <2>1 DEF Occurrences
<1>5. Plies >= 1 => After(Plies - 1) # m.to
  <2>1. ASSUME Plies >= 1 PROVE After(Plies - 1) # m.to
    <3>1. Plies \in 1..Plies /\ cookies[Plies] \in MoveGraph
      BY <1>1, <2>1, ElementOfSeq DEF Plies
    <3>2. cookies[Plies].from = After(Plies - 1)
      BY <3>1 DEF WholeGame, TableInv, FollowInv, BoardFollowsTheGame
    <3>3. cookies[Plies].to = After(Plies)
      BY <1>1, <2>1 DEF After
    <3> QED BY <1>2, <3>1, <3>2, <3>3 DEF NothingIsMovedBack
  <2> QED BY <2>1
<1>6. Occurrences(n)' = {j \in 0..n : (n - j) % 2 = 0 /\ After(j)' = m.to}
  BY <1>3 DEF Occurrences
<1>7. \A j \in 0..n : (n - j) % 2 = 0 <=> (j = n \/ (j = Plies - 1) \/ (j \in 0..Plies - 3 /\ (Plies - 3 - j) % 2 = 0))
  <2>1. ASSUME NEW j \in 0..n
        PROVE  (n - j) % 2 = 0 <=> (j = n \/ (j = Plies - 1) \/ (j \in 0..Plies - 3 /\ (Plies - 3 - j) % 2 = 0))
    BY <1>0, <1>1
  <2> QED BY <2>1
<1>8. Occurrences(n)' = Earlier(m) \cup {n}
  <2>1. ASSUME NEW j \in 0..n
        PROVE  (n - j) % 2 = 0 /\ After(j)' = m.to
                 <=> j = n \/ (j \in 0..Plies - 3 /\ (Plies - 3 - j) % 2 = 0 /\ After(j) = m.to)
    <3>1. CASE j = n
      BY <1>0, <1>1, <1>3, <3>1
    <3>2. CASE j = Plies - 1
      BY <1>0, <1>1, <1>5, <3>2
    <3>3. CASE j # n /\ j # Plies - 1
      <4>1. (n - j) % 2 = 0 <=> (j \in 0..Plies - 3 /\ (Plies - 3 - j) % 2 = 0)
        BY <1>7, <3>3
      <4>2. j \in 0..Plies
        BY <1>0, <1>1, <3>3
      <4> QED BY <1>0, <1>1, <3>3, <4>1, <4>2
    <3> QED BY <3>1, <3>2, <3>3
  <2>2. \A j \in 0..Plies - 3 : j \in 0..n
    BY <1>0, <1>1
  <2>3. n \in 0..n
    BY <1>3
  <2> QED BY <1>6, <2>1, <2>2, <2>3 DEF Earlier, Same
<1>9. IsFiniteSet(Earlier(m)) /\ n \notin Earlier(m)
  <2>1. Plies - 3 \in Int /\ n \notin 0..Plies - 3
    BY <1>0, <1>1
  <2>2. IsFiniteSet(Earlier(m))
    BY <2>1, SameIsFinite DEF Earlier
  <2> QED BY <2>1, <2>2 DEF Earlier, Same
<1>10. Cardinality(Earlier(m) \cup {n}) = Cardinality(Earlier(m)) + 1
  BY <1>9, FS_AddElement
<1>11. Occurrences(Plies)' = Occurrences(n)'
  BY <1>0, <1>1 DEF Occurrences
<1> QED BY <1>0, <1>1, <1>4, <1>8, <1>10, <1>11

(* A game starts with one occurrence of its position.                      *)
LEMMA InitDraw == Init => DrawInv
<1> SUFFICES ASSUME Init PROVE DrawInv
  OBVIOUS
<1>1. Plies = 0
  BY EmptySeq DEF Init, Plies
<1>2. Occurrences(Plies) = {0}
  <2>1. 0..0 = {0}
    OBVIOUS
  <2> QED BY <1>1, <2>1 DEF Occurrences
<1>3. Cardinality(Occurrences(Plies)) = 1
  BY <1>2, FS_Singleton
<1>4. "drawn" \notin root.status
  BY DEF Init
<1> QED BY <1>1, <1>3, <1>4, InitTable DEF DrawInv, DrawnAtTheFourth

(* A move is a draw when it makes the fourth occurrence.                   *)
LEMMA MadeDraw ==
  ASSUME DrawInv, TableInv', MaxPlies <= RepLimit, NothingIsMovedBack,
         NEW m \in MoveGraph, MakesMove(m)
  PROVE  DrawInv'
<1>0. WholeGame /\ PseudoLegal(m) /\ root.status = {} /\ cookies' = Append(cookies, m)
      /\ Verdict(root, m, RepetitionNth) # "perpetual" /\ root \in Root
  BY PastIsHistory DEF DrawInv, WholeGame, MakesMove
<1>1. PICK pv \in Seq(MoveGraph) : root' = Made([root EXCEPT !.pv = pv], m)
  BY DEF MakesMove
<1>2. PICK s : s = [root EXCEPT !.pv = pv]
  OBVIOUS
<1>3. Verdict(s, m, RepetitionNth) = Verdict(root, m, RepetitionNth)
  BY <1>0, <1>2, LineIsIrrelevant
<1>4. s.status = {}
  BY <1>0, <1>2 DEF Root
<1>5. "drawn" \in root'.status <=> Verdict(root, m, RepetitionNth) = "four_fold"
  BY <1>1, <1>2, <1>3, <1>4 DEF Made
<1>6. Cardinality(Earlier(m)) \in Nat /\ Plies \in Nat
  <2>1. Plies \in Nat /\ Plies - 3 \in Int
    BY <1>0, PastIsHistory
  <2> QED BY <2>1, SameIsFinite DEF Earlier
<1>7. Verdict(root, m, RepetitionNth) = "four_fold" <=> Cardinality(Earlier(m)) >= 3
  <2>1. PICK c : c = ChecksWith(root, m)
    OBVIOUS
  <2>2. Verdict(root, m, 3) = Decision(m, c, 3, Plies + 1)
    BY <1>0, <2>1, VerdictIs
  <2>3. Decision(m, c, 3, Plies + 1) # "perpetual"
    BY <1>0, <2>2 DEF RepetitionNth
  <2>4. Decision(m, c, 3, Plies + 1) = "four_fold" <=> ~(Cardinality(Earlier(m)) < 3)
    BY <2>3 DEF Decision
  <2> QED BY <1>6, <2>2, <2>4 DEF RepetitionNth
<1>8. /\ Plies' = Plies + 1
      /\ Cardinality(Occurrences(Plies)') = Cardinality(Earlier(m)) + 1
      /\ \A k \in 0..Plies : Occurrences(k)' = Occurrences(k)
  BY <1>0, OneMoreOccurrence
<1>9. \A k \in 0..Plies' - 1 : Cardinality(Occurrences(k)') < 4
  <2> TAKE k \in 0..Plies' - 1
  <2>1. CASE k = Plies
    <3>1. "drawn" \notin root.status
      BY <1>0
    <3>2. ~(Cardinality(Occurrences(Plies)) >= 4)
      BY <3>1 DEF DrawInv, DrawnAtTheFourth
    <3>3. Occurrences(k)' = Occurrences(Plies)
      BY <1>6, <1>8, <2>1
    <3>4. Cardinality(Occurrences(Plies)) \in Nat
      <4>1. IsFiniteSet(0..Plies)
        BY <1>6, FS_Interval
      <4>2. Occurrences(Plies) \in SUBSET (0..Plies)
        BY DEF Occurrences
      <4> QED BY <4>1, <4>2, FS_Subset, FS_CardinalityType
    <3> QED BY <3>2, <3>3, <3>4
  <2>2. CASE k # Plies
    <3>1. k \in 0..Plies - 1 /\ k \in 0..Plies
      BY <1>6, <1>8, <2>2
    <3> QED BY <1>8, <3>1 DEF DrawInv
  <2> QED BY <2>1, <2>2
<1>10. "drawn" \in root'.status <=> Cardinality(Occurrences(Plies)') >= 4
  <2>1. Cardinality(Occurrences(Plies)') >= 4 <=> Cardinality(Earlier(m)) >= 3
    BY <1>6, <1>8
  <2> QED BY <1>5, <1>7, <2>1
<1>11. DrawnAtTheFourth'
  BY <1>10 DEF DrawnAtTheFourth
<1>12. (\A k \in 0..Plies - 1 : Cardinality(Occurrences(k)) < 4)'
  BY <1>9
<1> QED BY <1>11, <1>12 DEF DrawInv

(* No earlier position of the game had occurred four times.                *)
LEMMA UndoneDraw ==
  ASSUME DrawInv, TableInv', Undo
  PROVE  DrawInv'
<1>1. /\ root.status = {} /\ Plies \in Nat /\ Plies >= 2
      /\ cookies \in Seq(MoveGraph) /\ root \in Root
      /\ cookies' = SubSeq(cookies, 1, Plies - 2)
      /\ root' = Undone(root, cookies[Plies], cookies[Plies - 1])
  BY LenProperties DEF Undo, DrawInv, TableInv, FollowInv, RootTypeOK, Plies
<1>2. Plies' = Plies - 2 /\ \A k \in 1..Plies - 2 : cookies'[k] = cookies[k]
  BY <1>1, CookiesTaken DEF Plies
<1>3. root'.status = {}
  BY <1>1 DEF Undone, UnmakeMoveRoot
<1>4. \A k \in 0..Plies - 2 : After(k)' = After(k)
  BY <1>1, <1>2 DEF After
<1>5. ASSUME NEW k \in 0..Plies - 2 PROVE Cardinality(Occurrences(k)') < 4
  <2>1. \A j \in 0..k : After(j)' = After(j)
    BY <1>1, <1>4
  <2>2. Occurrences(k)' = Occurrences(k)
    BY <1>1, <2>1 DEF Occurrences
  <2>3. k \in 0..Plies - 1
    BY <1>1
  <2> QED BY <2>2, <2>3 DEF DrawInv
<1>6. ~(Cardinality(Occurrences(Plies)') >= 4)
  <2>1. PICK n : n = Plies - 2
    OBVIOUS
  <2>2. n \in 0..Plies - 2 /\ Occurrences(Plies)' = Occurrences(n)'
    BY <1>1, <1>2, <2>1 DEF Occurrences
  <2>3. Cardinality(Occurrences(n)') < 4
    BY <1>5, <2>2
  <2>4. Cardinality(Occurrences(n)') \in Nat
    <3>1. IsFiniteSet(0..n) /\ Occurrences(n)' \in SUBSET (0..n)
      BY <1>1, <2>1, FS_Interval DEF Occurrences
    <3> QED BY <3>1, FS_Subset, FS_CardinalityType
  <2> QED BY <2>2, <2>3, <2>4
<1>7. "drawn" \in root'.status <=> Cardinality(Occurrences(Plies)') >= 4
  BY <1>3, <1>6
<1>8. DrawnAtTheFourth'
  BY <1>7 DEF DrawnAtTheFourth
<1>9. \A k \in 0..Plies' - 1 : Cardinality(Occurrences(k)') < 4
  <2>1. \A k \in 0..Plies' - 1 : k \in 0..Plies - 2
    BY <1>1, <1>2
  <2> QED BY <1>5, <2>1
<1>10. (\A k \in 0..Plies - 1 : Cardinality(Occurrences(k)) < 4)'
  BY <1>9
<1> QED BY <1>8, <1>10 DEF DrawInv

(* Every step keeps the count of occurrences and the draw together.        *)
LEMMA NextDraw ==
  ASSUME MaxPlies <= RepLimit, NothingIsMovedBack
  PROVE  DrawInv /\ [Next]_rootVars => DrawInv'
<1> SUFFICES ASSUME DrawInv, [Next]_rootVars PROVE DrawInv'
  OBVIOUS
<1>1. TableInv' /\ RootTypeOK
  BY NextTable DEF DrawInv, TableIsLargeEnough, TableInv, FollowInv
<1>2. ASSUME cookies' = cookies, root'.status = root.status PROVE DrawInv'
  BY <1>1, <1>2 DEF DrawInv, DrawnAtTheFourth, Occurrences, After, Plies
<1>3. ASSUME NEW m \in MoveGraph, MakesMove(m) PROVE DrawInv'
  BY <1>1, <1>3, MadeDraw
<1>4. CASE KeepsGame
  BY <1>2, <1>4 DEF KeepsGame
<1>5. CASE Undo
  BY <1>1, <1>5, UndoneDraw
<1>6. CASE UNCHANGED rootVars
  BY <1>2, <1>6 DEF rootVars
<1> QED BY <1>1, <1>3, <1>4, <1>5, <1>6, HumanMoveCases, ComputerMoveCases DEF Next

(* As long as a game fits into the repetition table it is drawn when its   *)
(* position has occurred four times, and only then, also after plies were  *)
(* taken back (detect_repetition in utility.c counts three earlier ones).  *)
THEOREM GamesAreDrawnAtTheFourth ==
  ASSUME MaxPlies <= RepLimit, NothingIsMovedBack
  PROVE  Spec => []DrawnAtTheFourth
<1>1. DrawInv => DrawnAtTheFourth
  BY DEF DrawInv
<1>2. DrawInv /\ [Next]_rootVars => DrawInv'
  BY NextDraw
<1> QED BY <1>1, <1>2, InitDraw, PTL DEF Spec

-----------------------------------------------------------------------------
(* The last members of a set of plies.                                     *)

(* A bounded set of plies has a last member: the plies up to some member   *)
(* have no gaps, so there are as many as their last one says.              *)
LEMMA LastOf ==
  ASSUME NEW S \in SUBSET Nat, NEW n \in Nat, \A s \in S : s <= n, S # {}
  PROVE  \E g \in S : \A s \in S : s <= g
<1> DEFINE U == {k \in 0..n : \E s \in S : s >= k}
           N == Cardinality(U)
<1>1. S \subseteq U /\ U \in SUBSET (0..n)
  OBVIOUS
<1>2. IsFiniteSet(U) /\ N \in Nat
  <2>1. IsFiniteSet(0..n)
    BY FS_Interval
  <2>2. IsFiniteSet(U)
    BY <1>1, <2>1, FS_Subset
  <2> QED BY <2>2, FS_CardinalityType
<1>3. ASSUME NEW k \in U PROVE k \in 0..N - 1
  <2>1. k \in Nat /\ 0..k \in SUBSET U
    OBVIOUS
  <2> HIDE DEF U
  <2>2. Cardinality(0..k) = k + 1
    BY <2>1, FS_Interval
  <2>3. k + 1 <= N
    BY <1>2, <2>1, <2>2, FS_Subset
  <2> HIDE DEF N
  <2> QED BY <1>2, <2>1, <2>3
<1>4. U = 0..N - 1 /\ N - 1 \in U
  <2> HIDE DEF U
  <2>1. U # {}
    BY <1>1
  <2>2. N - 1 \in Nat
    <3> HIDE DEF N
    <3> QED BY <1>2, <1>3, <2>1
  <2>3. IsFiniteSet(0..N - 1) /\ Cardinality(0..N - 1) = N
    <3>1. IsFiniteSet(0..N - 1) /\ Cardinality(0..N - 1) = N - 1 - 0 + 1
      BY <2>2, FS_Interval
    <3> QED BY <1>2, <2>2, <3>1
  <2>4. U \in SUBSET (0..N - 1)
    BY <1>3
  <2>5. U = 0..N - 1
    BY <2>3, <2>4, FS_Subset
  <2> HIDE DEF N
  <2> QED BY <2>2, <2>5
<1>5. PICK g \in S : g >= N - 1
  BY <1>4
<1>6. \A s \in S : s <= g
  <2>1. \A s \in S : s \in 0..N - 1
    BY <1>1, <1>3
  <2> HIDE DEF U, N
  <2> QED BY <1>2, <1>5, <2>1
<1> QED BY <1>5, <1>6

(* The last three of at least three.                                       *)
LastThree(S, a, b, c) ==
  /\ a \in S /\ b \in S /\ c \in S /\ a > b /\ b > c
  /\ {i \in S : i >= a} = {a}
  /\ {i \in S : i >= b} = {a, b}
  /\ {i \in S : i >= c} = {a, b, c}

(* One, two or three different members.                                    *)
LEMMA SizesOfLists ==
  ASSUME NEW a, NEW b, NEW c, a # b, b # c, a # c
  PROVE  /\ Cardinality({a}) = 1 /\ Cardinality({a, b}) = 2 /\ Cardinality({a, b, c}) = 3
         /\ IsFiniteSet({a, b}) /\ IsFiniteSet({a, b, c})
<1>1. IsFiniteSet({a}) /\ Cardinality({a}) = 1
  BY FS_Singleton
<1>2. IsFiniteSet({a} \cup {b}) /\ Cardinality({a} \cup {b}) = 1 + 1
  BY <1>1, FS_AddElement
<1>3. {a} \cup {b} = {a, b} /\ {a, b} \cup {c} = {a, b, c}
  OBVIOUS
<1>4. IsFiniteSet({a, b}) /\ Cardinality({a, b}) = 2
  BY <1>2, <1>3
<1>5. IsFiniteSet({a, b} \cup {c}) /\ Cardinality({a, b} \cup {c}) = 2 + 1
  BY <1>4, FS_AddElement
<1> QED BY <1>1, <1>3, <1>4, <1>5

(* A bounded set of at least three has a last three.                       *)
LEMMA LastThreeExist ==
  ASSUME NEW S \in SUBSET Nat, NEW n \in Nat, \A s \in S : s <= n, Cardinality(S) >= 3
  PROVE  \E a, b, c \in S : LastThree(S, a, b, c)
<1>0. Cardinality({}) = 0
  BY FS_EmptySet
<1>1. S # {}
  BY <1>0
<1>N. \A s \in S : s \in Nat
  OBVIOUS
<1>2. PICK a \in S : \A s \in S : s <= a
  BY <1>1, LastOf
<1>3. {i \in S : i >= a} = {a}
  <2>1. \A i \in S : i >= a <=> i = a
    BY <1>N, <1>2
  <2> QED BY <2>1
<1> DEFINE T == {i \in S : i < a}
<1>4. T # {}
  <2>1. ASSUME T = {} PROVE FALSE
    <3>1. \A i \in S : ~(i < a)
      BY <2>1
    <3>2. \A i \in S : i = a
      BY <1>N, <1>2, <3>1
    <3>3. S = {a}
      BY <3>2
    <3>4. Cardinality({a}) = 1
      BY FS_Singleton
    <3> QED BY <3>3, <3>4
  <2> QED BY <2>1
<1>5. PICK b \in T : \A s \in T : s <= b
  <2>1. T \in SUBSET Nat /\ \A s \in T : s <= n
    OBVIOUS
  <2> HIDE DEF T
  <2> QED BY <1>4, <2>1, LastOf
<1>6. {i \in S : i >= b} = {a, b} /\ b \in S /\ a > b
  <2>1. b \in S /\ b < a /\ a \in Nat /\ b \in Nat
    BY <1>N
  <2>2. \A i \in S : i < a => i <= b
    BY <1>5
  <2>3. \A i \in S : i >= b <=> i = a \/ i = b
    BY <1>N, <1>2, <2>1, <2>2
  <2> HIDE DEF T
  <2> QED BY <2>1, <2>3
<1> DEFINE V == {i \in S : i < b}
<1>7. V # {}
  <2>1. ASSUME V = {} PROVE FALSE
    <3>1. \A i \in S : ~(i < b)
      BY <2>1
    <3>2. \A i \in S : i >= b
      BY <1>N, <1>6, <3>1
    <3>3. S = {a, b} /\ a # b
      <4>1. {i \in S : i >= b} = S
        BY <3>2
      <4>2. a > b /\ a \in Nat /\ b \in Nat
        BY <1>N, <1>6
      <4>3. a # b
        BY <4>2
      <4> QED BY <1>6, <4>1, <4>3
    <3>4. IsFiniteSet({a}) /\ Cardinality({a}) = 1
      BY FS_Singleton
    <3>5. {a} \cup {b} = {a, b} /\ b \notin {a}
      BY <3>3
    <3>6. Cardinality({a} \cup {b}) = 1 + 1
      BY <3>4, <3>5, FS_AddElement
    <3> QED BY <3>3, <3>5, <3>6
  <2> QED BY <2>1
<1>8. PICK c \in V : \A s \in V : s <= c
  <2>1. V \in SUBSET Nat /\ \A s \in V : s <= n
    OBVIOUS
  <2> HIDE DEF V
  <2> QED BY <1>7, <2>1, LastOf
<1>9. {i \in S : i >= c} = {a, b, c} /\ c \in S /\ b > c
  <2>1. c \in S /\ c < b /\ a \in Nat /\ b \in Nat /\ c \in Nat
    BY <1>N, <1>6
  <2>2. \A i \in S : i < b => i <= c
    BY <1>8
  <2>3. \A i \in S : i >= b <=> i = a \/ i = b
    BY <1>6
  <2>4. \A i \in S : i >= c <=> i = a \/ i = b \/ i = c
    BY <1>N, <1>6, <2>1, <2>2, <2>3
  <2> HIDE DEF V
  <2> QED BY <1>6, <2>1, <2>4
<1>10. LastThree(S, a, b, c)
  BY <1>3, <1>6, <1>9 DEF LastThree
<1> QED BY <1>6, <1>9, <1>10

(* What counts as the second or third last.                                *)
LEMMA NthLastOfThree ==
  ASSUME NEW S \in SUBSET Nat, IsFiniteSet(S),
         NEW a \in S, NEW b \in S, NEW c \in S, LastThree(S, a, b, c)
  PROVE  NthLast(S, 2) = b /\ NthLast(S, 3) = c
<1>1. /\ a > b /\ b > c /\ a > c /\ a # b /\ b # c /\ a # c
      /\ {i \in S : i >= a} = {a} /\ {i \in S : i >= b} = {a, b}
      /\ {i \in S : i >= c} = {a, b, c}
  BY DEF LastThree
<1>2. Cardinality({a}) = 1 /\ Cardinality({a, b}) = 2 /\ Cardinality({a, b, c}) = 3
  BY <1>1, SizesOfLists
<1>3. ASSUME NEW i \in S, Cardinality({j \in S : j >= i}) \in {2, 3}
      PROVE  (i = b /\ Cardinality({j \in S : j >= i}) = 2)
             \/ (i = c /\ Cardinality({j \in S : j >= i}) = 3)
  <2>1. CASE i >= c
    <3>1. i \in {a, b, c}
      BY <1>1, <2>1
    <3> QED BY <1>1, <1>2, <1>3, <3>1
  <2>2. CASE ~(i >= c)
    <3> DEFINE J == {j \in S : j >= i}
    <3>1. {a, b, c} \in SUBSET J /\ i \in J /\ i \notin {a, b, c}
      BY <1>1, <2>2
    <3>2. IsFiniteSet({a, b, c} \cup {i}) /\ Cardinality({a, b, c} \cup {i}) = 3 + 1
      <4>1. IsFiniteSet({a, b, c})
        BY <1>1, SizesOfLists
      <4> QED BY <1>2, <3>1, <4>1, FS_AddElement
    <3>3. J \in SUBSET S /\ {a, b, c} \cup {i} \in SUBSET J
      BY <3>1
    <3> HIDE DEF J
    <3>4. IsFiniteSet(J) /\ Cardinality(J) \in Nat
      BY <3>3, FS_Subset, FS_CardinalityType
    <3>5. Cardinality({a, b, c} \cup {i}) <= Cardinality(J)
      BY <3>3, <3>4, FS_Subset
    <3> QED BY <1>3, <3>2, <3>4, <3>5 DEF J
  <2> QED BY <2>1, <2>2
<1>4. \A i \in S : Cardinality({j \in S : j >= i}) = 2 <=> i = b
  BY <1>1, <1>2, <1>3
<1>5. \A i \in S : Cardinality({j \in S : j >= i}) = 3 <=> i = c
  BY <1>1, <1>2, <1>3
<1> QED BY <1>4, <1>5 DEF NthLast


-----------------------------------------------------------------------------
(* make_move_root accepts what make_root_move_list keeps.                  *)

(* A root move that make_move_root would refuse as a perpetual check was   *)
(* already dropped: make_root_move_list counts one occurrence fewer.       *)
LEMMA KeptMovesAreAccepted ==
  ASSUME WholeGame, NEW m \in RootMoveList(root)
  PROVE  Verdict(root, m, RepetitionNth) # "perpetual"
<1> SUFFICES ASSUME Verdict(root, m, RepetitionNth) = "perpetual" PROVE FALSE
  OBVIOUS
<1>1. m \in MoveGraph /\ PseudoLegal(m)
  BY DEF RootMoveList, PseudoLegal
<1>2. PICK c, p, n, E : c = ChecksWith(root, m) /\ p = Plies /\ n = Plies + 1 /\ E = Earlier(m)
  OBVIOUS
<1>3. p \in Nat /\ n \in Nat /\ n = p + 1 /\ root \in Root
  BY <1>2, PastIsHistory
<1>4. c \in Nat
  <2>1. c \in 0..255
    BY <1>1, <1>2, <1>3, ChecksWithType
  <2> QED BY <2>1
<1>5. Decision(m, c, 3, n) = "perpetual"
  BY <1>1, <1>2, VerdictIs DEF RepetitionNth
<1>6. Decision(m, c, 2, n) = "perpetual" => ~(c >= 4)
  <2>1. Verdict(root, m, 2) = Decision(m, c, 2, n)
    BY <1>1, <1>2, VerdictIs
  <2>2. ~(ChecksWith(root, m) >= 4 /\ Verdict(root, m, 2) = "perpetual")
    BY DEF RootMoveList, RootNth
  <2> QED BY <1>2, <2>1, <2>2
<1>7. CASE Evades(m, c, 3)
  <2>1. c >= 6
    BY <1>7 DEF Evades
  <2>2. PICK e \in GenEvasion(Flip(m.by), m.to) :
          Cardinality(Same(e.to, Plies - 2, FirstChecked(Plies + 1, c))) >= 3
    BY <1>7 DEF Evades
  <2>3. Cardinality(Same(e.to, Plies - 2, FirstChecked(Plies + 1, c))) \in Nat
    <3>1. FirstChecked(Plies + 1, c) \in Nat
      BY <1>2, <1>3, <1>4, FirstCheckedIs
    <3>2. Plies - 2 \in Int
      BY <1>2, <1>3
    <3> QED BY <3>1, <3>2, SameIsFinite
  <2>4. c >= 4 /\ Cardinality(Same(e.to, Plies - 2, FirstChecked(Plies + 1, c))) >= 2
    BY <1>4, <2>1, <2>2, <2>3
  <2>5. Evades(m, c, 2)
    BY <2>4 DEF Evades
  <2> QED BY <1>6, <2>4, <2>5 DEF Decision
<1>8. CASE ~Evades(m, c, 3)
  <2>1. ~(Cardinality(Earlier(m)) < 3)
    <3>1. ASSUME Cardinality(Earlier(m)) < 3 PROVE FALSE
      <4>1. Decision(m, c, 3, n) = "no_rep"
        BY <1>8, <3>1 DEF Decision
      <4> QED BY <1>5, <4>1
    <3> QED BY <3>1
  <2>2. IsFiniteSet(E) /\ Cardinality(E) \in Nat /\ E \in SUBSET Nat
    <3>1. Plies - 3 \in Int
      BY <1>2, <1>3
    <3> QED BY <1>2, <3>1, SameIsFinite DEF Earlier
  <2>3. \A i \in E : i \in 0..(p - 3) /\ (p - 3 - i) % 2 = 0 /\ i <= p
    BY <1>2, <1>3 DEF Earlier, Same
  <2>4. PICK a \in E, b \in E, d \in E : LastThree(E, a, b, d)
    <3>1. Cardinality(E) >= 3
      BY <1>2, <2>1, <2>2
    <3>2. \A i \in E : i <= p
      BY <2>3
    <3> QED BY <1>3, <2>2, <3>1, <3>2, LastThreeExist
  <2>5. NthLast(Earlier(m), 2) = b /\ NthLast(Earlier(m), 3) = d
    BY <1>2, <2>2, <2>4, NthLastOfThree
  <2>6. a > b /\ b > d /\ a \in Nat /\ b \in Nat /\ d \in Nat
    BY <2>2, <2>4 DEF LastThree
  <2>7. d <= p - 7
    <3>1. a <= p - 3 /\ (p - 3 - a) % 2 = 0 /\ (p - 3 - b) % 2 = 0 /\ (p - 3 - d) % 2 = 0
      BY <1>3, <2>3, <2>6
    <3>2. b <= a - 2 /\ d <= b - 2
      BY <1>3, <2>6, <3>1
    <3> QED BY <1>3, <2>6, <3>1, <3>2
  <2>8. (c - 1) * 2 >= n - d
    <3>1. ASSUME ~((c - 1) * 2 >= n - d) PROVE FALSE
      <4>1. Decision(m, c, 3, n) = "four_fold"
        BY <1>3, <1>4, <1>8, <2>1, <2>5, <2>6, <3>1 DEF Decision
      <4> QED BY <1>5, <4>1
    <3> QED BY <3>1
  <2>9. c >= 4 /\ (c - 1) * 2 >= n - b
    BY <1>3, <1>4, <2>6, <2>7, <2>8
  <2>10. ~(Cardinality(Earlier(m)) < 2)
    BY <1>2, <2>1, <2>2
  <2>11. Decision(m, c, 2, n) = "perpetual"
    BY <1>3, <1>4, <2>5, <2>6, <2>9, <2>10 DEF Decision
  <2> QED BY <1>6, <2>9, <2>11
<1> QED BY <1>7, <1>8

(* computerMove fails only for want of a root move.                        *)
NoMovesMeansNone == outcome.verdict = "no moves" => RootMoveList(root) = {}

(* As long as a game fits into the repetition table, com_turn_start fails, *)
(* and the CHECK2_GE of computerMove aborts the program, only when every   *)
(* move of the side to move hangs its king or continues a perpetual check; *)
(* never because make_move_root refuses the move the search chose.         *)
THEOREM SearchFailsOnlyWithoutAMove ==
  ASSUME MaxPlies <= RepLimit
  PROVE  Spec => []NoMovesMeansNone
<1>1. Init => NoMovesMeansNone
  BY DEF Init, NoMovesMeansNone
<1>2. TableInv /\ [Next]_rootVars => TableInv'
  BY NextTable DEF TableIsLargeEnough
<1>3. TableInv /\ NoMovesMeansNone /\ [Next]_rootVars => NoMovesMeansNone'
  <2> SUFFICES ASSUME TableInv, NoMovesMeansNone, [Next]_rootVars PROVE NoMovesMeansNone'
    OBVIOUS
  <2>1. WholeGame /\ RootTypeOK
    BY DEF WholeGame, TableInv, FollowInv
  <2>2. ASSUME NEW m \in MoveGraph, MakesMove(m) PROVE NoMovesMeansNone'
    BY <2>2 DEF MakesMove, NoMovesMeansNone
  <2>3. ASSUME NEW m \in MoveGraph, SaysNoMove(m) PROVE NoMovesMeansNone'
    <3>1. CASE outcome'.verdict = "hang"
      BY <3>1 DEF NoMovesMeansNone
    <3>2. CASE outcome' = [verdict |-> "perpetual", move |-> m]
      BY <3>2 DEF NoMovesMeansNone
    <3> QED BY <2>1, <2>3, <3>1, <3>2, KeptMovesAreAccepted DEF SaysNoMove
  <2>4. CASE KeepsGame /\ RootMoveList(root) = {}
    <3>1. \A m : Verdict(root, m, RootNth)' = Verdict(root, m, RootNth)
      BY <2>4 DEF KeepsGame, Verdict, ChecksWith
    <3>2. \A m : ChecksWith(root, m)' = ChecksWith(root, m)
      BY <2>4 DEF KeepsGame, ChecksWith
    <3>3. RootMoveList(root)' = RootMoveList(root)
      BY <2>4, <3>1, <3>2 DEF KeepsGame, RootMoveList
    <3> QED BY <2>4, <3>3 DEF NoMovesMeansNone
  <2>5. CASE Undo
    BY <2>5 DEF Undo, NoMovesMeansNone
  <2>6. CASE UNCHANGED rootVars
    BY <2>6 DEF rootVars, NoMovesMeansNone
  <2> QED BY <2>1, <2>2, <2>3, <2>4, <2>5, <2>6, HumanMoveCases, ComputerMoveCases DEF Next
<1> QED BY <1>1, <1>2, <1>3, InitTable, PTL DEF Spec

-----------------------------------------------------------------------------
(* A move is refused as perpetual check only if it is one.                 *)

(* Ply i gave check.                                                       *)
Checked(i) == InCheck(Flip(Mover(i)), After(i))

(* nsuc_check counts, for each side, plies in a row that gave check.       *)
CheckRows ==
  \A i \in 0..Plies :
    /\ (Plies - i) % 2 = 0 /\ i > Plies - 2 * root.check1 => Checked(i)
    /\ (Plies - i) % 2 = 1 /\ i > Plies - 2 * root.check0 => Checked(i)

(* What RepeatsByChecks says of the move m, in the terms of this section.  *)
SameAs(t) == {j \in 0..Plies : (Plies + t[2] - j) % 2 = 0 /\ After(j) = t[1]}

Repeated(m, n) ==
  \E t \in {<<m.to, 1>>} \cup {<<e.to, 2>> : e \in GenEvasion(Flip(m.by), m.to)} :
    /\ InCheck(Flip(m.by), m.to)
    /\ Cardinality(SameAs(t)) >= n
    /\ \E j \in SameAs(t) :
         /\ Cardinality({i \in SameAs(t) : i >= j}) = n
         /\ OnlyChecks(m.by, j, Plies)

CheckInv ==
  /\ TableInv
  /\ undone = 0
  /\ CheckRows
  /\ outcome.verdict = "perpetual" => Repeated(outcome.move, 3)

LEMMA RepeatedIs == \A m, n : RepeatsByChecks(m, n) <=> Repeated(m, n)
BY DEF RepeatsByChecks, Repeated, SameAs

(* Of a set with three members from f on, the third last is from f on.     *)
LEMMA ThirdLastIsLater ==
  ASSUME NEW S \in SUBSET Nat, NEW n \in Nat, \A s \in S : s <= n, IsFiniteSet(S),
         NEW R \in SUBSET S, NEW f \in Int, \A r \in R : r >= f, Cardinality(R) >= 3
  PROVE  /\ Cardinality(S) >= 3
         /\ \E j \in S : j >= f /\ Cardinality({i \in S : i >= j}) = 3
<1>1. /\ IsFiniteSet(R) /\ Cardinality(R) \in Nat /\ Cardinality(S) \in Nat
      /\ Cardinality(R) <= Cardinality(S)
  <2>1. IsFiniteSet(R) /\ Cardinality(R) <= Cardinality(S)
    BY FS_Subset
  <2> QED BY <2>1, FS_CardinalityType
<1>2. Cardinality(S) >= 3
  BY <1>1
<1>3. PICK a \in S, b \in S, c \in S : LastThree(S, a, b, c)
  BY <1>2, LastThreeExist
<1>4. a > b /\ b > c /\ a \in Nat /\ b \in Nat /\ c \in Nat
  BY <1>3 DEF LastThree
<1>5. a # b /\ b # c /\ a # c
  BY <1>4
<1>6. Cardinality({a, b}) = 2 /\ Cardinality({a, b, c}) = 3 /\ IsFiniteSet({a, b})
  BY <1>5, SizesOfLists
<1>7. {i \in S : i >= c} = {a, b, c} /\ {i \in S : i >= b} = {a, b}
  BY <1>3 DEF LastThree
<1>8. c >= f
  <2>1. ASSUME ~(c >= f) PROVE FALSE
    <3>1. \A r \in R : r \in Nat /\ r > c
      BY <1>4, <2>1
    <3>2. \A r \in R : r \in {a, b, c} /\ r # c
      BY <1>4, <1>7, <3>1
    <3>3. R \in SUBSET {a, b}
      BY <3>2
    <3>4. Cardinality(R) <= Cardinality({a, b})
      BY <1>6, <3>3, FS_Subset
    <3> QED BY <1>1, <1>6, <3>4
  <2> QED BY <2>1
<1> QED BY <1>2, <1>6, <1>7, <1>8

(* The plies of the mover since j gave check if so many as m makes did.    *)
LEMMA RowOfChecks ==
  ASSUME WholeGame, CheckRows, NEW m \in MoveGraph, PseudoLegal(m),
         ChecksWith(root, m) >= 1, NEW j \in 0..Plies,
         j >= Plies + 2 - 2 * ChecksWith(root, m)
  PROVE  OnlyChecks(m.by, j, Plies) /\ InCheck(Flip(m.by), m.to)
<1>1. Plies \in Nat /\ root \in Root
  BY PastIsHistory
<1>2. root.check0 \in 0..255
  BY <1>1 DEF Root
<1>3. InCheck(Flip(m.by), m.to) /\ ChecksWith(root, m) = (root.check0 + 1) % 256
  BY DEF ChecksWith
<1>4. ChecksWith(root, m) = root.check0 + 1
  <2>1. (root.check0 + 1) % 256 = IF root.check0 = 255 THEN 0 ELSE root.check0 + 1
    BY <1>2
  <2> QED BY <1>2, <1>3, <2>1
<1>5. m.by = Mover(Plies + 1)
  BY DEF PseudoLegal, WholeGame, TableInv, FollowInv, BoardFollowsTheGame
<1>6. ASSUME NEW i \in j + 1 .. Plies, Mover(i) = m.by
      PROVE  InCheck(Flip(m.by), After(i))
  <2>1. i \in 0..Plies /\ i \in Nat
    BY <1>1
  <2>2. (Plies - i) % 2 = 1
    <3>1. Mover(i) = Mover(Plies + 1)
      BY <1>5, <1>6
    <3>2. StartTurn # Flip(StartTurn)
      BY RootAssumption DEF Sides, Flip
    <3>3. i % 2 = 1 <=> (Plies + 1) % 2 = 1
      BY <3>1, <3>2 DEF Mover
    <3> QED BY <1>1, <2>1, <3>3
  <2>3. i > Plies - 2 * root.check0
    BY <1>1, <1>2, <1>4, <2>1
  <2>4. Checked(i)
    BY <2>1, <2>2, <2>3 DEF CheckRows
  <2> QED BY <1>6, <2>4 DEF Checked
<1> QED BY <1>3, <1>6 DEF OnlyChecks

(* The last two of a set with two members from f on are from f on.         *)
LEMMA SecondLastIsLater ==
  ASSUME NEW S \in SUBSET Nat, NEW n \in Nat, \A s \in S : s <= n, IsFiniteSet(S),
         NEW R \in SUBSET S, NEW f \in Int, \A r \in R : r >= f, Cardinality(R) >= 2
  PROVE  /\ Cardinality(S) >= 2
         /\ \E j \in S : j >= f /\ Cardinality({i \in S : i >= j}) = 2
<1>1. /\ Cardinality(R) \in Nat /\ Cardinality(S) \in Nat
      /\ Cardinality(R) <= Cardinality(S)
  <2>1. IsFiniteSet(R) /\ Cardinality(R) <= Cardinality(S)
    BY FS_Subset
  <2> QED BY <2>1, FS_CardinalityType
<1>2. Cardinality(S) >= 2
  BY <1>1
<1>3. \A s \in S : s \in Nat
  OBVIOUS
<1>4. \A x : IsFiniteSet({x}) /\ Cardinality({x}) = 1
  BY FS_Singleton
<1>5. PICK a \in S : \A s \in S : s <= a
  <2>1. S # {}
    BY <1>2, FS_EmptySet
  <2> QED BY <2>1, LastOf
<1> DEFINE T == {i \in S : i < a}
<1>6. T # {}
  <2>1. ASSUME T = {} PROVE FALSE
    <3>1. \A i \in S : i = a
      BY <1>3, <1>5, <2>1
    <3>2. S = {a}
      BY <3>1
    <3>3. Cardinality({a}) = 1
      BY <1>4
    <3> QED BY <1>2, <3>2, <3>3
  <2> QED BY <2>1
<1>7. PICK b \in T : \A s \in T : s <= b
  <2>1. T \in SUBSET Nat /\ \A s \in T : s <= n
    OBVIOUS
  <2> HIDE DEF T
  <2> QED BY <1>6, <2>1, LastOf
<1>8. b \in S /\ b < a /\ a \in Nat /\ b \in Nat /\ a # b
  BY <1>3
<1>9. \A i \in S : i >= b <=> i = a \/ i = b
  BY <1>3, <1>5, <1>7, <1>8
<1> HIDE DEF T
<1>10. {i \in S : i >= b} = {a} \cup {b}
  BY <1>8, <1>9
<1>11. Cardinality({a} \cup {b}) = 2
  <2>1. IsFiniteSet({a}) /\ Cardinality({a}) = 1 /\ b \notin {a}
    BY <1>4, <1>8
  <2>2. Cardinality({a} \cup {b}) = Cardinality({a}) + 1
    BY <2>1, FS_AddElement
  <2> QED BY <2>1, <2>2
<1>12. b >= f
  <2>1. ASSUME ~(b >= f) PROVE FALSE
    <3>1. \A r \in R : r \in S /\ r \in Nat /\ r > b
      BY <1>3, <1>8, <2>1
    <3>2. \A r \in R : r >= b /\ r # b
      BY <1>8, <3>1
    <3>3. R \in SUBSET {a}
      BY <1>9, <3>1, <3>2
    <3>4. Cardinality(R) <= Cardinality({a})
      BY <1>4, <3>3, FS_Subset
    <3> QED BY <1>1, <1>4, <3>4
  <2> QED BY <2>1
<1> QED BY <1>2, <1>8, <1>10, <1>11, <1>12

(* The same of two or three members.                                       *)
LEMMA NthLastIsLater ==
  ASSUME NEW S \in SUBSET Nat, NEW n \in Nat, \A s \in S : s <= n, IsFiniteSet(S),
         NEW R \in SUBSET S, NEW f \in Int, \A r \in R : r >= f,
         NEW nth \in {2, 3}, Cardinality(R) >= nth
  PROVE  /\ Cardinality(S) >= nth
         /\ \E j \in S : j >= f /\ Cardinality({i \in S : i >= j}) = nth
<1>1. CASE nth = 2
  BY <1>1, SecondLastIsLater
<1>2. CASE nth = 3
  BY <1>2, ThirdLastIsLater
<1> QED BY <1>1, <1>2

(* If there are that many, one of them is the nth last.                    *)
LEMMA NthLastIsOne ==
  ASSUME NEW S \in SUBSET Nat, NEW n \in Nat, \A s \in S : s <= n, IsFiniteSet(S),
         NEW nth \in {2, 3}, Cardinality(S) >= nth
  PROVE  /\ NthLast(S, nth) \in S
         /\ Cardinality({i \in S : i >= NthLast(S, nth)}) = nth
<1>1. PICK f \in Int : f = 0
  OBVIOUS
<1>2. \A s \in S : s >= f
  BY <1>1
<1>3. S \in SUBSET S
  OBVIOUS
<1>4. \E j \in S : Cardinality({i \in S : i >= j}) = nth
  <2>1. \E j \in S : j >= f /\ Cardinality({i \in S : i >= j}) = nth
    <3>1. CASE nth = 2
      <4>1. Cardinality(S) >= 2
        BY <3>1
      <4>2. \E j \in S : j >= f /\ Cardinality({i \in S : i >= j}) = 2
        BY <1>2, <1>3, <4>1, SecondLastIsLater
      <4> QED BY <3>1, <4>2
    <3>2. CASE nth = 3
      <4>1. Cardinality(S) >= 3
        BY <3>2
      <4>2. \E j \in S : j >= f /\ Cardinality({i \in S : i >= j}) = 3
        BY <1>2, <1>3, <4>1, ThirdLastIsLater
      <4> QED BY <3>2, <4>2
    <3> QED BY <3>1, <3>2
  <2> QED BY <2>1
<1> QED BY <1>4 DEF NthLast

(* detect_repetition says perpetual check of m only if it is one: make_move_ *)
(* root asks with nth = 3, make_root_move_list with nth = 2.               *)
LEMMA PerpetualRightly ==
  ASSUME WholeGame, CheckRows, NEW m \in MoveGraph, PseudoLegal(m), NEW nth \in {2, 3},
         Verdict(root, m, nth) = "perpetual"
  PROVE  Repeated(m, nth)
<1>1. PICK c : c = ChecksWith(root, m)
  OBVIOUS
<1>2. Decision(m, c, nth, Plies + 1) = "perpetual" /\ nth \in Nat
  BY <1>1, VerdictIs
<1>3. Plies \in Nat /\ root \in Root /\ Plies - 2 \in Int /\ Plies - 3 \in Int
  BY PastIsHistory
<1>4. c \in Nat
  <2>1. c \in 0..255
    BY <1>1, <1>3, ChecksWithType
  <2> QED BY <2>1
<1>5. ASSUME NEW t \in {<<m.to, 1>>} \cup {<<e.to, 2>> : e \in GenEvasion(Flip(m.by), m.to)},
             NEW R \in SUBSET SameAs(t), NEW f \in Int, c >= 1, f >= Plies + 2 - 2 * c,
             \A r \in R : r >= f, Cardinality(R) >= nth
      PROVE  Repeated(m, nth)
  <2>1. /\ SameAs(t) \in SUBSET (0..Plies) /\ SameAs(t) \in SUBSET Nat
        /\ \A s \in SameAs(t) : s <= Plies
    BY <1>3 DEF SameAs
  <2>2. IsFiniteSet(SameAs(t))
    <3>0. 0 \in Int /\ Plies \in Int
      BY <1>3
    <3>1. IsFiniteSet(0..Plies)
      BY <3>0, FS_Interval
    <3> QED BY <2>1, <3>1, FS_Subset
  <2>3. /\ Cardinality(SameAs(t)) >= nth
        /\ \E j \in SameAs(t) : j >= f /\ Cardinality({i \in SameAs(t) : i >= j}) = nth
    BY <1>3, <1>5, <2>1, <2>2, NthLastIsLater
  <2>4. PICK j \in SameAs(t) : j >= f /\ Cardinality({i \in SameAs(t) : i >= j}) = nth
    BY <2>3
  <2>5. j \in 0..Plies /\ j >= Plies + 2 - 2 * c
    BY <1>3, <1>4, <1>5, <2>1, <2>4
  <2>6. OnlyChecks(m.by, j, Plies) /\ InCheck(Flip(m.by), m.to)
    BY <1>1, <1>5, <2>5, RowOfChecks
  <2> QED BY <2>3, <2>4, <2>6 DEF Repeated
<1>6. CASE Evades(m, c, nth)
  <2>1. PICK e \in GenEvasion(Flip(m.by), m.to) :
          Cardinality(Same(e.to, Plies - 2, FirstChecked(Plies + 1, c))) >= nth
    <3>1. \E e \in GenEvasion(Flip(m.by), m.to) :
            Cardinality(Same(e.to, Plies - 2, FirstChecked(Plies + 1, c))) >= nth
      BY <1>6, Zenon DEF Evades
    <3> QED BY <3>1
  <2>2. c >= 4
    <3>1. c >= nth * 2
      BY <1>6, Zenon DEF Evades
    <3> QED BY <1>4, <3>1
  <2> DEFINE t == <<e.to, 2>>
             f == FirstChecked(Plies + 1, c)
             R == Same(e.to, Plies - 2, f)
  <2>3. f \in Nat /\ f >= Plies + 2 - 2 * c
    <3>0. Plies + 1 \in Nat /\ c \in Nat
      BY <1>3, <1>4
    <3>1. f \in Nat /\ f >= (Plies + 1) - c * 2 + 1
      BY <3>0, FirstCheckedIs
    <3> HIDE DEF f
    <3> QED BY <1>3, <1>4, <3>1
  <2>4. t[1] = e.to /\ t[2] = 2
    OBVIOUS
  <2>5. R \in SUBSET SameAs(t) /\ \A r \in R : r >= f
    <3> SUFFICES ASSUME NEW r \in R PROVE r \in SameAs(t) /\ r >= f
      OBVIOUS
    <3>1. r \in f..(Plies - 2) /\ (Plies - 2 - r) % 2 = 0 /\ After(r) = e.to
      BY DEF Same
    <3> HIDE DEF f
    <3>2. r \in 0..Plies /\ (Plies + 2 - r) % 2 = 0 /\ r >= f
      BY <1>3, <2>3, <3>1
    <3> QED BY <2>4, <3>1, <3>2 DEF SameAs
  <2>6. c >= 1 /\ Cardinality(R) >= nth
    BY <1>4, <2>1, <2>2
  <2>7. t \in {<<m.to, 1>>} \cup {<<d.to, 2>> : d \in GenEvasion(Flip(m.by), m.to)}
    OBVIOUS
  <2> HIDE DEF t, R, f
  <2> QED BY <1>5, <2>3, <2>5, <2>6, <2>7
<1>7. CASE ~Evades(m, c, nth)
  <2> DEFINE S == Earlier(m)
             t == <<m.to, 1>>
             d == NthLast(S, nth)
             R == {i \in S : i >= d}
  <2>1. ~(Cardinality(S) < nth)
    <3>1. ASSUME Cardinality(S) < nth PROVE FALSE
      <4>1. Decision(m, c, nth, Plies + 1) = "no_rep"
        BY <1>7, <3>1 DEF Decision
      <4> QED BY <1>2, <4>1
    <3> QED BY <3>1
  <2>2. IsFiniteSet(S) /\ Cardinality(S) \in Nat /\ S \in SUBSET Nat
    BY <1>3, SameIsFinite DEF Earlier
  <2>3. \A s \in S : s \in 0..(Plies - 3) /\ s <= Plies /\ s >= 0
    BY <1>3 DEF Earlier, Same
  <2>4. t[1] = m.to /\ t[2] = 1
    OBVIOUS
  <2>5. S \in SUBSET SameAs(t)
    <3> SUFFICES ASSUME NEW r \in S PROVE r \in SameAs(t)
      OBVIOUS
    <3>1. r \in 0..(Plies - 3) /\ (Plies - 3 - r) % 2 = 0 /\ After(r) = m.to
      BY DEF Earlier, Same
    <3>2. r \in 0..Plies /\ (Plies + 1 - r) % 2 = 0
      BY <1>3, <3>1
    <3> QED BY <2>4, <3>1, <3>2 DEF SameAs
  <2>6. t \in {<<m.to, 1>>} \cup {<<x.to, 2>> : x \in GenEvasion(Flip(m.by), m.to)}
    OBVIOUS
  <2> HIDE DEF S, t
  <2>7. d \in S /\ Cardinality(R) = nth
    <3>1. Cardinality(S) >= nth
      BY <1>2, <2>1, <2>2
    <3>2. Plies \in Nat /\ S \in SUBSET Nat /\ IsFiniteSet(S) /\ \A s \in S : s <= Plies
      BY <1>3, <2>2, <2>3
    <3>3. NthLast(S, nth) \in S /\ Cardinality({i \in S : i >= NthLast(S, nth)}) = nth
      <4> HIDE DEF R, d
      <4> QED BY <3>1, <3>2, NthLastIsOne
    <3> QED BY <3>3
  <2>8. d = NthLast(Earlier(m), nth)
    BY DEF S
  <2> HIDE DEF d
  <2>9. d \in 0..(Plies - 3) /\ (c - 1) * 2 >= Plies + 1 - d
    <3>1. d \in 0..(Plies - 3) /\ d \in Nat
      BY <2>2, <2>3, <2>7
    <3>2. ~Evades(m, c, nth) /\ ~(Cardinality(Earlier(m)) < nth)
      BY <1>7, <2>1 DEF S
    <3>3. (c - 1) * 2 >= Plies + 1 - d
      <4>1. PICK k : k = Plies + 1
        OBVIOUS
      <4>2. Decision(m, c, nth, k) = "perpetual"
        BY <1>2, <4>1
      <4>3. (c - 1) * 2 >= k - NthLast(Earlier(m), nth)
        <5>1. ASSUME ~((c - 1) * 2 >= k - NthLast(Earlier(m), nth)) PROVE FALSE
          <6>1. Decision(m, c, nth, k) = "four_fold"
            BY <3>2, <5>1 DEF Decision
          <6> QED BY <4>2, <6>1
        <5> QED BY <5>1
      <4> QED BY <1>3, <1>4, <2>8, <3>1, <4>1, <4>3
    <3> QED BY <3>1, <3>3
  <2>10. c >= 1 /\ d \in Int /\ d >= Plies + 2 - 2 * c
    BY <1>3, <1>4, <2>9
  <2>11. R \in SUBSET SameAs(t) /\ \A r \in R : r >= d
    BY <2>5
  <2>12. Cardinality(R) >= nth
    BY <1>2, <2>7
  <2> HIDE DEF R
  <2> QED BY <1>5, <2>6, <2>10, <2>11, <2>12
<1> QED BY <1>6, <1>7

(* The plies of a row of c checks, before and after one more ply.          *)
LEMMA RowBefore ==
  ASSUME NEW p \in Nat, NEW i \in 0..p, NEW c \in 0..255, NEW n, n = p + 1,
         (n - i) % 2 = 1, i > n - 2 * c
  PROVE  (p - i) % 2 = 0 /\ i > p - 2 * c
<1>1. (p - i) % 2 = 0
  OBVIOUS
<1>2. i > p - 2 * c
  OBVIOUS
<1> QED BY <1>1, <1>2

(* The plies of a row that the new ply continues.                          *)
LEMMA RowWithOneMore ==
  ASSUME NEW p \in Nat, NEW i \in 0..p, NEW c \in 0..255, NEW n, n = p + 1,
         (n - i) % 2 = 0, i > n - 2 * ((c + 1) % 256)
  PROVE  (p - i) % 2 = 1 /\ i > p - 2 * c
<1>1. (p - i) % 2 = 1
  OBVIOUS
<1>2. (c + 1) % 256 \in Nat /\ (c + 1) % 256 <= c + 1
  OBVIOUS
<1>3. i >= p - 2 * c
  BY <1>2
<1>4. (p - i) \in Nat /\ p - i # 2 * c
  BY <1>1
<1>5. i # p - 2 * c
  BY <1>4
<1> QED BY <1>1, <1>3, <1>5


(* A game starts with at most one check.                                   *)
LEMMA InitChecks == Init => CheckInv
<1> SUFFICES ASSUME Init PROVE CheckInv
  OBVIOUS
<1>1. Plies = 0 /\ After(0) = Start
  BY EmptySeq DEF Init, Plies, After
<1>2. Mover(0) = Flip(StartTurn) /\ Flip(Mover(0)) = StartTurn
  BY RootAssumption, FlipTwice DEF Mover
<1>3. CheckRows
  <2> SUFFICES ASSUME NEW i \in 0..Plies
               PROVE  /\ (Plies - i) % 2 = 0 /\ i > Plies - 2 * root.check1 => Checked(i)
                      /\ (Plies - i) % 2 = 1 /\ i > Plies - 2 * root.check0 => Checked(i)
    BY DEF CheckRows
  <2>1. i = 0
    BY <1>1
  <2>2. CASE InCheck(StartTurn, Start)
    <3>1. Checked(0)
      BY <1>1, <1>2, <2>2 DEF Checked
    <3> QED BY <2>1, <3>1
  <2>3. CASE ~InCheck(StartTurn, Start)
    <3>1. root.check0 = 0 /\ root.check1 = 0
      BY <2>3 DEF Init
    <3> QED BY <1>1, <2>1, <3>1
  <2> QED BY <2>2, <2>3
<1> QED BY <1>3, InitTable DEF Init, CheckInv

(* Making a move continues the row of its side, or ends it.                *)
LEMMA MadeChecks ==
  ASSUME CheckInv, WholeGame, TableInv', NEW m \in MoveGraph, MakesMove(m), undone' = undone
  PROVE  CheckInv'
<1>1. /\ Plies \in Nat /\ root \in Root /\ cookies \in Seq(MoveGraph) /\ PseudoLegal(m)
      /\ cookies' = Append(cookies, m) /\ outcome' = [verdict |-> "ok", move |-> m]
  BY PastIsHistory DEF MakesMove
<1>2. PICK pv \in Seq(MoveGraph) : root' = Made([root EXCEPT !.pv = pv], m)
  BY DEF MakesMove
<1>3. PICK s : s = [root EXCEPT !.pv = pv]
  OBVIOUS
<1>4. s.check0 = root.check0 /\ s.check1 = root.check1
  BY <1>1, <1>3 DEF Root
<1>5. root'.check0 = root.check1 /\ root'.check1 = ChecksWith(root, m)
  BY <1>2, <1>3, <1>4 DEF Made, ChecksWith
<1>6. root.check0 \in 0..255 /\ root.check1 \in 0..255
  BY <1>1 DEF Root
<1>7. Plies' = Plies + 1 /\ \A k \in 0..Plies : After(k)' = After(k)
  BY <1>1, CookiesGrown
<1>8. PICK n : n = Plies + 1
  OBVIOUS
<1>9. n \in Nat /\ Plies' = n
  BY <1>1, <1>7, <1>8
<1>10. After(n)' = m.to /\ m.by = Mover(n)
  <2>1. cookies'[n] = m
    BY <1>1, <1>8, CookiesGrown
  <2>2. m.by = Mover(n)
    BY <1>1, <1>8 DEF PseudoLegal, WholeGame, TableInv, FollowInv, BoardFollowsTheGame
  <2> QED BY <1>1, <1>8, <2>1, <2>2 DEF After
<1>11. ASSUME NEW i \in 0..n
       PROVE  /\ (n - i) % 2 = 0 /\ i > n - 2 * ChecksWith(root, m) => Checked(i)'
              /\ (n - i) % 2 = 1 /\ i > n - 2 * root.check1 => Checked(i)'
  <2>1. CASE i = n
    <3>1. (n - i) % 2 = 0
      BY <1>9, <2>1
    <3>2. ASSUME i > n - 2 * ChecksWith(root, m) PROVE InCheck(Flip(m.by), m.to)
      <4>1. ChecksWith(root, m) # 0
        BY <1>9, <2>1, <3>2
      <4> QED BY <4>1 DEF ChecksWith
    <3>3. InCheck(Flip(m.by), m.to) => Checked(i)'
      BY <1>10, <2>1 DEF Checked
    <3> QED BY <3>1, <3>2, <3>3
  <2>2. CASE i # n
    <3>1. i \in 0..Plies
      <4>1. i \in 0..(Plies + 1) /\ i # Plies + 1
        BY <1>8, <2>2
      <4> QED BY <1>1, <4>1
    <3>2. Checked(i)' <=> Checked(i)
      BY <1>7, <3>1 DEF Checked
    <3>3. ASSUME (n - i) % 2 = 1, i > n - 2 * root.check1 PROVE Checked(i)
      <4>1. (Plies - i) % 2 = 0 /\ i > Plies - 2 * root.check1
        BY <1>1, <1>6, <1>8, <3>1, <3>3, RowBefore
      <4> QED BY <3>1, <4>1 DEF CheckInv, CheckRows
    <3>4. ASSUME (n - i) % 2 = 0, i > n - 2 * ChecksWith(root, m) PROVE Checked(i)
      <4>1. ChecksWith(root, m) # 0
        <5>1. ~(i > n - 2 * 0)
          BY <1>1, <1>8, <3>1
        <5> QED BY <3>4, <5>1
      <4>2. ChecksWith(root, m) = (root.check0 + 1) % 256
        BY <4>1 DEF ChecksWith
      <4>3. i > n - 2 * ((root.check0 + 1) % 256)
        BY <3>4, <4>2
      <4>4. (Plies - i) % 2 = 1 /\ i > Plies - 2 * root.check0
        BY <1>1, <1>6, <1>8, <3>1, <3>4, <4>3, RowWithOneMore
      <4> QED BY <3>1, <4>4 DEF CheckInv, CheckRows
    <3> QED BY <3>2, <3>3, <3>4
  <2> QED BY <2>1, <2>2
<1>12. CheckRows'
  BY <1>5, <1>9, <1>11 DEF CheckRows
<1>13. (outcome.verdict = "perpetual" => Repeated(outcome.move, 3))'
  BY <1>1
<1>14. undone' = 0
  BY DEF CheckInv
<1> QED BY <1>12, <1>13, <1>14 DEF CheckInv

(* Every step keeps the rows of checks, and refuses rightly.               *)
LEMMA NextChecks ==
  ASSUME MaxPlies <= RepLimit, MaxUndos = 0
  PROVE  CheckInv /\ [Next]_rootVars => CheckInv'
<1> SUFFICES ASSUME CheckInv, [Next]_rootVars PROVE CheckInv'
  OBVIOUS
<1>1. TableInv' /\ RootTypeOK /\ WholeGame
  BY NextTable DEF CheckInv, TableIsLargeEnough, TableInv, FollowInv, WholeGame
<1>2. ASSUME cookies' = cookies PROVE \A m : Repeated(m, 3)' <=> Repeated(m, 3)
  BY <1>2 DEF Repeated, SameAs, OnlyChecks, After, Plies
<1>3. ASSUME cookies' = cookies, root'.check0 = root.check0, root'.check1 = root.check1
      PROVE  CheckRows'
  BY <1>3 DEF CheckInv, CheckRows, Checked, After, Plies
<1>4. ASSUME NEW m \in MoveGraph, KeepsGame, SaysNoMove(m), undone' = undone PROVE CheckInv'
  <2>1. CheckRows' /\ undone' = 0
    BY <1>3, <1>4 DEF KeepsGame, CheckInv
  <2>2. CASE outcome'.verdict \in {"hang", "no moves"}
    BY <1>1, <2>1, <2>2 DEF CheckInv
  <2>3. CASE /\ PseudoLegal(m) /\ Verdict(root, m, RepetitionNth) = "perpetual"
             /\ outcome' = [verdict |-> "perpetual", move |-> m]
    <3>1. Repeated(m, 3)
      BY <1>1, <2>3, PerpetualRightly DEF CheckInv, RepetitionNth
    <3>2. Repeated(m, 3)'
      BY <1>2, <1>4, <3>1 DEF KeepsGame
    <3> QED BY <1>1, <2>1, <2>3, <3>2 DEF CheckInv
  <2> QED BY <1>4, <2>2, <2>3 DEF SaysNoMove
<1>5. ASSUME KeepsGame, outcome'.verdict = "no moves", undone' = undone PROVE CheckInv'
  BY <1>1, <1>3, <1>5 DEF KeepsGame, CheckInv
<1>6. ASSUME NEW m \in MoveGraph, MakesMove(m), undone' = undone PROVE CheckInv'
  BY <1>1, <1>6, MadeChecks
<1>7. CASE Undo
  BY <1>7 DEF Undo, CheckInv
<1>8. CASE UNCHANGED rootVars
  <2>1. cookies' = cookies /\ root' = root /\ outcome' = outcome /\ undone' = undone
    BY <1>8 DEF rootVars
  <2> QED BY <1>1, <1>2, <1>3, <2>1 DEF CheckInv
<1> QED BY <1>1, <1>4, <1>5, <1>6, <1>7, <1>8, HumanMoveCases, ComputerMoveCases DEF Next

(* As long as a game fits into the repetition table and nothing is taken   *)
(* back, make_move_root refuses a move as a perpetual check only if it is  *)
(* one: a check that makes, or lets the opponent make, the fourth          *)
(* occurrence of a position with nothing but checks since the first.       *)
THEOREM OnlyPerpetualChecksAreRefused ==
  ASSUME MaxPlies <= RepLimit, MaxUndos = 0
  PROVE  Spec => []OnlyPerpetualCheckIsRefused
<1>1. CheckInv => OnlyPerpetualCheckIsRefused
  BY RepeatedIs DEF CheckInv, OnlyPerpetualCheckIsRefused
<1>2. CheckInv /\ [Next]_rootVars => CheckInv'
  BY NextChecks
<1> QED BY <1>1, <1>2, InitChecks, PTL DEF Spec

(* As long as a game fits into the repetition table and nothing is taken   *)
(* back, com_turn_start fails, and the CHECK2_GE of computerMove aborts the *)
(* program, only where every legal move is a check that makes the third    *)
(* occurrence of a position, with nothing but checks since the first.      *)
THEOREM TheSearchGivesUpOnlyOnRepeatedChecks ==
  ASSUME MaxPlies <= RepLimit, MaxUndos = 0
  PROVE  Spec => []GivesUpOnlyOnRepeatedChecks
<1>1. CheckInv /\ NoMovesMeansNone => GivesUpOnlyOnRepeatedChecks
  <2> SUFFICES ASSUME CheckInv, NoMovesMeansNone, outcome.verdict = "no moves",
                      NEW m \in MoveGraph, PseudoLegal(m), ~InCheck(m.by, m.to)
               PROVE  Repeated(m, 2)
    BY RepeatedIs DEF GivesUpOnlyOnRepeatedChecks
  <2>1. WholeGame /\ CheckRows
    BY DEF CheckInv, TableIsLargeEnough, TableInv, FollowInv, WholeGame
  <2>2. m \notin RootMoveList(root)
    BY DEF NoMovesMeansNone
  <2>3. Verdict(root, m, 2) = "perpetual"
    BY <2>2 DEF RootMoveList, RootNth, PseudoLegal
  <2> QED BY <2>1, <2>3, PerpetualRightly
<1>2. CheckInv /\ [Next]_rootVars => CheckInv'
  BY NextChecks
<1> QED BY <1>1, <1>2, InitChecks, SearchFailsOnlyWithoutAMove, PTL DEF Spec

-----------------------------------------------------------------------------
(* No game is drawn by a perpetual check.                                  *)

(* The rows of checks are no longer than nsuc_check says, which never ran  *)
(* over its 255.                                                           *)
RowsAreCounted ==
  /\ 2 * root.check0 <= Plies + 1 /\ 2 * root.check1 <= Plies + 2
  /\ \A j \in 0..Plies :
       /\ (Plies - j) % 2 = 0 /\ (\A i \in j..Plies : (Plies - i) % 2 = 0 => Checked(i))
            => j > Plies - 2 * root.check1
       /\ (Plies - j) % 2 = 1 /\ (\A i \in j..Plies : (Plies - i) % 2 = 1 => Checked(i))
            => j > Plies - 2 * root.check0

(* The last move was not refused although it gave a check: whatever answers *)
(* it does not bring about the fourth occurrence in a row of checks.       *)
NoFourthAfterChecks ==
  root.check1 >= 6 =>
    \A e \in GenEvasion(root.turn, root.pos) :
      ~(Cardinality(Same(e.to, Plies - 3, FirstChecked(Plies, root.check1))) >= 3)

DrawnRightly ==
  "drawn" \in root.status =>
    \A s \in Sides : ~OnlyChecks(s, FirstOfFour(Plies), Plies)

PerpetualInv ==
  /\ TableInv
  /\ RowsAreCounted
  /\ NoFourthAfterChecks
  /\ DrawnRightly

(* A position with the same side to move is not reached again before four  *)
(* plies have gone by.                                                     *)
LEMMA GapOfFour ==
  ASSUME WholeGame, NothingIsMovedBack, NEW i \in 0..Plies, NEW j \in 0..Plies,
         i < j, (j - i) % 2 = 0, After(i) = After(j)
  PROVE  i <= j - 4
<1>1. Plies \in Nat /\ cookies \in Seq(MoveGraph)
  BY PastIsHistory
<1>2. i = j - 2 \/ i <= j - 4
  BY <1>1
<1>3. ASSUME i = j - 2 PROVE FALSE
  <2>1. PICK k : k = i + 1
    OBVIOUS
  <2>2. k \in 1..Plies /\ j \in 1..Plies /\ k = j - 1 /\ i = k - 1
    BY <1>1, <1>3, <2>1
  <2>3. cookies[k] \in MoveGraph /\ cookies[j] \in MoveGraph
    BY <1>1, <2>2, ElementOfSeq DEF Plies
  <2>4. cookies[k].from = After(i) /\ cookies[j].from = After(k)
    BY <2>2 DEF WholeGame, TableInv, FollowInv, BoardFollowsTheGame
  <2>5. cookies[k].to = After(k) /\ cookies[j].to = After(j)
    BY <2>2 DEF After
  <2> QED BY <2>3, <2>4, <2>5 DEF NothingIsMovedBack
<1> QED BY <1>2, <1>3

(* Where the last three of the earlier occurrences are.                    *)
LEMMA LastThreeEarlier ==
  ASSUME WholeGame, NothingIsMovedBack, NEW m \in MoveGraph,
         NEW a \in Earlier(m), NEW b \in Earlier(m), NEW c \in Earlier(m),
         LastThree(Earlier(m), a, b, c)
  PROVE  /\ a \in Nat /\ b \in Nat /\ c \in Nat
         /\ a <= Plies - 3 /\ b <= a - 4 /\ c <= b - 4
         /\ (Plies + 1 - c) % 2 = 0 /\ After(c) = m.to
<1>1. Plies \in Nat /\ Plies - 3 \in Int
  BY PastIsHistory
<1>2. \A i \in Earlier(m) : i \in 0..(Plies - 3) /\ (Plies - 3 - i) % 2 = 0 /\ After(i) = m.to
  BY DEF Earlier, Same
<1>3. /\ a \in 0..Plies /\ b \in 0..Plies /\ c \in 0..Plies
      /\ a \in Nat /\ b \in Nat /\ c \in Nat /\ a <= Plies - 3
  BY <1>1, <1>2
<1>4. a > b /\ b > c
  BY DEF LastThree
<1>5. (a - b) % 2 = 0 /\ (b - c) % 2 = 0 /\ (Plies + 1 - c) % 2 = 0
  <2>1. (Plies - 3 - a) % 2 = 0 /\ (Plies - 3 - b) % 2 = 0 /\ (Plies - 3 - c) % 2 = 0
    BY <1>2
  <2> QED BY <1>1, <1>3, <2>1
<1>6. b <= a - 4
  BY <1>2, <1>3, <1>4, <1>5, GapOfFour
<1>7. c <= b - 4
  BY <1>2, <1>3, <1>4, <1>5, GapOfFour
<1> QED BY <1>2, <1>3, <1>5, <1>6, <1>7

(* The first of the four occurrences that a fourth one completes.          *)
LEMMA FirstOfFourIs ==
  ASSUME NEW E \in SUBSET Nat, IsFiniteSet(E), NEW a \in E, NEW b \in E, NEW c \in E,
         LastThree(E, a, b, c), NEW n \in Nat, \A i \in E : i < n
  PROVE  (CHOOSE j \in E \cup {n} : Cardinality({i \in E \cup {n} : i >= j}) = 4) = c
<1>0. PICK S : S = E \cup {n}
  OBVIOUS
<1>1. /\ a > b /\ b > c /\ a \in Nat /\ b \in Nat /\ c \in Nat /\ n > a
      /\ {i \in E : i >= a} = {a} /\ {i \in E : i >= b} = {a, b}
      /\ {i \in E : i >= c} = {a, b, c}
  BY DEF LastThree
<1>2. a # b /\ b # c /\ a # c /\ n # a /\ n # b /\ n # c
  BY <1>1
<1>3. /\ Cardinality({a}) = 1 /\ Cardinality({a, b}) = 2 /\ Cardinality({a, b, c}) = 3
      /\ IsFiniteSet({a}) /\ IsFiniteSet({a, b}) /\ IsFiniteSet({a, b, c})
  <2>1. IsFiniteSet({a})
    BY FS_Singleton
  <2> QED BY <1>2, <2>1, SizesOfLists
<1>4. ASSUME NEW j \in E
      PROVE  {i \in S : i >= j} = {i \in E : i >= j} \cup {n} /\ n \notin {i \in E : i >= j}
  <2>1. n >= j /\ n \notin E
    BY <1>1
  <2> QED BY <1>0, <2>1
<1>5. /\ Cardinality({i \in S : i >= a}) = 2 /\ Cardinality({i \in S : i >= b}) = 3
      /\ Cardinality({i \in S : i >= c}) = 4 /\ IsFiniteSet({i \in S : i >= c})
  <2>1. /\ Cardinality({a} \cup {n}) = 1 + 1 /\ Cardinality({a, b} \cup {n}) = 2 + 1
        /\ Cardinality({a, b, c} \cup {n}) = 3 + 1 /\ IsFiniteSet({a, b, c} \cup {n})
    <3>1. n \notin {a} /\ n \notin {a, b} /\ n \notin {a, b, c}
      BY <1>2
    <3> QED BY <1>3, <3>1, FS_AddElement
  <2> QED BY <1>1, <1>4, <2>1
<1>6. {i \in S : i >= n} = {n} /\ Cardinality({n}) = 1
  <2>1. \A i \in S : i >= n <=> i = n
    BY <1>0, <1>1
  <2>2. {i \in S : i >= n} = {n}
    BY <1>0, <2>1
  <2> QED BY <2>2, FS_Singleton
<1>7. ASSUME NEW j \in S, Cardinality({i \in S : i >= j}) = 4 PROVE j = c
  <2>1. CASE j = n
    BY <1>6, <1>7, <2>1
  <2>2. CASE j \in E /\ j >= c
    <3>1. j \in {a, b, c}
      BY <1>1, <2>2
    <3> QED BY <1>5, <1>7, <3>1
  <2>3. CASE j \in E /\ ~(j >= c)
    <3> DEFINE T == {i \in S : i >= c}
               U == {i \in S : i >= j}
    <3>1. j \in Nat /\ j < c
      BY <1>1, <2>3
    <3>2. j \notin T /\ j \in U
      BY <1>0, <1>1, <2>3, <3>1
    <3>3. T \in SUBSET U
      <4>1. \A i \in S : i \in Nat
        BY <1>0
      <4>2. \A i \in S : i >= c => i >= j
        BY <1>1, <3>1, <4>1
      <4> QED BY <4>2
    <3>4. U \in SUBSET S /\ IsFiniteSet(S)
      <4>1. IsFiniteSet(E \cup {n})
        BY FS_AddElement
      <4> QED BY <1>0, <4>1
    <3>5. Cardinality(U) = 4 /\ Cardinality(T) = 4 /\ IsFiniteSet(T)
      BY <1>5, <1>7
    <3> HIDE DEF T, U
    <3>6. IsFiniteSet(U)
      BY <3>4, FS_Subset
    <3>7. Cardinality(T \cup {j}) = 4 + 1
      BY <3>2, <3>5, FS_AddElement
    <3>8. T \cup {j} \in SUBSET U
      BY <3>2, <3>3
    <3>9. Cardinality(T \cup {j}) <= Cardinality(U)
      BY <3>6, <3>8, FS_Subset
    <3> QED BY <3>5, <3>7, <3>9
  <2> QED BY <1>0, <2>1, <2>2, <2>3
<1>8. c \in S
  BY <1>0
<1>9. (CHOOSE j \in S : Cardinality({i \in S : i >= j}) = 4) = c
  BY <1>5, <1>7, <1>8
<1> QED BY <1>0, <1>9

(* The rows of a game that starts are counted.                             *)
LEMMA InitPerpetual == Init => PerpetualInv
<1> SUFFICES ASSUME Init PROVE PerpetualInv
  OBVIOUS
<1>1. Plies = 0 /\ After(0) = Start
  BY EmptySeq DEF Init, Plies, After
<1>2. Mover(0) = Flip(StartTurn) /\ Flip(Mover(0)) = StartTurn
  BY RootAssumption, FlipTwice DEF Mover
<1>3. root.check0 = 0 /\ (root.check1 = 0 \/ root.check1 = 1) /\ "drawn" \notin root.status
  BY DEF Init
<1>4. Checked(0) => root.check1 = 1
  BY <1>1, <1>2 DEF Init, Checked
<1>5. RowsAreCounted
  <2>1. ASSUME NEW j \in 0..Plies
        PROVE  /\ (Plies - j) % 2 = 0 /\ (\A i \in j..Plies : (Plies - i) % 2 = 0 => Checked(i))
                    => j > Plies - 2 * root.check1
               /\ (Plies - j) % 2 = 1 /\ (\A i \in j..Plies : (Plies - i) % 2 = 1 => Checked(i))
                    => j > Plies - 2 * root.check0
    <3>1. j = 0 /\ 0 \in j..Plies /\ (Plies - 0) % 2 = 0 /\ (Plies - j) % 2 # 1
      BY <1>1
    <3>2. Checked(0) => j > Plies - 2 * root.check1
      BY <1>1, <1>4, <3>1
    <3> QED BY <3>1, <3>2
  <2>2. 2 * root.check0 <= Plies + 1 /\ 2 * root.check1 <= Plies + 2
    BY <1>1, <1>3
  <2> QED BY <2>1, <2>2 DEF RowsAreCounted
<1>6. NoFourthAfterChecks /\ DrawnRightly
  BY <1>3 DEF NoFourthAfterChecks, DrawnRightly
<1> QED BY <1>5, <1>6, InitTable DEF PerpetualInv

(* Arithmetic of rows: see MadeRows.                                       *)
LEMMA RowBehind ==
  ASSUME NEW p \in Nat, NEW j \in 0..p, NEW c \in 0..255, NEW n, n = p + 1,
         (n - j) % 2 = 1, j > p - 2 * c
  PROVE  (p - j) % 2 = 0 /\ j > n - 2 * c
<1>1. (p - j) % 2 = 0
  OBVIOUS
<1>2. p - j # 2 * c - 1
  BY <1>1
<1>3. j # p - 2 * c + 1
  BY <1>2
<1> QED BY <1>1, <1>3

(* Making a move keeps the count of the rows.                              *)
LEMMA MadeRows ==
  ASSUME WholeGame, RowsAreCounted, NEW m \in MoveGraph, PseudoLegal(m),
         Plies < 509, cookies' = Append(cookies, m),
         root'.check0 = root.check1, root'.check1 = ChecksWith(root, m)
  PROVE  RowsAreCounted'
<1>1. Plies \in Nat /\ root \in Root /\ cookies \in Seq(MoveGraph)
  BY PastIsHistory
<1>2. root.check0 \in 0..255 /\ root.check1 \in 0..255
  BY <1>1 DEF Root
<1>3. PICK c : c = ChecksWith(root, m)
  OBVIOUS
<1>4. Plies' = Plies + 1 /\ \A k \in 0..Plies : After(k)' = After(k)
  BY <1>1, CookiesGrown
<1>5. PICK n : n = Plies + 1
  OBVIOUS
<1>6. n \in Nat /\ Plies' = n
  BY <1>1, <1>4, <1>5
<1>7. After(n)' = m.to /\ m.by = Mover(n)
  <2>1. cookies'[n] = m
    BY <1>1, <1>5, CookiesGrown
  <2>2. m.by = Mover(n)
    BY <1>1, <1>5 DEF PseudoLegal, WholeGame, TableInv, FollowInv, BoardFollowsTheGame
  <2> QED BY <1>1, <1>5, <2>1, <2>2 DEF After
<1>8. Checked(n)' <=> InCheck(Flip(m.by), m.to)
  BY <1>7 DEF Checked
<1>9. \A i \in 0..Plies : Checked(i)' <=> Checked(i)
  BY <1>4 DEF Checked
<1>0. PICK p, x, y : p = Plies /\ x = root.check0 /\ y = root.check1
  OBVIOUS
<1>N. p \in Nat /\ p < 509 /\ n = p + 1 /\ n \in Nat /\ x \in 0..255 /\ y \in 0..255
  BY <1>0, <1>1, <1>2, <1>5, <1>6
<1>10. /\ 2 * x <= p + 1 /\ 2 * y <= p + 2
       /\ \A j \in 0..p :
            /\ (p - j) % 2 = 0 /\ (\A i \in j..p : (p - i) % 2 = 0 => Checked(i)) => j > p - 2 * y
            /\ (p - j) % 2 = 1 /\ (\A i \in j..p : (p - i) % 2 = 1 => Checked(i)) => j > p - 2 * x
  BY <1>0 DEF RowsAreCounted
<1>11. c \in 0..255 /\ 2 * c <= p + 3 /\ (Checked(n)' => c = x + 1)
  <2>1. (x + 1) % 256 = x + 1 /\ x + 1 \in 0..255
    <3>1. x <= 254
      BY <1>N, <1>10
    <3> QED BY <1>N, <3>1
  <2>2. CASE InCheck(Flip(m.by), m.to)
    <3>1. c = x + 1
      BY <1>0, <1>3, <2>1, <2>2 DEF ChecksWith
    <3> QED BY <1>N, <1>10, <2>1, <3>1
  <2>3. CASE ~InCheck(Flip(m.by), m.to)
    <3>1. c = 0
      BY <1>3, <2>3 DEF ChecksWith
    <3> QED BY <1>N, <1>8, <2>3, <3>1
  <2> QED BY <2>2, <2>3
<1>12. ASSUME NEW j \in 0..n, (n - j) % 2 = 0,
              \A i \in j..n : (n - i) % 2 = 0 => Checked(i)'
       PROVE  j > n - 2 * c
  <2>1. n \in j..n /\ (n - n) % 2 = 0
    BY <1>N
  <2>2. c = x + 1
    BY <1>11, <1>12, <2>1
  <2>3. CASE j = n
    BY <1>N, <2>2, <2>3
  <2>4. CASE j # n
    <3>1. j \in 0..p
      <4>1. j \in 0..(p + 1) /\ j # p + 1
        BY <1>N, <2>4
      <4> QED BY <1>N, <4>1
    <3>2. (p - j) % 2 = 1
      BY <1>N, <1>12, <3>1
    <3>3. ASSUME NEW i \in j..p, (p - i) % 2 = 1 PROVE Checked(i)
      <4>1. i \in 0..p /\ i \in j..n
        BY <1>N, <3>1
      <4>2. (n - i) % 2 = 0
        BY <1>N, <3>3, <4>1
      <4> QED BY <1>0, <1>9, <1>12, <4>1, <4>2
    <3>4. j > p - 2 * x
      BY <3>1, <3>2, <3>3, <1>10
    <3> QED BY <1>N, <2>2, <3>1, <3>4
  <2> QED BY <2>3, <2>4
<1>13. ASSUME NEW j \in 0..n, (n - j) % 2 = 1,
              \A i \in j..n : (n - i) % 2 = 1 => Checked(i)'
       PROVE  j > n - 2 * y
  <2>1. j # n
    BY <1>N, <1>13
  <2>2. j \in 0..p
    <3>1. j \in 0..(p + 1) /\ j # p + 1
      BY <1>N, <2>1
    <3> QED BY <1>N, <3>1
  <2>3. (p - j) % 2 = 0
    BY <1>N, <1>13, <2>2
  <2>4. ASSUME NEW i \in j..p, (p - i) % 2 = 0 PROVE Checked(i)
    <3>1. i \in 0..p /\ i \in j..n
      BY <1>N, <2>2
    <3>2. (n - i) % 2 = 1
      BY <1>N, <2>4, <3>1
    <3> QED BY <1>0, <1>9, <1>13, <3>1, <3>2
  <2>5. j > p - 2 * y
    BY <2>2, <2>3, <2>4, <1>10
  <2> QED BY <1>N, <1>13, <2>2, <2>5, RowBehind
<1>14. 2 * root'.check0 <= Plies' + 1 /\ 2 * root'.check1 <= Plies' + 2
  BY <1>0, <1>N, <1>3, <1>6, <1>10, <1>11
<1>15. root'.check0 = root.check1 /\ root'.check1 = c
  BY <1>3
<1> QED BY <1>0, <1>6, <1>12, <1>13, <1>14, <1>15 DEF RowsAreCounted

(* The sides take turns.                                                   *)
LEMMA MoverByParity ==
  ASSUME NEW n \in Nat, NEW i \in 0..n
  PROVE  /\ (n - i) % 2 = 0 => Mover(i) = Mover(n)
         /\ (n - i) % 2 = 1 => Mover(i) = Flip(Mover(n))
<1>1. (n - i) % 2 = 0 => (i % 2 = 1 <=> n % 2 = 1)
  OBVIOUS
<1>2. (n - i) % 2 = 1 => (i % 2 = 1 <=> n % 2 # 1)
  OBVIOUS
<1>3. Flip(Flip(StartTurn)) = StartTurn
  BY RootAssumption, FlipTwice
<1> QED BY <1>1, <1>2, <1>3 DEF Mover

(* What a made move changes of the root position.                          *)
LEMMA MadeFields ==
  ASSUME root \in Root, NEW m \in MoveGraph, MakesMove(m)
  PROVE  /\ root'.check0 = root.check1 /\ root'.check1 = ChecksWith(root, m)
         /\ root'.pos = m.to /\ root'.turn = Flip(m.by)
         /\ "drawn" \in root'.status <=> Verdict(root, m, RepetitionNth) = "four_fold"
<1>1. PICK pv \in Seq(MoveGraph) : root' = Made([root EXCEPT !.pv = pv], m)
  BY DEF MakesMove
<1>2. PICK s : s = [root EXCEPT !.pv = pv]
  OBVIOUS
<1>3. /\ s.check0 = root.check0 /\ s.check1 = root.check1 /\ s.turn = root.turn
      /\ s.status = {} /\ root.turn = m.by
  BY <1>2 DEF Root, MakesMove, PseudoLegal
<1>4. Verdict(s, m, RepetitionNth) = Verdict(root, m, RepetitionNth)
  BY <1>2, LineIsIrrelevant
<1>5. "drawn" \in root'.status <=> Verdict(root, m, RepetitionNth) = "four_fold"
  BY <1>1, <1>2, <1>3, <1>4 DEF Made
<1>6. /\ root'.check0 = root.check1 /\ root'.check1 = ChecksWith(root, m)
      /\ root'.pos = m.to /\ root'.turn = Flip(m.by)
  BY <1>1, <1>2, <1>3 DEF Made, ChecksWith
<1> QED BY <1>5, <1>6

(* A made move was not refused as a perpetual check.                       *)
LEMMA MadeNoFourth ==
  ASSUME WholeGame, NEW m \in MoveGraph, MakesMove(m)
  PROVE  NoFourthAfterChecks'
<1>1. Plies \in Nat /\ root \in Root /\ cookies \in Seq(MoveGraph) /\ PseudoLegal(m)
      /\ cookies' = Append(cookies, m) /\ Verdict(root, m, RepetitionNth) # "perpetual"
  BY PastIsHistory DEF MakesMove
<1>2. PICK c : c = ChecksWith(root, m)
  OBVIOUS
<1>3. c \in Nat
  <2>1. c \in 0..255
    BY <1>1, <1>2, ChecksWithType
  <2> QED BY <2>1
<1>4. Decision(m, c, 3, Plies + 1) # "perpetual"
  BY <1>1, <1>2, VerdictIs DEF RepetitionNth
<1>5. ~Evades(m, c, 3)
  BY <1>4 DEF Decision
<1>6. root'.check1 = c /\ root'.pos = m.to /\ root'.turn = Flip(m.by)
  BY <1>1, <1>2, MadeFields
<1>7. Plies' = Plies + 1 /\ \A k \in 0..Plies : After(k)' = After(k)
  BY <1>1, CookiesGrown
<1>8. PICK f : f = FirstChecked(Plies + 1, c)
  OBVIOUS
<1>9. f \in Nat /\ FirstChecked(Plies', c) = f /\ Plies' - 3 = Plies - 2
  BY <1>1, <1>3, <1>7, <1>8, FirstCheckedIs
<1>0. PICK q : q = Plies - 2
  OBVIOUS
<1>10. ASSUME NEW p PROVE Same(p, q, f)' = Same(p, q, f)
  <2>1. \A i \in f..q : After(i)' = After(i)
    BY <1>0, <1>1, <1>7, <1>9
  <2> QED BY <2>1 DEF Same
<1>11. ASSUME c >= 6, NEW e \in GenEvasion(Flip(m.by), m.to)
       PROVE  ~(Cardinality(Same(e.to, q, f)) >= 3)
  BY <1>0, <1>5, <1>8, <1>11 DEF Evades
<1>12. ASSUME NEW p PROVE Same(p, Plies - 3, FirstChecked(Plies, root.check1))' = Same(p, q, f)
  <2>1. FirstChecked(Plies', root'.check1) = f /\ Plies' - 3 = q
    BY <1>0, <1>6, <1>9
  <2>2. Same(p, Plies - 3, FirstChecked(Plies, root.check1))' = Same(p, q, f)'
    BY <2>1 DEF Same
  <2> QED BY <1>10, <2>2
<1> QED BY <1>6, <1>11, <1>12 DEF NoFourthAfterChecks

(* A made move draws no game in which one side only gave check.            *)
LEMMA MadeDrawnRightly ==
  ASSUME PerpetualInv, WholeGame, NothingIsMovedBack, RowsAreCounted',
         NEW m \in MoveGraph, MakesMove(m)
  PROVE  DrawnRightly'
<1>1. /\ Plies \in Nat /\ root \in Root /\ cookies \in Seq(MoveGraph) /\ PseudoLegal(m)
      /\ cookies' = Append(cookies, m) /\ ~InCheck(m.by, m.to)
  BY PastIsHistory DEF MakesMove
<1> SUFFICES ASSUME "drawn" \in root'.status, NEW s \in Sides,
                    OnlyChecks(s, FirstOfFour(Plies), Plies)'
             PROVE  FALSE
  BY DEF DrawnRightly
<1>2. PICK c : c = ChecksWith(root, m)
  OBVIOUS
<1>3. c \in 0..255 /\ c \in Nat
  <2>1. c \in 0..255
    BY <1>1, <1>2, ChecksWithType
  <2> QED BY <2>1
<1>4. PICK p, n, y, E : p = Plies /\ n = p + 1 /\ y = root.check1 /\ E = Earlier(m)
  OBVIOUS
<1>5. p \in Nat /\ n \in Nat /\ Plies' = n /\ y \in 0..255
  <2>1. Plies' = Plies + 1
    BY <1>1, CookiesGrown
  <2>2. root.check1 \in 0..255
    BY <1>1 DEF Root
  <2> QED BY <1>1, <1>4, <2>1, <2>2
<1>6. Decision(m, c, 3, n) = "four_fold"
  <2>1. Verdict(root, m, 3) = "four_fold"
    BY <1>1, MadeFields DEF RepetitionNth
  <2> QED BY <1>2, <1>4, <2>1, VerdictIs
<1>7. ~(Cardinality(E) < 3)
  BY <1>4, <1>6 DEF Decision
<1>8. IsFiniteSet(E) /\ Cardinality(E) \in Nat /\ E \in SUBSET Nat /\ \A i \in E : i < n /\ i <= p
  <2>1. IsFiniteSet(E) /\ Cardinality(E) \in Nat /\ E \in SUBSET Nat
    BY <1>1, <1>4, SameIsFinite DEF Earlier
  <2>2. \A i \in E : i \in 0..(p - 3)
    BY <1>4 DEF Earlier, Same
  <2> QED BY <1>4, <1>5, <2>1, <2>2
<1>9. PICK a \in E, b \in E, d \in E : LastThree(E, a, b, d)
  <2>1. Cardinality(E) >= 3
    BY <1>7, <1>8
  <2>2. \A i \in E : i <= p
    BY <1>8
  <2> QED BY <1>5, <1>8, <2>1, <2>2, LastThreeExist
<1>10. /\ a \in Nat /\ b \in Nat /\ d \in Nat
       /\ a <= p - 3 /\ b <= a - 4 /\ d <= b - 4
       /\ (n - d) % 2 = 0 /\ After(d) = m.to
  <2>1. /\ a \in Earlier(m) /\ b \in Earlier(m) /\ d \in Earlier(m)
        /\ LastThree(Earlier(m), a, b, d)
    BY <1>4, <1>9
  <2>2. /\ a \in Nat /\ b \in Nat /\ d \in Nat
        /\ a <= Plies - 3 /\ b <= a - 4 /\ d <= b - 4
        /\ (Plies + 1 - d) % 2 = 0 /\ After(d) = m.to
    BY <2>1, LastThreeEarlier
  <2>3. p = Plies /\ n = Plies + 1
    BY <1>4
  <2>4. a <= p - 3
    BY <2>2, <2>3
  <2>5. (n - d) % 2 = 0
    BY <1>1, <1>5, <2>2, <2>3
  <2> QED BY <2>2, <2>4, <2>5
<1>11. d <= p - 11 /\ d \in 0..p /\ d \in 0..n /\ a # b /\ b # d /\ a # d
  BY <1>5, <1>10, <1>4
<1>12. ~((c - 1) * 2 >= n - d)
  <2>1. NthLast(Earlier(m), 3) = d
    BY <1>4, <1>8, <1>9, NthLastOfThree
  <2>2. ASSUME (c - 1) * 2 >= n - d PROVE FALSE
    <3>1. ~(Cardinality(Earlier(m)) < 3)
      BY <1>4, <1>7
    <3>2. Decision(m, c, 3, n) = "perpetual"
      BY <1>3, <1>5, <1>10, <2>1, <2>2, <3>1 DEF Decision
    <3> QED BY <1>6, <3>2
  <2> QED BY <2>2
<1>13. FirstOfFour(Plies)' = d
  <2>1. (CHOOSE j \in E \cup {n} : Cardinality({i \in E \cup {n} : i >= j}) = 4) = d
    <3>1. E \in SUBSET Nat /\ IsFiniteSet(E) /\ \A i \in E : i < n
      BY <1>8
    <3>2. n \in Nat
      BY <1>5
    <3>3. LastThree(E, a, b, d)
      BY <1>9
    <3> QED BY <3>1, <3>2, <3>3, FirstOfFourIs
  <2>2. Occurrences(Plies)' = E \cup {n}
    BY <1>1, <1>4, OneMoreOccurrence
  <2> QED BY <2>1, <2>2 DEF FirstOfFour
<1>14. \A i \in d + 1 .. n : Mover(i) = s => InCheck(Flip(s), After(i)')
  BY <1>5, <1>13 DEF OnlyChecks
<1>15. m.by = Mover(n) /\ After(n)' = m.to /\ \A i \in 0..p : After(i)' = After(i)
  <2>1. /\ \A i \in 0..Plies : After(i)' = After(i)
        /\ cookies'[n] = m
    BY <1>1, <1>4, CookiesGrown
  <2>2. m.by = Mover(n)
    BY <1>1, <1>4 DEF PseudoLegal, WholeGame, TableInv, FollowInv, BoardFollowsTheGame
  <2> QED BY <1>4, <1>5, <2>1, <2>2 DEF After
<1>16. CASE s = m.by
  <2>1. ASSUME NEW i \in d..n, (n - i) % 2 = 0 PROVE Checked(i)'
    <3>1. i \in 0..n /\ i \in Nat
      BY <1>5, <1>10
    <3>2. Mover(i) = m.by
      BY <1>5, <1>15, <2>1, <3>1, MoverByParity
    <3>3. CASE i # d
      <4>1. i \in d + 1 .. n
        BY <1>5, <1>10, <3>1, <3>3
      <4> QED BY <1>14, <1>16, <3>2, <4>1 DEF Checked
    <3>4. CASE i = d
      <4>1. n \in d + 1 .. n
        BY <1>4, <1>5, <1>11
      <4>2. InCheck(Flip(m.by), m.to)
        BY <1>14, <1>15, <1>16, <4>1
      <4>3. After(i)' = m.to
        BY <1>10, <1>11, <1>15, <3>4
      <4> QED BY <3>2, <4>2, <4>3 DEF Checked
    <3> QED BY <3>3, <3>4
  <2>2. root'.check1 = c
    BY <1>1, <1>2, MadeFields
  <2>3. \A j \in 0..n : (n - j) % 2 = 0 /\ (\A i \in j..n : (n - i) % 2 = 0 => Checked(i)') => j > n - 2 * c
    BY <1>5, <2>2 DEF RowsAreCounted
  <2>4. d > n - 2 * c
    BY <1>10, <1>11, <2>1, <2>3
  <2>5. n - d # 2 * c - 1
    BY <1>3, <1>5, <1>10
  <2> QED BY <1>3, <1>5, <1>10, <1>12, <2>4, <2>5
<1>17. CASE s = Flip(m.by)
  <2>1. ASSUME NEW i \in d + 1 .. p, (p - i) % 2 = 0 PROVE Checked(i)
    <3>1. i \in 0..n /\ i \in 0..p /\ i \in d + 1 .. n /\ (n - i) % 2 = 1
      BY <1>4, <1>5, <1>10, <2>1
    <3>2. Mover(i) = Flip(m.by)
      BY <1>5, <1>15, <3>1, MoverByParity
    <3> QED BY <1>14, <1>15, <1>17, <3>1, <3>2 DEF Checked
  <2>2. \A j \in 0..p : (p - j) % 2 = 0 /\ (\A i \in j..p : (p - i) % 2 = 0 => Checked(i)) => j > p - 2 * y
    BY <1>4 DEF PerpetualInv, RowsAreCounted
  <2>3. d + 1 \in 0..p /\ (p - (d + 1)) % 2 = 0
    BY <1>4, <1>5, <1>10, <1>11
  <2>4. d + 1 > p - 2 * y
    BY <2>1, <2>2, <2>3
  <2>5. p - d # 2 * y
    BY <1>4, <1>5, <1>10
  <2>6. y >= 6 /\ d >= p - y * 2 + 1
    BY <1>5, <1>10, <1>11, <2>4, <2>5
  <2>7. PICK f : f = FirstChecked(p, y)
    OBVIOUS
  <2>8. f \in Nat /\ d >= f
    <3>1. y \in Nat
      BY <1>5
    <3> QED BY <1>5, <1>10, <2>6, <2>7, <3>1, FirstCheckedIs
  <2>9. m \in GenEvasion(root.turn, root.pos)
    BY <1>1 DEF PseudoLegal, GenEvasion
  <2>10. ~(Cardinality(Same(m.to, p - 3, f)) >= 3)
    BY <1>4, <2>6, <2>7, <2>9 DEF PerpetualInv, NoFourthAfterChecks
  <2>11. {a, b, d} \in SUBSET Same(m.to, p - 3, f)
    <3>1. \A i \in E : i \in 0..(p - 3) /\ (p - 3 - i) % 2 = 0 /\ After(i) = m.to
      BY <1>4 DEF Earlier, Same
    <3>2. \A i \in {a, b, d} : i \in E /\ i >= f
      BY <1>9, <1>10, <2>8
    <3>3. \A i \in {a, b, d} : i \in f..(p - 3)
      BY <1>5, <2>8, <3>1, <3>2
    <3> QED BY <3>1, <3>2, <3>3 DEF Same
  <2>12. IsFiniteSet(Same(m.to, p - 3, f)) /\ Cardinality(Same(m.to, p - 3, f)) \in Nat
    <3>1. p - 3 \in Int
      BY <1>5
    <3> QED BY <2>8, <3>1, SameIsFinite
  <2>13. Cardinality({a, b, d}) = 3
    BY <1>11, SizesOfLists
  <2>14. Cardinality({a, b, d}) <= Cardinality(Same(m.to, p - 3, f))
    BY <2>11, <2>12, FS_Subset
  <2> QED BY <2>10, <2>12, <2>13, <2>14
<1>18. s = m.by \/ s = Flip(m.by)
  BY RootAssumption DEF Sides, Flip
<1> QED BY <1>16, <1>17, <1>18

(* Every step keeps the four parts of the invariant.                       *)
LEMMA NextPerpetual ==
  ASSUME MaxPlies <= RepLimit, MaxPlies <= 509, MaxUndos = 0, NothingIsMovedBack
  PROVE  PerpetualInv /\ RootTypeOK /\ [Next]_rootVars => PerpetualInv'
<1> SUFFICES ASSUME PerpetualInv, RootTypeOK, [Next]_rootVars PROVE PerpetualInv'
  OBVIOUS
<1>1. TableInv' /\ WholeGame
  BY NextTable DEF PerpetualInv, TableIsLargeEnough, WholeGame
<1>2. ASSUME cookies' = cookies, root'.check0 = root.check0, root'.check1 = root.check1,
             root'.turn = root.turn, root'.pos = root.pos, root'.status = root.status
      PROVE  PerpetualInv'
  <2>1. Plies' = Plies /\ \A i : After(i)' = After(i)
    BY <1>2 DEF Plies, After
  <2>2. RowsAreCounted'
    BY <1>2, <2>1 DEF PerpetualInv, RowsAreCounted, Checked
  <2>3. \A p, l, f : Same(p, l, f)' = Same(p, l, f)
    BY <1>2 DEF Same, After
  <2>4. \A p : Same(p, Plies - 3, FirstChecked(Plies, root.check1))'
             = Same(p, Plies - 3, FirstChecked(Plies, root.check1))
    BY <1>2, <2>1 DEF Same
  <2>5. NoFourthAfterChecks'
    BY <1>2, <2>4 DEF PerpetualInv, NoFourthAfterChecks
  <2>6. DrawnRightly'
    <3>1. Occurrences(Plies)' = Occurrences(Plies)
      BY <2>1 DEF Occurrences
    <3>2. FirstOfFour(Plies)' = FirstOfFour(Plies)
      BY <3>1 DEF FirstOfFour
    <3>3. \A s : OnlyChecks(s, FirstOfFour(Plies), Plies)' <=> OnlyChecks(s, FirstOfFour(Plies), Plies)
      BY <2>1, <3>2 DEF OnlyChecks
    <3> QED BY <1>2, <3>3 DEF PerpetualInv, DrawnRightly
  <2> QED BY <1>1, <2>2, <2>5, <2>6 DEF PerpetualInv
<1>3. ASSUME NEW m \in MoveGraph, MakesMove(m) PROVE PerpetualInv'
  <2>1. /\ Plies \in Nat /\ root \in Root /\ PseudoLegal(m) /\ Plies < MaxPlies
        /\ cookies' = Append(cookies, m)
    BY <1>1, <1>3, PastIsHistory DEF MakesMove
  <2>2. Plies < 509
    BY <2>1, RootAssumption
  <2>3. root'.check0 = root.check1 /\ root'.check1 = ChecksWith(root, m)
    BY <1>3, <2>1, MadeFields
  <2>4. RowsAreCounted'
    BY <1>1, <2>1, <2>2, <2>3, MadeRows DEF PerpetualInv
  <2> QED BY <1>1, <1>3, <2>4, MadeNoFourth, MadeDrawnRightly DEF PerpetualInv
<1>4. CASE KeepsGame
  BY <1>2, <1>4 DEF KeepsGame
<1>5. CASE Undo
  BY <1>5 DEF Undo, RootTypeOK
<1>6. CASE UNCHANGED rootVars
  BY <1>2, <1>6 DEF rootVars
<1> QED BY <1>3, <1>4, <1>5, <1>6, HumanMoveCases, ComputerMoveCases DEF Next

(* As long as a game fits into the repetition table and nothing is taken   *)
(* back, no game is drawn whose last four occurrences of a position one    *)
(* side brought about with nothing but checks: the verdict of each of the  *)
(* two sides is refused when it makes the occurrence or lets it be made.   *)
THEOREM PerpetualChecksDrawNoGame ==
  ASSUME MaxPlies <= RepLimit, MaxPlies <= 509, MaxUndos = 0, NothingIsMovedBack
  PROVE  Spec => []NoDrawByPerpetualCheck
<1>1. PerpetualInv => NoDrawByPerpetualCheck
  BY DEF PerpetualInv, DrawnRightly, NoDrawByPerpetualCheck
<1>2. PerpetualInv /\ RootTypeOK /\ [Next]_rootVars => PerpetualInv'
  BY NextPerpetual
<1> QED BY <1>1, <1>2, InitPerpetual, RootTypeCorrect, PTL DEF Spec
=============================================================================
