---------------------------- MODULE RootPosition ----------------------------
(***************************************************************************)
(* The root position of the engine: ini_game, make_move_root (makemove.c), *)
(* detect_repetition (utility.c), the root move list (root.c), the         *)
(* computer's turn (com_turn_start) and undo (shogi_jni.c), with every     *)
(* value they keep between two calls.                                      *)
(*                                                                         *)
(* The rules of shogi are a graph: a position is a board with its hands,   *)
(* a move leads from one to another.  A hash key stands for its position:  *)
(* collisions are left out.                                                *)
(***************************************************************************)
EXTENDS Integers, Sequences, SequencesExt, FiniteSets

CONSTANTS
  Positions,   \* boards with hands
  MoveGraph,   \* the pseudo-legal moves, [by, from, to]
  Checks,      \* <<side, position>>: the king of side is attacked
  Material,    \* eval_material of a position
  Start,       \* the position and
  StartTurn,   \* side to move the game starts from
  Computer,    \* the sides the engine is asked to play, at times or always
  RepLimit,    \* REP_HIST_LEN - PLY_MAX - 1
  MaxPlies,    \* bound: length of a game
  MaxUndos     \* bound: undos in a behaviour

Sides == {"BLACK", "WHITE"}
Flip(turn) == IF turn = "BLACK" THEN "WHITE" ELSE "BLACK"

ASSUME RootAssumption ==
  /\ MoveGraph \subseteq [by : Sides, from : Positions, to : Positions]
  /\ Checks \subseteq Sides \X Positions
  /\ Material \in [Positions -> Int]
  /\ Start \in Positions
  /\ StartTurn \in Sides
  /\ Computer \subseteq Sides
  /\ RepLimit \in Nat \ {0}
  /\ MaxPlies \in Nat
  /\ MaxUndos \in Nat

NoMove == [by |-> "NOBODY", from |-> Start, to |-> Start]
Garbage == "garbage"   \* a hash key read outside of rep_board_list

VARIABLES
  root,      \* the engine's variables, see Root
  cookies,   \* the moves the callers keep for undo (mMoveCookies)
  outcome,   \* what the last call said: a verdict and a move
  undone     \* counts undos, for the bound

rootVars == <<root, cookies, outcome, undone>>

Root ==
  [pos : Positions,                         \* BOARD, HAND_B, HAND_W, bitboards
   key : Positions \cup {Garbage},          \* HASH_KEY
   turn : Sides,                            \* root_turn
   status : SUBSET {"mated", "drawn"},      \* game_status
   rep : Seq(Positions \cup {Garbage}),     \* rep_board_list up to root_nrep
   check0 : 0..255, check1 : 0..255,        \* nsuc_check[0] and [1]
   checkSave : 0..255,                      \* nsuc_check[PLY_MAX]
   material : Int,                          \* MATERIAL
   materialSave : Int,                      \* save_material[0]
   pv : Seq(MoveGraph),                     \* last_pv
   pvSave : Seq(MoveGraph)]                 \* last_pv_save

Verdicts == {"none", "ok", "hang", "perpetual", "no moves"}

InCheck(side, p) == <<side, p>> \in Checks

(* GenEvasion: the moves of a side in check that leave no check.           *)
GenEvasion(turn, p) ==
  {m \in MoveGraph : m.by = turn /\ m.from = p /\ ~InCheck(turn, m.to)}

IsMate(turn, p) == GenEvasion(turn, p) = {}

-----------------------------------------------------------------------------
(* detect_repetition for the side to move turn in the position here, which *)
(* the opponent reached with his ncheck-th check in a row; past holds the  *)
(* positions before, past[i + 1] is rep_board_list[i].                     *)
Recurrences(past, here, last, first) ==
  {i \in first..last : (last - i) % 2 = 0 /\ past[i + 1] = here}

NotNegative(i) == IF i < 0 THEN 0 ELSE i

(* Where the positions of a row of ncheck checks begin.                    *)
FirstChecked_Late(n, ncheck) == NotNegative(n - ncheck * 2 + 3)
FirstChecked(n, ncheck) == NotNegative(n - ncheck * 2 + 1)

DetectRepetition(past, here, turn, ncheck, nth) ==
  LET n == Len(past)
      evadesIntoRepetition ==
        /\ ncheck >= nth * 2
        /\ \E m \in GenEvasion(turn, here) :
             Cardinality(Recurrences(past, m.to, n - 3, FirstChecked(n, ncheck))) >= nth
      earlier == Recurrences(past, here, n - 4, 0)
      nthLast == CHOOSE i \in earlier : Cardinality({j \in earlier : j >= i}) = nth
  IN IF evadesIntoRepetition THEN "perpetual"
     ELSE IF Cardinality(earlier) < nth THEN "no_rep"
     ELSE IF (ncheck - 1) * 2 >= n - nthLast THEN "perpetual"
     ELSE "four_fold"

-----------------------------------------------------------------------------
Init ==
  /\ root = [pos |-> Start, key |-> Start, turn |-> StartTurn,
             status |-> IF InCheck(StartTurn, Start) /\ IsMate(StartTurn, Start)
                        THEN {"mated"} ELSE {},
             rep |-> <<>>,
             check0 |-> 0,
             check1 |-> IF InCheck(StartTurn, Start) THEN 1 ELSE 0,
             checkSave |-> 0,
             material |-> Material[Start], materialSave |-> 0,
             pv |-> <<>>, pvSave |-> <<>>]
  /\ cookies = <<>>
  /\ outcome = [verdict |-> "none", move |-> NoMove]
  /\ undone = 0

(* How many checks in a row the mover has given when he makes m.           *)
ChecksWith_NoReset(r, m) ==
  IF InCheck(Flip(m.by), m.to) THEN (r.check0 + 1) % 256 ELSE r.check0
ChecksWith(r, m) == IF InCheck(Flip(m.by), m.to) THEN (r.check0 + 1) % 256 ELSE 0

Verdict(r, m, nth) ==
  DetectRepetition(Append(r.rep, r.key), m.to, Flip(m.by), ChecksWith(r, m), nth)

(* The third occurrence before this one is the fourth of the position.     *)
RepetitionNth_Third == 2
RepetitionNth == 3

(* The repetition table keeps RepLimit positions and forgets the oldest.   *)
RenewedTable(rep, key) ==
  IF Len(rep) >= RepLimit THEN Tail(Append(rep, key)) ELSE Append(rep, key)

RenovatedPv_LengthKept(pv, m) ==
  IF pv # <<>> /\ Head(pv) = m /\ Len(pv) >= 2 THEN Tail(pv) ELSE <<NoMove>>
RenovatedPv(pv, m) ==
  IF pv # <<>> /\ Head(pv) = m /\ Len(pv) >= 2 THEN Tail(pv) ELSE <<>>

(* make_move_root of a move that passes its checks.                        *)
Made(r, m) ==
  LET drawn == IF Verdict(r, m, RepetitionNth) = "four_fold" THEN {"drawn"} ELSE {}
      mated == IF InCheck(Flip(m.by), m.to) /\ IsMate(Flip(m.by), m.to)
               THEN {"mated"} ELSE {}
  IN [pos |-> m.to, key |-> m.to, turn |-> Flip(r.turn),
      status |-> r.status \cup drawn \cup mated,
      rep |-> RenewedTable(r.rep, r.key),
      check0 |-> r.check1, check1 |-> ChecksWith(r, m), checkSave |-> r.check0,
      material |-> r.material + Material[m.to] - Material[m.from],
      materialSave |-> r.material,
      pv |-> RenovatedPv(r.pv, m), pvSave |-> r.pv]

(* A refused move is unmade, but save_material[0] was already written.     *)
Refused(r) == [r EXCEPT !.materialSave = r.material]

(* make_move_root when the caller asks for the checks in wanted.           *)
MakeMoveRoot(r, m, wanted) ==
  IF "hang" \in wanted /\ InCheck(m.by, m.to)
  THEN [verdict |-> "hang", root |-> Refused(r)]
  ELSE IF Verdict(r, m, RepetitionNth) = "perpetual"
  THEN [verdict |-> "perpetual", root |-> Refused(r)]
  ELSE [verdict |-> "ok", root |-> Made(r, m)]

(* unmake_move_root.  HASH_KEY comes back from the table.                  *)
TableBefore_Kept(rep) == rep
TableBefore(rep) == IF rep = <<>> THEN <<>> ELSE Front(rep)

UnmakeMoveRoot(r, m) ==
  [pos |-> m.from,
   key |-> IF r.rep = <<>> THEN Garbage ELSE Last(r.rep),
   turn |-> Flip(r.turn),
   status |-> r.status \ {"mated", "drawn"},
   rep |-> TableBefore(r.rep),
   check0 |-> r.checkSave, check1 |-> r.check0, checkSave |-> r.checkSave,
   material |-> r.materialSave, materialSave |-> r.materialSave,
   pv |-> r.pvSave, pvSave |-> r.pvSave]

-----------------------------------------------------------------------------
PseudoLegal(m) == m.by = root.turn /\ m.from = root.pos

Answer(m, result) ==
  /\ root' = result.root
  /\ cookies' = IF result.verdict = "ok" THEN Append(cookies, m) ELSE cookies
  /\ UNCHANGED undone

(* humanMove: a move of the side to move, checked in every respect.        *)
HumanMove ==
  \E m \in MoveGraph :
    LET result == MakeMoveRoot(root, m, {"hang"}) IN
    /\ root.status = {}
    /\ Len(cookies) < MaxPlies
    /\ PseudoLegal(m)
    /\ Answer(m, result)
    /\ outcome' = [verdict |-> result.verdict, move |-> m]

(* make_root_move_list drops the moves that hang the king, and the checks  *)
(* that detect_repetition calls perpetual one occurrence early.            *)
RootNth_Late == 4
RootNth == 2

RootMoveList(r) ==
  {m \in MoveGraph :
     /\ m.by = r.turn /\ m.from = r.pos
     /\ ~InCheck(m.by, m.to)
     /\ ~(ChecksWith(r, m) >= 2 * 2 /\ Verdict(r, m, RootNth) = "perpetual")}

(* The move computerMove reports.                                          *)
ReportedMove_Renovated(r) == IF r.pv = <<>> THEN NoMove ELSE Head(r.pv)
ReportedMove(r) == Head(r.pvSave)

(* computerMove: com_turn_start searches the root moves and makes one; the *)
(* line the search expects after it is arbitrary.  Without a root move, or *)
(* if the move is refused, com_turn_start fails and CHECK2_GE aborts.      *)
ComputerMove ==
  /\ root.turn \in Computer
  /\ root.status = {}
  /\ Len(cookies) < MaxPlies
  /\ outcome.verdict # "no moves"
  /\ \/ /\ RootMoveList(root) = {}
        /\ outcome' = [verdict |-> "no moves", move |-> NoMove]
        /\ UNCHANGED <<root, cookies, undone>>
     \/ \E m \in RootMoveList(root) :
        \E line \in {<<>>} \cup {<<e>> : e \in GenEvasion(Flip(m.by), m.to)} :
          LET result == MakeMoveRoot([root EXCEPT !.pv = <<m>> \o line], m, {}) IN
          /\ Answer(m, result)
          /\ outcome' = IF result.verdict = "ok"
                        THEN [verdict |-> "ok", move |-> ReportedMove(result.root)]
                        ELSE [verdict |-> "no moves", move |-> NoMove]

(* undo: the last two moves, named by the caller who has the turn.         *)
Undone_Reversed(r, last, penultimate) ==
  UnmakeMoveRoot(UnmakeMoveRoot(r, penultimate), last)
Undone(r, last, penultimate) ==
  UnmakeMoveRoot(UnmakeMoveRoot(r, last), penultimate)

Undo ==
  LET n == Len(cookies) IN
  /\ root.status = {}
  /\ undone < MaxUndos
  /\ n >= 2
  /\ root' = Undone(root, cookies[n], cookies[n - 1])
  /\ cookies' = SubSeq(cookies, 1, n - 2)
  /\ undone' = undone + 1
  /\ outcome' = [verdict |-> "none", move |-> NoMove]

Next == HumanMove \/ ComputerMove \/ Undo

Spec == Init /\ [][Next]_rootVars

-----------------------------------------------------------------------------
(* Correctness.                                                            *)

(* The position after k plies, and the history of positions.               *)
After(k) == IF k = 0 THEN Start ELSE cookies[k].to
Plies == Len(cookies)

(* The side that has made ply k.                                           *)
Mover(k) == IF k % 2 = 1 THEN StartTurn ELSE Flip(StartTurn)

(* The plies at which the position of ply k occurred with the same turn.   *)
Occurrences(k) == {j \in 0..k : (k - j) % 2 = 0 /\ After(j) = After(k)}

(* Side s has given check with every move of plies j+1..k.                 *)
OnlyChecks(s, j, k) ==
  \A i \in j + 1 .. k : Mover(i) = s => InCheck(Flip(s), After(i))

(* From the first to the fourth of the occurrences.                        *)
FirstOfFour(k) ==
  CHOOSE j \in Occurrences(k) : Cardinality({i \in Occurrences(k) : i >= j}) = 4

(* All values are in their domains.                                        *)
RootTypeOK ==
  /\ root \in Root
  /\ cookies \in Seq(MoveGraph)
  /\ outcome \in [verdict : Verdicts, move : MoveGraph \cup {NoMove}]
  /\ undone \in Nat

(* The board, the side to move and the moves kept for undo are one game:   *)
(* each move starts where the one before it led, and the last one led to   *)
(* the position on the board.                                              *)
BoardFollowsTheGame ==
  /\ root.pos = After(Plies)
  /\ root.turn = Mover(Plies + 1)
  /\ \A k \in 1..Plies : cookies[k].from = After(k - 1) /\ cookies[k].by = Mover(k)

(* The repetition table holds the positions of the game before the present *)
(* one, or the last of them, also after moves were taken back; the hash    *)
(* key is that of the board ("hash signature" in exam_bb, debug.c).        *)
TableIsHistory ==
  /\ root.key = root.pos
  /\ Len(root.rep) <= Plies
  /\ \A i \in 1..Len(root.rep) : root.rep[i] = After(Plies - Len(root.rep) + i - 1)

(* A game is drawn exactly when its position has occurred four times.      *)
DrawnAtTheFourth ==
  ("drawn" \in root.status) = (Cardinality(Occurrences(Plies)) >= 4)

(* No game is drawn by the repetition of a side that gave nothing but      *)
(* checks: the fourth occurrence of a perpetual check is refused to the    *)
(* checking side, before or when it comes about.                           *)
NoDrawByPerpetualCheck ==
  "drawn" \in root.status =>
    \A s \in Sides : ~OnlyChecks(s, FirstOfFour(Plies), Plies)

(* With the check m, or the opponent's answer to it, a position occurs     *)
(* again that has occurred at least n times, with no other moves than      *)
(* checks since the n-th last of these.                                    *)
RepeatsByChecks(m, n) ==
  LET targets == {<<m.to, 1>>} \cup {<<e.to, 2>> : e \in GenEvasion(Flip(m.by), m.to)}
  IN \E t \in targets :
       LET same == {j \in 0..Plies : (Plies + t[2] - j) % 2 = 0 /\ After(j) = t[1]} IN
       /\ InCheck(Flip(m.by), m.to)
       /\ Cardinality(same) >= n
       /\ \E j \in same :
            /\ Cardinality({i \in same : i >= j}) = n
            /\ OnlyChecks(m.by, j, Plies)

(* A move is refused as perpetual check only if it is a check that makes   *)
(* the fourth occurrence of a position, or lets the opponent make it, with *)
(* no other moves than checks since the first one.                         *)
OnlyPerpetualCheckIsRefused ==
  outcome.verdict = "perpetual" => RepeatsByChecks(outcome.move, 3)

(* The search gives up, and the app with it (CHECK2_GE in computerMove),   *)
(* only if every legal move is a check that makes the third occurrence of  *)
(* a position, or lets the opponent make it, with no other moves than      *)
(* checks since the first: neither is a move that the root list keeps      *)
(* refused later, nor does the list drop any other.                        *)
GivesUpOnlyOnRepeatedChecks ==
  outcome.verdict = "no moves" =>
    \A m \in MoveGraph :
      PseudoLegal(m) /\ ~InCheck(m.by, m.to) => RepeatsByChecks(m, 2)

(* What computerMove reports is the move that was made.                    *)
ReportedMoveIsMade ==
  outcome.verdict = "ok" => cookies # <<>> /\ outcome.move = Last(cookies)

(* The session model (BonanzaJNI) sees the root position as the sequence of *)
(* plays, the turn and the end flags.  It is right to: every step here is  *)
(* one of its MakeMoveRoot and UnmakeMoveRoot, or changes nothing.         *)
JNI == INSTANCE BonanzaJNI WITH
  NActivities <- 1, Moves <- MoveGraph, Drops <- {}, MaxPlies <- MaxPlies + 1,
  MatedBoards <- {}, InitMayFail <- FALSE,
  g_init <- "ok", g_instance_id <- 1, jr <- <<>>, aborted <- FALSE,
  tree <- <<>>

Tree == [plays |-> [k \in 1..Plies |-> [by |-> cookies[k].by, move |-> cookies[k]]],
         turn |-> root.turn, status |-> root.status, intact |-> root.pos = After(Plies)]

RootIsTheTree ==
  [][\/ UNCHANGED Tree
     \/ \E m \in MoveGraph, raised \in SUBSET JNI!EndFlags :
          Tree' = JNI!MakeMoveRoot(Tree, m, raised)
     \/ /\ Plies >= 2
        /\ Tree' = JNI!UnmakeMoveRoot(JNI!UnmakeMoveRoot(Tree, cookies[Plies]),
                                      cookies[Plies - 1])]_rootVars

(* "value of material" in exam_bb (debug.c).                               *)
MaterialIsRight == root.material = Material[root.pos]
=============================================================================
