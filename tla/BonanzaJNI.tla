----------------------------- MODULE BonanzaJNI -----------------------------
(***************************************************************************)
(* The native interface of the Bonanza engine (jni/shogi_jni.c), as the    *)
(* Java side sees it.  There is one engine per process, protected by       *)
(* g_lock, and any number of callers: the controller thread of every       *)
(* GameActivity that was ever created.  Each call holds g_lock from its    *)
(* first to its last statement, so a call is one step; what it returns is  *)
(* left in the caller's BonanzaJNI.Result object, jr[c].                   *)
(*                                                                         *)
(* A board is abstracted to the sequence of the plays that led to it from  *)
(* the handicap position, and the rules of shogi to a choice: which move   *)
(* the engine accepts or picks, and whether that move ends the game.       *)
(***************************************************************************)
EXTENDS Integers, Sequences, SequencesExt

CONSTANTS
  NActivities,  \* bound: how many GameActivity objects a run creates
  Moves,        \* encoded moves ("cookies"); CSA strings stand for the same values
  Drops,        \* the moves that drop a captured piece
  NoMove,       \* the cookie 0 and the null move string
  MaxPlies,     \* bound: a move that makes the game this long ends it
  MatedBoards,  \* boards a game may be resumed from whose side to move is mated
  InitMayFail   \* may the database files be unusable, or initialisation be late?

ASSUME JNIAssumption ==
  /\ NActivities \in Nat \ {0}
  /\ Drops \subseteq Moves
  /\ NoMove \notin Moves
  /\ MaxPlies \in Nat
  /\ InitMayFail \in BOOLEAN

Callers == 1..NActivities
Sides == {"BLACK", "WHITE"}

(* Player.opponent(), which is root_turn ^ 1 in C. *)
Opponent(p) ==
  CASE p = "BLACK" -> "WHITE"
    [] p = "WHITE" -> "BLACK"
    [] OTHER -> "INVALID"

(* The side that made a play, and the move. *)
Play == [by : Sides, move : Moves]
EndFlags == {"mated", "drawn"}
Status == {"OK", "ILLEGAL_MOVE", "CHECKMATE", "DRAW", "INSTANCE_DELETED"}

VARIABLES
  g_init,         \* "no", "ok" or "failed": g_initialized and g_initialization_error
  g_instance_id,  \* the number of the game the engine plays
  tree,           \* the root position: plays, whose turn it is, its end flags
  jr,             \* jr[c]: what the call of c returned and c has not used yet
  aborted         \* CheckFailure has called abort()

jniVars == <<g_init, g_instance_id, tree, jr, aborted>>

Tree == [plays : Seq(Play), turn : Sides, status : SUBSET EndFlags, intact : BOOLEAN]

NoResult == [status |-> "none", error |-> FALSE, move |-> NoMove,
             instance |-> 0, board |-> <<>>]
JniResult == [status : Status, error : BOOLEAN, move : Moves \cup {NoMove},
              instance : Int, board : Seq(Play)]

JNIInit ==
  /\ g_init \in (IF InitMayFail THEN {"no"} ELSE {"ok"})
  /\ g_instance_id = 0
  /\ tree = [plays |-> <<>>, turn |-> "BLACK", status |-> {}, intact |-> TRUE]
  /\ jr = [c \in Callers |-> NoResult]
  /\ aborted = FALSE

FillResult(c, status, error, move, instance, board) ==
  jr' = [jr EXCEPT ![c] = [status |-> status, error |-> error, move |-> move,
                           instance |-> instance, board |-> board]]

(* The first end flag that is set decides. *)
GameStatusToReturnCode(status) ==
  IF "mated" \in status THEN "CHECKMATE"
  ELSE IF "drawn" \in status THEN "DRAW"
  ELSE "OK"

(* The end flags a legal move may raise.  The bound on the game's length   *)
(* only takes the choice "the game goes on" away.                          *)
RaisedFlags(t) ==
  {{"mated"}, {"drawn"}} \cup (IF Len(t.plays) + 1 < MaxPlies THEN {{}} ELSE {})

(* ini_game notices that the side to move is mated, startGame does not.    *)
IniGame(board, turn) ==
  [plays |-> board, turn |-> turn, intact |-> TRUE,
   status |-> IF board \in MatedBoards THEN {"mated"} ELSE {}]

MakeMoveRoot(t, m, raised) ==
  [plays |-> Append(t.plays, [by |-> t.turn, move |-> m]),
   turn |-> Opponent(t.turn),
   status |-> t.status \cup raised,
   intact |-> t.intact]

(* unmake_move_root trusts its argument.  A move that is not the last one  *)
(* wrecks the board, which is all the model remembers of it.               *)
UnmakeMoveRoot(t, m) ==
  LET n == Len(t.plays) IN
  [plays |-> IF n = 0 THEN <<>> ELSE Front(t.plays),
   turn |-> Opponent(t.turn),
   status |-> t.status \ EndFlags,
   intact |-> t.intact /\ n > 0 /\ (n > 0 => t.plays[n].move = m)]

-----------------------------------------------------------------------------
(* BonanzaJNI.initialize, called by the thread StartScreenActivity starts. *)
Initialize ==
  /\ g_init = "no"
  /\ g_init' \in {"ok", "failed"}
  /\ UNCHANGED <<g_instance_id, tree, jr, aborted>>

(* The number of the next game; a call for another game is refused.        *)
NextInstance_Reused == 1
NextInstance == g_instance_id + 1

IsCurrent_Unchecked(instance) == TRUE
IsCurrent(instance) == instance = g_instance_id

(* startGame.  Whatever branch is taken, the last FillResult of the C      *)
(* function stores R_OK; of an error only the message stays, and the       *)
(* returned instance is -1.                                                *)
StartGame(c, resume, board, turn) ==
  \/ /\ g_init # "ok"
     /\ FillResult(c, "OK", TRUE, NoMove, -1, tree.plays)
     /\ UNCHANGED <<g_init, g_instance_id, tree, aborted>>
  \/ /\ g_init = "ok"
     /\ resume # 0
     /\ IsCurrent(resume)
     /\ FillResult(c, "OK", FALSE, NoMove, resume, tree.plays)
     /\ UNCHANGED <<g_init, g_instance_id, tree, aborted>>
  \/ /\ g_init = "ok"
     /\ resume = 0 \/ ~IsCurrent(resume)
     /\ g_instance_id' = NextInstance
     /\ tree' = IniGame(board, turn)
     /\ FillResult(c, "OK", FALSE, NoMove, g_instance_id', board)
     /\ UNCHANGED <<g_init, aborted>>

AnotherInstanceStarted(c, instance) ==
  /\ ~IsCurrent(instance)
  /\ FillResult(c, "INSTANCE_DELETED", TRUE, NoMove, 0, <<>>)
  /\ UNCHANGED <<g_init, g_instance_id, tree, aborted>>

(* interpret_CSA_move looks the piece up on the engine's own board and     *)
(* only accepts moves of the side to move; a drop names no side.           *)
BelongsToMover(play) == play.by = tree.turn \/ play.move \in Drops

HumanMove(c, instance, play) ==
  \/ AnotherInstanceStarted(c, instance)
  \/ /\ IsCurrent(instance)
     /\ FillResult(c, "ILLEGAL_MOVE", TRUE, NoMove, 0, tree.plays)
     /\ UNCHANGED <<g_init, g_instance_id, tree, aborted>>
  \/ /\ IsCurrent(instance)
     /\ BelongsToMover(play)
     /\ "mated" \notin tree.status
     /\ \E raised \in RaisedFlags(tree) :
          /\ tree' = MakeMoveRoot(tree, play.move, raised)
          /\ FillResult(c, GameStatusToReturnCode(tree'.status), FALSE,
                        play.move, 0, tree'.plays)
     /\ UNCHANGED <<g_init, g_instance_id, aborted>>

(* computerMove.  com_turn_start plays for the side whose turn it is in    *)
(* the engine.  A mated side has no move: iterate fails and CHECK2_GE      *)
(* aborts the process.                                                     *)
ComputerMove(c, instance) ==
  \/ AnotherInstanceStarted(c, instance)
  \/ /\ IsCurrent(instance)
     /\ "mated" \in tree.status
     /\ aborted' = TRUE
     /\ UNCHANGED <<g_init, g_instance_id, tree, jr>>
  \/ /\ IsCurrent(instance)
     /\ "mated" \notin tree.status
     /\ \E m \in Moves, raised \in RaisedFlags(tree) :
          /\ tree' = MakeMoveRoot(tree, m, raised)
          /\ FillResult(c, GameStatusToReturnCode(tree'.status), FALSE,
                        m, 0, tree'.plays)
     /\ UNCHANGED <<g_init, g_instance_id, aborted>>

Undo(c, instance, cookie1, cookie2) ==
  \/ AnotherInstanceStarted(c, instance)
  \/ /\ IsCurrent(instance)
     /\ tree' = UnmakeMoveRoot(UnmakeMoveRoot(tree, cookie1), cookie2)
     /\ FillResult(c, "OK", FALSE, NoMove, 0, tree'.plays)
     /\ UNCHANGED <<g_init, g_instance_id, aborted>>

-----------------------------------------------------------------------------
JNITypeOK ==
  /\ g_init \in {"no", "ok", "failed"}
  /\ g_instance_id \in Nat
  /\ tree \in Tree
  /\ jr \in [Callers -> JniResult \cup {NoResult}]
  /\ aborted \in BOOLEAN
=============================================================================
