------------------------- MODULE BonanzaController -------------------------
(***************************************************************************)
(* BonanzaController: the thread that stands between one GameActivity and  *)
(* the engine.  Its public methods put a command in the queue of a         *)
(* HandlerThread and return; the thread takes the commands in order, makes *)
(* the native call, and posts a Result to the queue of the activity's      *)
(* event handler.  The native call and the post are two steps, because     *)
(* g_lock is released between them.                                        *)
(***************************************************************************)
EXTENDS BonanzaJNI

Players == Sides \cup {"INVALID"}

GameStates == {"ACTIVE", "BLACK_WON", "WHITE_WON", "DRAW"}

(* The messages of mInputHandler.                                          *)
StartCommand(resume, board, player) ==
  [command |-> "START", resume |-> resume, board |-> board, player |-> player]
HumanCommand(player, play) ==
  [command |-> "HUMAN_PLAY", player |-> player, play |-> play]
ComputerCommand(player) == [command |-> "COMPUTER_PLAY", player |-> player]
UndoCommand(player, cookie1, cookie2) ==
  [command |-> "UNDO", player |-> player, cookie1 |-> cookie1, cookie2 |-> cookie2]
DestroyCommand == [command |-> "DESTROY"]
NoCommand == [command |-> "none"]

EngineCommands ==
  [command : {"START"}, resume : Int, board : Seq(Play), player : Players]
    \cup [command : {"HUMAN_PLAY"}, player : Sides, play : Play]
    \cup [command : {"COMPUTER_PLAY"}, player : Sides]
    \cup [command : {"UNDO"}, player : Sides, cookie1 : Moves, cookie2 : Moves]

Commands == EngineCommands \cup {DestroyCommand}

NoPlay == [by |-> "INVALID", move |-> NoMove]

(* The messages of mOutputHandler: BonanzaController.Result.               *)
Results == [board : Seq(Play), lastMove : Play \cup {NoPlay}, undoMoves : {0, 2},
            nextPlayer : Players, gameState : GameStates]

VARIABLE ctl   \* ctl[c]: the queues and the fields of controller c

Controller ==
  [inq : Seq(Commands),                  \* mInputHandler
   current : EngineCommands \cup {NoCommand},  \* the command whose native call is made
   outq : Seq(Results),                  \* mOutputHandler
   instance : Int,                       \* mInstanceId
   quit : BOOLEAN]                       \* mThread.quit() was called

NewController == [inq |-> <<>>, current |-> NoCommand, outq |-> <<>>,
                  instance |-> -1, quit |-> FALSE]

ControllerInit == ctl = [c \in Callers |-> NewController]

(* sendInputMessage: a message for a looper that has quit is dropped.      *)
SendInput(k, command) ==
  IF k.quit THEN k ELSE [k EXCEPT !.inq = Append(@, command)]

-----------------------------------------------------------------------------
(* Result.fromJNI: what a native result means when it was cur's turn.      *)
Winner(p) == IF p = "BLACK" THEN "BLACK_WON" ELSE "WHITE_WON"

(* Who moves next, and how the game stands, by the native status.          *)
NextPlayer_IllegalPasses(status, cur) ==
  CASE status \in {"OK", "ILLEGAL_MOVE"} -> Opponent(cur)
    [] OTHER -> "INVALID"
NextPlayer_DrawGoesOn(status, cur) ==
  CASE status \in {"OK", "DRAW"} -> Opponent(cur)
    [] status = "ILLEGAL_MOVE" -> cur
    [] OTHER -> "INVALID"
NextPlayer(status, cur) ==
  CASE status = "OK" -> Opponent(cur)
    [] status = "ILLEGAL_MOVE" -> cur
    [] OTHER -> "INVALID"

NewGameState(status, cur) ==
  CASE status \in {"OK", "ILLEGAL_MOVE"} -> "ACTIVE"
    [] status = "CHECKMATE" -> Winner(cur)
    [] OTHER -> "DRAW"

FromJNI(result, cur) ==
  LET move == IF result.move = NoMove THEN NoPlay
              ELSE [by |-> cur, move |-> result.move]
  IN [board |-> result.board,
      lastMove |-> IF result.status = "ILLEGAL_MOVE" THEN NoPlay ELSE move,
      undoMoves |-> 0,
      nextPlayer |-> NextPlayer(result.status, cur),
      gameState |-> NewGameState(result.status, cur)]

(* doUndo: two plays are taken back, so the turn stays with the player.    *)
TurnBeforeUndo_Passes(player) == player
TurnBeforeUndo(player) == Opponent(player)

(* doStart, doHumanPlay, doComputerPlay and doUndo build their reply from  *)
(* the native result.  doStart ignores everything but the board.           *)
ReplyTo(command, result) ==
  CASE command.command = "START" ->
         [board |-> result.board, lastMove |-> NoPlay, undoMoves |-> 0,
          nextPlayer |-> command.player, gameState |-> "ACTIVE"]
    [] command.command = "UNDO" ->
         [FromJNI(result, TurnBeforeUndo(command.player)) EXCEPT !.undoMoves = 2]
    [] OTHER -> FromJNI(result, command.player)

-----------------------------------------------------------------------------
(* The thread takes the next command and makes its native call.            *)
CallEngine(c) ==
  LET k == ctl[c]
      command == Head(k.inq)
  IN /\ ~aborted
     /\ ~k.quit
     /\ k.current = NoCommand
     /\ k.inq # <<>>
     /\ \/ /\ command.command = "START"
           /\ StartGame(c, command.resume, command.board,
                        IF command.player = "BLACK" THEN "BLACK" ELSE "WHITE")
        \/ /\ command.command = "HUMAN_PLAY"
           /\ HumanMove(c, k.instance, command.play)
        \/ /\ command.command = "COMPUTER_PLAY"
           /\ ComputerMove(c, k.instance)
        \/ /\ command.command = "UNDO"
           /\ Undo(c, k.instance, command.cookie1, command.cookie2)
     /\ ctl' = [ctl EXCEPT ![c].inq = Tail(@), ![c].current = command]

(* doStart keeps the instance the engine returned.                         *)
StartedInstance(command, result) == result.instance

(* The thread uses the result of the call.  If the engine now plays        *)
(* another game it stops without a word to the activity.                   *)
PostResult(c) ==
  LET k == ctl[c] IN
  /\ ~aborted
  /\ k.current # NoCommand
  /\ IF jr[c].status = "INSTANCE_DELETED"
     THEN ctl' = [ctl EXCEPT ![c] = [k EXCEPT !.quit = TRUE, !.inq = <<>>,
                                              !.current = NoCommand]]
     ELSE ctl' = [ctl EXCEPT ![c] =
            [k EXCEPT !.outq = Append(@, ReplyTo(k.current, jr[c])),
                      !.current = NoCommand,
                      !.instance = IF k.current.command = "START"
                                   THEN StartedInstance(k.current, jr[c]) ELSE @]]
  /\ jr' = [jr EXCEPT ![c] = NoResult]
  /\ UNCHANGED <<g_init, g_instance_id, tree, aborted>>

(* doDestroy: quit() drops what is still in the queue.                     *)
DoDestroy(c) ==
  /\ ~aborted
  /\ ~ctl[c].quit
  /\ ctl[c].current = NoCommand
  /\ ctl[c].inq # <<>>
  /\ Head(ctl[c].inq) = DestroyCommand
  /\ ctl' = [ctl EXCEPT ![c].quit = TRUE, ![c].inq = <<>>]
  /\ UNCHANGED jniVars

ControllerTypeOK == ctl \in [Callers -> Controller]
=============================================================================
