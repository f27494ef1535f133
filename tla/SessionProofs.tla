--------------------------- MODULE SessionProofs ---------------------------
(***************************************************************************)
(* Theorems about sessions of the app.  Those of the first part hold for   *)
(* any number of activities, any moves and every environment the constants *)
(* allow: rotations at any time, games left at any time, touches during an *)
(* undo, late initialisation.  Those of the second part are about a calm   *)
(* session: what the activity shows is what the engine has, plays          *)
(* alternate, only last moves are taken back, a finished game is searched  *)
(* no more and has been saved, and the whole is a game of ShogiGame; the   *)
(* runs that expect a violation show what happens in one that is not calm. *)
(***************************************************************************)
EXTENDS GameActivity, SequenceTheorems, FiniteSetTheorems, TLAPS

(***************************************************************************)
(* What every native call and every step of a controller preserves.        *)
(***************************************************************************)

(* A side's opponent is a side.                                            *)
LEMMA OpponentIsASide == \A p \in Sides : Opponent(p) \in Sides
BY DEF Sides, Opponent

(* Making a root move leaves a root position.                              *)
LEMMA MakeMoveRootType ==
  ASSUME NEW t \in Tree, NEW m \in Moves, NEW raised \in SUBSET EndFlags
  PROVE  MakeMoveRoot(t, m, raised) \in Tree
<1> DEFINE p == [by |-> t.turn, move |-> m]
<1>1. p \in Play /\ t.plays \in Seq(Play) /\ t.turn \in Sides
  BY DEF Tree, Play
<1>2. Append(t.plays, p) \in Seq(Play)
  BY <1>1, AppendProperties
<1>3. Opponent(t.turn) \in Sides
  BY <1>1, OpponentIsASide
<1> QED
  BY <1>2, <1>3 DEF MakeMoveRoot, Tree

(* Unmaking a root move, the right one or not, leaves a root position.     *)
LEMMA UnmakeMoveRootType ==
  ASSUME NEW t \in Tree, NEW m
  PROVE  UnmakeMoveRoot(t, m) \in Tree
<1> DEFINE n == Len(t.plays)
           plays == IF n = 0 THEN <<>> ELSE Front(t.plays)
<1>1. t.plays \in Seq(Play) /\ t.turn \in Sides /\ t.status \in SUBSET EndFlags
      /\ t.intact \in BOOLEAN
  BY DEF Tree
<1>2. plays \in Seq(Play)
  <2>1. n \in Nat /\ \A i \in 1..n - 1 : t.plays[i] \in Play
    BY <1>1
  <2> QED
    BY <1>1, <2>1, SubSeqProperties, EmptySeq DEF Front
<1>3. Opponent(t.turn) \in Sides
  BY <1>1, OpponentIsASide
<1>4. (t.intact /\ n > 0 /\ (n > 0 => t.plays[n].move = m)) \in BOOLEAN
  OBVIOUS
<1> QED
  BY <1>1, <1>2, <1>3, <1>4 DEF UnmakeMoveRoot, Tree

(* The flags a move may raise are end flags.                               *)
LEMMA RaisedFlagsType == \A t : RaisedFlags(t) \subseteq SUBSET EndFlags
BY DEF RaisedFlags, EndFlags

(* The native status of a live position is one the Java side knows.        *)
LEMMA StatusType == \A s : GameStatusToReturnCode(s) \in Status
BY DEF GameStatusToReturnCode, Status

(* Every call keeps the variables of the engine and of its callers in their *)
(* types: what FillResult stores for caller c is a result.                 *)
LEMMA AnotherInstanceStartedType ==
  ASSUME JNITypeOK, NEW c \in Callers, NEW instance, AnotherInstanceStarted(c, instance)
  PROVE  JNITypeOK'
<1>1. jr' \in [Callers -> JniResult \cup {NoResult}]
  BY EmptySeq DEF AnotherInstanceStarted, Status, JNITypeOK, FillResult, JniResult
<1> QED
  BY <1>1 DEF AnotherInstanceStarted, JNITypeOK

LEMMA StartGameType ==
  ASSUME JNITypeOK, NEW c \in Callers, NEW resume \in Int, NEW board \in Seq(Play),
         NEW turn \in Sides, StartGame(c, resume, board, turn)
  PROVE  JNITypeOK'
<1>0. tree \in Tree /\ tree.plays \in Seq(Play) /\ g_instance_id \in Nat
      /\ "OK" \in Status /\ NoMove \in Moves \cup {NoMove}
  BY DEF JNITypeOK, Tree, Status
<1>1. CASE g_init # "ok"
  <2>1. FillResult(c, "OK", TRUE, NoMove, -1, tree.plays)
        /\ UNCHANGED <<g_init, g_instance_id, tree, aborted>>
    BY <1>1 DEF StartGame
  <2> QED
    BY <2>1, <1>0 DEF JNITypeOK, FillResult, JniResult
<1>2. CASE /\ FillResult(c, "OK", FALSE, NoMove, resume, tree.plays)
           /\ UNCHANGED <<g_init, g_instance_id, tree, aborted>>
  BY <1>2, <1>0 DEF JNITypeOK, FillResult, JniResult
<1>3. CASE /\ g_instance_id' = NextInstance
           /\ tree' = IniGame(board, turn)
           /\ FillResult(c, "OK", FALSE, NoMove, g_instance_id', board)
           /\ UNCHANGED <<g_init, aborted>>
  <2>1. g_instance_id' \in Nat
    BY <1>0, <1>3 DEF NextInstance
  <2>2. tree' \in Tree
    BY <1>3 DEF IniGame, Tree, EndFlags
  <2>3. jr' \in [Callers -> JniResult \cup {NoResult}]
    BY <1>0, <1>3, <2>1 DEF JNITypeOK, FillResult, JniResult
  <2> QED
    BY <1>3, <2>1, <2>2, <2>3 DEF JNITypeOK
<1> QED
  BY <1>1, <1>2, <1>3 DEF StartGame

LEMMA HumanMoveType ==
  ASSUME JNITypeOK, NEW c \in Callers, NEW instance, NEW play \in Play,
         HumanMove(c, instance, play)
  PROVE  JNITypeOK'
<1>0. tree \in Tree /\ tree.plays \in Seq(Play) /\ "ILLEGAL_MOVE" \in Status
      /\ NoMove \in Moves \cup {NoMove} /\ play.move \in Moves
  BY DEF JNITypeOK, Tree, Status, Play
<1>1. CASE AnotherInstanceStarted(c, instance)
  BY <1>1, AnotherInstanceStartedType
<1>2. CASE /\ FillResult(c, "ILLEGAL_MOVE", TRUE, NoMove, 0, tree.plays)
           /\ UNCHANGED <<g_init, g_instance_id, tree, aborted>>
  BY <1>2, <1>0 DEF JNITypeOK, FillResult, JniResult
<1>3. CASE /\ \E raised \in RaisedFlags(tree) :
                /\ tree' = MakeMoveRoot(tree, play.move, raised)
                /\ FillResult(c, GameStatusToReturnCode(tree'.status), FALSE,
                              play.move, 0, tree'.plays)
           /\ UNCHANGED <<g_init, g_instance_id, aborted>>
  <2>1. tree' \in Tree
    BY <1>0, <1>3, MakeMoveRootType, RaisedFlagsType
  <2>2. tree'.plays \in Seq(Play)
    BY <2>1 DEF Tree
  <2>3. jr' \in [Callers -> JniResult \cup {NoResult}]
    BY <1>0, <1>3, <2>2, StatusType DEF JNITypeOK, FillResult, JniResult
  <2> QED
    BY <1>3, <2>1, <2>3 DEF JNITypeOK
<1> QED
  BY <1>1, <1>2, <1>3 DEF HumanMove

LEMMA ComputerMoveType ==
  ASSUME JNITypeOK, NEW c \in Callers, NEW instance, ComputerMove(c, instance)
  PROVE  JNITypeOK'
<1>0. tree \in Tree
  BY DEF JNITypeOK
<1>1. CASE AnotherInstanceStarted(c, instance)
  BY <1>1, AnotherInstanceStartedType
<1>2. CASE aborted' = TRUE /\ UNCHANGED <<g_init, g_instance_id, tree, jr>>
  BY <1>2 DEF JNITypeOK
<1>3. CASE /\ \E m \in Moves, raised \in RaisedFlags(tree) :
                /\ tree' = MakeMoveRoot(tree, m, raised)
                /\ FillResult(c, GameStatusToReturnCode(tree'.status), FALSE,
                              m, 0, tree'.plays)
           /\ UNCHANGED <<g_init, g_instance_id, aborted>>
  <2>1. tree' \in Tree
    BY <1>0, <1>3, MakeMoveRootType, RaisedFlagsType
  <2>2. tree'.plays \in Seq(Play)
    BY <2>1 DEF Tree
  <2>3. jr' \in [Callers -> JniResult \cup {NoResult}]
    BY <1>3, <2>2, StatusType DEF JNITypeOK, FillResult, JniResult
  <2> QED
    BY <1>3, <2>1, <2>3 DEF JNITypeOK
<1> QED
  BY <1>1, <1>2, <1>3 DEF ComputerMove

LEMMA UndoType ==
  ASSUME JNITypeOK, NEW c \in Callers, NEW instance, NEW cookie1, NEW cookie2,
         Undo(c, instance, cookie1, cookie2)
  PROVE  JNITypeOK'
<1>1. CASE AnotherInstanceStarted(c, instance)
  BY <1>1, AnotherInstanceStartedType
<1>2. CASE /\ tree' = UnmakeMoveRoot(UnmakeMoveRoot(tree, cookie1), cookie2)
           /\ FillResult(c, "OK", FALSE, NoMove, 0, tree'.plays)
           /\ UNCHANGED <<g_init, g_instance_id, aborted>>
  <2>1. tree' \in Tree
    BY <1>2, UnmakeMoveRootType DEF JNITypeOK
  <2>2. tree'.plays \in Seq(Play) /\ "OK" \in Status
    BY <2>1 DEF Tree, Status
  <2>3. jr' \in [Callers -> JniResult \cup {NoResult}]
    BY <1>2, <2>2 DEF JNITypeOK, FillResult, JniResult
  <2> QED
    BY <1>2, <2>1, <2>3 DEF JNITypeOK
<1> QED
  BY <1>1, <1>2 DEF Undo

-----------------------------------------------------------------------------
(* Putting a command in the queue of a controller leaves a controller.     *)
LEMMA SendInputType ==
  ASSUME NEW k \in Controller, NEW command \in Commands
  PROVE  SendInput(k, command) \in Controller
<1>1. Append(k.inq, command) \in Seq(Commands)
  BY AppendProperties DEF Controller
<1> QED
  BY <1>1 DEF SendInput, Controller

(* The fields of what a caller finds in its Result object, if anything.    *)
LEMMA ResultFields ==
  ASSUME NEW result \in JniResult \cup {NoResult}
  PROVE  /\ result.board \in Seq(Play)
         /\ result.move \in Moves \cup {NoMove}
         /\ result.instance \in Int
<1>1. CASE result \in JniResult
  BY <1>1 DEF JniResult
<1>2. CASE result = NoResult
  BY <1>2, EmptySeq DEF NoResult
<1> QED
  BY <1>1, <1>2

(* What a controller posts is a result its activity can handle.            *)
LEMMA FromJNIType ==
  ASSUME NEW result \in JniResult \cup {NoResult}, NEW cur \in Sides
  PROVE  FromJNI(result, cur) \in Results
<1>1. NextPlayer(result.status, cur) \in Players
  BY OpponentIsASide DEF NextPlayer, Players
<1>2. NewGameState(result.status, cur) \in GameStates
  BY DEF NewGameState, Winner, GameStates
<1>3. result.board \in Seq(Play) /\ result.move \in Moves \cup {NoMove}
  BY ResultFields
<1> QED
  BY <1>1, <1>2, <1>3 DEF FromJNI, Results, Play

LEMMA ReplyToType ==
  ASSUME NEW result \in JniResult \cup {NoResult}, NEW command \in EngineCommands
  PROVE  ReplyTo(command, result) \in Results
<1>1. result.board \in Seq(Play)
  BY ResultFields
<1>2. CASE command.command = "START"
  <2>1. command.player \in Players
    BY <1>2 DEF EngineCommands, Players
  <2> QED
    BY <1>1, <1>2, <2>1 DEF ReplyTo, Results, GameStates
<1>3. CASE command.command = "UNDO"
  <2>1. TurnBeforeUndo(command.player) \in Sides
    BY <1>3, OpponentIsASide DEF EngineCommands, TurnBeforeUndo
  <2>2. FromJNI(result, TurnBeforeUndo(command.player)) \in Results
    BY <2>1, FromJNIType
  <2> QED
    BY <1>3, <2>2 DEF ReplyTo, Results
<1>4. CASE command.command \notin {"START", "UNDO"}
  <2>1. command.player \in Sides
    BY <1>4 DEF EngineCommands
  <2> QED
    BY <1>4, <2>1, FromJNIType DEF ReplyTo
<1> QED
  BY <1>2, <1>3, <1>4

(* The steps of a controller keep the types.                               *)
LEMMA CallEngineType ==
  ASSUME JNITypeOK, ControllerTypeOK, NEW c \in Callers, CallEngine(c)
  PROVE  JNITypeOK' /\ ControllerTypeOK'
<1> DEFINE k == ctl[c]
           command == Head(k.inq)
<1>1. k \in Controller /\ k.inq \in Seq(Commands) /\ k.inq # <<>>
  BY DEF ControllerTypeOK, Controller, CallEngine
<1>2. command \in Commands /\ Tail(k.inq) \in Seq(Commands)
  BY <1>1, HeadTailProperties
<1> HIDE DEF k, command
<1>3. ASSUME command.command = "START",
             StartGame(c, command.resume, command.board,
                       IF command.player = "BLACK" THEN "BLACK" ELSE "WHITE")
      PROVE  JNITypeOK'
  <2>1. command.resume \in Int /\ command.board \in Seq(Play)
    BY <1>2, <1>3 DEF Commands, EngineCommands, DestroyCommand
  <2>2. (IF command.player = "BLACK" THEN "BLACK" ELSE "WHITE") \in Sides
    BY DEF Sides
  <2> QED
    BY <1>3, <2>1, <2>2, StartGameType
<1>4. ASSUME command.command = "HUMAN_PLAY", HumanMove(c, k.instance, command.play)
      PROVE  JNITypeOK'
  <2>1. command.play \in Play
    BY <1>2, <1>4 DEF Commands, EngineCommands, DestroyCommand
  <2> QED
    BY <1>4, <2>1, HumanMoveType
<1>5. ASSUME ComputerMove(c, k.instance) PROVE JNITypeOK'
  BY <1>5, ComputerMoveType
<1>6. ASSUME Undo(c, k.instance, command.cookie1, command.cookie2) PROVE JNITypeOK'
  BY <1>6, UndoType
<1>7. JNITypeOK' /\ command.command \in {"START", "HUMAN_PLAY", "COMPUTER_PLAY", "UNDO"}
  BY <1>3, <1>4, <1>5, <1>6 DEF CallEngine, k, command
<1>8. command \in EngineCommands
  BY <1>2, <1>7 DEF Commands, DestroyCommand
<1>9. ctl' = [ctl EXCEPT ![c].inq = Tail(@), ![c].current = command]
  BY DEF CallEngine, k, command
<1>10. ControllerTypeOK'
  BY <1>1, <1>2, <1>8, <1>9 DEF ControllerTypeOK, Controller, k
<1> QED
  BY <1>7, <1>10

LEMMA PostResultType ==
  ASSUME JNITypeOK, ControllerTypeOK, NEW c \in Callers, PostResult(c)
  PROVE  JNITypeOK' /\ ControllerTypeOK'
<1> DEFINE k == ctl[c]
<1>1. k \in Controller /\ jr[c] \in JniResult \cup {NoResult}
      /\ k.current \in EngineCommands /\ k.outq \in Seq(Results)
  BY DEF JNITypeOK, ControllerTypeOK, Controller, PostResult
<1>2. ReplyTo(k.current, jr[c]) \in Results
  BY <1>1, ReplyToType
<1>3. Append(k.outq, ReplyTo(k.current, jr[c])) \in Seq(Results)
  BY <1>1, <1>2, AppendProperties
<1>4. jr[c].instance \in Int /\ k.instance \in Int
  BY <1>1, ResultFields DEF Controller
<1>5. <<>> \in Seq(Commands)
  BY EmptySeq
<1> DEFINE instance == IF k.current.command = "START" THEN jr[c].instance ELSE k.instance
<1>6. /\ [k EXCEPT !.quit = TRUE, !.inq = <<>>, !.current = NoCommand] \in Controller
      /\ [k EXCEPT !.outq = Append(@, ReplyTo(k.current, jr[c])),
                   !.current = NoCommand, !.instance = instance] \in Controller
  BY <1>1, <1>3, <1>4, <1>5 DEF Controller
<1>7. ControllerTypeOK'
  BY <1>6 DEF PostResult, ControllerTypeOK, StartedInstance
<1>8. JNITypeOK'
  BY DEF PostResult, JNITypeOK
<1> QED
  BY <1>7, <1>8

LEMMA DoDestroyType ==
  ASSUME JNITypeOK, ControllerTypeOK, NEW c \in Callers, DoDestroy(c)
  PROVE  JNITypeOK' /\ ControllerTypeOK'
<1>1. JNITypeOK'
  BY DEF DoDestroy, jniVars, JNITypeOK
<1>2. <<>> \in Seq(Commands)
  BY EmptySeq
<1>3. ControllerTypeOK'
  BY <1>2 DEF DoDestroy, ControllerTypeOK, Controller
<1> QED
  BY <1>1, <1>3

(***************************************************************************)
(* The session.                                                            *)
(***************************************************************************)

(* The conversions between a log, its bare plays and its entries.          *)
LEMMA BareType == ASSUME NEW e \in Seq(Entry) PROVE Bare(e) \in Seq(Play)
<1>1. Len(e) \in Nat /\ \A i \in 1..Len(e) : e[i] \in Entry
  BY ElementOfSeq
<1>2. \A i \in 1..Len(e) : [by |-> e[i].by, move |-> e[i].move] \in Play
  BY <1>1 DEF Entry, Play
<1>3. Bare(e) \in [1..Len(e) -> Play]
  BY <1>2 DEF Bare
<1> QED
  BY <1>1, <1>3, SeqDef

LEMMA NullCookiesType ==
  ASSUME NEW board \in Seq(Play) PROVE NullCookies(board) \in Seq(Entry)
<1>1. Len(board) \in Nat /\ \A i \in 1..Len(board) : board[i] \in Play
  BY ElementOfSeq
<1>2. \A i \in 1..Len(board) :
        [by |-> board[i].by, move |-> board[i].move, cookie |-> FALSE] \in Entry
  BY <1>1 DEF Entry, Play
<1>3. NullCookies(board) \in [1..Len(board) -> Entry]
  BY <1>2 DEF NullCookies
<1> QED
  BY <1>1, <1>3, SeqDef

LEMMA PlaysAfterType ==
  ASSUME NEW plays \in Seq(Entry), NEW r \in Results
  PROVE  PlaysAfter(plays, r) \in Seq(Entry)
<1> DEFINE e == [by |-> r.lastMove.by, move |-> r.lastMove.move, cookie |-> TRUE]
           added == Added(plays, r)
<1>1. r.lastMove # NoPlay => e \in Entry
  BY DEF Results, Play, Entry
<1>2. added \in Seq(Entry)
  BY <1>1, AppendProperties DEF Added
<1> HIDE DEF added
<1>3. Len(added) - r.undoMoves \in Int /\ Len(added) - r.undoMoves <= Len(added)
  BY <1>2 DEF Results
<1>4. \A i \in 1..Len(added) - r.undoMoves : added[i] \in Entry
  BY <1>2, <1>3, ElementOfSeq
<1>5. SubSeq(added, 1, Len(added) - r.undoMoves) \in Seq(Entry)
  BY <1>3, <1>4, SubSeqProperties
<1> QED
  BY <1>5 DEF PlaysAfter, added

LEMMA MaybeSaveGameType ==
  ASSUME NEW game \in Game PROVE MaybeSaveGame(game) \in Game
<1>1. Bare(game.plays) \in Seq(Play)
  BY BareType DEF Game
<1> QED
  BY <1>1 DEF MaybeSaveGame, Game

-----------------------------------------------------------------------------
(* The initial state, and every step of the main thread, keep the types.   *)
LEMMA InitType == Init => TypeOK
<1> SUFFICES ASSUME Init PROVE TypeOK
  OBVIOUS
<1>1. JNITypeOK
  <2>1. tree \in Tree
    BY EmptySeq DEF Init, JNIInit, Tree, Sides, EndFlags
  <2> QED
    BY <2>1 DEF Init, JNIInit, JNITypeOK
<1>2. ControllerTypeOK
  <2>1. NewController \in Controller
    BY EmptySeq DEF NewController, Controller
  <2> QED
    BY <2>1 DEF Init, ControllerInit, ControllerTypeOK
<1>3. act \in [Callers -> Activity]
  <2>1. [NewActivity(1, "INVALID", 0, <<>>, "none") EXCEPT !.life = "none"] \in Activity
    <3>1. 1 \in Callers
      BY JNIAssumption DEF Callers
    <3>2. <<>> \in Seq(Play)
      BY EmptySeq
    <3> QED
      BY <3>1, <3>2 DEF NewActivity, Activity, Players
  <2> QED
    BY <2>1 DEF Init
<1>4. games \in [Callers -> Game]
  <2>1. NoGame \in Game
    BY EmptySeq DEF NoGame, Game
  <2> QED
    BY <2>1 DEF Init
<1> QED
  BY <1>1, <1>2, <1>3, <1>4 DEF TypeOK

LEMMA LaunchType == ASSUME TypeOK, Launch PROVE TypeOK'
<1>1. PICK a \in Callers, board \in SavedGames \cup {<<>>}, replaying \in BOOLEAN,
           humans \in PlayerTypes : LaunchGame(a, board, replaying, humans)
  BY DEF Launch
<1> DEFINE next == IF Len(board) % 2 = 0 THEN "BLACK" ELSE "WHITE"
<1>2. board \in Seq(Play) /\ next \in Players
  BY ActivityAssumption, EmptySeq DEF Players, Sides
<1>3. NewActivity(a, next, MaxUndos, board, "none") \in Activity
  BY <1>2, ActivityAssumption DEF NewActivity, Activity, Players
<1>4. StartCommand(0, board, next) \in Commands
  BY <1>2 DEF StartCommand, Commands, EngineCommands
<1>5. ctl[a] \in Controller
  BY DEF TypeOK, ControllerTypeOK
<1>6. SendInput(ctl[a], StartCommand(0, board, next)) \in Controller
  BY <1>4, <1>5, SendInputType
<1>7. [initial |-> board, replaying |-> replaying, humans |-> humans,
       plays |-> NullCookies(board), saved |-> {}] \in Game
  BY <1>2, NullCookiesType, ActivityAssumption DEF Game
<1>8. JNITypeOK'
  BY <1>1 DEF LaunchGame, TypeOK, JNITypeOK, jniVars
<1> QED
  BY <1>1, <1>3, <1>6, <1>7, <1>8 DEF LaunchGame, TypeOK, ControllerTypeOK

LEMMA HandleResultType ==
  ASSUME TypeOK, NEW a \in Callers, HandleResult(a) PROVE TypeOK'
<1> DEFINE r == Head(ctl[a].outq)
           g == act[a].game
           k == [ctl[a] EXCEPT !.outq = Tail(@)]
           game == [games[g] EXCEPT !.plays = PlaysAfter(@, r)]
<1>1. ctl[a] \in Controller /\ act[a] \in Activity /\ g \in Callers /\ games[g] \in Game
  BY DEF TypeOK, ControllerTypeOK, Activity
<1>2. ctl[a].outq \in Seq(Results) /\ ctl[a].outq # <<>>
  BY <1>1 DEF Controller, HandleResult
<1>3. r \in Results /\ Tail(ctl[a].outq) \in Seq(Results)
  BY <1>2, HeadTailProperties
<1> HIDE DEF r
<1>4. k \in Controller
  BY <1>1, <1>3 DEF Controller
<1>5. game \in Game
  BY <1>1, <1>3, PlaysAfterType DEF Game
<1> HIDE DEF g, k, game
<1>6. MaybeSaveGame(game) \in Game
  BY <1>5, MaybeSaveGameType
<1>7. IsComputer(a, r.nextPlayer) => ComputerCommand(r.nextPlayer) \in Commands
  BY <1>3 DEF IsComputer, ComputerCommand, Commands, EngineCommands, Results, Players
<1>8. AsksComputer(a, r) => SendInput(k, ComputerCommand(r.nextPlayer)) \in Controller
  BY <1>4, <1>7, SendInputType DEF AsksComputer
<1>9. ControllerTypeOK'
  BY <1>4, <1>8 DEF HandleResult, r, k, TypeOK, ControllerTypeOK
<1>10. games' \in [Callers -> Game]
  BY <1>5, <1>6 DEF HandleResult, r, g, game, TypeOK
<1>11. /\ act' = [act EXCEPT ![a].next = r.nextPlayer, ![a].touch = r.nextPlayer,
                             ![a].state = r.gameState, ![a].board = r.board]
       /\ aborted' \in BOOLEAN
       /\ UNCHANGED <<g_init, g_instance_id, tree, jr>>
  BY DEF HandleResult, r
<1>12. act' \in [Callers -> Activity]
  BY <1>1, <1>3, <1>11 DEF TypeOK, Activity, Results
<1>13. JNITypeOK'
  BY <1>11 DEF TypeOK, JNITypeOK
<1> QED
  BY <1>9, <1>10, <1>12, <1>13 DEF TypeOK

(* Steps that change an activity and may send a command.                   *)
LEMMA ActAndSendType ==
  ASSUME TypeOK, NEW a \in Callers, NEW activity \in Activity, NEW command \in Commands,
         act' = [act EXCEPT ![a] = activity],
         ctl' = ctl \/ ctl' = [ctl EXCEPT ![a] = SendInput(@, command)],
         UNCHANGED <<jniVars, games>>
  PROVE  TypeOK'
<1>1. SendInput(ctl[a], command) \in Controller
  BY SendInputType DEF TypeOK, ControllerTypeOK
<1>2. ControllerTypeOK'
  BY <1>1 DEF TypeOK, ControllerTypeOK
<1>3. JNITypeOK' /\ games' \in [Callers -> Game]
  BY DEF TypeOK, JNITypeOK, jniVars
<1> QED
  BY <1>2, <1>3 DEF TypeOK

LEMMA HumanPlayType == ASSUME TypeOK, NEW a \in Callers, HumanPlay(a) PROVE TypeOK'
<1>1. PICK m \in Moves :
        /\ IsHuman(a, act[a].touch)
        /\ \/ /\ act' = [act EXCEPT ![a] = TurnGivenUp(@)]
              /\ ctl' = [ctl EXCEPT ![a] =
                   SendInput(@, HumanCommand(act[a].touch, [by |-> act[a].touch, move |-> m]))]
           \/ /\ act' = [act EXCEPT ![a] = [TurnGivenUp(@) EXCEPT
                                              !.promo = [by |-> act[a].touch, move |-> m],
                                              !.dialog = "promote"]]
              /\ UNCHANGED ctl
        /\ UNCHANGED <<jniVars, games>>
  BY DEF HumanPlay
<1>2. act[a] \in Activity /\ act \in [Callers -> Activity]
  BY DEF TypeOK
<1>3. act[a].touch \in Sides
  BY <1>1 DEF IsHuman, GameOf, TypeOK, Activity, Game
<1>4. [by |-> act[a].touch, move |-> m] \in Play
  BY <1>3 DEF Play
<1>5. HumanCommand(act[a].touch, [by |-> act[a].touch, move |-> m]) \in Commands
  BY <1>3, <1>4 DEF HumanCommand, Commands, EngineCommands
<1>6. /\ TurnGivenUp(act[a]) \in Activity
      /\ [TurnGivenUp(act[a]) EXCEPT !.promo = [by |-> act[a].touch, move |-> m],
                                     !.dialog = "promote"] \in Activity
  BY <1>2, <1>4 DEF TurnGivenUp, Activity, Players
<1> QED
  BY <1>1, <1>2, <1>5, <1>6, ActAndSendType

LEMMA PromoteClickType == ASSUME TypeOK, NEW a \in Callers, PromoteClick(a) PROVE TypeOK'
<1> DEFINE play == act[a].promo
           closed == [act[a] EXCEPT !.promo = NoPlay, !.dialog = "none"]
<1>1. PICK m \in Moves :
        /\ act' = [act EXCEPT ![a].promo = NoPlay, ![a].dialog = "none"]
        /\ ctl' = IF play = NoPlay THEN ctl
                  ELSE [ctl EXCEPT ![a] =
                          SendInput(@, HumanCommand(play.by, [play EXCEPT !.move = m]))]
        /\ UNCHANGED <<jniVars, games>>
  BY DEF PromoteClick
<1>2. act[a] \in Activity /\ act \in [Callers -> Activity]
  BY DEF TypeOK
<1>3. closed \in Activity
  BY <1>2 DEF Activity
<1>4. act' = [act EXCEPT ![a] = closed]
  BY <1>1, <1>2 DEF Activity
<1>5. play # NoPlay => HumanCommand(play.by, [play EXCEPT !.move = m]) \in Commands
  BY <1>2 DEF Activity, HumanCommand, Commands, EngineCommands, Play
<1>6. CASE play = NoPlay
  BY <1>1, <1>3, <1>4, <1>6, ActAndSendType DEF Commands
<1>7. CASE play # NoPlay
  BY <1>1, <1>3, <1>4, <1>5, <1>7, ActAndSendType
<1> QED
  BY <1>6, <1>7

(* Steps that only change an activity, and perhaps save its game.          *)
LEMMA ActAndSaveType ==
  ASSUME TypeOK, NEW a \in Callers, NEW activity \in Activity,
         act' = [act EXCEPT ![a] = activity],
         \/ games' = games
         \/ games' = [games EXCEPT ![act[a].game] = MaybeSaveGame(@)],
         UNCHANGED <<jniVars, ctl>>
  PROVE  TypeOK'
<1>1. act[a].game \in Callers /\ games[act[a].game] \in Game
  BY DEF TypeOK, Activity
<1>2. games' \in [Callers -> Game]
  BY <1>1, MaybeSaveGameType DEF TypeOK
<1>3. JNITypeOK' /\ ControllerTypeOK'
  BY DEF TypeOK, JNITypeOK, ControllerTypeOK, jniVars
<1> QED
  BY <1>2, <1>3 DEF TypeOK

LEMMA PromoteCancelType == ASSUME TypeOK, NEW a \in Callers, PromoteCancel(a) PROVE TypeOK'
<1> DEFINE play == act[a].promo
           closed == [act[a] EXCEPT !.dialog = "none"]
           taken == [act[a] EXCEPT !.promo = NoPlay, !.dialog = "none",
                                   !.next = play.by, !.touch = play.by]
<1>1. act[a] \in Activity /\ act \in [Callers -> Activity]
  BY DEF TypeOK
<1>2. closed \in Activity
  BY <1>1 DEF Activity
<1>3. taken \in Activity
  <2>1. play.by \in Players
    BY <1>1 DEF Activity, Play, Players, NoPlay
  <2> QED
    BY <1>1, <2>1 DEF Activity
<1>4. act' = [act EXCEPT ![a] = closed] \/ act' = [act EXCEPT ![a] = taken]
  BY <1>1 DEF PromoteCancel, Activity
<1>5. UNCHANGED <<jniVars, ctl>> /\ games' = games
  BY DEF PromoteCancel
<1> HIDE DEF closed, taken
<1> QED
  BY <1>2, <1>3, <1>4, <1>5, ActAndSaveType

LEMMA UndoMenuType == ASSUME TypeOK, NEW a \in Callers, UndoMenu(a) PROVE TypeOK'
<1> DEFINE plays == GameOf(a).plays
           n == Len(plays)
           activity == [act[a] EXCEPT !.next = "INVALID", !.undos = @ - 1]
<1>1. act[a] \in Activity /\ plays \in Seq(Entry)
  BY DEF TypeOK, Activity, Game, GameOf
<1>2. /\ act[a].undos > 0 /\ IsHuman(a, act[a].next) /\ n >= 2
      /\ ctl' = [ctl EXCEPT ![a] = SendInput(@, UndoOf(act[a].next, plays))]
      /\ act' = [act EXCEPT ![a] = activity]
      /\ UNCHANGED <<jniVars, games>>
  BY <1>1 DEF UndoMenu
<1>3. plays[n] \in Entry /\ plays[n - 1] \in Entry
  BY <1>1, <1>2, ElementOfSeq
<1>4. activity \in Activity
  <2>1. act[a].undos - 1 \in Nat
    BY <1>1, <1>2 DEF Activity
  <2> QED
    BY <1>1, <2>1 DEF Activity, Players
<1> HIDE DEF activity
<1>5. UndoOf(act[a].next, plays) \in Commands
  <2>1. act[a].next \in Sides
    BY <1>2 DEF IsHuman, GameOf, TypeOK, Activity, Game
  <2> QED
    BY <1>3, <2>1 DEF UndoOf, UndoCommand, Commands, EngineCommands, Entry
<1> QED
  BY <1>2, <1>4, <1>5, ActAndSendType

LEMMA TryQuitType == ASSUME TypeOK, NEW a \in Callers, TryQuit(a) PROVE TypeOK'
<1> DEFINE activity == IF act[a].state = "ACTIVE" /\ GameOf(a).plays # <<>>
                       THEN [act[a] EXCEPT !.dialog = "quit"]
                       ELSE [act[a] EXCEPT !.life = "finishing"]
<1>0. act[a] \in Activity
  BY DEF TypeOK
<1>1. activity \in Activity
  BY <1>0 DEF Activity
<1>2. act' = [act EXCEPT ![a] = activity] /\ UNCHANGED <<jniVars, ctl>> /\ games' = games
  BY DEF TryQuit, TypeOK, Activity
<1> HIDE DEF activity
<1> QED
  BY <1>1, <1>2, ActAndSaveType

LEMMA QuitYesType == ASSUME TypeOK, NEW a \in Callers, QuitYes(a) PROVE TypeOK'
<1> DEFINE activity == [act[a] EXCEPT !.dialog = "none", !.life = "finishing"]
<1>0. act[a] \in Activity
  BY DEF TypeOK
<1>1. activity \in Activity
  BY <1>0 DEF Activity
<1>2. /\ act' = [act EXCEPT ![a] = activity] /\ UNCHANGED <<jniVars, ctl>>
      /\ games' = [games EXCEPT ![act[a].game] = MaybeSaveGame(@)]
  BY DEF QuitYes, TypeOK, Activity
<1> HIDE DEF activity
<1> QED
  BY <1>1, <1>2, ActAndSaveType

LEMMA QuitNoType == ASSUME TypeOK, NEW a \in Callers, QuitNo(a) PROVE TypeOK'
<1> DEFINE activity == [act[a] EXCEPT !.dialog = "none"]
<1>0. act[a] \in Activity
  BY DEF TypeOK
<1>1. activity \in Activity
  BY <1>0 DEF Activity
<1>2. act' = [act EXCEPT ![a] = activity] /\ UNCHANGED <<jniVars, ctl>> /\ games' = games
  BY DEF QuitNo, TypeOK, Activity
<1> HIDE DEF activity
<1> QED
  BY <1>1, <1>2, ActAndSaveType

LEMMA DestroyType == ASSUME TypeOK, NEW a \in Callers, Destroy(a) PROVE TypeOK'
<1> DEFINE activity == [act[a] EXCEPT !.life = "destroyed"]
<1>0. act[a] \in Activity /\ DestroyCommand \in Commands
  BY DEF TypeOK, Commands
<1>1. activity \in Activity
  BY <1>0 DEF Activity
<1>2. /\ act' = [act EXCEPT ![a] = activity] /\ UNCHANGED <<jniVars, games>>
      /\ ctl' = [ctl EXCEPT ![a] = SendInput(@, DestroyCommand)]
  BY DEF Destroy, TypeOK, Activity
<1> HIDE DEF activity
<1> QED
  BY <1>0, <1>1, <1>2, ActAndSendType

LEMMA RotateType == ASSUME TypeOK, NEW a \in Callers, Rotate(a) PROVE TypeOK'
<1> DEFINE next == IF act[a].next = "BLACK" THEN "BLACK" ELSE "WHITE"
           undos == IF act[a].undos = 0 THEN MaxUndos ELSE act[a].undos
           board == GameOf(a).initial
           command == StartCommand(ctl[a].instance, board, next)
           old == [act[a] EXCEPT !.life = "destroyed", !.dialog = "none"]
           new == NewActivity(act[a].game, next, undos, board, act[a].dialog)
<1>1. PICK b \in Callers :
        /\ act[b].life = "none"
        /\ act' = [act EXCEPT ![a].life = "destroyed", ![a].dialog = "none", ![b] = new]
        /\ ctl' = [ctl EXCEPT ![a] = SendInput(@, DestroyCommand),
                              ![b] = SendInput(@, command)]
        /\ UNCHANGED <<jniVars, games>>
  BY DEF Rotate
<1>2. act[a] \in Activity /\ ctl[a] \in Controller /\ ctl[b] \in Controller /\ a # b
  BY <1>1 DEF TypeOK, ControllerTypeOK, Rotate, Running
<1>3. next \in Players /\ undos \in Nat /\ board \in Seq(Play)
  BY <1>2, ActivityAssumption DEF TypeOK, Activity, Game, GameOf, Players, Sides
<1>4. new \in Activity /\ old \in Activity
  BY <1>2, <1>3 DEF NewActivity, Activity, Players
<1>5. command \in Commands /\ DestroyCommand \in Commands
  BY <1>2, <1>3 DEF StartCommand, Commands, EngineCommands, Controller
<1>6. /\ SendInput(ctl[a], DestroyCommand) \in Controller
      /\ SendInput(ctl[b], command) \in Controller
  BY <1>2, <1>5, SendInputType
<1> HIDE DEF new, command
<1>7. ControllerTypeOK'
  BY <1>1, <1>2, <1>6 DEF TypeOK, ControllerTypeOK
<1>8. act' \in [Callers -> Activity]
  BY <1>1, <1>2, <1>4 DEF TypeOK
<1>9. JNITypeOK' /\ games' \in [Callers -> Game]
  BY <1>1 DEF TypeOK, JNITypeOK, jniVars
<1> QED
  BY <1>7, <1>8, <1>9 DEF TypeOK

LEMMA NextType == TypeOK /\ [Next]_vars => TypeOK'
<1> SUFFICES ASSUME TypeOK, [Next]_vars PROVE TypeOK'
  OBVIOUS
<1>1. CASE InitializeStep
  BY <1>1 DEF InitializeStep, Initialize, TypeOK, JNITypeOK, ControllerTypeOK
<1>2. CASE Launch
  BY <1>2, LaunchType
<1>3. ASSUME NEW a \in Callers, ControllerStep(a) PROVE TypeOK'
  <2>1. JNITypeOK' /\ ControllerTypeOK'
    BY <1>3, CallEngineType, PostResultType, DoDestroyType DEF ControllerStep, TypeOK
  <2> QED
    BY <1>3, <2>1 DEF ControllerStep, TypeOK
<1>4. ASSUME NEW a \in Callers, HandleResult(a) PROVE TypeOK'
  BY <1>4, HandleResultType
<1>5. ASSUME NEW a \in Callers, UserStep(a) PROVE TypeOK'
  BY <1>5, HumanPlayType, PromoteClickType, PromoteCancelType, UndoMenuType, TryQuitType,
     QuitYesType, QuitNoType, RotateType DEF UserStep
<1>6. ASSUME NEW a \in Callers, Destroy(a) PROVE TypeOK'
  BY <1>6, DestroyType
<1>7. CASE UNCHANGED vars
  BY <1>7 DEF vars, jniVars, TypeOK, JNITypeOK, ControllerTypeOK
<1> QED
  BY <1>1, <1>2, <1>3, <1>4, <1>5, <1>6, <1>7 DEF Next

(* The variables of the activities, the controllers and the engine stay in *)
(* their types in every session.                                           *)
THEOREM TypeCorrect == Spec => []TypeOK
BY InitType, NextType, PTL DEF Spec

(***************************************************************************)
(* That an instance ID names one game, in every session: the engine gives  *)
(* each game a number larger than every number anyone holds, and a number  *)
(* is only handed on from an activity to the one that replaces it.         *)
(***************************************************************************)


(* What a controller holds after it is sent a command.                     *)
LEMMA IdsAfterSend ==
  ASSUME NEW k \in Controller, NEW r, NEW command \in Commands,
         NEW n \in IdsOf(SendInput(k, command), r)
  PROVE  n \in IdsOf(k, r) \/ (command.command = "START" /\ n = command.resume)
<1>1. CASE k.quit
  BY <1>1 DEF SendInput
<1>2. CASE ~k.quit
  <2> DEFINE k2 == [k EXCEPT !.inq = Append(@, command)]
  <2>1. /\ k.inq \in Seq(Commands) /\ Len(k2.inq) = Len(k.inq) + 1 /\ Len(k.inq) \in Nat
        /\ \A i \in 1..Len(k.inq) : k2.inq[i] = k.inq[i]
        /\ k2.inq[Len(k.inq) + 1] = command
        /\ k2.instance = k.instance /\ k2.current = k.current
    BY AppendProperties DEF Controller
  <2>2. n \in IdsOf(k2, r)
    BY <1>2 DEF SendInput
  <2> HIDE DEF k2
  <2>3. CASE n \in {k2.inq[i].resume : i \in {j \in 1..Len(k2.inq) : k2.inq[j].command = "START"}}
    <3>1. PICK i \in 1..Len(k2.inq) : k2.inq[i].command = "START" /\ n = k2.inq[i].resume
      BY <2>3
    <3>2. CASE i \in 1..Len(k.inq)
      BY <2>1, <3>1, <3>2 DEF IdsOf
    <3>3. CASE i = Len(k.inq) + 1
      BY <2>1, <3>1, <3>3
    <3> QED
      BY <2>1, <3>2, <3>3
  <2>4. CASE n \notin {k2.inq[i].resume : i \in {j \in 1..Len(k2.inq) : k2.inq[j].command = "START"}}
    BY <2>1, <2>2, <2>4 DEF IdsOf
  <2> QED
    BY <2>3, <2>4
<1> QED
  BY <1>1, <1>2

(* What a controller holds after it took the head of its queue.            *)
LEMMA IdsAfterTake ==
  ASSUME NEW k \in Controller, NEW r, NEW r2, k.inq # <<>>, k.current = NoCommand,
         NEW n \in IdsOf([k EXCEPT !.inq = Tail(@), !.current = Head(k.inq)], r2)
  PROVE  n \in IdsOf(k, r) \/ (Head(k.inq).command = "START" /\ n = r2.instance)
<1> DEFINE k2 == [k EXCEPT !.inq = Tail(@), !.current = Head(k.inq)]
<1>1. /\ k.inq \in Seq(Commands) /\ Len(k2.inq) = Len(k.inq) - 1 /\ Len(k.inq) \in Nat
      /\ \A i \in 1..Len(k2.inq) : k2.inq[i] = k.inq[i + 1]
      /\ k2.instance = k.instance /\ k2.current = Head(k.inq)
  BY HeadTailProperties DEF Controller
<1>2. n \in IdsOf(k2, r2)
  OBVIOUS
<1> HIDE DEF k2
<1>3. CASE n \in {k2.inq[i].resume : i \in {j \in 1..Len(k2.inq) : k2.inq[j].command = "START"}}
  <2>1. PICK i \in 1..Len(k2.inq) : k2.inq[i].command = "START" /\ n = k2.inq[i].resume
    BY <1>3
  <2>2. i + 1 \in 1..Len(k.inq) /\ k.inq[i + 1].command = "START" /\ n = k.inq[i + 1].resume
    BY <1>1, <2>1
  <2> QED
    BY <2>2 DEF IdsOf
<1>4. CASE n \notin {k2.inq[i].resume : i \in {j \in 1..Len(k2.inq) : k2.inq[j].command = "START"}}
  BY <1>1, <1>2, <1>4 DEF IdsOf
<1> QED
  BY <1>3, <1>4

(* The ID a START at the head of the queue asks for is held.               *)
LEMMA ResumeIsHeld ==
  ASSUME NEW k \in Controller, NEW r, k.inq # <<>>, Head(k.inq).command = "START"
  PROVE  Head(k.inq).resume \in IdsOf(k, r)
<1>1. 1 \in 1..Len(k.inq) /\ Head(k.inq) = k.inq[1]
  BY DEF Controller
<1> QED
  BY <1>1 DEF IdsOf

(* Held IDs are numbers.                                                   *)
LEMMA IdsAreIntegers ==
  ASSUME TypeOK, NEW c \in Callers
  PROVE  HeldBy(c) \subseteq Int
<1>1. ctl[c] \in Controller /\ jr[c] \in JniResult \cup {NoResult}
  BY DEF TypeOK, JNITypeOK, ControllerTypeOK
<1>2. ctl[c].instance \in Int /\ jr[c].instance \in Int /\ ctl[c].inq \in Seq(Commands)
  BY <1>1, ResultFields DEF Controller
<1>3. \A i \in 1..Len(ctl[c].inq) :
        ctl[c].inq[i].command = "START" => ctl[c].inq[i].resume \in Int
  <2> TAKE i \in 1..Len(ctl[c].inq)
  <2>1. ctl[c].inq[i] \in Commands
    BY <1>2, ElementOfSeq
  <2> QED
    BY <2>1 DEF Commands, EngineCommands, DestroyCommand
<1> QED
  BY <1>2, <1>3 DEF HeldBy, IdsOf

-----------------------------------------------------------------------------
(* A step after which everyone holds at most what they held, created       *)
(* activities stay in their games and the game number does not go down     *)
(* preserves the first two parts of InstanceInv.                           *)
LEMMA NothingNewHeld ==
  ASSUME TypeOK, InstanceInv, g_instance_id' \in Nat, g_instance_id' >= g_instance_id,
         \A c \in Callers : HeldBy(c)' \subseteq HeldBy(c) /\ act'[c].game = act[c].game
  PROVE  /\ \A c \in Callers : \A n \in HeldBy(c)' : n <= g_instance_id'
         /\ \A a, b \in Callers : \A n \in HeldBy(a)' \cap HeldBy(b)' :
              n > 0 => act'[a].game = act'[b].game
<1>1. \A c \in Callers : \A n \in HeldBy(c) : n <= g_instance_id /\ n \in Int
  BY IdsAreIntegers DEF InstanceInv
<1>2. g_instance_id \in Nat
  BY DEF TypeOK, JNITypeOK
<1> QED
  BY <1>1, <1>2 DEF InstanceInv

(* A new controller holds no ID.                                           *)
LEMMA NewHoldsNothing == ASSUME NEW r PROVE IdsOf(NewController, r) = {-1}
<1>1. NewController.inq = <<>> /\ NewController.instance = -1
      /\ NewController.current.command = "none"
  BY DEF NewController, NoCommand
<1>2. 1..Len(<<>>) = {}
  BY EmptySeq
<1> QED
  BY <1>1, <1>2 DEF IdsOf

LEMMA InitInstance == Init => InstanceInv
<1> SUFFICES ASSUME Init PROVE InstanceInv
  OBVIOUS
<1>1. \A c \in Callers : HeldBy(c) = {-1}
  BY DEF Init, ControllerInit, NewController, HeldBy, IdsOf, NoCommand
<1> QED
  BY <1>1 DEF Init, JNIInit, ControllerInit, InstanceInv

(* The engine's calls change the Result object of their caller only.       *)
LEMMA OtherResultsStay ==
  ASSUME TypeOK, NEW c \in Callers, CallEngine(c)
  PROVE  /\ \A d \in Callers \ {c} : jr'[d] = jr[d]
         /\ g_instance_id' \in Nat /\ g_instance_id' >= g_instance_id
<1>1. jr \in [Callers -> JniResult \cup {NoResult}] /\ g_instance_id \in Nat
  BY DEF TypeOK, JNITypeOK
<1> QED
  BY <1>1 DEF CallEngine, StartGame, HumanMove, ComputerMove, Undo, AnotherInstanceStarted,
              FillResult, NextInstance

(* Only START may move the game number.                                    *)
LEMMA OnlyStartCounts ==
  ASSUME TypeOK, NEW c \in Callers, CallEngine(c), Head(ctl[c].inq).command # "START"
  PROVE  g_instance_id' = g_instance_id
BY DEF CallEngine, HumanMove, ComputerMove, Undo, AnotherInstanceStarted

(* startGame returns no instance, the one it was asked for, or a new one.  *)
LEMMA StartedInstances ==
  ASSUME jr \in [Callers -> JniResult \cup {NoResult}], NEW c \in Callers,
         NEW resume, NEW board, NEW turn, StartGame(c, resume, board, turn)
  PROVE  \/ jr'[c].instance = -1
         \/ jr'[c].instance = resume
         \/ jr'[c].instance = g_instance_id + 1 /\ g_instance_id' = g_instance_id + 1
<1>1. CASE g_init # "ok"
  BY <1>1 DEF StartGame, FillResult
<1>2. CASE FillResult(c, "OK", FALSE, NoMove, resume, tree.plays)
  BY <1>2 DEF FillResult
<1>3. CASE g_instance_id' = NextInstance /\ FillResult(c, "OK", FALSE, NoMove, g_instance_id', board)
  BY <1>3 DEF FillResult, NextInstance
<1> QED
  BY <1>1, <1>2, <1>3 DEF StartGame

LEMMA CallEngineInstance ==
  ASSUME TypeOK, InstanceInv, NEW c \in Callers, CallEngine(c), UNCHANGED <<act, games>>
  PROVE  InstanceInv'
<1> DEFINE k == ctl[c]
           command == Head(k.inq)
<1>1. k \in Controller /\ k.inq # <<>> /\ k.current = NoCommand
      /\ k.inq \in Seq(Commands) /\ ctl \in [Callers -> Controller]
  BY DEF CallEngine, TypeOK, ControllerTypeOK, Controller
<1>2. ctl' = [ctl EXCEPT ![c] = [k EXCEPT !.inq = Tail(@), !.current = Head(k.inq)]]
  BY <1>1 DEF CallEngine, Controller
<1>3. \A d \in Callers \ {c} : HeldBy(d)' = HeldBy(d)
  BY <1>1, <1>2, OtherResultsStay DEF HeldBy
<1>4. \A n \in HeldBy(c)' :
        n \in HeldBy(c) \/ (command.command = "START" /\ n = jr'[c].instance)
  <2> TAKE n \in HeldBy(c)'
  <2>1. n \in IdsOf([k EXCEPT !.inq = Tail(@), !.current = Head(k.inq)], jr'[c])
    BY <1>1, <1>2 DEF HeldBy
  <2> QED
    BY <1>1, <2>1, IdsAfterTake DEF HeldBy
<1>5. \A d \in Callers : act'[d].life = "none" => ctl'[d] = NewController
  <2>1. ctl[c] # NewController
    BY <1>1 DEF NewController
  <2>2. act[c].life # "none"
    BY <2>1 DEF InstanceInv
  <2> QED
    BY <1>1, <1>2, <2>2 DEF InstanceInv
<1>6. \A d \in Callers : ctl'[d].current = NoCommand => jr'[d] = NoResult
  <2>1. command.command \in {"START", "HUMAN_PLAY", "COMPUTER_PLAY", "UNDO"}
    BY DEF CallEngine
  <2>2. ctl'[c].current # NoCommand
    BY <1>1, <1>2, <2>1 DEF NoCommand
  <2> QED
    BY <1>1, <1>2, <2>2, OtherResultsStay DEF InstanceInv
<1>7. g_instance_id \in Nat /\ g_instance_id' \in Nat /\ g_instance_id' >= g_instance_id
  BY OtherResultsStay DEF TypeOK, JNITypeOK
<1> HIDE DEF k, command
<1>8. CASE \A n \in HeldBy(c)' : n \in HeldBy(c)
  <2>1. \A d \in Callers : HeldBy(d)' \subseteq HeldBy(d) /\ act'[d].game = act[d].game
    BY <1>3, <1>8
  <2> QED
    BY <1>5, <1>6, <1>7, <2>1, NothingNewHeld DEF InstanceInv
<1>9. CASE ~ \A n \in HeldBy(c)' : n \in HeldBy(c)
  <2>1. /\ StartGame(c, command.resume, command.board,
                     IF command.player = "BLACK" THEN "BLACK" ELSE "WHITE")
        /\ command.command = "START"
    BY <1>4, <1>9 DEF CallEngine, command, k
  <2>2. command.resume \in HeldBy(c)
    BY <1>1, <2>1, ResumeIsHeld DEF HeldBy, command, k
  <2>3. jr \in [Callers -> JniResult \cup {NoResult}]
    BY DEF TypeOK, JNITypeOK
  <2>4. jr'[c].instance # command.resume
    BY <1>4, <1>9, <2>2
  <2>5. \/ jr'[c].instance = -1
        \/ jr'[c].instance = g_instance_id + 1 /\ g_instance_id' = g_instance_id + 1
    BY <2>1, <2>3, <2>4, StartedInstances
  <2>6. \A d \in Callers : \A n \in HeldBy(d) : n \in Int /\ n <= g_instance_id
    BY IdsAreIntegers DEF InstanceInv
  <2>7. \A d \in Callers : \A n \in HeldBy(d)' :
          n \in HeldBy(d) \/ (d = c /\ n = jr'[c].instance)
    BY <1>3, <1>4
  <2>8. \A d \in Callers : \A n \in HeldBy(d)' : n <= g_instance_id'
    BY <1>7, <2>5, <2>6, <2>7
  <2>9. \A a, b \in Callers : \A n \in HeldBy(a)' \cap HeldBy(b)' :
          n > 0 => act'[a].game = act'[b].game
    <3> TAKE a, b \in Callers
    <3> TAKE n \in HeldBy(a)' \cap HeldBy(b)'
    <3> HAVE n > 0
    <3>1. CASE n = jr'[c].instance
      <4>1. n = g_instance_id + 1
        BY <3>1, <2>5
      <4>2. n \notin HeldBy(a) /\ n \notin HeldBy(b)
        BY <4>1, <2>6, <1>7
      <4> QED
        BY <2>7, <4>2
    <3>2. CASE n # jr'[c].instance
      BY <2>7, <3>2 DEF InstanceInv
    <3> QED
      BY <3>1, <3>2
  <2> QED
    BY <1>5, <1>6, <2>8, <2>9 DEF InstanceInv
<1> QED
  BY <1>8, <1>9

LEMMA PostResultInstance ==
  ASSUME TypeOK, InstanceInv, NEW c \in Callers, PostResult(c), UNCHANGED <<act, games>>
  PROVE  InstanceInv'
<1> DEFINE k == ctl[c]
<1>1. k \in Controller /\ k.current # NoCommand /\ ctl \in [Callers -> Controller]
      /\ jr \in [Callers -> JniResult \cup {NoResult}] /\ g_instance_id \in Nat
  BY DEF PostResult, TypeOK, JNITypeOK, ControllerTypeOK
<1>2. /\ jr' = [jr EXCEPT ![c] = NoResult] /\ UNCHANGED <<g_instance_id, act>>
      /\ \A d \in Callers \ {c} : ctl'[d] = ctl[d]
      /\ ctl'[c].current = NoCommand
  BY <1>1 DEF PostResult, Controller
<1>3. HeldBy(c)' \subseteq HeldBy(c)
  <2>1. CASE jr[c].status = "INSTANCE_DELETED"
    <3>1. ctl'[c].inq = <<>> /\ ctl'[c].instance = k.instance
      BY <1>1, <2>1 DEF PostResult, Controller
    <3> QED
      BY <1>2, <3>1 DEF HeldBy, IdsOf, NoCommand
  <2>2. CASE jr[c].status # "INSTANCE_DELETED"
    <3>1. /\ ctl'[c].inq = k.inq
          /\ ctl'[c].instance = IF k.current.command = "START" THEN jr[c].instance
                                ELSE k.instance
      BY <1>1, <2>2 DEF PostResult, Controller, StartedInstance
    <3> QED
      BY <1>2, <3>1 DEF HeldBy, IdsOf, NoCommand
  <2> QED
    BY <2>1, <2>2
<1>4. \A d \in Callers : HeldBy(d)' \subseteq HeldBy(d) /\ act'[d].game = act[d].game
  BY <1>1, <1>2, <1>3 DEF HeldBy
<1>5. \A d \in Callers : act'[d].life = "none" => ctl'[d] = NewController
  <2>1. ctl[c] # NewController
    BY <1>1 DEF NewController
  <2>2. act[c].life # "none"
    BY <2>1 DEF InstanceInv
  <2> QED
    BY <1>1, <1>2, <2>2 DEF InstanceInv
<1>6. \A d \in Callers : ctl'[d].current = NoCommand => jr'[d] = NoResult
  BY <1>1, <1>2 DEF InstanceInv
<1> QED
  BY <1>1, <1>2, <1>4, <1>5, <1>6, NothingNewHeld DEF InstanceInv

(* A step of the main thread, or of a thread that quits: nobody but a is   *)
(* touched, and a is asked for nothing but what is no START.               *)
LEMMA SmallStepInstance ==
  ASSUME TypeOK, InstanceInv, NEW a \in Callers, act[a].life # "none",
         ctl' \in [Callers -> Controller],
         \A d \in Callers \ {a} : ctl'[d] = ctl[d],
         IdsOf(ctl'[a], jr[a]) \subseteq IdsOf(ctl[a], jr[a]),
         ctl'[a].current = ctl[a].current,
         \A d \in Callers : /\ act'[d].game = act[d].game
                            /\ act'[d].life = "none" => act[d].life = "none",
         UNCHANGED <<jr, g_instance_id>>
  PROVE  InstanceInv'
<1>1. g_instance_id \in Nat
  BY DEF TypeOK, JNITypeOK
<1>2. \A d \in Callers : HeldBy(d)' \subseteq HeldBy(d) /\ act'[d].game = act[d].game
  BY DEF HeldBy
<1>3. \A d \in Callers : act'[d].life = "none" => ctl'[d] = NewController
  BY DEF InstanceInv
<1>4. \A d \in Callers : ctl'[d].current = NoCommand => jr'[d] = NoResult
  BY DEF InstanceInv
<1> QED
  BY <1>1, <1>2, <1>3, <1>4, NothingNewHeld DEF InstanceInv

(* The same, for a step that sends at most one command, no START.          *)
LEMMA SendStepInstance ==
  ASSUME TypeOK, TypeOK', InstanceInv, NEW a \in Callers, act[a].life # "none",
         NEW command \in Commands, command.command # "START",
         ctl' = ctl \/ ctl' = [ctl EXCEPT ![a] = SendInput(@, command)],
         \A d \in Callers : /\ act'[d].game = act[d].game
                            /\ act'[d].life = "none" => act[d].life = "none",
         UNCHANGED jniVars
  PROVE  InstanceInv'
<1>1. ctl \in [Callers -> Controller] /\ ctl' \in [Callers -> Controller]
  BY DEF TypeOK, ControllerTypeOK
<1>2. IdsOf(SendInput(ctl[a], command), jr[a]) \subseteq IdsOf(ctl[a], jr[a])
  BY <1>1, IdsAfterSend
<1>3. SendInput(ctl[a], command).current = ctl[a].current
  BY <1>1 DEF SendInput, Controller
<1> QED
  BY <1>1, <1>2, <1>3, SmallStepInstance DEF jniVars

LEMMA DoDestroyInstance ==
  ASSUME TypeOK, TypeOK', InstanceInv, NEW c \in Callers, DoDestroy(c), UNCHANGED <<act, games>>
  PROVE  InstanceInv'
<1>1. /\ ctl \in [Callers -> Controller] /\ ctl' \in [Callers -> Controller]
      /\ ctl[c].inq # <<>> /\ UNCHANGED jniVars
      /\ ctl' = [ctl EXCEPT ![c].quit = TRUE, ![c].inq = <<>>]
  BY DEF DoDestroy, TypeOK, ControllerTypeOK
<1>2. act[c].life # "none"
  BY <1>1 DEF InstanceInv, NewController
<1>3. ctl'[c].instance = ctl[c].instance /\ ctl'[c].current = ctl[c].current
      /\ ctl'[c].inq = <<>>
  BY <1>1 DEF Controller
<1>4. IdsOf(ctl'[c], jr[c]) \subseteq IdsOf(ctl[c], jr[c])
  BY <1>3 DEF IdsOf
<1> QED
  BY <1>1, <1>2, <1>3, <1>4, SmallStepInstance DEF jniVars

LEMMA HandleResultInstance ==
  ASSUME TypeOK, TypeOK', InstanceInv, NEW a \in Callers, HandleResult(a)
  PROVE  InstanceInv'
<1> DEFINE r == Head(ctl[a].outq)
           k == [ctl[a] EXCEPT !.outq = Tail(@)]
           command == ComputerCommand(r.nextPlayer)
<1>1. /\ ctl \in [Callers -> Controller] /\ ctl' \in [Callers -> Controller]
      /\ act \in [Callers -> Activity]
      /\ ctl[a].outq # <<>> /\ UNCHANGED <<jr, g_instance_id>>
      /\ ctl' = [ctl EXCEPT ![a] = IF AsksComputer(a, r) THEN SendInput(k, command) ELSE k]
      /\ act' = [act EXCEPT ![a].next = r.nextPlayer, ![a].touch = r.nextPlayer,
                            ![a].state = r.gameState, ![a].board = r.board]
  BY DEF HandleResult, TypeOK, ControllerTypeOK
<1>2. act[a].life # "none"
  BY <1>1 DEF InstanceInv, NewController
<1>3. ctl[a].outq \in Seq(Results) /\ r \in Results /\ Tail(ctl[a].outq) \in Seq(Results)
  BY <1>1, HeadTailProperties DEF Controller
<1>4. k \in Controller /\ k.inq = ctl[a].inq /\ k.instance = ctl[a].instance
      /\ k.current = ctl[a].current
  BY <1>1, <1>3 DEF Controller
<1>5. IdsOf(k, jr[a]) = IdsOf(ctl[a], jr[a])
  BY <1>4 DEF IdsOf
<1>6. AsksComputer(a, r) => command \in Commands
  BY <1>3 DEF AsksComputer, IsComputer, ComputerCommand, Commands, EngineCommands, Results, Players
<1>7. command.command # "START"
  BY DEF ComputerCommand
<1>8. \A d \in Callers : act'[d].game = act[d].game /\ act'[d].life = act[d].life
  BY <1>1 DEF Activity
<1> HIDE DEF r, k, command
<1>9. AsksComputer(a, r) => /\ IdsOf(SendInput(k, command), jr[a]) \subseteq IdsOf(k, jr[a])
                         /\ SendInput(k, command).current = k.current
  BY <1>4, <1>6, <1>7, IdsAfterSend DEF SendInput, Controller
<1>10. IdsOf(ctl'[a], jr[a]) \subseteq IdsOf(ctl[a], jr[a]) /\ ctl'[a].current = ctl[a].current
  BY <1>1, <1>4, <1>5, <1>9
<1> QED
  BY <1>1, <1>2, <1>8, <1>10, SmallStepInstance

(* The steps of a user other than a rotation, and onDestroy.               *)
LEMMA UserStepInstance ==
  ASSUME TypeOK, TypeOK', InstanceInv, NEW a \in Callers,
         \/ HumanPlay(a) \/ PromoteClick(a) \/ PromoteCancel(a)
         \/ UndoMenu(a) \/ TryQuit(a) \/ QuitYes(a) \/ QuitNo(a) \/ Destroy(a)
  PROVE  InstanceInv'
<1>1. act \in [Callers -> Activity] /\ DestroyCommand \in Commands
      /\ DestroyCommand.command # "START"
  BY DEF TypeOK, Commands, DestroyCommand
<1> DEFINE Quiet ==
      /\ act[a].life # "none" /\ UNCHANGED jniVars
      /\ \A d \in Callers : /\ act'[d].game = act[d].game
                            /\ act'[d].life = "none" => act[d].life = "none"
<1>2. CASE HumanPlay(a)
  <2>1. PICK m \in Moves :
          /\ Running(a) /\ IsHuman(a, act[a].touch)
          /\ \/ /\ act' = [act EXCEPT ![a] = TurnGivenUp(@)]
                /\ ctl' = [ctl EXCEPT ![a] = SendInput(@,
                     HumanCommand(act[a].touch, [by |-> act[a].touch, move |-> m]))]
             \/ /\ act' = [act EXCEPT ![a] = [TurnGivenUp(@) EXCEPT
                                                !.promo = [by |-> act[a].touch, move |-> m],
                                                !.dialog = "promote"]]
                /\ UNCHANGED ctl
          /\ UNCHANGED <<jniVars, games>>
    BY <1>2 DEF HumanPlay, Visible
  <2> DEFINE command == HumanCommand(act[a].touch, [by |-> act[a].touch, move |-> m])
  <2>2. command \in Commands /\ command.command # "START"
    <3>1. act[a].touch \in Sides
      BY <2>1 DEF IsHuman, GameOf, TypeOK, Activity, Game
    <3> QED
      BY <3>1 DEF HumanCommand, Commands, EngineCommands, Play
  <2>3. Quiet
    <3> DEFINE given == TurnGivenUp(act[a])
               asked == [given EXCEPT !.promo = [by |-> act[a].touch, move |-> m],
                                      !.dialog = "promote"]
    <3>1. act[a] \in Activity
      BY <1>1
    <3>2. /\ given.life = act[a].life /\ given.game = act[a].game
          /\ asked.life = act[a].life /\ asked.game = act[a].game
      BY <3>1 DEF TurnGivenUp, Activity
    <3>3. act' = [act EXCEPT ![a] = given] \/ act' = [act EXCEPT ![a] = asked]
      BY <2>1
    <3> HIDE DEF given, asked
    <3>4. \A d \in Callers : act'[d].life = act[d].life /\ act'[d].game = act[d].game
      BY <1>1, <3>2, <3>3
    <3> QED
      BY <2>1, <3>4 DEF Running
  <2> HIDE DEF command
  <2>4. ctl' = ctl \/ ctl' = [ctl EXCEPT ![a] = SendInput(@, command)]
    BY <2>1 DEF command
  <2> QED
    BY <2>2, <2>3, <2>4, SendStepInstance
<1>3. CASE PromoteClick(a)
  <2>1. PICK m \in Moves :
          /\ Running(a)
          /\ act' = [act EXCEPT ![a].promo = NoPlay, ![a].dialog = "none"]
          /\ ctl' = IF act[a].promo = NoPlay THEN ctl
                    ELSE [ctl EXCEPT ![a] = SendInput(@,
                            HumanCommand(act[a].promo.by, [act[a].promo EXCEPT !.move = m]))]
          /\ UNCHANGED <<jniVars, games>>
    BY <1>3 DEF PromoteClick
  <2> DEFINE command == HumanCommand(act[a].promo.by, [act[a].promo EXCEPT !.move = m])
  <2>2. Quiet
    BY <1>1, <2>1 DEF Activity, Running
  <2>3. CASE act[a].promo = NoPlay
    BY <1>1, <2>1, <2>2, <2>3, SendStepInstance
  <2>4. CASE act[a].promo # NoPlay
    <3>1. command \in Commands /\ command.command # "START"
      <4>1. act[a].promo \in Play
        BY <1>1, <2>4 DEF Activity
      <4> QED
        BY <4>1 DEF HumanCommand, Commands, EngineCommands, Play
    <3> QED
      BY <2>1, <2>2, <2>4, <3>1, SendStepInstance
  <2> QED
    BY <2>3, <2>4
<1>4. CASE UndoMenu(a)
  <2> DEFINE plays == GameOf(a).plays
             command == UndoOf(act[a].next, plays)
  <2>1. /\ Running(a) /\ IsHuman(a, act[a].next) /\ Len(plays) >= 2
        /\ act' = [act EXCEPT ![a].next = "INVALID", ![a].undos = @ - 1]
        /\ ctl' = [ctl EXCEPT ![a] = SendInput(@, command)]
        /\ UNCHANGED <<jniVars, games>>
    BY <1>4 DEF UndoMenu, Visible
  <2>2. plays \in Seq(Entry)
    BY DEF TypeOK, Activity, Game, GameOf
  <2>3. plays[Len(plays)] \in Entry /\ plays[Len(plays) - 1] \in Entry
    BY <2>1, <2>2, ElementOfSeq
  <2>4. command \in Commands /\ command.command # "START"
    <3>1. act[a].next \in Sides
      BY <2>1 DEF IsHuman, GameOf, TypeOK, Activity, Game
    <3> QED
      BY <2>3, <3>1 DEF UndoOf, UndoCommand, Commands, EngineCommands, Entry
  <2>5. Quiet
    BY <1>1, <2>1 DEF Activity, Running
  <2> HIDE DEF command
  <2> QED
    BY <2>1, <2>4, <2>5, SendStepInstance
<1>5. CASE Destroy(a)
  <2>1. Quiet /\ ctl' = [ctl EXCEPT ![a] = SendInput(@, DestroyCommand)]
    BY <1>1, <1>5 DEF Destroy, Activity
  <2> QED
    BY <1>1, <2>1, SendStepInstance
<1>6. CASE PromoteCancel(a) \/ TryQuit(a) \/ QuitYes(a) \/ QuitNo(a)
  <2>1. Running(a) /\ ctl' = ctl /\ UNCHANGED jniVars
    BY <1>6 DEF PromoteCancel, TryQuit, QuitYes, QuitNo, Visible
  <2>2. \A d \in Callers \ {a} : act'[d] = act[d]
    BY <1>1, <1>6 DEF PromoteCancel, TryQuit, QuitYes, QuitNo
  <2>3. act'[a].life # "none" /\ act'[a].game = act[a].game
    <3>1. act[a] \in Activity /\ act[a].life = "running"
      BY <1>1, <2>1 DEF Running
    <3>2. CASE PromoteCancel(a)
      BY <1>1, <3>1, <3>2 DEF PromoteCancel, Activity
    <3>3. CASE TryQuit(a)
      BY <1>1, <3>1, <3>3 DEF TryQuit, Activity
    <3>4. CASE QuitYes(a) \/ QuitNo(a)
      BY <1>1, <3>1, <3>4 DEF QuitYes, QuitNo, Activity
    <3> QED
      BY <1>6, <3>2, <3>3, <3>4
  <2>4. Quiet
    BY <2>1, <2>2, <2>3 DEF Running
  <2> HIDE DEF Quiet
  <2> QED
    BY <1>1, <2>1, <2>4, SendStepInstance DEF Quiet
<1> QED
  BY <1>2, <1>3, <1>4, <1>5, <1>6

(* A new game: its activity asks for no ID.                                *)
LEMMA LaunchInstance ==
  ASSUME TypeOK, TypeOK', InstanceInv, Launch
  PROVE  InstanceInv'
<1>0. PICK a \in Callers, board \in SavedGames \cup {<<>>}, replaying \in BOOLEAN,
           humans \in PlayerTypes : LaunchGame(a, board, replaying, humans)
  BY DEF Launch
<1>1. LET next == IF Len(board) % 2 = 0 THEN "BLACK" ELSE "WHITE" IN
        /\ act[a].life = "none"
        /\ act' = [act EXCEPT ![a] = NewActivity(a, next, MaxUndos, board, "none")]
        /\ ctl' = [ctl EXCEPT ![a] = SendInput(@, StartCommand(0, board, next))]
        /\ UNCHANGED jniVars
  BY <1>0 DEF LaunchGame
<1> DEFINE command == StartCommand(0, board, IF Len(board) % 2 = 0 THEN "BLACK" ELSE "WHITE")
<1>2. /\ ctl \in [Callers -> Controller] /\ act \in [Callers -> Activity]
      /\ g_instance_id \in Nat
  BY DEF TypeOK, ControllerTypeOK, JNITypeOK
<1>3. ctl[a] = NewController
  BY <1>1 DEF InstanceInv
<1>4. board \in Seq(Play)
  BY ActivityAssumption, EmptySeq
<1>5. command \in Commands /\ command.resume = 0
  BY <1>4 DEF StartCommand, Commands, EngineCommands, Players, Sides
<1>6. /\ \A d \in Callers \ {a} : ctl'[d] = ctl[d] /\ act'[d] = act[d]
      /\ ctl'[a] = SendInput(ctl[a], command) /\ act'[a].life = "running"
      /\ UNCHANGED jniVars
  BY <1>1, <1>2 DEF NewActivity
<1> HIDE DEF command
<1>7. HeldBy(a)' \subseteq {-1, 0}
  <2>1. \A n \in HeldBy(a)' : n \in IdsOf(ctl[a], jr[a]) \/ n = 0
    BY <1>2, <1>5, <1>6, IdsAfterSend DEF HeldBy, jniVars
  <2>2. IdsOf(ctl[a], jr[a]) = {-1}
    BY <1>3, NewHoldsNothing
  <2> QED
    BY <2>1, <2>2
<1>8. \A d \in Callers \ {a} : HeldBy(d)' = HeldBy(d)
  BY <1>6 DEF HeldBy, jniVars
<1>9. \A d \in Callers : \A n \in HeldBy(d)' : n <= g_instance_id'
  BY <1>2, <1>6, <1>7, <1>8 DEF InstanceInv, jniVars
<1>10. \A b, d \in Callers : \A n \in HeldBy(b)' \cap HeldBy(d)' :
         n > 0 => act'[b].game = act'[d].game
  BY <1>6, <1>7, <1>8 DEF InstanceInv
<1>11. \A d \in Callers : act'[d].life = "none" => ctl'[d] = NewController
  BY <1>6 DEF InstanceInv
<1>12. \A d \in Callers : ctl'[d].current = NoCommand => jr'[d] = NoResult
  BY <1>2, <1>3, <1>6 DEF InstanceInv, jniVars, NewController
<1> QED
  BY <1>9, <1>10, <1>11, <1>12 DEF InstanceInv

(* A rotation: the new activity asks for an ID that the old one holds, and *)
(* it belongs to the old one's game.                                       *)
LEMMA RotateInstance ==
  ASSUME TypeOK, TypeOK', InstanceInv, NEW a \in Callers, Rotate(a)
  PROVE  InstanceInv'
<1> DEFINE next == IF act[a].next = "BLACK" THEN "BLACK" ELSE "WHITE"
           undos == IF act[a].undos = 0 THEN MaxUndos ELSE act[a].undos
           board == GameOf(a).initial
           command == StartCommand(ctl[a].instance, board, next)
           new == NewActivity(act[a].game, next, undos, board, act[a].dialog)
<1>1. PICK b \in Callers :
        /\ act[b].life = "none" /\ Running(a)
        /\ act' = [act EXCEPT ![a].life = "destroyed", ![a].dialog = "none", ![b] = new]
        /\ ctl' = [ctl EXCEPT ![a] = SendInput(@, DestroyCommand),
                              ![b] = SendInput(@, command)]
        /\ UNCHANGED jniVars
  BY DEF Rotate
<1>2. /\ ctl \in [Callers -> Controller] /\ act \in [Callers -> Activity]
      /\ g_instance_id \in Nat /\ a # b
  BY <1>1 DEF TypeOK, ControllerTypeOK, JNITypeOK, Running
<1>3. ctl[b] = NewController
  BY <1>1 DEF InstanceInv
<1>4. board \in Seq(Play) /\ next \in Players
  BY <1>2 DEF TypeOK, Activity, Game, GameOf, Players, Sides
<1>5. command \in Commands /\ command.resume = ctl[a].instance
      /\ DestroyCommand \in Commands /\ DestroyCommand.command # "START"
  BY <1>2, <1>4 DEF StartCommand, Commands, EngineCommands, Controller, DestroyCommand
<1>6. /\ \A d \in Callers \ {a, b} : ctl'[d] = ctl[d] /\ act'[d] = act[d]
      /\ ctl'[a] = SendInput(ctl[a], DestroyCommand) /\ ctl'[b] = SendInput(ctl[b], command)
      /\ act'[a].life = "destroyed" /\ act'[a].game = act[a].game
      /\ act'[b].life = "running" /\ act'[b].game = act[a].game
      /\ UNCHANGED jniVars
  BY <1>1, <1>2 DEF NewActivity, Activity
<1> HIDE DEF command
<1>7. HeldBy(b)' \subseteq {-1, ctl[a].instance}
  <2>1. \A n \in HeldBy(b)' : n \in IdsOf(ctl[b], jr[b]) \/ n = ctl[a].instance
    BY <1>2, <1>5, <1>6, IdsAfterSend DEF HeldBy, jniVars
  <2>2. IdsOf(ctl[b], jr[b]) = {-1}
    BY <1>3, NewHoldsNothing
  <2> QED
    BY <2>1, <2>2
<1>8. HeldBy(a)' \subseteq HeldBy(a) /\ ctl[a].instance \in HeldBy(a)
  <2>1. \A n \in HeldBy(a)' : n \in IdsOf(ctl[a], jr[a])
    BY <1>2, <1>5, <1>6, IdsAfterSend DEF HeldBy, jniVars
  <2> QED
    BY <2>1 DEF HeldBy, IdsOf
<1>9. \A d \in Callers \ {a, b} : HeldBy(d)' = HeldBy(d)
  BY <1>6 DEF HeldBy, jniVars
<1>10. \A d \in Callers : \A n \in HeldBy(d)' : n <= g_instance_id'
  BY <1>2, <1>6, <1>7, <1>8, <1>9 DEF InstanceInv, jniVars
<1> DEFINE HeldThen(d) == IF d = b THEN a ELSE d
<1>11. \A d \in Callers : \A n \in HeldBy(d)' :
         n > 0 => n \in HeldBy(HeldThen(d)) /\ act'[d].game = act[HeldThen(d)].game
  BY <1>2, <1>6, <1>7, <1>8, <1>9
<1>12. \A c, d \in Callers : \A n \in HeldBy(c)' \cap HeldBy(d)' :
         n > 0 => act'[c].game = act'[d].game
  BY <1>11 DEF InstanceInv
<1>13. \A d \in Callers : act'[d].life = "none" => ctl'[d] = NewController
  BY <1>6 DEF InstanceInv
<1>14. \A d \in Callers : ctl'[d].current = NoCommand => jr'[d] = NoResult
  <2>1. ctl'[a].current = ctl[a].current /\ ctl'[b].current = ctl[b].current
    BY <1>2, <1>6 DEF SendInput, Controller
  <2> QED
    BY <1>6, <2>1 DEF InstanceInv, jniVars
<1> QED
  BY <1>10, <1>12, <1>13, <1>14 DEF InstanceInv

LEMMA NextInstanceInv == TypeOK /\ TypeOK' /\ InstanceInv /\ [Next]_vars => InstanceInv'
<1> SUFFICES ASSUME TypeOK, TypeOK', InstanceInv, [Next]_vars PROVE InstanceInv'
  OBVIOUS
<1>1. CASE InitializeStep
  BY <1>1 DEF InitializeStep, Initialize, InstanceInv, HeldBy
<1>2. CASE Launch
  BY <1>2, LaunchInstance
<1>3. ASSUME NEW a \in Callers, ControllerStep(a) PROVE InstanceInv'
  BY <1>3, CallEngineInstance, PostResultInstance, DoDestroyInstance DEF ControllerStep
<1>4. ASSUME NEW a \in Callers, HandleResult(a) PROVE InstanceInv'
  BY <1>4, HandleResultInstance
<1>5. ASSUME NEW a \in Callers, UserStep(a) PROVE InstanceInv'
  BY <1>5, UserStepInstance, RotateInstance DEF UserStep
<1>6. ASSUME NEW a \in Callers, Destroy(a) PROVE InstanceInv'
  BY <1>6, UserStepInstance
<1>7. CASE UNCHANGED vars
  BY <1>7 DEF vars, jniVars, InstanceInv, HeldBy
<1> QED
  BY <1>1, <1>2, <1>3, <1>4, <1>5, <1>6, <1>7 DEF Next

(* The inductive invariant, in every session.                              *)
THEOREM InstanceInvariant == Spec => []InstanceInv
<1>1. Spec => []TypeOK
  BY TypeCorrect
<1> QED
  BY <1>1, InitInstance, NextInstanceInv, PTL DEF Spec

(* Two activities that hold the same instance ID show the same game.       *)
THEOREM InstancesAreUnique == Spec => []InstancesNameGames
<1>1. InstanceInv => InstancesNameGames
  BY DEF InstanceInv, InstancesNameGames, HeldBy, IdsOf
<1> QED
  BY <1>1, InstanceInvariant, PTL

(***************************************************************************)
(* A calm session.                                                         *)
(***************************************************************************)

(* The sides play in turn, black first; counted from 0 as in mPlays.       *)
SideAt(n) == IF n % 2 = 0 THEN "BLACK" ELSE "WHITE"
Alternating(plays) == \A i \in 1..Len(plays) : plays[i].by = SideAt(i - 1)
Turn(game) == SideAt(Len(game.plays))

(* The user touches nothing during an undo, lets a game start before       *)
(* leaving it, and rotates the screen only when it is the user's turn and, *)
(* since an activity that was just rotated accepts an undo, only if undo   *)
(* is switched off; resumed games are games, and not over.                 *)
CalmUse ==
  /\ ~TouchDuringUndo
  /\ "starting" \notin LeaveWhen
  /\ RotateWhen \subseteq {"idle"}
  /\ RotateWhen # {} => MaxUndos = 0
  /\ \A board \in SavedGames \cup {<<>>} : Alternating(board) /\ board \notin MatedBoards

-----------------------------------------------------------------------------
(* The inductive invariant.  Its parts are about one activity x, its       *)
(* controller k, the result r of the call that k made, and its game.       *)

Requests(k) == {k.inq[i] : i \in {j \in 1..Len(k.inq) : k.inq[j] # DestroyCommand}}
Idle(k) == Requests(k) = {} /\ k.current = NoCommand /\ k.outq = <<>>

(* The reply that the activity has yet to handle, if the call was not      *)
(* refused, is the same before and after it is posted.                     *)
HasAnswer(k, r) == (k.current # NoCommand /\ r.status # "INSTANCE_DELETED") \/ k.outq # <<>>
Answer(k, r) == IF k.current # NoCommand THEN ReplyTo(k.current, r) ELSE Head(k.outq)

(* At most one request is queued, called or answered.                      *)
QueueInv(k) ==
  /\ \A i, j \in 1..Len(k.inq) :
       k.inq[i] # DestroyCommand /\ k.inq[j] # DestroyCommand => i = j
  /\ k.current # NoCommand => Requests(k) = {} /\ k.outq = <<>>
  /\ k.outq # <<>> => Requests(k) = {} /\ Len(k.outq) = 1

(* The instance ID an activity goes by: of the START it has queued, of     *)
(* the result of its START, or of its controller.                          *)
Starts(k) == {c \in Requests(k) : c.command = "START"}
IdOf(k, r) ==
  IF k.current.command = "START" THEN r.instance
  ELSE IF Starts(k) # {} THEN (CHOOSE c \in Starts(k) : TRUE).resume
  ELSE k.instance

(* A request is made for the side to play, and takes the last two back.    *)
RequestFits(c, x, game) ==
  LET n == Len(game.plays) IN
  /\ c.player = Turn(game)
  /\ c.command = "START" => x.state = "null" /\ c.board = game.initial
  /\ c.command = "UNDO" =>
       n >= 2 /\ c.cookie1 = game.plays[n].move /\ c.cookie2 = game.plays[n - 1].move

AnswerFits(ans, game) ==
  /\ ans.lastMove # NoPlay => ans.lastMove.by = Turn(game)
  /\ ans.undoMoves = 2 => Len(game.plays) >= 2 /\ ans.lastMove = NoPlay
  /\ ans.lastMove = NoPlay => ans.gameState = "ACTIVE"
  /\ ans.nextPlayer = (IF ans.gameState = "ACTIVE"
                       THEN SideAt(Len(PlaysAfter(game.plays, ans))) ELSE "INVALID")

RequestInv(x, k, r, game) ==
  /\ \A c \in Requests(k) : RequestFits(c, x, game)
  /\ HasAnswer(k, r) => AnswerFits(Answer(k, r), game)
  /\ k.current.command = "START" => r.status = "OK" /\ r.instance # 0
  /\ ~Idle(k) => x.state \in {"null", "ACTIVE"}
  /\ k.instance # 0
  /\ x.state = "null" => x.life = "running"
  /\ (\E i \in 1..Len(k.inq) : k.inq[i] = DestroyCommand) => x.life = "destroyed"

(* What the user of a running activity sees and may do.                    *)
UserInv(x, k, r, game) ==
  x.life = "running" =>
    /\ x.next # "INVALID" => x.next = Turn(game) /\ x.state \in {"null", "ACTIVE"}
    /\ x.touch # "INVALID" => x.touch = Turn(game) /\ x.state # "null"
    /\ x.dialog = "promote" => /\ x.promo.by = Turn(game)
                               /\ x.next = "INVALID" /\ x.state = "ACTIVE" /\ Idle(k)
    /\ x.dialog = "quit" => x.state # "null"
    /\ x.next \in game.humans /\ x.state # "null" => Idle(k)
    /\ x.undos <= MaxUndos
    /\ x.undos > 0 /\ x.state = "null" =>
         \A i \in 1..Len(game.plays) : ~game.plays[i].cookie
    /\ Idle(k) /\ x.state = "ACTIVE" /\ x.dialog # "promote" /\ IdOf(k, r) > 0
         => x.next = Turn(game)
    /\ k.quit => IdOf(k, r) <= 0

(* The owner of the engine's game and the engine agree.                    *)
AgreesWith(t, x, k, r, game) ==
  /\ HasAnswer(k, r) =>
       /\ t.plays = Answer(k, r).board
       /\ t.plays = Bare(PlaysAfter(game.plays, Answer(k, r)))
       /\ t.status = {} <=> Answer(k, r).gameState = "ACTIVE"
  /\ ~HasAnswer(k, r) =>
       /\ k.current = NoCommand
       /\ t.plays = Bare(game.plays)
       /\ t.status = {} <=> x.state \in {"null", "ACTIVE"}
       /\ x.state # "null" => x.board = t.plays

(* Without an instance, nothing is ever played.                            *)
NothingPlayed(k, r, game) ==
  /\ Bare(game.plays) = game.initial
  /\ HasAnswer(k, r) => Answer(k, r).lastMove = NoPlay /\ Answer(k, r).undoMoves = 0

(* The last activity of a game: a rotated activity has nothing to do.      *)
Owner(a) ==
  /\ act[a].life # "none"
  /\ \A b \in Created : act[b].game = act[a].game => b <= a

ActivityInv(a) ==
  act[a].life # "none" =>
    /\ QueueInv(ctl[a])
    /\ RequestInv(act[a], ctl[a], jr[a], GameOf(a))
    /\ UserInv(act[a], ctl[a], jr[a], GameOf(a))

OwnerInv(a) ==
  LET id == IdOf(ctl[a], jr[a]) IN
  /\ Owner(a) =>
       /\ g_instance_id > 0 /\ id = g_instance_id
            => AgreesWith(tree, act[a], ctl[a], jr[a], GameOf(a))
       /\ id <= 0 => NothingPlayed(ctl[a], jr[a], GameOf(a))
  /\ act[a].life # "none" /\ ~Owner(a) =>
       Idle(ctl[a]) /\ act[a].life = "destroyed" /\ act[a].state = "ACTIVE"
  /\ Running(a) => \/ id = g_instance_id
                   \/ id = -1 /\ g_instance_id = 0
                   \/ id = 0 /\ Starts(ctl[a]) # {}

EngineInv ==
  /\ ~aborted
  /\ tree.intact
  /\ tree.turn = SideAt(Len(tree.plays))
  /\ g_init # "ok" => g_instance_id = 0

(* Activities are created in order, each in a game of its own or of one    *)
(* before it, and only the last one runs.                                  *)
GamesInv ==
  /\ \A a, b \in Callers : Running(a) /\ Running(b) => a = b
  /\ \A a \in Callers : Running(a) => \A b \in Created : b <= a
  /\ \A a, b \in Callers : b < a /\ a \in Created => b \in Created
  /\ \A a \in Callers : a \notin Created => act[a].state = "null"
  /\ \A a \in Created : act[a].game \in Created /\ act[a].game <= a
  /\ \A a \in Created : GameOf(a).initial \in SavedGames \cup {<<>>}
  /\ \A g \in Callers : Alternating(games[g].plays)

SessionInv ==
  /\ \A a \in Callers : ActivityInv(a) /\ OwnerInv(a)
  /\ EngineInv
  /\ GamesInv
  /\ FinishedGameIsSaved
-----------------------------------------------------------------------------
(* The queue of a controller.                                              *)

(* Requests for the engine are not DESTROY.                                *)
LEMMA EngineIsNotDestroy ==
  \A c \in EngineCommands : c # DestroyCommand /\ c # NoCommand /\ c \in Commands
BY DEF EngineCommands, DestroyCommand, NoCommand, Commands

(* Whatever is queued that is not DESTROY is a request for the engine.     *)
LEMMA RequestsType ==
  ASSUME NEW k \in Controller PROVE Requests(k) \subseteq EngineCommands
<1>1. \A i \in 1..Len(k.inq) : k.inq[i] \in Commands
  BY ElementOfSeq DEF Controller
<1> QED
  BY <1>1 DEF Requests, Commands

(* A command that is sent becomes the last one of the queue.               *)
LEMMA SendKeeps ==
  ASSUME NEW k \in Controller, NEW c \in Commands, ~k.quit,
         NEW k2, k2 = SendInput(k, c)
  PROVE  /\ k2 \in Controller
         /\ k2.current = k.current /\ k2.outq = k.outq
         /\ k2.instance = k.instance /\ k2.quit = k.quit
         /\ Len(k2.inq) = Len(k.inq) + 1 /\ Len(k.inq) \in Nat
         /\ \A i \in 1..Len(k.inq) : k2.inq[i] = k.inq[i]
         /\ k2.inq[Len(k.inq) + 1] = c
<1>1. k2 = [k EXCEPT !.inq = Append(@, c)] /\ k.inq \in Seq(Commands)
  BY DEF SendInput, Controller
<1>2. /\ Append(k.inq, c) \in Seq(Commands)
      /\ Len(Append(k.inq, c)) = Len(k.inq) + 1 /\ Len(k.inq) \in Nat
      /\ \A i \in 1..Len(k.inq) : Append(k.inq, c)[i] = k.inq[i]
      /\ Append(k.inq, c)[Len(k.inq) + 1] = c
  BY <1>1, AppendProperties
<1>3. k2.inq = Append(k.inq, c)
  BY <1>1 DEF Controller
<1> QED
  BY <1>1, <1>2, <1>3 DEF Controller

(* An idle controller that is sent a request has just this one.            *)
LEMMA AskOne ==
  ASSUME NEW k \in Controller, NEW c \in EngineCommands, ~k.quit, Idle(k),
         NEW k2, k2 = SendInput(k, c)
  PROVE  /\ k2 \in Controller /\ QueueInv(k2) /\ Requests(k2) = {c}
         /\ k2.current = NoCommand /\ k2.outq = <<>>
         /\ k2.instance = k.instance /\ k2.quit = k.quit
         /\ \A i \in 1..Len(k2.inq) : k2.inq[i] = DestroyCommand =>
              \E j \in 1..Len(k.inq) : k.inq[j] = DestroyCommand
<1> DEFINE n == Len(k.inq)
<1>0. c \in Commands /\ c # DestroyCommand /\ k.current = NoCommand /\ k.outq = <<>>
      /\ Requests(k) = {}
  BY EngineIsNotDestroy DEF Idle
<1>1. /\ k2 \in Controller
      /\ k2.current = NoCommand /\ k2.outq = <<>>
      /\ k2.instance = k.instance /\ k2.quit = k.quit
      /\ Len(k2.inq) = n + 1 /\ n \in Nat
      /\ \A i \in 1..n : k2.inq[i] = k.inq[i]
      /\ k2.inq[n + 1] = c
  BY <1>0, SendKeeps
<1>2. \A i \in 1..n : k.inq[i] = DestroyCommand
  BY <1>0 DEF Requests
<1> HIDE DEF n
<1>3. \A i \in 1..Len(k2.inq) : (i \in 1..n /\ k2.inq[i] = DestroyCommand) \/ (i = n + 1 /\ k2.inq[i] = c)
  BY <1>1, <1>2
<1>4. n + 1 \in 1..Len(k2.inq)
  BY <1>1
<1>5. Requests(k2) = {c}
  BY <1>0, <1>1, <1>3, <1>4 DEF Requests
<1>6. QueueInv(k2)
  BY <1>0, <1>1, <1>3 DEF QueueInv
<1>7. \A i \in 1..Len(k2.inq) : k2.inq[i] = DestroyCommand =>
        \E j \in 1..n : k.inq[j] = DestroyCommand
  BY <1>0, <1>2, <1>3
<1> QED
  BY <1>1, <1>5, <1>6, <1>7 DEF n

(* DESTROY is not a request.                                               *)
LEMMA DestroyIsNoRequest ==
  ASSUME NEW k \in Controller, QueueInv(k), NEW k2, k2 = SendInput(k, DestroyCommand)
  PROVE  /\ k2 \in Controller /\ QueueInv(k2) /\ Requests(k2) = Requests(k)
         /\ k2.current = k.current /\ k2.outq = k.outq
         /\ k2.instance = k.instance /\ k2.quit = k.quit
<1>1. CASE k.quit
  BY <1>1 DEF SendInput
<1>2. CASE ~k.quit
  <2> DEFINE n == Len(k.inq)
  <2>0. DestroyCommand \in Commands
    BY DEF Commands
  <2>1. /\ k2 \in Controller
        /\ k2.current = k.current /\ k2.outq = k.outq
        /\ k2.instance = k.instance /\ k2.quit = k.quit
        /\ Len(k2.inq) = n + 1 /\ n \in Nat
        /\ \A i \in 1..n : k2.inq[i] = k.inq[i]
        /\ k2.inq[n + 1] = DestroyCommand
    BY <1>2, <2>0, SendKeeps
  <2> HIDE DEF n
  <2>2. \A i \in 1..Len(k2.inq) :
          (i \in 1..n /\ k2.inq[i] = k.inq[i]) \/ (i = n + 1 /\ k2.inq[i] = DestroyCommand)
    BY <2>1
  <2>3. \A i \in 1..n : i \in 1..Len(k2.inq) /\ k2.inq[i] = k.inq[i]
    BY <2>1
  <2>4. Requests(k2) = Requests(k)
    <3>1. Requests(k2) \subseteq Requests(k)
      BY <2>2 DEF Requests, n
    <3>2. Requests(k) \subseteq Requests(k2)
      BY <2>3 DEF Requests, n
    <3> QED
      BY <3>1, <3>2
  <2>5. QueueInv(k2)
    <3>1. \A i, j \in 1..n : k.inq[i] # DestroyCommand /\ k.inq[j] # DestroyCommand => i = j
      BY DEF QueueInv, n
    <3>2. \A i, j \in 1..Len(k2.inq) :
            k2.inq[i] # DestroyCommand /\ k2.inq[j] # DestroyCommand => i = j
      BY <2>2, <3>1
    <3> QED
      BY <2>1, <2>4, <3>2 DEF QueueInv
  <2> QED
    BY <2>1, <2>4, <2>5
<1> QED
  BY <1>1, <1>2

(* The controller takes the head of its queue.                             *)
Taken(k) == [k EXCEPT !.inq = Tail(@), !.current = Head(k.inq)]

(* Taking a request from the head of the queue leaves none.                *)
LEMMA TakeOne ==
  ASSUME NEW k \in Controller, QueueInv(k), k.inq # <<>>, k.current = NoCommand,
         Head(k.inq) # DestroyCommand, NEW k2, k2 = Taken(k)
  PROVE  /\ Requests(k) = {Head(k.inq)} /\ Requests(k2) = {} /\ k.outq = <<>>
         /\ Head(k.inq) \in EngineCommands /\ k2 \in Controller /\ QueueInv(k2)
         /\ k2.current = Head(k.inq) /\ k2.outq = k.outq
         /\ k2.instance = k.instance /\ k2.quit = k.quit
         /\ \A i \in 1..Len(k2.inq) : k2.inq[i] = DestroyCommand =>
              \E j \in 1..Len(k.inq) : k.inq[j] = DestroyCommand
<1>1. /\ k.inq \in Seq(Commands) /\ Len(k2.inq) = Len(k.inq) - 1 /\ Len(k.inq) \in Nat \ {0}
      /\ \A i \in 1..Len(k2.inq) : k2.inq[i] = k.inq[i + 1]
      /\ k2.current = Head(k.inq) /\ k2.outq = k.outq
      /\ k2.instance = k.instance /\ k2.quit = k.quit
      /\ Tail(k.inq) \in Seq(Commands) /\ k2.inq = Tail(k.inq)
  BY HeadTailProperties, EmptySeq DEF Controller, Taken
<1>2. k.inq[1] = Head(k.inq) /\ 1 \in 1..Len(k.inq) /\ k.inq[1] \in Commands
  BY <1>1, ElementOfSeq
<1>3. Head(k.inq) \in EngineCommands
  BY <1>2 DEF Commands
<1>4. \A i \in 1..Len(k.inq) : k.inq[i] # DestroyCommand => i = 1
  BY <1>2 DEF QueueInv
<1>5. Requests(k) = {Head(k.inq)}
  BY <1>2, <1>4 DEF Requests
<1>6. k.outq = <<>>
  BY <1>5 DEF QueueInv
<1>7. \A i \in 1..Len(k2.inq) : i + 1 \in 1..Len(k.inq) /\ i + 1 # 1
  BY <1>1
<1>8. \A i \in 1..Len(k2.inq) : k2.inq[i] = DestroyCommand
  BY <1>1, <1>4, <1>7
<1>9. Requests(k2) = {}
  BY <1>8 DEF Requests
<1>10. k2 \in Controller
  BY <1>1, <1>3 DEF Controller, Taken
<1>11. QueueInv(k2)
  BY <1>1, <1>6, <1>8, <1>9 DEF QueueInv
<1>12. \A i \in 1..Len(k2.inq) : k2.inq[i] = DestroyCommand =>
         \E j \in 1..Len(k.inq) : k.inq[j] = DestroyCommand
  BY <1>1, <1>7, <1>8
<1> HIDE DEF Requests
<1> QED
  BY <1>1, <1>3, <1>5, <1>6, <1>9, <1>10, <1>11, <1>12

(* The ID of an activity with one request queued, and with none.           *)
LEMMA IdOfRequest ==
  ASSUME NEW k, NEW r, NEW c, Requests(k) = {c}, k.current = NoCommand
  PROVE  IdOf(k, r) = (IF c.command = "START" THEN c.resume ELSE k.instance)
<1>1. k.current.command # "START"
  BY DEF NoCommand
<1>2. CASE c.command = "START"
  <2>1. Starts(k) = {c}
    BY <1>2 DEF Starts
  <2> QED
    BY <1>1, <1>2, <2>1 DEF IdOf
<1>3. CASE c.command # "START"
  <2>1. Starts(k) = {}
    BY <1>3 DEF Starts
  <2> QED
    BY <1>1, <1>3, <2>1 DEF IdOf
<1> QED
  BY <1>2, <1>3

(* Without a request queued, the ID is that of the call or the controller. *)
LEMMA IdOfNone ==
  ASSUME NEW k, NEW r, Requests(k) = {}
  PROVE  IdOf(k, r) = (IF k.current.command = "START" THEN r.instance ELSE k.instance)
BY DEF IdOf, Starts

(* The ID an activity goes by is one that it holds.                        *)
LEMMA IdIsHeld ==
  ASSUME NEW k \in Controller, NEW r PROVE IdOf(k, r) \in IdsOf(k, r)
<1>1. CASE k.current.command = "START"
  BY <1>1 DEF IdOf, IdsOf
<1>2. CASE k.current.command # "START" /\ Starts(k) # {}
  <2> DEFINE c == CHOOSE d \in Starts(k) : TRUE
  <2>1. c \in Starts(k)
    BY <1>2
  <2> HIDE DEF c
  <2>2. PICK i \in 1..Len(k.inq) : k.inq[i] = c /\ c.command = "START"
    BY <2>1 DEF Starts, Requests
  <2>3. IdOf(k, r) = c.resume
    BY <1>2 DEF IdOf, c
  <2> QED
    BY <2>2, <2>3 DEF IdsOf
<1>3. CASE k.current.command # "START" /\ Starts(k) = {}
  BY <1>3 DEF IdOf, IdsOf
<1> QED
  BY <1>1, <1>2, <1>3

(* No activity goes by an ID that was not given out yet.                   *)
LEMMA IdsBounded ==
  ASSUME TypeOK, InstanceInv, NEW a \in Callers
  PROVE  /\ IdOf(ctl[a], jr[a]) \in Int /\ IdOf(ctl[a], jr[a]) <= g_instance_id
         /\ g_instance_id \in Nat
<1>1. ctl[a] \in Controller /\ g_instance_id \in Nat
  BY DEF TypeOK, ControllerTypeOK, JNITypeOK
<1>2. IdOf(ctl[a], jr[a]) \in HeldBy(a)
  BY <1>1, IdIsHeld DEF HeldBy
<1>3. IdOf(ctl[a], jr[a]) \in Int
  BY <1>2, IdsAreIntegers
<1>4. IdOf(ctl[a], jr[a]) <= g_instance_id
  BY <1>2 DEF InstanceInv
<1> QED
  BY <1>1, <1>3, <1>4

(* Two owners that go by the same ID are the same activity.                *)
LEMMA OneOwner ==
  ASSUME TypeOK, InstanceInv, NEW a \in Callers, NEW b \in Callers, Owner(a), Owner(b),
         IdOf(ctl[a], jr[a]) = IdOf(ctl[b], jr[b]), IdOf(ctl[a], jr[a]) > 0
  PROVE  a = b
<1>1. ctl[a] \in Controller /\ ctl[b] \in Controller
  BY DEF TypeOK, ControllerTypeOK
<1>2. IdOf(ctl[a], jr[a]) \in HeldBy(a) \cap HeldBy(b)
  BY <1>1, IdIsHeld DEF HeldBy
<1>3. act[a].game = act[b].game
  BY <1>2 DEF InstanceInv
<1>4. a \in Created /\ b \in Created
  BY DEF Owner, Created
<1>5. b <= a /\ a <= b
  BY <1>3, <1>4 DEF Owner
<1> QED
  BY <1>5 DEF Callers

-----------------------------------------------------------------------------
(* Plays and their order.                                                  *)

(* All plays but the last.                                                 *)
LEMMA AllButLast ==
  ASSUME NEW S, NEW s \in Seq(S), s # <<>>
  PROVE  /\ Front(s) \in Seq(S) /\ Len(Front(s)) = Len(s) - 1 /\ Len(s) - 1 \in Nat
         /\ \A i \in 1..(Len(s) - 1) : Front(s)[i] = s[i]
<1> DEFINE n == Len(s) - 1
<1>1. n \in Nat /\ 1..n \subseteq 1..Len(s)
  BY EmptySeq
<1>2. \A i \in 1..n : s[i] \in S
  BY <1>1, ElementOfSeq
<1>3. Front(s) = SubSeq(s, 1, n)
  BY DEF Front
<1> HIDE DEF n
<1>4. /\ SubSeq(s, 1, n) \in Seq(S)
      /\ Len(SubSeq(s, 1, n)) = (IF 1 <= n THEN n - 1 + 1 ELSE 0)
      /\ \A i \in 1..(n - 1 + 1) : SubSeq(s, 1, n)[i] = s[1 + i - 1]
  BY <1>1, <1>2, SubSeqProperties
<1>5. (IF 1 <= n THEN n - 1 + 1 ELSE 0) = n /\ n - 1 + 1 = n
      /\ \A i \in 1..n : 1 + i - 1 = i
  BY <1>1
<1>6. /\ Front(s) \in Seq(S) /\ Len(Front(s)) = n
      /\ \A i \in 1..n : Front(s)[i] = s[i]
  BY <1>3, <1>4, <1>5
<1> QED
  BY <1>1, <1>6 DEF n

(* The side to play changes with every play.                               *)
LEMMA SideTurns ==
  ASSUME NEW n \in Nat
  PROVE  /\ SideAt(n) \in Sides /\ SideAt(n) # "INVALID"
         /\ Opponent(SideAt(n)) = SideAt(n + 1)
         /\ Opponent(Opponent(SideAt(n))) = SideAt(n)
         /\ n >= 2 => SideAt(n - 2) = SideAt(n)
<1>1. n % 2 \in {0, 1} /\ (n % 2 = 0 <=> (n + 1) % 2 = 1)
      /\ (n % 2 = 1 <=> (n + 1) % 2 = 0) /\ (n >= 2 => (n - 2) % 2 = n % 2)
  OBVIOUS
<1> QED
  BY <1>1 DEF SideAt, Sides, Opponent

(* Plays and entries stand for each other, one by one.                     *)
LEMMA BareLength ==
  ASSUME NEW e \in Seq(Entry)
  PROVE  /\ Bare(e) \in Seq(Play) /\ Len(Bare(e)) = Len(e) /\ Len(e) \in Nat
         /\ DOMAIN Bare(e) = 1..Len(e)
         /\ \A i \in 1..Len(e) : Bare(e)[i] = [by |-> e[i].by, move |-> e[i].move]
<1>1. Bare(e) \in Seq(Play) /\ Len(e) \in Nat
  BY BareType
<1>2. DOMAIN Bare(e) = 1..Len(e)
  BY DEF Bare
<1>3. Len(Bare(e)) = Len(e)
  BY <1>1, <1>2, LenProperties
<1> QED
  BY <1>1, <1>2, <1>3 DEF Bare

(* Adding a play, and taking two back.                                     *)
LEMMA BareAppend ==
  ASSUME NEW e \in Seq(Entry), NEW x \in Entry
  PROVE  Bare(Append(e, x)) = Append(Bare(e), [by |-> x.by, move |-> x.move])
<1> DEFINE n == Len(e)
           f == Append(e, x)
           s == Append(Bare(e), [by |-> x.by, move |-> x.move])
<1>1. [by |-> x.by, move |-> x.move] \in Play
  BY DEF Entry, Play
<1>2. /\ f \in Seq(Entry) /\ Len(f) = n + 1 /\ n \in Nat
      /\ f[n + 1] = x /\ \A i \in 1..n : f[i] = e[i]
  BY AppendProperties
<1>3. /\ Bare(e) \in Seq(Play) /\ Len(Bare(e)) = n
      /\ \A i \in 1..n : Bare(e)[i] = [by |-> e[i].by, move |-> e[i].move]
  BY BareLength
<1>4. /\ s \in Seq(Play) /\ Len(s) = n + 1
      /\ s[n + 1] = [by |-> x.by, move |-> x.move] /\ \A i \in 1..n : s[i] = Bare(e)[i]
  BY <1>1, <1>3, AppendProperties
<1>5. /\ Bare(f) \in Seq(Play) /\ Len(Bare(f)) = n + 1
      /\ \A i \in 1..(n + 1) : Bare(f)[i] = [by |-> f[i].by, move |-> f[i].move]
  BY <1>2, BareLength
<1> HIDE DEF f, s, n
<1>6. \A i \in 1..(n + 1) : i \in 1..n \/ i = n + 1
  BY <1>2
<1>7. \A i \in 1..(n + 1) : Bare(f)[i] = s[i]
  <2>1. \A i \in 1..n : Bare(f)[i] = s[i]
    <3>1. TAKE i \in 1..n
    <3>2. i \in 1..(n + 1)
      BY <1>2
    <3>3. Bare(f)[i] = [by |-> f[i].by, move |-> f[i].move]
      BY <1>5, <3>2
    <3>4. f[i] = e[i] /\ s[i] = Bare(e)[i] /\ Bare(e)[i] = [by |-> e[i].by, move |-> e[i].move]
      BY <1>2, <1>3, <1>4
    <3> QED BY <3>3, <3>4
  <2>2. Bare(f)[n + 1] = s[n + 1]
    <3>1. n + 1 \in 1..(n + 1)
      BY <1>2
    <3> QED BY <1>2, <1>4, <1>5, <3>1
  <2> QED BY <1>6, <2>1, <2>2
<1>8. Bare(f) = s
  BY <1>4, <1>5, <1>7, SeqEqual
<1> QED
  BY <1>8 DEF f, s

(* Taking the last two entries back takes back the last two plays.         *)
LEMMA BareTakeBack ==
  ASSUME NEW e \in Seq(Entry), Len(e) >= 2
  PROVE  /\ SubSeq(e, 1, Len(e) - 2) \in Seq(Entry)
         /\ Len(SubSeq(e, 1, Len(e) - 2)) = Len(e) - 2
         /\ \A i \in 1..(Len(e) - 2) : SubSeq(e, 1, Len(e) - 2)[i] = e[i]
         /\ Bare(SubSeq(e, 1, Len(e) - 2)) = Front(Front(Bare(e)))
<1> DEFINE n == Len(e)
           f == SubSeq(e, 1, n - 2)
           b == Bare(e)
           s == Front(b)
           t == Front(s)
<1>1. n \in Nat /\ n >= 2 /\ n - 2 \in Nat /\ n - 1 \in Nat /\ n # 0 /\ n - 1 # 0
      /\ 1..(n - 2) \subseteq 1..(n - 1) /\ 1..(n - 1) \subseteq 1..n /\ (n - 1) - 1 = n - 2
  <2>1. n \in Nat /\ n >= 2
    OBVIOUS
  <2> HIDE DEF n
  <2> QED
    BY <2>1
<1>2. b \in Seq(Play) /\ Len(b) = n
      /\ \A i \in 1..n : b[i] = [by |-> e[i].by, move |-> e[i].move]
  BY BareLength
<1>3. \A i \in 1..(n - 2) : e[i] \in Entry
  BY <1>1, ElementOfSeq
<1>4. /\ f \in Seq(Entry) /\ Len(f) = n - 2
      /\ \A i \in 1..(n - 2) : f[i] = e[i]
  <2>1. \A i \in 1..(n - 2) : 1 + i - 1 = i
    OBVIOUS
  <2>2. /\ f \in Seq(Entry) /\ Len(f) = (IF 1 <= n - 2 THEN (n - 2) - 1 + 1 ELSE 0)
        /\ \A i \in 1..((n - 2) - 1 + 1) : f[i] = e[1 + i - 1]
    BY <1>1, <1>3, SubSeqProperties
  <2> HIDE DEF f, n
  <2>3. (IF 1 <= n - 2 THEN (n - 2) - 1 + 1 ELSE 0) = n - 2 /\ (n - 2) - 1 + 1 = n - 2
    BY <1>1
  <2> QED
    BY <2>1, <2>2, <2>3
<1>5. /\ Bare(f) \in Seq(Play) /\ Len(Bare(f)) = n - 2
      /\ \A i \in 1..(n - 2) : Bare(f)[i] = [by |-> f[i].by, move |-> f[i].move]
  BY <1>4, BareLength
<1> HIDE DEF n, f, b
<1>6. b # <<>>
  BY <1>1, <1>2, EmptySeq
<1>7. s \in Seq(Play) /\ Len(s) = n - 1 /\ \A i \in 1..(n - 1) : s[i] = b[i]
  BY <1>1, <1>2, <1>6, AllButLast
<1> HIDE DEF s
<1>8. s # <<>>
  BY <1>1, <1>7, EmptySeq
<1>9. t \in Seq(Play) /\ Len(t) = n - 2 /\ \A i \in 1..(n - 2) : t[i] = s[i]
  BY <1>1, <1>7, <1>8, AllButLast
<1> HIDE DEF t
<1>10. \A i \in 1..(n - 2) : Bare(f)[i] = t[i]
  <2> TAKE i \in 1..(n - 2)
  <2>1. i \in 1..(n - 1) /\ i \in 1..n
    BY <1>1
  <2>2. t[i] = b[i]
    BY <1>7, <1>9, <2>1
  <2>3. b[i] = [by |-> e[i].by, move |-> e[i].move]
    BY <1>2, <2>1
  <2> QED
    BY <1>4, <1>5, <2>2, <2>3
<1>11. Bare(f) = t
  BY <1>5, <1>9, <1>10, SeqEqual
<1> QED
  BY <1>4, <1>11 DEF f, n, t, s, b

(* A resumed log, as entries without cookies.                              *)
LEMMA BareNull ==
  ASSUME NEW board \in Seq(Play)
  PROVE  /\ NullCookies(board) \in Seq(Entry) /\ Len(NullCookies(board)) = Len(board)
         /\ Bare(NullCookies(board)) = board
         /\ \A i \in 1..Len(NullCookies(board)) : ~NullCookies(board)[i].cookie
         /\ Alternating(board) => Alternating(NullCookies(board))
<1> DEFINE e == NullCookies(board)
           n == Len(board)
<1>1. n \in Nat /\ \A i \in 1..n : board[i] \in Play
  BY ElementOfSeq
<1>2. e \in Seq(Entry)
  BY NullCookiesType
<1>3. DOMAIN e = 1..n
      /\ \A i \in 1..n : e[i] = [by |-> board[i].by, move |-> board[i].move, cookie |-> FALSE]
  BY DEF NullCookies
<1> HIDE DEF e
<1>4. Len(e) = n
  BY <1>1, <1>2, <1>3, LenProperties
<1>5. /\ Bare(e) \in Seq(Play) /\ Len(Bare(e)) = n
      /\ \A i \in 1..n : Bare(e)[i] = [by |-> e[i].by, move |-> e[i].move]
  BY <1>2, <1>4, BareLength
<1>6. \A i \in 1..n : Bare(e)[i] = board[i]
  BY <1>1, <1>3, <1>5 DEF Play
<1>7. Bare(e) = board
  BY <1>5, <1>6, SeqEqual
<1>8. Alternating(board) => Alternating(e)
  BY <1>3, <1>4 DEF Alternating
<1> QED
  BY <1>2, <1>3, <1>4, <1>7, <1>8 DEF e

(* What a result does to the plays: nothing, one more, or two fewer.       *)
LEMMA PlaysAfterNothing ==
  ASSUME NEW plays \in Seq(Entry), NEW r \in Results, r.lastMove = NoPlay, r.undoMoves = 0
  PROVE  PlaysAfter(plays, r) = plays /\ Added(plays, r) = plays
<1>1. Added(plays, r) = plays /\ Len(plays) - r.undoMoves = Len(plays) /\ Len(plays) \in Nat
  BY DEF Added
<1> DEFINE n == Len(plays)
           s == SubSeq(plays, 1, n)
<1>2. \A i \in 1..n : plays[i] \in Entry
  BY ElementOfSeq
<1>3. n \in Nat
  OBVIOUS
<1>4. (IF 1 <= n THEN n - 1 + 1 ELSE 0) = n /\ n - 1 + 1 = n
      /\ \A i \in 1..n : 1 + i - 1 = i
  <2> HIDE DEF n
  <2> QED
    BY <1>3
<1>5. /\ s \in Seq(Entry) /\ Len(s) = (IF 1 <= n THEN n - 1 + 1 ELSE 0)
      /\ \A i \in 1..(n - 1 + 1) : s[i] = plays[1 + i - 1]
  BY <1>2, <1>3, SubSeqProperties
<1>6. /\ s \in Seq(Entry) /\ Len(s) = n
      /\ \A i \in 1..n : s[i] = plays[i]
  BY <1>4, <1>5
<1>7. s = plays
  BY <1>6, SeqEqual
<1> QED
  BY <1>1, <1>7 DEF PlaysAfter

(* A result with a play adds it to mPlays.                                 *)
LEMMA PlaysAfterPlay ==
  ASSUME NEW plays \in Seq(Entry), NEW r \in Results, r.lastMove # NoPlay, r.undoMoves = 0
  PROVE  LET e == [by |-> r.lastMove.by, move |-> r.lastMove.move, cookie |-> TRUE]
         IN e \in Entry /\ PlaysAfter(plays, r) = Append(plays, e)
<1> DEFINE e == [by |-> r.lastMove.by, move |-> r.lastMove.move, cookie |-> TRUE]
           a == Append(plays, e)
           none == [r EXCEPT !.lastMove = NoPlay]
<1>1. e \in Entry
  BY DEF Results, Play, Entry
<1>2. a \in Seq(Entry) /\ Added(plays, r) = a
  BY <1>1, AppendProperties DEF Added
<1>3. none \in Results /\ none.lastMove = NoPlay /\ none.undoMoves = 0
  BY DEF Results
<1> HIDE DEF a, none, e
<1>4. PlaysAfter(a, none) = a /\ Added(a, none) = a
  BY <1>2, <1>3, PlaysAfterNothing
<1>5. PlaysAfter(plays, r) = SubSeq(a, 1, Len(a) - 0)
  BY <1>2 DEF PlaysAfter
<1>6. PlaysAfter(a, none) = SubSeq(a, 1, Len(a) - 0)
  BY <1>3, <1>4 DEF PlaysAfter
<1>7. PlaysAfter(plays, r) = a
  BY <1>4, <1>5, <1>6
<1> QED
  BY <1>1, <1>7 DEF a, e

(* The result of an undo removes the last two entries.                     *)
LEMMA PlaysAfterUndo ==
  ASSUME NEW plays, NEW r, r.lastMove = NoPlay, r.undoMoves = 2
  PROVE  PlaysAfter(plays, r) = SubSeq(plays, 1, Len(plays) - 2) /\ Added(plays, r) = plays
BY DEF PlaysAfter, Added

(* The sides still play in turn when a fitting answer is handled.          *)
LEMMA AnswerAlternates ==
  ASSUME NEW game \in Game, NEW ans \in Results, AnswerFits(ans, game), Alternating(game.plays)
  PROVE  /\ Alternating(PlaysAfter(game.plays, ans))
         /\ ans.undoMoves <= Len(Added(game.plays, ans))
<1> DEFINE plays == game.plays
           e == [by |-> ans.lastMove.by, move |-> ans.lastMove.move, cookie |-> TRUE]
<1>1. plays \in Seq(Entry) /\ Len(plays) \in Nat
  BY DEF Game
<1>2. CASE ans.lastMove = NoPlay /\ ans.undoMoves = 0
  BY <1>1, <1>2, PlaysAfterNothing
<1>3. CASE ans.lastMove # NoPlay /\ ans.undoMoves = 0
  <2>1. e \in Entry /\ PlaysAfter(plays, ans) = Append(plays, e) /\ Added(plays, ans) = Append(plays, e)
    BY <1>1, <1>3, PlaysAfterPlay DEF Added
  <2>2. e.by = SideAt(Len(plays))
    BY <1>3 DEF AnswerFits, Turn
  <2>a. plays \in Seq(Entry) /\ e \in Entry
    BY <1>1, <2>1
  <2> HIDE DEF e, plays
  <2>3. /\ Append(plays, e) \in Seq(Entry) /\ Len(Append(plays, e)) = Len(plays) + 1
        /\ Append(plays, e)[Len(plays) + 1] = e
        /\ \A i \in 1..Len(plays) : Append(plays, e)[i] = plays[i]
    BY <2>a, AppendProperties
  <2>4. \A i \in 1..Len(Append(plays, e)) :
          i \in 1..Len(plays) \/ (i = Len(plays) + 1 /\ i - 1 = Len(plays))
    BY <1>1, <2>3
  <2>5. \A i \in 1..Len(plays) : plays[i].by = SideAt(i - 1)
    BY DEF Alternating, plays
  <2>6. Alternating(Append(plays, e))
    BY <2>2, <2>3, <2>4, <2>5 DEF Alternating
  <2> QED
    BY <1>1, <1>3, <2>1, <2>3, <2>6 DEF plays
<1>4. CASE ans.undoMoves = 2
  <2>1. Len(plays) >= 2 /\ ans.lastMove = NoPlay
    BY <1>4 DEF AnswerFits
  <2>2. PlaysAfter(plays, ans) = SubSeq(plays, 1, Len(plays) - 2) /\ Added(plays, ans) = plays
    BY <1>4, <2>1, PlaysAfterUndo
  <2>3. /\ Len(PlaysAfter(plays, ans)) = Len(plays) - 2
        /\ \A i \in 1..(Len(plays) - 2) : PlaysAfter(plays, ans)[i] = plays[i]
    BY <1>1, <2>1, <2>2, BareTakeBack
  <2>4. \A i \in 1..(Len(plays) - 2) : i \in 1..Len(plays)
    BY <1>1
  <2>5. Alternating(PlaysAfter(plays, ans))
    BY <2>3, <2>4 DEF Alternating
  <2> QED
    BY <1>4, <2>1, <2>2, <2>5
<1> QED
  BY <1>2, <1>3, <1>4 DEF Results

-----------------------------------------------------------------------------
(* Steps of one activity.                                                  *)

(* Activities stay who they are.                                           *)
LEMMA OwnersStay ==
  ASSUME \A b \in Callers : /\ act'[b].game = act[b].game
                            /\ act'[b].life = "none" <=> act[b].life = "none"
  PROVE  Created' = Created /\ \A b \in Callers : Owner(b)' <=> Owner(b)
<1>1. Created' = Created
  BY DEF Created
<1>2. \A b \in Created : b \in Callers
  BY DEF Created
<1>3. ASSUME NEW b \in Callers PROVE Owner(b)' <=> Owner(b)
  BY <1>1, <1>2 DEF Owner
<1> QED
  BY <1>1, <1>3

(* A rotated activity is where it should be, whatever its game becomes.    *)
LEMMA RotatedInv ==
  ASSUME NEW x, NEW k, NEW r, NEW game, NEW game2,
         Idle(k), x.life = "destroyed", QueueInv(k), RequestInv(x, k, r, game)
  PROVE  RequestInv(x, k, r, game2) /\ UserInv(x, k, r, game2)
<1>1. Requests(k) = {} /\ ~HasAnswer(k, r)
  BY DEF Idle, HasAnswer
<1> QED
  BY <1>1 DEF RequestInv, UserInv

(* A step of activity a preserves the invariant if it preserves a's part,  *)
(* changes a game's plays only for the owner of the game, and the engine's *)
(* position only for the owner of its game or by starting a new game.      *)
LEMMA Frame ==
  ASSUME TypeOK, TypeOK', InstanceInv, SessionInv,
         NEW a \in Callers, act[a].life # "none",
         act'[a].life # "none", act'[a].game = act[a].game,
         act'[a].life = "running" => act[a].life = "running",
         \A b \in Callers \ {a} : act'[b] = act[b] /\ ctl'[b] = ctl[b] /\ jr'[b] = jr[b],
         \A g \in Callers \ {act[a].game} : games'[g] = games[g],
         games'[act[a].game].initial = games[act[a].game].initial,
         games' = games \/ Owner(a),
         \/ tree' = tree /\ g_instance_id' = g_instance_id
         \/ /\ Owner(a) /\ IdOf(ctl[a], jr[a]) = g_instance_id /\ g_instance_id > 0
            /\ g_instance_id' = g_instance_id
         \/ Running(a) /\ g_instance_id' = g_instance_id + 1,
         ActivityInv(a)', OwnerInv(a)', EngineInv',
         Alternating(games'[act[a].game].plays),
         /\ act'[a].state \in GameStates \ {"ACTIVE"}
         /\ ~games'[act[a].game].replaying
         /\ games'[act[a].game].humans # {}
         => Bare(games'[act[a].game].plays) \in games'[act[a].game].saved
  PROVE  SessionInv'
<1>1. \A b \in Callers : /\ act'[b].game = act[b].game
                         /\ act'[b].life = "none" <=> act[b].life = "none"
  OBVIOUS
<1>2. Created' = Created /\ \A b \in Callers : Owner(b)' <=> Owner(b)
  BY <1>1, OwnersStay
<1>3. \A b \in Callers : act[b].game \in Callers
  BY DEF TypeOK, Activity
<1>4. ASSUME NEW b \in Callers, b # a, Owner(b) PROVE games'[act[b].game] = games[act[b].game]
  <2>1. CASE games' = games
    BY <2>1
  <2>2. CASE Owner(a)
    <3>1. act[a].game # act[b].game
      BY <1>4, <2>2 DEF Owner, Created, Callers
    <3> QED
      BY <1>3, <3>1
  <2> QED
    BY <2>1, <2>2
<1>5. ASSUME NEW b \in Callers, b # a, act[b].life # "none" PROVE ActivityInv(b)'
  <2>1. QueueInv(ctl[b]) /\ RequestInv(act[b], ctl[b], jr[b], GameOf(b))
        /\ UserInv(act[b], ctl[b], jr[b], GameOf(b))
    BY <1>5 DEF SessionInv, ActivityInv
  <2>2. act'[b] = act[b] /\ ctl'[b] = ctl[b] /\ jr'[b] = jr[b]
    BY <1>5
  <2>3. CASE Owner(b)
    <3>1. GameOf(b)' = GameOf(b)
      BY <1>4, <1>5, <2>2, <2>3 DEF GameOf
    <3> QED
      BY <2>1, <2>2, <3>1 DEF ActivityInv
  <2>4. CASE ~Owner(b)
    <3>1. Idle(ctl[b]) /\ act[b].life = "destroyed"
      BY <1>5, <2>4 DEF SessionInv, OwnerInv
    <3>2. PICK game2 : game2 = GameOf(b)'
      OBVIOUS
    <3>3. RequestInv(act[b], ctl[b], jr[b], game2) /\ UserInv(act[b], ctl[b], jr[b], game2)
      BY <2>1, <3>1, RotatedInv
    <3> QED
      BY <2>1, <2>2, <3>2, <3>3 DEF ActivityInv
  <2> QED
    BY <2>3, <2>4
<1>6. ASSUME NEW b \in Callers, b # a PROVE OwnerInv(b)'
  <2> DEFINE id == IdOf(ctl[b], jr[b])
  <2>0. act'[b] = act[b] /\ ctl'[b] = ctl[b] /\ jr'[b] = jr[b]
    BY <1>6
  <2>1. id' = id /\ id \in Int /\ id <= g_instance_id /\ g_instance_id \in Nat
    BY <2>0, IdsBounded
  <2>a. OwnerInv(b)
    BY DEF SessionInv
  <2>2. ASSUME Owner(b)', g_instance_id' > 0, id' = g_instance_id'
        PROVE  AgreesWith(tree, act[b], ctl[b], jr[b], GameOf(b))'
    <3>1. Owner(b) /\ GameOf(b)' = GameOf(b)
      BY <1>2, <1>4, <1>6, <2>0, <2>2 DEF GameOf
    <3>2. g_instance_id' = g_instance_id
      BY <2>1, <2>2
    <3>3. ~(Owner(a) /\ IdOf(ctl[a], jr[a]) = g_instance_id /\ g_instance_id > 0)
      BY <1>6, <2>1, <2>2, <3>1, <3>2, OneOwner
    <3>4. tree' = tree
      BY <2>1, <3>2, <3>3
    <3>5. AgreesWith(tree, act[b], ctl[b], jr[b], GameOf(b))
      BY <2>1, <2>2, <2>a, <3>1, <3>2 DEF OwnerInv
    <3> QED
      BY <2>0, <3>1, <3>4, <3>5
  <2>3. ASSUME Owner(b)', id' <= 0 PROVE NothingPlayed(ctl[b], jr[b], GameOf(b))'
    <3>1. Owner(b) /\ GameOf(b)' = GameOf(b)
      BY <1>2, <1>4, <1>6, <2>0, <2>3 DEF GameOf
    <3>2. NothingPlayed(ctl[b], jr[b], GameOf(b))
      BY <2>1, <2>3, <2>a, <3>1 DEF OwnerInv
    <3> QED
      BY <2>0, <3>1, <3>2
  <2>4. act'[b].life # "none" /\ ~Owner(b)' =>
          Idle(ctl[b])' /\ act'[b].life = "destroyed" /\ act'[b].state = "ACTIVE"
    BY <1>2, <2>0, <2>a DEF OwnerInv
  <2>5. Running(b)' => \/ id' = g_instance_id'
                       \/ id' = -1 /\ g_instance_id' = 0
                       \/ id' = 0 /\ Starts(ctl[b])' # {}
    <3>1. SUFFICES ASSUME act[b].life = "running"
                   PROVE  \/ id = g_instance_id'
                          \/ id = -1 /\ g_instance_id' = 0
                          \/ id = 0 /\ Starts(ctl[b]) # {}
      BY <2>0, <2>1 DEF Running
    <3>2. ~Running(a)
      BY <1>6, <3>1 DEF SessionInv, GamesInv, Running
    <3>3. g_instance_id' = g_instance_id
      BY <3>2
    <3> QED
      BY <2>a, <3>1, <3>3 DEF OwnerInv, Running
  <2> QED
    BY <2>2, <2>3, <2>4, <2>5 DEF OwnerInv
<1>7. GamesInv'
  <2>1. \A b, c \in Callers : Running(b)' /\ Running(c)' => Running(b) /\ Running(c)
    BY DEF Running
  <2>2. \A b \in Created : /\ act'[b].game \in Created /\ act'[b].game <= b
                           /\ GameOf(b)'.initial \in SavedGames \cup {<<>>}
    <3>1. ASSUME NEW b \in Created PROVE GameOf(b)'.initial = GameOf(b).initial
      BY <1>1, <1>3, <3>1 DEF GameOf, Created
    <3> QED
      BY <1>1, <3>1 DEF SessionInv, GamesInv, Created
  <2>3. \A g \in Callers : Alternating(games'[g].plays)
    BY DEF SessionInv, GamesInv
  <2>4. \A b \in Callers : b \notin Created => act'[b].state = "null"
    BY DEF SessionInv, GamesInv, Created
  <2>5. \A b \in Callers : Running(b)' => \A c \in Created' : c <= b
    BY <1>2, <2>1 DEF SessionInv, GamesInv
  <2> QED
    BY <1>2, <2>1, <2>2, <2>3, <2>4, <2>5 DEF SessionInv, GamesInv
<1>8. FinishedGameIsSaved'
  <2> SUFFICES ASSUME NEW b \in Callers, act'[b].state \in GameStates \ {"ACTIVE"},
                      ~GameOf(b)'.replaying, GameOf(b)'.humans # {}
               PROVE  Bare(GameOf(b)'.plays) \in GameOf(b)'.saved
    BY DEF FinishedGameIsSaved
  <2>1. CASE b = a
    BY <2>1 DEF GameOf
  <2>2. CASE b # a
    <3>1. act[b].state \in GameStates \ {"ACTIVE"} /\ act'[b] = act[b]
      BY <2>2
    <3>2. act[b].life # "none"
      BY <3>1 DEF SessionInv, GamesInv, Created, GameStates
    <3>3. Owner(b)
      BY <3>1, <3>2 DEF SessionInv, OwnerInv
    <3>4. GameOf(b)' = GameOf(b)
      BY <1>4, <2>2, <3>1, <3>3 DEF GameOf
    <3> QED
      BY <3>1, <3>4 DEF SessionInv, FinishedGameIsSaved
  <2> QED
    BY <2>1, <2>2
<1>9. \A b \in Callers : ActivityInv(b)' /\ OwnerInv(b)'
  <2>1. \A b \in Callers : act'[b].life = "none" => ActivityInv(b)'
    BY DEF ActivityInv
  <2> QED
    BY <1>1, <1>5, <1>6, <2>1
<1> QED
  BY <1>7, <1>8, <1>9 DEF SessionInv

(* Saving a game changes nothing else about it.                            *)
LEMMA SavingKeeps ==
  ASSUME NEW game, NEW game2, game2.plays = game.plays, game2.initial = game.initial,
         game2.humans = game.humans
  PROVE  \A x, k, r, t :
           /\ RequestInv(x, k, r, game2) <=> RequestInv(x, k, r, game)
           /\ UserInv(x, k, r, game2) <=> UserInv(x, k, r, game)
           /\ AgreesWith(t, x, k, r, game2) <=> AgreesWith(t, x, k, r, game)
           /\ NothingPlayed(k, r, game2) <=> NothingPlayed(k, r, game)
<1> TAKE x, k, r, t
<1>1. \A c : RequestFits(c, x, game2) <=> RequestFits(c, x, game)
  BY DEF RequestFits, Turn
<1>2. \A ans : AnswerFits(ans, game2) <=> AnswerFits(ans, game)
  BY DEF AnswerFits, Turn
<1>3. RequestInv(x, k, r, game2) <=> RequestInv(x, k, r, game)
  BY <1>1, <1>2 DEF RequestInv
<1>4. UserInv(x, k, r, game2) <=> UserInv(x, k, r, game)
  BY DEF UserInv, Turn
<1>5. AgreesWith(t, x, k, r, game2) <=> AgreesWith(t, x, k, r, game)
  BY DEF AgreesWith
<1>6. NothingPlayed(k, r, game2) <=> NothingPlayed(k, r, game)
  BY DEF NothingPlayed
<1> QED
  BY <1>3, <1>4, <1>5, <1>6

(* maybeSaveGame changes nothing but the saved logs.                       *)
LEMMA SavedFields ==
  ASSUME NEW game \in Game
  PROVE  /\ MaybeSaveGame(game).plays = game.plays
         /\ MaybeSaveGame(game).initial = game.initial
         /\ MaybeSaveGame(game).humans = game.humans
         /\ MaybeSaveGame(game).replaying = game.replaying
         /\ game.saved \subseteq MaybeSaveGame(game).saved
         /\ ~game.replaying /\ game.humans # {}
              => Bare(game.plays) \in MaybeSaveGame(game).saved
BY DEF MaybeSaveGame, Game

(* What a running activity is.                                             *)
LEMMA RunningOwns ==
  ASSUME SessionInv, TypeOK, NEW a \in Callers, Running(a)
  PROVE  /\ Owner(a) /\ a \in Created /\ act[a].life = "running"
         /\ QueueInv(ctl[a]) /\ RequestInv(act[a], ctl[a], jr[a], GameOf(a))
         /\ UserInv(act[a], ctl[a], jr[a], GameOf(a))
         /\ ctl[a] \in Controller /\ act[a] \in Activity
         /\ act[a].game \in Callers /\ GameOf(a) \in Game
         /\ ~\E i \in 1..Len(ctl[a].inq) : ctl[a].inq[i] = DestroyCommand
<1>1. act[a].life = "running" /\ act[a].life # "none"
  BY DEF Running
<1>2. /\ QueueInv(ctl[a]) /\ RequestInv(act[a], ctl[a], jr[a], GameOf(a))
      /\ UserInv(act[a], ctl[a], jr[a], GameOf(a))
  BY <1>1 DEF SessionInv, ActivityInv
<1>3. Owner(a)
  BY <1>1 DEF SessionInv, OwnerInv
<1>4. /\ ctl[a] \in Controller /\ act[a] \in Activity
      /\ act[a].game \in Callers /\ GameOf(a) \in Game
  BY DEF TypeOK, ControllerTypeOK, Activity, GameOf
<1>5. ~\E i \in 1..Len(ctl[a].inq) : ctl[a].inq[i] = DestroyCommand
  BY <1>1, <1>2 DEF RequestInv
<1> QED
  BY <1>1, <1>2, <1>3, <1>4, <1>5 DEF Created

(* A step that changes what a running activity shows, and perhaps saves.   *)
LEMMA ActStep ==
  ASSUME TypeOK, TypeOK', InstanceInv, SessionInv, NEW a \in Callers, Running(a),
         NEW x2, act' = [act EXCEPT ![a] = x2],
         x2.life \in {"running", "finishing"}, x2.game = act[a].game,
         x2.state = act[a].state, x2.board = act[a].board,
         x2.life = "running" \/ x2.state # "null",
         UNCHANGED <<jniVars, ctl>>,
         games' = games \/ games' = [games EXCEPT ![act[a].game] = MaybeSaveGame(@)],
         UserInv(x2, ctl[a], jr[a], GameOf(a))
  PROVE  SessionInv'
<1> DEFINE x == act[a]
           k == ctl[a]
           r == jr[a]
           game == GameOf(a)
<1>0. /\ Owner(a) /\ a \in Created /\ x.life = "running"
      /\ QueueInv(k) /\ RequestInv(x, k, r, game)
      /\ x \in Activity /\ x.game \in Callers /\ game \in Game
      /\ ~\E i \in 1..Len(k.inq) : k.inq[i] = DestroyCommand
  BY RunningOwns
<1>1. /\ act'[a] = x2 /\ jr' = jr /\ ctl' = ctl /\ tree' = tree
      /\ g_instance_id' = g_instance_id /\ g_init' = g_init /\ aborted' = aborted
      /\ \A b \in Callers \ {a} : act'[b] = act[b]
  BY DEF TypeOK, jniVars
<1>2. PICK game2 : game2 = games'[x.game]
  OBVIOUS
<1>3. /\ GameOf(a)' = game2
      /\ game2.plays = game.plays /\ game2.initial = game.initial
      /\ game2.humans = game.humans /\ game2.replaying = game.replaying
      /\ game.saved \subseteq game2.saved
  <2>1. game = games[x.game] /\ games \in [Callers -> Game]
    BY DEF GameOf, TypeOK
  <2>2. game2 = game \/ game2 = MaybeSaveGame(game)
    BY <1>0, <1>2, <2>1
  <2>3. GameOf(a)' = game2
    BY <1>1, <1>2 DEF GameOf
  <2> QED
    BY <1>0, <2>2, <2>3, SavedFields
<1>4. \A g \in Callers \ {x.game} : games'[g] = games[g]
  BY <1>0 DEF TypeOK
<1>5. RequestInv(x2, k, r, game)
  <2>1. \A c : RequestFits(c, x2, game) <=> RequestFits(c, x, game)
    BY DEF RequestFits
  <2> QED
    BY <1>0, <2>1 DEF RequestInv
<1>6. ActivityInv(a)'
  <2>1. RequestInv(x2, k, r, game2) /\ UserInv(x2, k, r, game2)
    BY <1>3, <1>5, SavingKeeps
  <2> QED
    BY <1>0, <1>1, <1>3, <2>1 DEF ActivityInv
<1>7. \A b \in Callers : /\ act'[b].game = act[b].game
                         /\ act'[b].life = "none" <=> act[b].life = "none"
  BY <1>0, <1>1
<1>8. Owner(a)' <=> Owner(a)
  BY <1>7, OwnersStay
<1>9. OwnerInv(a)'
  <2>1. g_instance_id > 0 /\ IdOf(k, r) = g_instance_id => AgreesWith(tree, x2, k, r, game2)
    <3>1. g_instance_id > 0 /\ IdOf(k, r) = g_instance_id => AgreesWith(tree, x, k, r, game)
      BY <1>0 DEF SessionInv, OwnerInv
    <3>2. AgreesWith(tree, x2, k, r, game) <=> AgreesWith(tree, x, k, r, game)
      BY DEF AgreesWith
    <3> QED
      BY <1>3, <3>1, <3>2, SavingKeeps
  <2>2. IdOf(k, r) <= 0 => NothingPlayed(k, r, game2)
    <3>1. IdOf(k, r) <= 0 => NothingPlayed(k, r, game)
      BY <1>0 DEF SessionInv, OwnerInv
    <3> QED
      BY <1>3, <3>1, SavingKeeps
  <2>3. \/ IdOf(k, r) = g_instance_id
        \/ IdOf(k, r) = -1 /\ g_instance_id = 0
        \/ IdOf(k, r) = 0 /\ Starts(k) # {}
    BY <1>0 DEF SessionInv, OwnerInv, Running
  <2> QED
    BY <1>0, <1>1, <1>3, <1>8, <2>1, <2>2, <2>3 DEF OwnerInv
<1>10. EngineInv'
  BY <1>1 DEF SessionInv, EngineInv
<1>11. Alternating(game2.plays)
  BY <1>0, <1>3 DEF SessionInv, GamesInv, GameOf
<1>12. x2.state \in GameStates \ {"ACTIVE"} /\ ~game2.replaying /\ game2.humans # {}
         => Bare(game2.plays) \in game2.saved
  BY <1>3 DEF SessionInv, FinishedGameIsSaved
<1>13. games'[x.game].initial = games[x.game].initial
  BY <1>2, <1>3 DEF GameOf
<1> QED
  BY <1>0, <1>1, <1>2, <1>4, <1>6, <1>9, <1>10, <1>11, <1>12, <1>13, Frame

(* A step in which the user of a running activity asks the engine for      *)
(* something, and gives the turn up.                                       *)
LEMMA AskStep ==
  ASSUME TypeOK, TypeOK', InstanceInv, SessionInv, NEW a \in Callers, Running(a),
         Idle(ctl[a]), act[a].state = "ACTIVE",
         NEW c \in EngineCommands, c.command # "START", RequestFits(c, act[a], GameOf(a)),
         NEW x2, act' = [act EXCEPT ![a] = x2],
         x2.life = "running", x2.game = act[a].game, x2.state = "ACTIVE",
         x2.board = act[a].board, x2.next = "INVALID",
         x2.touch \in {"INVALID", act[a].touch}, x2.dialog = "none",
         x2.undos <= act[a].undos, x2.undos \in Nat,
         ctl' = [ctl EXCEPT ![a] = SendInput(@, c)],
         UNCHANGED <<jniVars, games>>
  PROVE  SessionInv'
<1> DEFINE x == act[a]
           k == ctl[a]
           r == jr[a]
           game == GameOf(a)
<1>0. /\ Owner(a) /\ a \in Created /\ x.life = "running"
      /\ QueueInv(k) /\ RequestInv(x, k, r, game) /\ UserInv(x, k, r, game)
      /\ x \in Activity /\ x.game \in Callers /\ game \in Game /\ k \in Controller
      /\ ~\E i \in 1..Len(k.inq) : k.inq[i] = DestroyCommand
  BY RunningOwns
<1>1. PICK k2 : k2 = SendInput(k, c)
  OBVIOUS
<1>2. /\ act'[a] = x2 /\ ctl'[a] = k2 /\ jr' = jr /\ tree' = tree
      /\ g_instance_id' = g_instance_id /\ g_init' = g_init /\ aborted' = aborted
      /\ games' = games /\ GameOf(a)' = game
      /\ \A b \in Callers \ {a} : act'[b] = act[b] /\ ctl'[b] = ctl[b]
  BY <1>1 DEF TypeOK, ControllerTypeOK, jniVars, GameOf
<1>3. Requests(k) = {} /\ k.current = NoCommand /\ k.outq = <<>>
      /\ k.current.command # "START"
  BY DEF Idle, NoCommand
<1>4. IdOf(k, r) = k.instance
  BY <1>3, IdOfNone
<1>5. /\ QueueInv(k2) /\ Requests(k2) \subseteq {c} /\ k2.current = NoCommand
      /\ k2.outq = <<>> /\ k2.instance = k.instance /\ k2.quit = k.quit
      /\ IdOf(k2, r) = k.instance
      /\ ~k.quit => Requests(k2) = {c}
      /\ ~\E i \in 1..Len(k2.inq) : k2.inq[i] = DestroyCommand
  <2>1. CASE k.quit
    <3>1. k2 = k
      BY <1>1, <2>1 DEF SendInput
    <3> QED
      BY <1>0, <1>3, <1>4, <2>1, <3>1
  <2>2. CASE ~k.quit
    <3>1. /\ QueueInv(k2) /\ Requests(k2) = {c} /\ k2.current = NoCommand /\ k2.outq = <<>>
          /\ k2.instance = k.instance /\ k2.quit = k.quit
          /\ \A i \in 1..Len(k2.inq) : k2.inq[i] = DestroyCommand =>
               \E j \in 1..Len(k.inq) : k.inq[j] = DestroyCommand
      BY <1>0, <1>1, <2>2, AskOne
    <3>2. IdOf(k2, r) = k.instance
      BY <3>1, IdOfRequest
    <3> QED
      BY <1>0, <2>2, <3>1, <3>2
  <2> QED
    BY <2>1, <2>2
<1>6. ~HasAnswer(k2, r) /\ ~HasAnswer(k, r)
  BY <1>3, <1>5 DEF HasAnswer
<1>7. RequestInv(x2, k2, r, game)
  <2>1. \A d \in Requests(k2) : RequestFits(d, x2, game)
    BY <1>5 DEF RequestFits
  <2>2. k2.current.command # "START" /\ k2.instance # 0
    BY <1>0, <1>3, <1>5 DEF RequestInv
  <2> QED
    BY <1>5, <1>6, <2>1, <2>2 DEF RequestInv
<1>8. UserInv(x2, k2, r, game)
  <2>1. k.quit => IdOf(k2, r) <= 0
    BY <1>0, <1>4, <1>5 DEF UserInv
  <2>2. Idle(k2) => k.quit
    BY <1>5 DEF Idle
  <2>3. x.touch # "INVALID" => x.touch = Turn(game)
    BY <1>0 DEF UserInv
  <2>4. x2.undos <= MaxUndos
    <3>1. x.undos <= MaxUndos /\ x.undos \in Nat /\ MaxUndos \in Nat
      BY <1>0, ActivityAssumption DEF UserInv, Activity
    <3> QED
      BY <3>1
  <2>5. "INVALID" \notin game.humans
    BY <1>0 DEF Game, Sides
  <2>6. IdOf(k2, r) \in Int
    BY <1>0, <1>5 DEF Controller
  <2>7. Idle(k2) => ~(IdOf(k2, r) > 0)
    BY <2>1, <2>2, <2>6
  <2> QED
    BY <1>5, <2>1, <2>3, <2>4, <2>5, <2>7 DEF UserInv
<1>9. ActivityInv(a)'
  BY <1>2, <1>5, <1>7, <1>8 DEF ActivityInv
<1>10. \A b \in Callers : /\ act'[b].game = act[b].game
                          /\ act'[b].life = "none" <=> act[b].life = "none"
  BY <1>0, <1>2
<1>11. Owner(a)' <=> Owner(a)
  BY <1>10, OwnersStay
<1>12. OwnerInv(a)'
  <2>1. g_instance_id > 0 /\ IdOf(k2, r) = g_instance_id => AgreesWith(tree, x2, k2, r, game)
    <3>1. g_instance_id > 0 /\ IdOf(k, r) = g_instance_id => AgreesWith(tree, x, k, r, game)
      BY <1>0 DEF SessionInv, OwnerInv
    <3>2. AgreesWith(tree, x, k, r, game) => AgreesWith(tree, x2, k2, r, game)
      BY <1>5, <1>6 DEF AgreesWith
    <3> QED
      BY <1>4, <1>5, <3>1, <3>2
  <2>2. IdOf(k2, r) <= 0 => NothingPlayed(k2, r, game)
    <3>1. IdOf(k, r) <= 0 => NothingPlayed(k, r, game)
      BY <1>0 DEF SessionInv, OwnerInv
    <3> QED
      BY <1>4, <1>5, <1>6, <3>1 DEF NothingPlayed
  <2>3. \/ IdOf(k2, r) = g_instance_id
        \/ IdOf(k2, r) = -1 /\ g_instance_id = 0
    <3>1. \/ IdOf(k, r) = g_instance_id
          \/ IdOf(k, r) = -1 /\ g_instance_id = 0
          \/ IdOf(k, r) = 0 /\ Starts(k) # {}
      BY <1>0 DEF SessionInv, OwnerInv, Running
    <3>2. Starts(k) = {}
      BY <1>3 DEF Starts
    <3> QED
      BY <1>4, <1>5, <3>1, <3>2
  <2> QED
    BY <1>0, <1>2, <1>11, <2>1, <2>2, <2>3 DEF OwnerInv
<1>13. EngineInv'
  BY <1>2 DEF SessionInv, EngineInv
<1>14. Alternating(games[x.game].plays)
  BY <1>0 DEF SessionInv, GamesInv
<1> QED
  BY <1>0, <1>2, <1>9, <1>12, <1>13, <1>14, Frame

(* A user who is shown the turn has it, and nothing is under way.          *)
LEMMA UsersTurn ==
  ASSUME SessionInv, TypeOK, NEW a \in Callers, Running(a), IsHuman(a, act[a].next),
         act[a].state # "null"
  PROVE  /\ Idle(ctl[a]) /\ act[a].state = "ACTIVE"
         /\ act[a].next = Turn(GameOf(a)) /\ act[a].next \in Sides
<1>1. UserInv(act[a], ctl[a], jr[a], GameOf(a)) /\ GameOf(a) \in Game /\ act[a].life = "running"
  BY RunningOwns
<1>2. act[a].next \in GameOf(a).humans /\ act[a].next \in Sides /\ act[a].next # "INVALID"
  BY <1>1 DEF IsHuman, Game, Sides
<1> QED
  BY <1>1, <1>2 DEF UserInv

(* A touch asks the engine to play, or opens the promotion dialog.         *)
LEMMA HumanPlaySession ==
  ASSUME CalmUse, TypeOK, TypeOK', InstanceInv, SessionInv, NEW a \in Callers, HumanPlay(a)
  PROVE  SessionInv'
<1> DEFINE x == act[a]
           game == GameOf(a)
<1>1. PICK m \in Moves :
        /\ Visible(a) /\ IsHuman(a, x.touch) /\ x.next # "INVALID"
        /\ \/ /\ act' = [act EXCEPT ![a] = TurnGivenUp(@)]
              /\ ctl' = [ctl EXCEPT ![a] =
                   SendInput(@, HumanCommand(x.touch, [by |-> x.touch, move |-> m]))]
           \/ /\ act' = [act EXCEPT ![a] = [TurnGivenUp(@) EXCEPT
                                              !.promo = [by |-> x.touch, move |-> m],
                                              !.dialog = "promote"]]
              /\ UNCHANGED ctl
        /\ UNCHANGED <<jniVars, games>>
  BY DEF HumanPlay, CalmUse
<1>2. Running(a) /\ x.dialog = "none"
  BY <1>1 DEF Visible
<1>3. UserInv(x, ctl[a], jr[a], game) /\ game \in Game /\ x.life = "running" /\ x \in Activity
  BY <1>2, RunningOwns
<1>4. x.touch # "INVALID" /\ x.touch \in Sides /\ x.touch = x.next /\ x.state # "null"
      /\ x.touch = Turn(game)
  <2>1. x.touch \in game.humans
    BY <1>1 DEF IsHuman
  <2>2. x.touch \in Sides
    BY <1>3, <2>1 DEF Game
  <2>3. x.touch # "INVALID"
    BY <2>2 DEF Sides
  <2> QED
    BY <1>1, <1>3, <2>2, <2>3 DEF UserInv
<1>5. Idle(ctl[a]) /\ x.state = "ACTIVE"
  BY <1>1, <1>2, <1>4, UsersTurn
<1> DEFINE c == HumanCommand(x.touch, [by |-> x.touch, move |-> m])
           given == TurnGivenUp(x)
           asked == [TurnGivenUp(x) EXCEPT !.promo = [by |-> x.touch, move |-> m],
                                           !.dialog = "promote"]
<1>6. given.life = "running" /\ given.game = x.game /\ given.state = "ACTIVE"
      /\ given.board = x.board /\ given.next = "INVALID" /\ given.touch = "INVALID"
      /\ given.dialog = "none" /\ given.undos = x.undos /\ x.undos \in Nat
  BY <1>2, <1>3, <1>5 DEF TurnGivenUp, Activity
<1>7. asked.life = "running" /\ asked.game = x.game /\ asked.state = "ACTIVE"
      /\ asked.board = x.board /\ asked.next = "INVALID" /\ asked.touch = "INVALID"
      /\ asked.dialog = "promote" /\ asked.undos = x.undos /\ asked.promo.by = x.touch
  BY <1>2, <1>3, <1>5 DEF TurnGivenUp, Activity
<1>8. c \in EngineCommands /\ c.command # "START" /\ RequestFits(c, x, game)
  <2>1. [by |-> x.touch, move |-> m] \in Play
    BY <1>4 DEF Play
  <2>2. c \in EngineCommands /\ c.command = "HUMAN_PLAY" /\ c.player = x.touch
    BY <1>4, <2>1 DEF HumanCommand, EngineCommands
  <2> QED
    BY <1>4, <2>2 DEF RequestFits
<1> HIDE DEF c, given, asked
<1>9. CASE /\ act' = [act EXCEPT ![a] = given]
           /\ ctl' = [ctl EXCEPT ![a] = SendInput(@, c)]
  <2>1. x.undos <= x.undos
    BY <1>6
  <2> QED
    BY <1>1, <1>2, <1>5, <1>6, <1>8, <1>9, <2>1, AskStep
<1>10. CASE act' = [act EXCEPT ![a] = asked] /\ UNCHANGED ctl
  <2>1. "INVALID" \notin game.humans
    BY <1>3 DEF Game, Sides
  <2>2. UserInv(asked, ctl[a], jr[a], game)
    BY <1>3, <1>4, <1>5, <1>7, <2>1 DEF UserInv
  <2> QED
    BY <1>1, <1>2, <1>5, <1>7, <1>10, <2>2, ActStep
<1> QED
  BY <1>1, <1>9, <1>10 DEF c, given, asked

(* While the promotion dialog is open the play it is about is kept.        *)
LEMMA PromotingInv ==
  ASSUME SessionInv, TypeOK, NEW a \in Callers, Running(a), act[a].dialog = "promote"
  PROVE  /\ Idle(ctl[a]) /\ act[a].state = "ACTIVE" /\ act[a].next = "INVALID"
         /\ act[a].promo \in Play /\ act[a].promo # NoPlay
         /\ act[a].promo.by = Turn(GameOf(a)) /\ act[a].promo.by \in Sides
<1>1. UserInv(act[a], ctl[a], jr[a], GameOf(a)) /\ GameOf(a) \in Game
      /\ act[a].life = "running" /\ act[a] \in Activity
  BY RunningOwns
<1>2. Idle(ctl[a]) /\ act[a].state = "ACTIVE" /\ act[a].next = "INVALID"
      /\ act[a].promo.by = Turn(GameOf(a))
  BY <1>1 DEF UserInv
<1>3. Turn(GameOf(a)) \in Sides /\ Turn(GameOf(a)) # "INVALID"
  BY <1>1, SideTurns DEF Turn, Game
<1>4. act[a].promo # NoPlay
  BY <1>2, <1>3 DEF NoPlay
<1> QED
  BY <1>1, <1>2, <1>3, <1>4 DEF Activity

(* The promotion dialog asks the engine to play.                           *)
LEMMA PromoteClickSession ==
  ASSUME TypeOK, TypeOK', InstanceInv, SessionInv, NEW a \in Callers, PromoteClick(a)
  PROVE  SessionInv'
<1> DEFINE x == act[a]
           game == GameOf(a)
<1>1. Running(a) /\ x.dialog = "promote"
  BY DEF PromoteClick
<1>2. /\ Idle(ctl[a]) /\ x.state = "ACTIVE" /\ x.next = "INVALID"
      /\ x.promo \in Play /\ x.promo # NoPlay
      /\ x.promo.by = Turn(game) /\ x.promo.by \in Sides
      /\ x \in Activity /\ act \in [Callers -> Activity]
  BY <1>1, PromotingInv DEF TypeOK
<1>3. PICK m \in Moves :
        /\ act' = [act EXCEPT ![a].promo = NoPlay, ![a].dialog = "none"]
        /\ ctl' = [ctl EXCEPT ![a] =
             SendInput(@, HumanCommand(x.promo.by, [x.promo EXCEPT !.move = m]))]
        /\ UNCHANGED <<jniVars, games>>
  BY <1>2 DEF PromoteClick
<1> DEFINE x2 == [x EXCEPT !.promo = NoPlay, !.dialog = "none"]
           c == HumanCommand(x.promo.by, [x.promo EXCEPT !.move = m])
<1>4. act' = [act EXCEPT ![a] = x2]
  BY <1>2, <1>3 DEF Activity
<1>5. x2.life = "running" /\ x2.game = x.game /\ x2.state = "ACTIVE"
      /\ x2.board = x.board /\ x2.next = "INVALID" /\ x2.touch = x.touch
      /\ x2.dialog = "none" /\ x2.undos = x.undos /\ x.undos \in Nat /\ x.undos <= x.undos
  BY <1>1, <1>2 DEF Activity, Running
<1>6. c \in EngineCommands /\ c.command # "START" /\ RequestFits(c, x, game)
  <2>1. [x.promo EXCEPT !.move = m] \in Play
    BY <1>2 DEF Play
  <2>2. c \in EngineCommands /\ c.command = "HUMAN_PLAY" /\ c.player = x.promo.by
    BY <1>2, <2>1 DEF HumanCommand, EngineCommands
  <2> QED
    BY <1>2, <2>2 DEF RequestFits
<1>7. ctl' = [ctl EXCEPT ![a] = SendInput(@, c)] /\ UNCHANGED <<jniVars, games>>
  BY <1>3
<1> HIDE DEF x2, c
<1> QED
  BY <1>1, <1>2, <1>4, <1>5, <1>6, <1>7, AskStep

(* Cancelling the dialog gives the turn back.                              *)
LEMMA PromoteCancelSession ==
  ASSUME TypeOK, TypeOK', InstanceInv, SessionInv, NEW a \in Callers, PromoteCancel(a)
  PROVE  SessionInv'
<1> DEFINE x == act[a]
           game == GameOf(a)
           x2 == [x EXCEPT !.promo = NoPlay, !.dialog = "none",
                           !.next = x.promo.by, !.touch = x.promo.by]
<1>1. Running(a) /\ x.dialog = "promote"
  BY DEF PromoteCancel
<1>2. /\ Idle(ctl[a]) /\ x.state = "ACTIVE"
      /\ x.promo # NoPlay /\ x.promo.by = Turn(game) /\ x.promo.by \in Sides
      /\ x \in Activity /\ act \in [Callers -> Activity]
      /\ UserInv(x, ctl[a], jr[a], game)
  BY <1>1, PromotingInv, RunningOwns DEF TypeOK
<1>3. act' = [act EXCEPT ![a] = x2] /\ UNCHANGED <<jniVars, ctl>> /\ games' = games
  BY <1>2 DEF PromoteCancel, Activity
<1>4. x2.life = "running" /\ x2.game = x.game /\ x2.state = "ACTIVE" /\ x.life = "running"
      /\ x2.board = x.board /\ x2.next = x.promo.by /\ x2.touch = x.promo.by
      /\ x2.dialog = "none" /\ x2.undos = x.undos
  BY <1>1, <1>2 DEF Activity, Running
<1> HIDE DEF x2
<1>5. UserInv(x2, ctl[a], jr[a], game)
  BY <1>2, <1>4 DEF UserInv
<1> QED
  BY <1>1, <1>2, <1>3, <1>4, <1>5, ActStep

(* The undo menu asks for the last two moves.                              *)
LEMMA UndoMenuSession ==
  ASSUME TypeOK, TypeOK', InstanceInv, SessionInv, NEW a \in Callers, UndoMenu(a)
  PROVE  SessionInv'
<1> DEFINE x == act[a]
           game == GameOf(a)
           plays == game.plays
           n == Len(plays)
           x2 == [x EXCEPT !.next = "INVALID", !.undos = @ - 1]
           c == UndoOf(x.next, plays)
<1>1. /\ Running(a) /\ x.dialog = "none" /\ x.undos > 0 /\ IsHuman(a, x.next)
      /\ n >= 2 /\ plays[n].cookie /\ plays[n - 1].cookie
      /\ ctl' = [ctl EXCEPT ![a] = SendInput(@, c)]
      /\ UNCHANGED <<jniVars, games>>
  BY DEF UndoMenu, Visible
<1>2. /\ x \in Activity /\ act \in [Callers -> Activity] /\ game \in Game
      /\ UserInv(x, ctl[a], jr[a], game) /\ x.life = "running"
  BY <1>1, RunningOwns DEF TypeOK
<1>3. plays \in Seq(Entry) /\ n \in Nat /\ n \in 1..n /\ n - 1 \in 1..n
  BY <1>1, <1>2 DEF Game
<1>4. x.state # "null"
  BY <1>1, <1>2, <1>3 DEF UserInv
<1>5. Idle(ctl[a]) /\ x.state = "ACTIVE" /\ x.next = Turn(game) /\ x.next \in Sides
  BY <1>1, <1>4, UsersTurn
<1>6. x2.life = "running" /\ x2.game = x.game /\ x2.state = "ACTIVE"
      /\ x2.board = x.board /\ x2.next = "INVALID" /\ x2.touch = x.touch
      /\ x2.dialog = "none" /\ x2.undos <= x.undos /\ x2.undos \in Nat
  BY <1>1, <1>2, <1>5 DEF Activity
<1>7. act' = [act EXCEPT ![a] = x2]
  BY <1>2 DEF UndoMenu, Activity
<1>8. c \in EngineCommands /\ c.command # "START" /\ RequestFits(c, x, game)
  <2>1. plays[n] \in Entry /\ plays[n - 1] \in Entry
    BY <1>3, ElementOfSeq
  <2>2. /\ c.command = "UNDO" /\ c.player = x.next
        /\ c.cookie1 = plays[n].move /\ c.cookie2 = plays[n - 1].move
    BY DEF UndoOf, UndoCommand
  <2>3. c \in EngineCommands
    BY <1>5, <2>1 DEF UndoOf, UndoCommand, EngineCommands, Entry
  <2> QED
    BY <1>1, <1>5, <2>2, <2>3 DEF RequestFits
<1> HIDE DEF x2, c
<1> QED
  BY <1>1, <1>5, <1>6, <1>7, <1>8, AskStep

(* Leaving: a game that was just started is let start.                     *)
LEMMA TryQuitSession ==
  ASSUME CalmUse, TypeOK, TypeOK', InstanceInv, SessionInv, NEW a \in Callers, TryQuit(a)
  PROVE  SessionInv'
<1> DEFINE x == act[a]
           asks == [x EXCEPT !.dialog = "quit"]
           leaves == [x EXCEPT !.life = "finishing"]
<1>1. Running(a) /\ x.dialog = "none" /\ Situation(a) \in LeaveWhen
  BY DEF TryQuit, Visible
<1>2. x \in Activity /\ act \in [Callers -> Activity] /\ x.life = "running"
      /\ UserInv(x, ctl[a], jr[a], GameOf(a))
  BY <1>1, RunningOwns DEF TypeOK
<1>3. x.state # "null"
  BY <1>1 DEF Situation, CalmUse
<1>4. UNCHANGED <<jniVars, ctl>> /\ games' = games
  BY DEF TryQuit
<1>5. /\ asks.life = "running" /\ asks.game = x.game /\ asks.state = x.state
      /\ asks.board = x.board /\ asks.next = x.next /\ asks.touch = x.touch
      /\ asks.dialog = "quit" /\ asks.undos = x.undos
      /\ leaves.life = "finishing" /\ leaves.game = x.game /\ leaves.state = x.state
      /\ leaves.board = x.board
  BY <1>2 DEF Activity
<1>6. act' = [act EXCEPT ![a] = asks] \/ act' = [act EXCEPT ![a] = leaves]
  BY DEF TryQuit
<1> HIDE DEF asks, leaves
<1>7. CASE act' = [act EXCEPT ![a] = asks]
  <2>1. UserInv(asks, ctl[a], jr[a], GameOf(a))
    BY <1>1, <1>2, <1>3, <1>5 DEF UserInv
  <2> QED
    BY <1>1, <1>4, <1>5, <1>7, <2>1, ActStep
<1>8. CASE act' = [act EXCEPT ![a] = leaves]
  <2>1. UserInv(leaves, ctl[a], jr[a], GameOf(a))
    BY <1>5 DEF UserInv
  <2> QED
    BY <1>1, <1>3, <1>4, <1>5, <1>8, <2>1, ActStep
<1> QED
  BY <1>6, <1>7, <1>8

(* The answers to "quit?".                                                 *)
LEMMA QuitSession ==
  ASSUME TypeOK, TypeOK', InstanceInv, SessionInv, NEW a \in Callers, QuitYes(a) \/ QuitNo(a)
  PROVE  SessionInv'
<1> DEFINE x == act[a]
           yes == [x EXCEPT !.dialog = "none", !.life = "finishing"]
           no == [x EXCEPT !.dialog = "none"]
<1>1. Running(a) /\ x.dialog = "quit" /\ UNCHANGED <<jniVars, ctl>>
  BY DEF QuitYes, QuitNo
<1>2. x \in Activity /\ act \in [Callers -> Activity] /\ x.life = "running"
      /\ UserInv(x, ctl[a], jr[a], GameOf(a))
  BY <1>1, RunningOwns DEF TypeOK
<1>3. x.state # "null"
  BY <1>1, <1>2 DEF UserInv
<1>4. /\ no.life = "running" /\ no.game = x.game /\ no.state = x.state
      /\ no.board = x.board /\ no.next = x.next /\ no.touch = x.touch
      /\ no.dialog = "none" /\ no.undos = x.undos
      /\ yes.life = "finishing" /\ yes.game = x.game /\ yes.state = x.state
      /\ yes.board = x.board
  BY <1>2 DEF Activity
<1>5. CASE QuitYes(a)
  <2>1. /\ act' = [act EXCEPT ![a] = yes]
        /\ games' = [games EXCEPT ![act[a].game] = MaybeSaveGame(@)]
    BY <1>2, <1>5 DEF QuitYes, Activity
  <2> HIDE DEF yes
  <2>2. UserInv(yes, ctl[a], jr[a], GameOf(a))
    BY <1>4 DEF UserInv
  <2> QED
    BY <1>1, <1>3, <1>4, <2>1, <2>2, ActStep
<1>6. CASE QuitNo(a)
  <2>1. act' = [act EXCEPT ![a] = no] /\ games' = games
    BY <1>2, <1>6 DEF QuitNo, Activity
  <2> HIDE DEF no
  <2>2. UserInv(no, ctl[a], jr[a], GameOf(a))
    BY <1>1, <1>2, <1>4 DEF UserInv
  <2> QED
    BY <1>1, <1>4, <2>1, <2>2, ActStep
<1> QED
  BY <1>5, <1>6

(* Controllers with the same requests, calls, replies and instance.        *)
LEMMA SameView ==
  ASSUME NEW k, NEW k2, NEW r, Requests(k2) = Requests(k), k2.current = k.current,
         k2.outq = k.outq, k2.instance = k.instance
  PROVE  /\ Idle(k2) <=> Idle(k)
         /\ HasAnswer(k2, r) <=> HasAnswer(k, r)
         /\ Answer(k2, r) = Answer(k, r)
         /\ IdOf(k2, r) = IdOf(k, r)
BY DEF Idle, HasAnswer, Answer, IdOf, Starts

(* What is known of a created activity.                                    *)
LEMMA CreatedInv ==
  ASSUME SessionInv, TypeOK, NEW a \in Callers, act[a].life # "none"
  PROVE  /\ QueueInv(ctl[a]) /\ RequestInv(act[a], ctl[a], jr[a], GameOf(a))
         /\ UserInv(act[a], ctl[a], jr[a], GameOf(a))
         /\ ctl[a] \in Controller /\ act[a] \in Activity
         /\ act[a].game \in Callers /\ GameOf(a) \in Game /\ GameOf(a) = games[act[a].game]
         /\ Alternating(GameOf(a).plays)
         /\ ~Idle(ctl[a]) => Owner(a)
         /\ ctl \in [Callers -> Controller] /\ act \in [Callers -> Activity]
         /\ games \in [Callers -> Game] /\ jr \in [Callers -> JniResult \cup {NoResult}]
<1>1. /\ QueueInv(ctl[a]) /\ RequestInv(act[a], ctl[a], jr[a], GameOf(a))
      /\ UserInv(act[a], ctl[a], jr[a], GameOf(a))
  BY DEF SessionInv, ActivityInv
<1>2. ~Idle(ctl[a]) => Owner(a)
  BY DEF SessionInv, OwnerInv
<1>3. /\ ctl[a] \in Controller /\ act[a] \in Activity
      /\ act[a].game \in Callers /\ GameOf(a) \in Game /\ GameOf(a) = games[act[a].game]
      /\ ctl \in [Callers -> Controller] /\ act \in [Callers -> Activity]
      /\ games \in [Callers -> Game] /\ jr \in [Callers -> JniResult \cup {NoResult}]
  BY DEF TypeOK, ControllerTypeOK, JNITypeOK, Activity, GameOf
<1>4. Alternating(GameOf(a).plays)
  BY <1>3 DEF SessionInv, GamesInv
<1> QED
  BY <1>1, <1>2, <1>3, <1>4

(* An activity that is left sends DESTROY.                                 *)
LEMMA DestroySession ==
  ASSUME TypeOK, TypeOK', InstanceInv, SessionInv, NEW a \in Callers, Destroy(a)
  PROVE  SessionInv'
<1> DEFINE x == act[a]
           k == ctl[a]
           r == jr[a]
           game == GameOf(a)
           x2 == [x EXCEPT !.life = "destroyed"]
<1>0. x.life = "finishing"
  BY DEF Destroy
<1>1. /\ QueueInv(k) /\ RequestInv(x, k, r, game) /\ UserInv(x, k, r, game)
      /\ k \in Controller /\ x \in Activity /\ x.game \in Callers /\ game \in Game
      /\ ctl \in [Callers -> Controller] /\ act \in [Callers -> Activity]
      /\ Alternating(game.plays) /\ game = games[x.game]
  BY <1>0, CreatedInv
<1>2. PICK k2 : k2 = SendInput(k, DestroyCommand)
  OBVIOUS
<1>3. /\ act' = [act EXCEPT ![a] = x2] /\ ctl' = [ctl EXCEPT ![a] = k2]
      /\ UNCHANGED <<jniVars, games>>
  BY <1>1, <1>2 DEF Destroy, Activity
<1>4. x2.life = "destroyed" /\ x2.game = x.game /\ x2.state = x.state /\ x2.board = x.board
  BY <1>1 DEF Activity
<1> HIDE DEF x2
<1>5. /\ act'[a] = x2 /\ ctl'[a] = k2 /\ jr' = jr /\ tree' = tree
      /\ g_instance_id' = g_instance_id /\ g_init' = g_init /\ aborted' = aborted
      /\ games' = games /\ GameOf(a)' = game
      /\ \A b \in Callers \ {a} : act'[b] = act[b] /\ ctl'[b] = ctl[b]
  BY <1>1, <1>3, <1>4 DEF jniVars, GameOf
<1>6. /\ QueueInv(k2) /\ Requests(k2) = Requests(k)
      /\ k2.current = k.current /\ k2.outq = k.outq /\ k2.instance = k.instance
  BY <1>1, <1>2, DestroyIsNoRequest
<1>7. /\ Idle(k2) <=> Idle(k)
      /\ HasAnswer(k2, r) <=> HasAnswer(k, r)
      /\ Answer(k2, r) = Answer(k, r) /\ IdOf(k2, r) = IdOf(k, r)
  BY <1>6, SameView
<1>8. RequestInv(x2, k2, r, game)
  <2>1. \A c : RequestFits(c, x2, game) <=> RequestFits(c, x, game)
    BY <1>4 DEF RequestFits
  <2> QED
    BY <1>0, <1>1, <1>4, <1>6, <1>7, <2>1 DEF RequestInv
<1>9. ActivityInv(a)'
  <2>1. UserInv(x2, k2, r, game)
    BY <1>4 DEF UserInv
  <2> QED
    BY <1>5, <1>6, <1>8, <2>1 DEF ActivityInv
<1>10. \A b \in Callers : /\ act'[b].game = act[b].game
                          /\ act'[b].life = "none" <=> act[b].life = "none"
  BY <1>0, <1>4, <1>5
<1>11. (Owner(a)' <=> Owner(a)) /\ Owner(a)
  BY <1>0, <1>10, OwnersStay DEF SessionInv, OwnerInv
<1>12. OwnerInv(a)'
  <2>1. g_instance_id > 0 /\ IdOf(k2, r) = g_instance_id => AgreesWith(tree, x2, k2, r, game)
    <3>1. g_instance_id > 0 /\ IdOf(k, r) = g_instance_id => AgreesWith(tree, x, k, r, game)
      BY <1>11 DEF SessionInv, OwnerInv
    <3> QED
      BY <1>4, <1>6, <1>7, <3>1 DEF AgreesWith
  <2>2. IdOf(k2, r) <= 0 => NothingPlayed(k2, r, game)
    <3>1. IdOf(k, r) <= 0 => NothingPlayed(k, r, game)
      BY <1>11 DEF SessionInv, OwnerInv
    <3> QED
      BY <1>7, <3>1 DEF NothingPlayed
  <2> QED
    BY <1>4, <1>5, <1>11, <2>1, <2>2 DEF OwnerInv, Running
<1>13. EngineInv'
  BY <1>5 DEF SessionInv, EngineInv
<1>14. x2.state \in GameStates \ {"ACTIVE"} /\ ~game.replaying /\ game.humans # {}
         => Bare(game.plays) \in game.saved
  BY <1>4 DEF SessionInv, FinishedGameIsSaved
<1> QED
  BY <1>0, <1>1, <1>4, <1>5, <1>9, <1>12, <1>13, <1>14, Frame

(* A step of the controller thread changes nothing the activity keeps.     *)
LEMMA ThreadStep ==
  ASSUME TypeOK, TypeOK', InstanceInv, SessionInv, NEW a \in Callers, act[a].life # "none",
         NEW k2 \in Controller, NEW r2,
         ctl' = [ctl EXCEPT ![a] = k2], jr'[a] = r2,
         \A b \in Callers \ {a} : jr'[b] = jr[b],
         UNCHANGED <<act, games>>,
         \/ tree' = tree /\ g_instance_id' = g_instance_id
         \/ /\ Owner(a) /\ IdOf(ctl[a], jr[a]) = g_instance_id /\ g_instance_id > 0
            /\ g_instance_id' = g_instance_id
         \/ Running(a) /\ g_instance_id' = g_instance_id + 1,
         QueueInv(k2), RequestInv(act[a], k2, r2, GameOf(a)), UserInv(act[a], k2, r2, GameOf(a)),
         /\ Owner(a) /\ g_instance_id' > 0 /\ IdOf(k2, r2) = g_instance_id'
         => AgreesWith(tree', act[a], k2, r2, GameOf(a)),
         Owner(a) /\ IdOf(k2, r2) <= 0 => NothingPlayed(k2, r2, GameOf(a)),
         ~Owner(a) => Idle(k2),
         Running(a) => \/ IdOf(k2, r2) = g_instance_id'
                       \/ IdOf(k2, r2) = -1 /\ g_instance_id' = 0
                       \/ IdOf(k2, r2) = 0 /\ Starts(k2) # {},
         EngineInv'
  PROVE  SessionInv'
<1>1. /\ ctl'[a] = k2 /\ act' = act /\ games' = games /\ GameOf(a)' = GameOf(a)
      /\ \A b \in Callers \ {a} : ctl'[b] = ctl[b]
      /\ act[a].game \in Callers
  BY CreatedInv DEF GameOf
<1>2. Owner(a)' <=> Owner(a)
  BY <1>1, OwnersStay
<1>3. ActivityInv(a)'
  BY <1>1 DEF ActivityInv
<1>4. OwnerInv(a)'
  <2>1. ~Owner(a) => act[a].life = "destroyed" /\ act[a].state = "ACTIVE"
    BY DEF SessionInv, OwnerInv
  <2>2. Running(a)' <=> Running(a)
    BY <1>1 DEF Running
  <2> QED
    BY <1>1, <1>2, <2>1, <2>2 DEF OwnerInv
<1>5. Alternating(games[act[a].game].plays)
  BY <1>1 DEF SessionInv, GamesInv
<1>6. /\ act[a].state \in GameStates \ {"ACTIVE"}
      /\ ~games[act[a].game].replaying
      /\ games[act[a].game].humans # {}
      => Bare(games[act[a].game].plays) \in games[act[a].game].saved
  BY DEF SessionInv, FinishedGameIsSaved, GameOf
<1> QED
  BY <1>1, <1>3, <1>4, <1>5, <1>6, Frame

(* Unless it is starting, an activity goes by mInstanceId.                 *)
LEMMA NonStartId ==
  ASSUME NEW k, NEW r, Starts(k) = {}, k.current.command # "START"
  PROVE  IdOf(k, r) = k.instance
BY DEF IdOf

(* What a controller with something to do has created.                     *)
LEMMA BusyIsCreated ==
  ASSUME InstanceInv, NEW a \in Callers,
         ctl[a].inq # <<>> \/ ctl[a].current # NoCommand \/ ctl[a].outq # <<>>
  PROVE  act[a].life # "none"
<1>1. ctl[a] # NewController
  BY DEF NewController
<1> QED
  BY <1>1 DEF InstanceInv

(* The thread ends on DESTROY.                                             *)
LEMMA DoDestroySession ==
  ASSUME TypeOK, TypeOK', InstanceInv, SessionInv, NEW a \in Callers,
         DoDestroy(a), UNCHANGED <<act, games>>
  PROVE  SessionInv'
<1> DEFINE x == act[a]
           k == ctl[a]
           r == jr[a]
           game == GameOf(a)
           k2 == [k EXCEPT !.quit = TRUE, !.inq = <<>>]
<1>0. k.current = NoCommand /\ k.inq # <<>> /\ Head(k.inq) = DestroyCommand
      /\ x.life # "none" /\ k.current.command # "START"
  BY BusyIsCreated DEF DoDestroy, NoCommand
<1>1. /\ QueueInv(k) /\ RequestInv(x, k, r, game) /\ UserInv(x, k, r, game)
      /\ k \in Controller /\ (~Idle(k) => Owner(a)) /\ ctl \in [Callers -> Controller]
  BY <1>0, CreatedInv
<1>2. 1 \in 1..Len(k.inq) /\ k.inq[1] = DestroyCommand
  BY <1>0, <1>1 DEF Controller
<1>3. x.life = "destroyed" /\ x.state # "null"
  BY <1>2, <1>1 DEF RequestInv
<1>4. ctl' = [ctl EXCEPT ![a] = k2] /\ jr' = jr /\ tree' = tree
      /\ g_instance_id' = g_instance_id /\ g_init' = g_init /\ aborted' = aborted
  BY <1>1 DEF DoDestroy, jniVars, Controller
<1>5. /\ k2.inq = <<>> /\ k2.current = NoCommand /\ k2.outq = k.outq
      /\ k2.instance = k.instance /\ k2 \in Controller
  <2>1. <<>> \in Seq(Commands)
    BY EmptySeq
  <2> QED
    BY <1>0, <1>1, <2>1 DEF Controller
<1> HIDE DEF k2
<1>6. 1..Len(k2.inq) = {}
  BY <1>5, EmptySeq
<1>7. Requests(k2) = {} /\ Starts(k2) = {}
  BY <1>6 DEF Requests, Starts
<1>8. Starts(k) = {}
  BY <1>1, <1>3 DEF Starts, RequestInv, RequestFits
<1>9. IdOf(k2, r) = IdOf(k, r)
  BY <1>0, <1>5, <1>7, <1>8, NonStartId
<1>10. (HasAnswer(k2, r) <=> HasAnswer(k, r)) /\ Answer(k2, r) = Answer(k, r)
  BY <1>0, <1>5 DEF HasAnswer, Answer
<1>11. QueueInv(k2)
  BY <1>1, <1>5, <1>6, <1>7 DEF QueueInv
<1>12. Idle(k) => Idle(k2)
  BY <1>5, <1>7 DEF Idle
<1>13. RequestInv(x, k2, r, game)
  BY <1>0, <1>1, <1>5, <1>6, <1>7, <1>10, <1>12 DEF RequestInv
<1>14. UserInv(x, k2, r, game)
  BY <1>3 DEF UserInv
<1>15. Owner(a) /\ g_instance_id > 0 /\ IdOf(k2, r) = g_instance_id
         => AgreesWith(tree, x, k2, r, game)
  <2>1. Owner(a) /\ g_instance_id > 0 /\ IdOf(k, r) = g_instance_id
          => AgreesWith(tree, x, k, r, game)
    BY DEF SessionInv, OwnerInv
  <2> QED
    BY <1>0, <1>5, <1>9, <1>10, <2>1 DEF AgreesWith
<1>16. Owner(a) /\ IdOf(k2, r) <= 0 => NothingPlayed(k2, r, game)
  <2>1. Owner(a) /\ IdOf(k, r) <= 0 => NothingPlayed(k, r, game)
    BY DEF SessionInv, OwnerInv
  <2> QED
    BY <1>9, <1>10, <2>1 DEF NothingPlayed
<1>17. EngineInv'
  BY <1>4 DEF SessionInv, EngineInv
<1>18. ~Running(a)
  BY <1>3 DEF Running
<1> QED
  BY <1>0, <1>1, <1>4, <1>5, <1>11, <1>12, <1>13, <1>14, <1>15, <1>16, <1>17, <1>18, ThreadStep

(* Only a call of a game that the engine does not play any more is refused. *)
LEMMA RefusedSession ==
  ASSUME TypeOK, TypeOK', InstanceInv, SessionInv, NEW a \in Callers,
         PostResult(a), jr[a].status = "INSTANCE_DELETED", UNCHANGED <<act, games>>
  PROVE  SessionInv'
<1> DEFINE x == act[a]
           k == ctl[a]
           r == jr[a]
           game == GameOf(a)
           k2 == [k EXCEPT !.quit = TRUE, !.inq = <<>>, !.current = NoCommand]
<1>0. k.current # NoCommand /\ x.life # "none"
  BY BusyIsCreated DEF PostResult
<1>1. /\ QueueInv(k) /\ RequestInv(x, k, r, game) /\ UserInv(x, k, r, game)
      /\ k \in Controller /\ (~Idle(k) => Owner(a)) /\ ctl \in [Callers -> Controller]
      /\ jr \in [Callers -> JniResult \cup {NoResult}] /\ game \in Game
  BY <1>0, CreatedInv
<1>2. Owner(a) /\ Requests(k) = {} /\ k.outq = <<>>
  BY <1>0, <1>1 DEF Idle, QueueInv
<1>3. k.current.command # "START" /\ k.instance # 0 /\ k.instance \in Int
  BY <1>1 DEF RequestInv, Controller
<1>4. ctl' = [ctl EXCEPT ![a] = k2] /\ jr'[a] = NoResult /\ tree' = tree
      /\ (\A b \in Callers \ {a} : jr'[b] = jr[b])
      /\ g_instance_id' = g_instance_id /\ g_init' = g_init /\ aborted' = aborted
  BY <1>1 DEF PostResult
<1>5. /\ k2.inq = <<>> /\ k2.current = NoCommand /\ k2.outq = <<>> /\ k2.quit
      /\ k2.instance = k.instance /\ k2 \in Controller
  <2>1. <<>> \in Seq(Commands)
    BY EmptySeq
  <2> QED
    BY <1>1, <1>2, <2>1 DEF Controller
<1> HIDE DEF k2
<1>6. 1..Len(k2.inq) = {}
  BY <1>5, EmptySeq
<1>7. Requests(k2) = {} /\ Starts(k2) = {} /\ Idle(k2) /\ Starts(k) = {}
      /\ k2.current.command # "START"
  <2>1. Requests(k2) = {}
    BY <1>6 DEF Requests
  <2> QED
    BY <1>2, <1>5, <2>1 DEF Starts, Idle, NoCommand
<1>8. IdOf(k2, NoResult) = k.instance /\ IdOf(k, r) = k.instance
  BY <1>3, <1>5, <1>7, NonStartId
<1>9. ~HasAnswer(k2, NoResult) /\ ~HasAnswer(k, r)
  BY <1>2, <1>5 DEF HasAnswer
<1>10. ~(g_instance_id > 0 /\ k.instance = g_instance_id)
  BY <1>0, <1>2, <1>8, <1>9 DEF SessionInv, OwnerInv, AgreesWith
<1>11. Running(a) => k.instance <= 0 /\ (k.instance = g_instance_id
                                         \/ (k.instance = -1 /\ g_instance_id = 0))
  <2>1. Running(a) => \/ k.instance = g_instance_id
                      \/ k.instance = -1 /\ g_instance_id = 0
    BY <1>7, <1>8 DEF SessionInv, OwnerInv
  <2>2. g_instance_id \in Nat
    BY IdsBounded
  <2> QED
    BY <1>3, <1>10, <2>1, <2>2
<1>12. QueueInv(k2)
  BY <1>5, <1>6, <1>7 DEF QueueInv
<1>13. RequestInv(x, k2, NoResult, game)
  BY <1>1, <1>3, <1>5, <1>6, <1>7, <1>9 DEF RequestInv
<1>14. UserInv(x, k2, NoResult, game)
  <2>1. x.life = "running" => k.instance <= 0
    BY <1>11 DEF Running
  <2>2. k.instance <= 0 => ~(k.instance > 0)
    BY <1>3
  <2> QED
    BY <1>1, <1>7, <1>8, <2>1, <2>2 DEF UserInv
<1>15. IdOf(k2, NoResult) <= 0 => NothingPlayed(k2, NoResult, game)
  BY <1>2, <1>8, <1>9 DEF SessionInv, OwnerInv, NothingPlayed
<1>16. EngineInv'
  BY <1>4 DEF SessionInv, EngineInv
<1> QED
  BY <1>0, <1>2, <1>4, <1>5, <1>8, <1>10, <1>11, <1>12, <1>13, <1>14, <1>15, <1>16, ThreadStep

(* A result is posted to the activity.                                     *)
LEMMA PostedSession ==
  ASSUME TypeOK, TypeOK', InstanceInv, SessionInv, NEW a \in Callers,
         PostResult(a), jr[a].status # "INSTANCE_DELETED", UNCHANGED <<act, games>>
  PROVE  SessionInv'
<1> DEFINE x == act[a]
           k == ctl[a]
           r == jr[a]
           game == GameOf(a)
           ans == ReplyTo(k.current, r)
           id == IF k.current.command = "START" THEN r.instance ELSE k.instance
           k2 == [k EXCEPT !.outq = Append(@, ans), !.current = NoCommand, !.instance = id]
<1>0. k.current # NoCommand /\ x.life # "none"
  BY BusyIsCreated DEF PostResult
<1>1. /\ QueueInv(k) /\ RequestInv(x, k, r, game) /\ UserInv(x, k, r, game)
      /\ k \in Controller /\ (~Idle(k) => Owner(a)) /\ ctl \in [Callers -> Controller]
      /\ jr \in [Callers -> JniResult \cup {NoResult}] /\ game \in Game
  BY <1>0, CreatedInv
<1>2. Owner(a) /\ Requests(k) = {} /\ k.outq = <<>> /\ ~Idle(k)
      /\ k.current \in EngineCommands
  BY <1>0, <1>1 DEF Idle, QueueInv, Controller
<1>3. ans \in Results /\ id \in Int /\ id # 0
  <2>1. r \in JniResult \cup {NoResult}
    BY <1>1
  <2> QED
    BY <1>1, <1>2, <2>1, ReplyToType, ResultFields DEF RequestInv, Controller
<1>4. ctl' = [ctl EXCEPT ![a] = k2] /\ jr'[a] = NoResult /\ tree' = tree
      /\ (\A b \in Callers \ {a} : jr'[b] = jr[b])
      /\ g_instance_id' = g_instance_id /\ g_init' = g_init /\ aborted' = aborted
  BY <1>1 DEF PostResult, StartedInstance
<1> HIDE DEF ans, id
<1>5. /\ k2.inq = k.inq /\ k2.current = NoCommand /\ k2.outq = <<ans>> /\ k2.quit = k.quit
      /\ k2.instance = id /\ k2 \in Controller
  <2>1. Append(<<>>, ans) = <<ans>> /\ <<ans>> \in Seq(Results)
    BY <1>3
  <2> QED
    BY <1>1, <1>2, <1>3, <2>1 DEF Controller
<1> HIDE DEF k2
<1>6. Requests(k2) = {} /\ Starts(k2) = {} /\ ~Idle(k2) /\ Starts(k) = {}
      /\ k2.current.command # "START" /\ k2.outq # <<>> /\ Len(k2.outq) = 1
      /\ Head(k2.outq) = ans
  <2>1. Requests(k2) = Requests(k)
    BY <1>5 DEF Requests
  <2>2. k2.outq # <<>> /\ Len(k2.outq) = 1 /\ Head(k2.outq) = ans
    BY <1>5
  <2> QED
    BY <1>2, <1>5, <2>1, <2>2 DEF Starts, Idle, NoCommand
<1>7. IdOf(k2, NoResult) = id /\ IdOf(k, r) = id
  BY <1>2, <1>5, <1>6, IdOfNone DEF id
<1>8. HasAnswer(k2, NoResult) /\ HasAnswer(k, r)
      /\ Answer(k2, NoResult) = ans /\ Answer(k, r) = ans
  BY <1>0, <1>5, <1>6 DEF HasAnswer, Answer, ans
<1>9. QueueInv(k2)
  BY <1>1, <1>5, <1>6 DEF QueueInv
<1>10. RequestInv(x, k2, NoResult, game)
  BY <1>1, <1>2, <1>3, <1>5, <1>6, <1>8 DEF RequestInv
<1>11. UserInv(x, k2, NoResult, game)
  BY <1>1, <1>2, <1>5, <1>6, <1>7 DEF UserInv
<1>12. g_instance_id > 0 /\ id = g_instance_id => AgreesWith(tree, x, k2, NoResult, game)
  <2>1. g_instance_id > 0 /\ id = g_instance_id => AgreesWith(tree, x, k, r, game)
    BY <1>2, <1>7 DEF SessionInv, OwnerInv
  <2> QED
    BY <1>8, <2>1 DEF AgreesWith
<1>13. id <= 0 => NothingPlayed(k2, NoResult, game)
  <2>1. id <= 0 => NothingPlayed(k, r, game)
    BY <1>2, <1>7 DEF SessionInv, OwnerInv
  <2> QED
    BY <1>8, <2>1 DEF NothingPlayed
<1>14. Running(a) => \/ id = g_instance_id
                     \/ id = -1 /\ g_instance_id = 0
  BY <1>3, <1>6, <1>7 DEF SessionInv, OwnerInv
<1>15. EngineInv'
  BY <1>4 DEF SessionInv, EngineInv
<1> QED
  BY <1>0, <1>2, <1>4, <1>5, <1>7, <1>9, <1>10, <1>11, <1>12, <1>13, <1>14, <1>15, ThreadStep

(* The activity handles a result: it gets the turn, or asks the computer.  *)
LEMMA HandleResultSession ==
  ASSUME TypeOK, TypeOK', InstanceInv, SessionInv, NEW a \in Callers, HandleResult(a)
  PROVE  SessionInv'
<1> DEFINE x == act[a]
           k == ctl[a]
           r == jr[a]
           game == GameOf(a)
           ans == Head(k.outq)
           c == ComputerCommand(ans.nextPlayer)
           k1 == [k EXCEPT !.outq = Tail(@)]
           x2 == [x EXCEPT !.next = ans.nextPlayer, !.touch = ans.nextPlayer,
                           !.state = ans.gameState, !.board = ans.board]
           game1 == [game EXCEPT !.plays = PlaysAfter(@, ans)]
<1>0. k.outq # <<>> /\ x.life # "none"
  BY BusyIsCreated DEF HandleResult
<1>1. /\ QueueInv(k) /\ RequestInv(x, k, r, game) /\ UserInv(x, k, r, game)
      /\ k \in Controller /\ x \in Activity /\ x.game \in Callers /\ game \in Game
      /\ game = games[x.game] /\ Alternating(game.plays)
      /\ (~Idle(k) => Owner(a))
      /\ ctl \in [Callers -> Controller] /\ act \in [Callers -> Activity]
      /\ games \in [Callers -> Game]
  BY <1>0, CreatedInv
<1>2. Owner(a) /\ Requests(k) = {} /\ k.current = NoCommand /\ Len(k.outq) = 1 /\ ~Idle(k)
  BY <1>0, <1>1 DEF Idle, QueueInv
<1>3. ans \in Results /\ Tail(k.outq) \in Seq(Results) /\ Tail(k.outq) = <<>>
  <2>1. k.outq \in Seq(Results)
    BY <1>1 DEF Controller
  <2>2. ans \in Results /\ Tail(k.outq) \in Seq(Results) /\ Len(Tail(k.outq)) = Len(k.outq) - 1
    BY <1>0, <2>1, HeadTailProperties
  <2>3. Len(Tail(k.outq)) = 0
    BY <1>2, <2>2
  <2> QED
    BY <2>2, <2>3, EmptySeq
<1>4. HasAnswer(k, r) /\ Answer(k, r) = ans
  BY <1>0, <1>2 DEF HasAnswer, Answer
<1> HIDE DEF ans
<1>5. AnswerFits(ans, game)
  BY <1>1, <1>4 DEF RequestInv
<1>6. /\ act' = [act EXCEPT ![a] = x2] /\ jr' = jr /\ tree' = tree
      /\ g_instance_id' = g_instance_id /\ g_init' = g_init
      /\ aborted' = (ans.undoMoves > Len(Added(game.plays, ans)))
      /\ ctl' = [ctl EXCEPT ![a] = IF AsksComputer(a, ans) THEN SendInput(k1, c) ELSE k1]
      /\ games' = [games EXCEPT ![x.game] = IF ans.gameState # "ACTIVE"
                                            THEN MaybeSaveGame(game1) ELSE game1]
  BY <1>1 DEF HandleResult, Activity, ans
<1>7. /\ x2.life = x.life /\ x2.game = x.game /\ x2.state = ans.gameState
      /\ x2.board = ans.board /\ x2.next = ans.nextPlayer /\ x2.touch = ans.nextPlayer
      /\ x2.undos = x.undos /\ x2.dialog = x.dialog
  BY <1>1 DEF Activity
<1>8. /\ game1 \in Game /\ game1.plays = PlaysAfter(game.plays, ans)
      /\ game1.initial = game.initial /\ game1.humans = game.humans
      /\ game1.replaying = game.replaying
  <2>1. PlaysAfter(game.plays, ans) \in Seq(Entry)
    BY <1>1, <1>3, PlaysAfterType DEF Game
  <2> QED
    BY <1>1, <2>1 DEF Game
<1>9. /\ k1 \in Controller /\ k1.inq = k.inq /\ k1.current = NoCommand /\ k1.outq = <<>>
      /\ k1.instance = k.instance /\ k1.quit = k.quit
  BY <1>1, <1>2, <1>3 DEF Controller
<1> HIDE DEF x2, game1, k1
<1>10. Alternating(game1.plays) /\ ans.undoMoves <= Len(Added(game.plays, ans))
  BY <1>1, <1>3, <1>5, <1>8, AnswerAlternates
<1>11. PICK game2 : game2 = games'[x.game]
  OBVIOUS
<1>12. /\ GameOf(a)' = game2
       /\ game2.plays = game1.plays /\ game2.initial = game.initial
       /\ game2.humans = game.humans /\ game2.replaying = game.replaying
       /\ ans.gameState # "ACTIVE" /\ ~game2.replaying /\ game2.humans # {}
            => Bare(game2.plays) \in game2.saved
  <2>1. GameOf(a)' = game2
    BY <1>1, <1>6, <1>7, <1>11 DEF GameOf
  <2>2. game2 = IF ans.gameState # "ACTIVE" THEN MaybeSaveGame(game1) ELSE game1
    BY <1>1, <1>6, <1>11
  <2> QED
    BY <1>8, <2>1, <2>2, SavedFields
<1>13. /\ QueueInv(k1) /\ Requests(k1) = {} /\ Idle(k1)
       /\ k1.current.command # "START"
  <2>1. Requests(k1) = Requests(k)
    BY <1>9 DEF Requests
  <2> QED
    BY <1>1, <1>2, <1>9, <2>1 DEF QueueInv, Idle, NoCommand
<1>14. ASSUME AsksComputer(a, ans)
       PROVE  /\ c \in EngineCommands /\ c.command = "COMPUTER_PLAY"
              /\ c.player = ans.nextPlayer /\ c.player \notin game.humans
              /\ ans.gameState = "ACTIVE"
  <2>1. ans.nextPlayer # "INVALID" /\ ans.nextPlayer \in Sides
        /\ ans.nextPlayer \notin game.humans
    BY <1>3, <1>14 DEF AsksComputer, IsComputer, IsHuman, Results, Players
  <2> QED
    BY <1>5, <2>1 DEF AnswerFits, ComputerCommand, EngineCommands
<1> HIDE DEF c
<1>15. PICK k2 : k2 = ctl'[a]
  OBVIOUS
<1>16. k2 = IF AsksComputer(a, ans) THEN SendInput(k1, c) ELSE k1
  BY <1>1, <1>6, <1>15
<1>17. /\ QueueInv(k2) /\ k2.current = NoCommand /\ k2.outq = <<>>
       /\ k2.instance = k.instance /\ k2.quit = k.quit
       /\ (~Idle(k2) => AsksComputer(a, ans) /\ Requests(k2) = {c})
       /\ IdOf(k2, r) = k.instance
       /\ \A i \in 1..Len(k2.inq) : k2.inq[i] = DestroyCommand =>
            \E j \in 1..Len(k.inq) : k.inq[j] = DestroyCommand
  <2>1. CASE ~AsksComputer(a, ans) \/ k1.quit
    <3>1. k2 = k1
      BY <1>16, <2>1 DEF SendInput
    <3>2. IdOf(k1, r) = k.instance
      BY <1>9, <1>13, IdOfNone
    <3> QED
      BY <1>9, <1>13, <3>1, <3>2
  <2>2. CASE AsksComputer(a, ans) /\ ~k1.quit
    <3>1. k2 = SendInput(k1, c)
      BY <1>16, <2>2
    <3>2. /\ QueueInv(k2) /\ Requests(k2) = {c}
          /\ k2.current = NoCommand /\ k2.outq = <<>>
          /\ k2.instance = k1.instance /\ k2.quit = k1.quit
          /\ \A i \in 1..Len(k2.inq) : k2.inq[i] = DestroyCommand =>
               \E j \in 1..Len(k1.inq) : k1.inq[j] = DestroyCommand
      BY <1>9, <1>13, <1>14, <2>2, <3>1, AskOne
    <3>3. IdOf(k2, r) = k.instance
      BY <1>9, <1>14, <2>2, <3>2, IdOfRequest
    <3> QED
      BY <1>9, <2>2, <3>2, <3>3
  <2> QED
    BY <2>1, <2>2
<1>18. ~HasAnswer(k2, r) /\ Starts(k) = {} /\ k.current.command # "START"
       /\ IdOf(k, r) = k.instance
  <2>1. Starts(k) = {} /\ k.current.command # "START"
    BY <1>2 DEF Starts, NoCommand
  <2> QED
    BY <1>17, <2>1, NonStartId DEF HasAnswer
<1>19. \A d \in Requests(k2) : d = c /\ AsksComputer(a, ans)
  BY <1>17 DEF Idle
<1>20. ans.gameState \in GameStates /\ ans.gameState # "null" /\ Turn(game2) # "INVALID"
       /\ ans.nextPlayer = (IF ans.gameState = "ACTIVE" THEN Turn(game2) ELSE "INVALID")
  <2>1. Len(game2.plays) \in Nat
    BY <1>8, <1>12 DEF Game
  <2>2. Turn(game2) = SideAt(Len(PlaysAfter(game.plays, ans)))
    BY <1>8, <1>12 DEF Turn
  <2>3. Turn(game2) # "INVALID"
    BY <2>1, SideTurns DEF Turn
  <2> QED
    BY <1>3, <1>5, <2>2, <2>3 DEF AnswerFits, Results, GameStates
<1>21. RequestInv(x2, k2, r, game2)
  <2>1. \A d \in Requests(k2) : RequestFits(d, x2, game2)
    BY <1>14, <1>19, <1>20 DEF RequestFits
  <2>2. (\E i \in 1..Len(k2.inq) : k2.inq[i] = DestroyCommand) => x2.life = "destroyed"
    BY <1>1, <1>7, <1>17 DEF RequestInv
  <2>3. k2.current.command # "START" /\ k2.instance # 0
    BY <1>1, <1>17 DEF RequestInv, NoCommand
  <2>4. ~Idle(k2) => x2.state = "ACTIVE"
    BY <1>7, <1>14, <1>17
  <2> QED
    BY <1>7, <1>18, <1>20, <2>1, <2>2, <2>3, <2>4 DEF RequestInv
<1>22. UserInv(x2, k2, r, game2)
  <2> SUFFICES ASSUME x2.life = "running" PROVE UserInv(x2, k2, r, game2)
    BY DEF UserInv
  <2>1. x.life = "running" /\ x.dialog # "promote" /\ x.undos <= MaxUndos
        /\ (k.quit => IdOf(k, r) <= 0)
    BY <1>1, <1>2, <1>7 DEF UserInv
  <2>2. x2.next \in game2.humans => Idle(k2)
    BY <1>7, <1>12, <1>14, <1>17
  <2> QED
    BY <1>7, <1>17, <1>18, <1>20, <2>1, <2>2 DEF UserInv
<1>23. /\ act'[a] = x2 /\ ctl'[a] = k2 /\ jr'[a] = r
       /\ \A b \in Callers \ {a} : act'[b] = act[b] /\ ctl'[b] = ctl[b] /\ jr'[b] = jr[b]
       /\ \A g \in Callers \ {x.game} : games'[g] = games[g]
  BY <1>1, <1>6, <1>15
<1>24. ActivityInv(a)'
  BY <1>12, <1>17, <1>21, <1>22, <1>23 DEF ActivityInv
<1>25. \A b \in Callers : /\ act'[b].game = act[b].game
                          /\ act'[b].life = "none" <=> act[b].life = "none"
  BY <1>0, <1>7, <1>23
<1>26. Owner(a)' <=> Owner(a)
  BY <1>25, OwnersStay
<1>27. OwnerInv(a)'
  <2>1. g_instance_id > 0 /\ k.instance = g_instance_id => AgreesWith(tree, x2, k2, r, game2)
    <3>1. g_instance_id > 0 /\ k.instance = g_instance_id => AgreesWith(tree, x, k, r, game)
      BY <1>2, <1>18 DEF SessionInv, OwnerInv
    <3> QED
      BY <1>4, <1>7, <1>8, <1>12, <1>17, <1>18, <1>20, <3>1 DEF AgreesWith
  <2>2. k.instance <= 0 => NothingPlayed(k2, r, game2)
    <3>1. k.instance <= 0 => NothingPlayed(k, r, game)
      BY <1>2, <1>18 DEF SessionInv, OwnerInv
    <3>2. k.instance <= 0 => game2.plays = game.plays
      BY <1>1, <1>3, <1>4, <1>8, <1>12, <3>1, PlaysAfterNothing DEF NothingPlayed, Game
    <3> QED
      BY <1>12, <1>18, <3>1, <3>2 DEF NothingPlayed
  <2>3. Running(a) => \/ k.instance = g_instance_id
                      \/ k.instance = -1 /\ g_instance_id = 0
    BY <1>18 DEF SessionInv, OwnerInv
  <2>4. Running(a)' <=> Running(a)
    BY <1>7, <1>23 DEF Running
  <2> QED
    BY <1>2, <1>6, <1>12, <1>17, <1>23, <1>26, <2>1, <2>2, <2>3, <2>4 DEF OwnerInv
<1>28. EngineInv'
  <2>1. ~aborted'
    <3>1. ans.undoMoves \in Int /\ Len(Added(game.plays, ans)) \in Int
      <4>1. Added(game.plays, ans) \in Seq(Entry)
        BY <1>1, <1>3, PlaysAfterPlay, AppendProperties DEF Added, Game, Entry, Results, Play
      <4> QED
        BY <1>3, <4>1 DEF Results
    <3>2. ~(ans.undoMoves > Len(Added(game.plays, ans)))
      BY <1>10, <3>1
    <3>3. aborted' = (ans.undoMoves > Len(Added(game.plays, ans)))
      BY <1>6
    <3> QED
      BY <3>2, <3>3, Zenon
  <2> QED
    BY <1>6, <2>1 DEF SessionInv, EngineInv
<1>29. Alternating(games'[x.game].plays)
  BY <1>10, <1>11, <1>12
<1>30. games'[x.game].initial = games[x.game].initial
  BY <1>1, <1>11, <1>12
<1>31. x2.state \in GameStates \ {"ACTIVE"} /\ ~game2.replaying /\ game2.humans # {}
         => Bare(game2.plays) \in game2.saved
  BY <1>7, <1>12
<1> QED
  BY <1>0, <1>2, <1>6, <1>7, <1>11, <1>23, <1>24, <1>27, <1>28, <1>29, <1>30, <1>31, Frame

-----------------------------------------------------------------------------
(* Calls of the engine.                                                    *)

(* The owner of a game makes the calls, one at a time.                     *)
LEMMA Calling ==
  ASSUME TypeOK, InstanceInv, SessionInv, NEW a \in Callers, CallEngine(a),
         NEW c, c = Head(ctl[a].inq)
  PROVE  /\ c \in EngineCommands /\ Owner(a) /\ act[a].life # "none" /\ ~ctl[a].quit
         /\ Requests(ctl[a]) = {c} /\ RequestFits(c, act[a], GameOf(a))
         /\ act[a].state \in {"null", "ACTIVE"} /\ ~Idle(ctl[a])
         /\ ~HasAnswer(ctl[a], jr[a]) /\ ctl[a].current = NoCommand
         /\ ctl[a].instance # 0 /\ ctl[a].instance \in Int
         /\ IdOf(ctl[a], jr[a]) = (IF c.command = "START" THEN c.resume ELSE ctl[a].instance)
<1> DEFINE k == ctl[a]
<1>0. k.current = NoCommand /\ k.inq # <<>> /\ ~k.quit /\ act[a].life # "none"
      /\ c.command \in {"START", "HUMAN_PLAY", "COMPUTER_PLAY", "UNDO"}
  BY BusyIsCreated DEF CallEngine
<1>1. /\ QueueInv(k) /\ RequestInv(act[a], k, jr[a], GameOf(a)) /\ k \in Controller
      /\ (~Idle(k) => Owner(a))
  BY <1>0, CreatedInv
<1>2. c # DestroyCommand
  BY <1>0 DEF DestroyCommand
<1>3. Requests(k) = {c} /\ c \in EngineCommands /\ k.outq = <<>>
  BY <1>0, <1>1, <1>2, TakeOne
<1>4. ~Idle(k)
  BY <1>3 DEF Idle
<1>5. RequestFits(c, act[a], GameOf(a)) /\ act[a].state \in {"null", "ACTIVE"}
      /\ k.instance # 0 /\ k.instance \in Int
  BY <1>1, <1>3, <1>4 DEF RequestInv, Controller
<1>6. ~HasAnswer(k, jr[a])
  BY <1>0, <1>3 DEF HasAnswer
<1>7. IdOf(k, jr[a]) = (IF c.command = "START" THEN c.resume ELSE k.instance)
  BY <1>0, <1>3, IdOfRequest
<1> QED
  BY <1>0, <1>1, <1>3, <1>4, <1>5, <1>6, <1>7

(* What a call has to leave for its activity: an answer to the request and, *)
(* for the ID that the activity then goes by, the position of its game.    *)
IdAfter(c, k, r) == IF c.command = "START" THEN r.instance ELSE k.instance

ResultFits(c, r, game) ==
  /\ r.status # "INSTANCE_DELETED" => AnswerFits(ReplyTo(c, r), game)
  /\ c.command = "START" => r.status = "OK" /\ r.instance # 0

ResultAgrees(t, c, r, game) ==
  /\ r.status # "INSTANCE_DELETED"
  /\ t.plays = ReplyTo(c, r).board
  /\ t.plays = Bare(PlaysAfter(game.plays, ReplyTo(c, r)))
  /\ t.status = {} <=> ReplyTo(c, r).gameState = "ACTIVE"

ResultPlaysNothing(c, r, game) ==
  /\ Bare(game.plays) = game.initial
  /\ r.status # "INSTANCE_DELETED" =>
       ReplyTo(c, r).lastMove = NoPlay /\ ReplyTo(c, r).undoMoves = 0

CallInv(a, c, r, t, n) ==
  LET id == IdAfter(c, ctl[a], r) IN
  /\ ResultFits(c, r, GameOf(a))
  /\ n > 0 /\ id = n => ResultAgrees(t, c, r, GameOf(a))
  /\ id <= 0 => ResultPlaysNothing(c, r, GameOf(a))
  /\ Running(a) => id = n \/ (id = -1 /\ n = 0)

(* A call changes the engine's position for its game, or starts another.   *)
CallPlays(a) ==
  \/ tree' = tree /\ g_instance_id' = g_instance_id
  \/ /\ IdOf(ctl[a], jr[a]) = g_instance_id /\ g_instance_id > 0
     /\ g_instance_id' = g_instance_id
  \/ Running(a) /\ g_instance_id' = g_instance_id + 1

(* A call preserves the invariant if its result answers the request.       *)
LEMMA CallStep ==
  ASSUME TypeOK, TypeOK', InstanceInv, SessionInv, NEW a \in Callers,
         CallEngine(a), UNCHANGED <<act, games>>,
         NEW c, c = Head(ctl[a].inq), NEW r2, jr' = [jr EXCEPT ![a] = r2],
         NEW t, t = tree', NEW n, n = g_instance_id',
         CallInv(a, c, r2, t, n), CallPlays(a), EngineInv'
  PROVE  SessionInv'
<1> DEFINE x == act[a]
           k == ctl[a]
           r == jr[a]
           game == GameOf(a)
<1>0. /\ c \in EngineCommands /\ Owner(a) /\ x.life # "none" /\ ~k.quit
      /\ RequestFits(c, x, game) /\ x.state \in {"null", "ACTIVE"} /\ ~Idle(k)
      /\ k.current = NoCommand /\ k.instance # 0 /\ k.inq # <<>>
  BY Calling DEF CallEngine
<1>1. /\ QueueInv(k) /\ RequestInv(x, k, r, game) /\ UserInv(x, k, r, game)
      /\ k \in Controller /\ ctl \in [Callers -> Controller]
      /\ jr \in [Callers -> JniResult \cup {NoResult}]
  BY <1>0, CreatedInv
<1>2. c # DestroyCommand /\ c # NoCommand
  BY <1>0, EngineIsNotDestroy
<1>a. PICK k2 : k2 = Taken(k)
  OBVIOUS
<1>3. ctl' = [ctl EXCEPT ![a] = k2]
  BY <1>a, <1>1 DEF CallEngine, Controller, Taken
<1>b. k \in Controller /\ QueueInv(k) /\ k.inq # <<>> /\ k.current = NoCommand
      /\ Head(k.inq) # DestroyCommand /\ c = Head(k.inq)
  BY <1>0, <1>1, <1>2
<1>4. /\ Requests(k2) = {} /\ k.outq = <<>> /\ k2 \in Controller /\ QueueInv(k2)
      /\ k2.current = c /\ k2.outq = <<>> /\ k2.instance = k.instance /\ k2.quit = k.quit
      /\ \A i \in 1..Len(k2.inq) : k2.inq[i] = DestroyCommand =>
           \E j \in 1..Len(k.inq) : k.inq[j] = DestroyCommand
  <2> HIDE DEF k
  <2>1. /\ Requests(k2) = {} /\ k.outq = <<>> /\ k2 \in Controller /\ QueueInv(k2)
        /\ k2.current = Head(k.inq) /\ k2.outq = k.outq
        /\ k2.instance = k.instance /\ k2.quit = k.quit
        /\ \A i \in 1..Len(k2.inq) : k2.inq[i] = DestroyCommand =>
             \E j \in 1..Len(k.inq) : k.inq[j] = DestroyCommand
    BY <1>a, <1>b, TakeOne
  <2> QED
    BY <1>b, <2>1
<1>c. PICK id2 : id2 = IdAfter(c, k, r2)
  OBVIOUS
<1>d. /\ ResultFits(c, r2, game)
      /\ n > 0 /\ id2 = n => ResultAgrees(t, c, r2, game)
      /\ id2 <= 0 => ResultPlaysNothing(c, r2, game)
      /\ Running(a) => id2 = n \/ (id2 = -1 /\ n = 0)
  BY <1>c DEF CallInv
<1>5. ~Idle(k2) /\ Starts(k2) = {}
  BY <1>2, <1>4 DEF Idle, Starts
<1>6. IdOf(k2, r2) = id2
  BY <1>4, <1>c, IdOfNone DEF IdAfter
<1>7. (HasAnswer(k2, r2) <=> r2.status # "INSTANCE_DELETED") /\ Answer(k2, r2) = ReplyTo(c, r2)
  BY <1>2, <1>4 DEF HasAnswer, Answer
<1>8. RequestInv(x, k2, r2, game)
  BY <1>0, <1>1, <1>4, <1>7, <1>d DEF RequestInv, ResultFits
<1>9. UserInv(x, k2, r2, game)
  BY <1>0, <1>1, <1>4, <1>5 DEF UserInv
<1>10. n > 0 /\ id2 = n => AgreesWith(t, x, k2, r2, game)
  BY <1>7, <1>d DEF AgreesWith, ResultAgrees
<1>11. id2 <= 0 => NothingPlayed(k2, r2, game)
  BY <1>7, <1>d DEF NothingPlayed, ResultPlaysNothing
<1>12. jr'[a] = r2 /\ \A b \in Callers \ {a} : jr'[b] = jr[b]
  BY <1>1
<1> QED
  <2>1. \/ tree' = tree /\ g_instance_id' = g_instance_id
        \/ /\ Owner(a) /\ IdOf(ctl[a], jr[a]) = g_instance_id /\ g_instance_id > 0
           /\ g_instance_id' = g_instance_id
        \/ Running(a) /\ g_instance_id' = g_instance_id + 1
    BY <1>0 DEF CallPlays
  <2> QED
    BY <1>0, <1>3, <1>4, <1>6, <1>8, <1>9, <1>10, <1>11, <1>12, <1>d, <2>1, ThreadStep

(* A call for the engine's game finds the position the activity has.       *)
LEMMA CurrentCall ==
  ASSUME TypeOK, InstanceInv, SessionInv, NEW a \in Callers, CallEngine(a),
         NEW c, c = Head(ctl[a].inq), c.command # "START", IsCurrent(ctl[a].instance)
  PROVE  /\ g_instance_id > 0 /\ ctl[a].instance = g_instance_id
         /\ IdOf(ctl[a], jr[a]) = g_instance_id
         /\ tree.plays = Bare(GameOf(a).plays) /\ tree.status = {}
         /\ tree.turn = Turn(GameOf(a)) /\ c.player = tree.turn /\ tree.turn \in Sides
         /\ GameOf(a).plays \in Seq(Entry) /\ tree \in Tree
<1>0. /\ Owner(a) /\ act[a].life # "none" /\ RequestFits(c, act[a], GameOf(a))
      /\ act[a].state \in {"null", "ACTIVE"} /\ ~HasAnswer(ctl[a], jr[a])
      /\ ctl[a].instance # 0 /\ IdOf(ctl[a], jr[a]) = ctl[a].instance
  BY Calling
<1>1. g_instance_id \in Nat /\ tree \in Tree
  BY DEF TypeOK, JNITypeOK
<1>2. ctl[a].instance = g_instance_id /\ g_instance_id > 0
  BY <1>0, <1>1 DEF IsCurrent
<1>3. AgreesWith(tree, act[a], ctl[a], jr[a], GameOf(a))
  BY <1>0, <1>2 DEF SessionInv, OwnerInv
<1>4. tree.plays = Bare(GameOf(a).plays) /\ tree.status = {}
  BY <1>0, <1>3 DEF AgreesWith
<1>5. GameOf(a).plays \in Seq(Entry)
  BY <1>0, CreatedInv DEF Game
<1>6. tree.turn = Turn(GameOf(a))
  BY <1>4, <1>5, BareLength DEF SessionInv, EngineInv, Turn
<1>7. tree.turn \in Sides /\ c.player = tree.turn
  BY <1>0, <1>1, <1>6 DEF Tree, RequestFits
<1> QED
  BY <1>0, <1>1, <1>2, <1>4, <1>5, <1>6, <1>7

(* A call for another game.                                                *)
LEMMA RefusedCall ==
  ASSUME TypeOK, TypeOK', InstanceInv, SessionInv, NEW a \in Callers,
         CallEngine(a), UNCHANGED <<act, games>>,
         NEW c, c = Head(ctl[a].inq), c.command # "START",
         AnotherInstanceStarted(a, ctl[a].instance)
  PROVE  SessionInv'
<1> DEFINE id == ctl[a].instance
<1>1. PICK r2 : /\ r2.status = "INSTANCE_DELETED" /\ jr' = [jr EXCEPT ![a] = r2]
                /\ tree' = tree /\ g_instance_id' = g_instance_id
                /\ id # g_instance_id /\ g_init' = g_init /\ aborted' = aborted
  BY DEF AnotherInstanceStarted, FillResult, IsCurrent
<1>2. /\ Owner(a) /\ Requests(ctl[a]) = {c} /\ IdOf(ctl[a], jr[a]) = id
  BY Calling
<1>3. id <= 0 => Bare(GameOf(a).plays) = GameOf(a).initial
  BY <1>2 DEF SessionInv, OwnerInv, NothingPlayed
<1>4. Running(a) => id = -1 /\ g_instance_id = 0
  <2>1. Starts(ctl[a]) = {}
    BY <1>2 DEF Starts
  <2> QED
    BY <1>1, <1>2, <2>1 DEF SessionInv, OwnerInv
<1>5. EngineInv'
  BY <1>1 DEF SessionInv, EngineInv
<1>6. PICK t, n : t = tree' /\ n = g_instance_id'
  OBVIOUS
<1>7. CallInv(a, c, r2, t, n)
  <2>1. IdAfter(c, ctl[a], r2) = id
    BY DEF IdAfter
  <2> QED
    BY <1>1, <1>3, <1>4, <1>6, <2>1 DEF CallInv, ResultFits, ResultPlaysNothing
<1>8. CallPlays(a)
  BY <1>1 DEF CallPlays
<1> QED
  BY <1>1, <1>5, <1>6, <1>7, <1>8, CallStep

(* What the activity is told of a call that plays no move.                 *)
LEMMA ReplyOfNoMove ==
  ASSUME NEW c, NEW r, r.move = NoMove, c.command \notin {"START", "UNDO"},
         r.status = "ILLEGAL_MOVE"
  PROVE  /\ ReplyTo(c, r).board = r.board /\ ReplyTo(c, r).lastMove = NoPlay
         /\ ReplyTo(c, r).undoMoves = 0 /\ ReplyTo(c, r).nextPlayer = c.player
         /\ ReplyTo(c, r).gameState = "ACTIVE"
<1>1. ReplyTo(c, r) = FromJNI(r, c.player)
  BY DEF ReplyTo
<1>2. NextPlayer(r.status, c.player) = c.player /\ NewGameState(r.status, c.player) = "ACTIVE"
  BY DEF NextPlayer, NewGameState
<1> QED
  BY <1>1, <1>2 DEF FromJNI

(* What it is told of one that plays a move.                               *)
LEMMA ReplyOfMove ==
  ASSUME NEW c, NEW r, NEW m \in Moves, r.move = m, c.command \notin {"START", "UNDO"},
         NEW raised \in {{}, {"mated"}, {"drawn"}}, r.status = GameStatusToReturnCode(raised),
         c.player \in Sides
  PROVE  /\ r.status # "INSTANCE_DELETED"
         /\ ReplyTo(c, r).board = r.board
         /\ ReplyTo(c, r).lastMove = [by |-> c.player, move |-> m]
         /\ ReplyTo(c, r).lastMove # NoPlay
         /\ ReplyTo(c, r).undoMoves = 0
         /\ raised = {} <=> ReplyTo(c, r).gameState = "ACTIVE"
         /\ ReplyTo(c, r).nextPlayer =
              (IF ReplyTo(c, r).gameState = "ACTIVE" THEN Opponent(c.player) ELSE "INVALID")
<1>1. ReplyTo(c, r) = FromJNI(r, c.player)
  BY DEF ReplyTo
<1>2. m # NoMove
  BY JNIAssumption
<1>3. /\ raised = {} => r.status = "OK"
      /\ raised = {"mated"} => r.status = "CHECKMATE"
      /\ raised = {"drawn"} => r.status = "DRAW"
  BY DEF GameStatusToReturnCode
<1>4. /\ r.status \in {"OK", "CHECKMATE", "DRAW"}
      /\ raised = {} <=> r.status = "OK"
  BY <1>3
<1>5. /\ NextPlayer(r.status, c.player) = (IF r.status = "OK" THEN Opponent(c.player) ELSE "INVALID")
      /\ NewGameState(r.status, c.player) = "ACTIVE" <=> r.status = "OK"
  BY <1>4 DEF NextPlayer, NewGameState, Winner
<1>6. [by |-> c.player, move |-> m] # NoPlay
  BY <1>2 DEF NoPlay
<1>7. ReplyTo(c, r).lastMove = [by |-> c.player, move |-> m]
  BY <1>1, <1>2, <1>4 DEF FromJNI
<1> QED
  BY <1>1, <1>4, <1>5, <1>6, <1>7 DEF FromJNI

(* What it is told of an undo.                                             *)
LEMMA ReplyOfUndo ==
  ASSUME NEW c, NEW r, r.move = NoMove, r.status = "OK", c.command = "UNDO",
         c.player \in Sides
  PROVE  /\ ReplyTo(c, r).board = r.board /\ ReplyTo(c, r).lastMove = NoPlay
         /\ ReplyTo(c, r).undoMoves = 2 /\ ReplyTo(c, r).nextPlayer = c.player
         /\ ReplyTo(c, r).gameState = "ACTIVE"
<1>1. ReplyTo(c, r) = [FromJNI(r, Opponent(c.player)) EXCEPT !.undoMoves = 2]
  BY DEF ReplyTo, TurnBeforeUndo
<1>2. Opponent(Opponent(c.player)) = c.player
  BY DEF Sides, Opponent
<1>3. NextPlayer(r.status, Opponent(c.player)) = c.player
      /\ NewGameState(r.status, Opponent(c.player)) = "ACTIVE"
  BY <1>2 DEF NextPlayer, NewGameState
<1> QED
  BY <1>1, <1>3 DEF FromJNI

(* An illegal play is refused, and the turn stays.                         *)
LEMMA IllegalCall ==
  ASSUME TypeOK, TypeOK', InstanceInv, SessionInv, NEW a \in Callers,
         CallEngine(a), UNCHANGED <<act, games>>,
         NEW c, c = Head(ctl[a].inq), c.command = "HUMAN_PLAY", IsCurrent(ctl[a].instance),
         FillResult(a, "ILLEGAL_MOVE", TRUE, NoMove, 0, tree.plays),
         UNCHANGED <<g_init, g_instance_id, tree, aborted>>
  PROVE  SessionInv'
<1> DEFINE game == GameOf(a)
<1>0. /\ g_instance_id > 0 /\ ctl[a].instance = g_instance_id
      /\ tree.plays = Bare(game.plays) /\ tree.status = {}
      /\ c.player = Turn(game) /\ game.plays \in Seq(Entry)
  BY CurrentCall
<1>1. PICK r2 : /\ r2.status = "ILLEGAL_MOVE" /\ r2.move = NoMove /\ r2.board = tree.plays
                /\ jr' = [jr EXCEPT ![a] = r2]
  BY DEF FillResult
<1>2. r2 \in JniResult \cup {NoResult} /\ c \in EngineCommands
  BY <1>1, Calling DEF TypeOK, JNITypeOK
<1>3. PICK ans \in Results : ans = ReplyTo(c, r2)
  BY <1>2, ReplyToType
<1>4. ans.board = tree.plays /\ ans.lastMove = NoPlay /\ ans.undoMoves = 0
      /\ ans.nextPlayer = c.player /\ ans.gameState = "ACTIVE"
  BY <1>1, <1>3, ReplyOfNoMove
<1>5. PlaysAfter(game.plays, ans) = game.plays
  BY <1>0, <1>4, PlaysAfterNothing
<1>6. AnswerFits(ans, game)
  BY <1>0, <1>4, <1>5 DEF AnswerFits, Turn
<1>7. PICK t, n : t = tree' /\ n = g_instance_id'
  OBVIOUS
<1>8. CallInv(a, c, r2, t, n)
  <2>1. IdAfter(c, ctl[a], r2) = n /\ n > 0 /\ t = tree
    BY <1>0, <1>7 DEF IdAfter
  <2>2. ResultFits(c, r2, game)
    BY <1>3, <1>6 DEF ResultFits
  <2>3. ResultAgrees(t, c, r2, game)
    BY <1>0, <1>1, <1>3, <1>4, <1>5, <2>1 DEF ResultAgrees
  <2>4. ~(n <= 0)
    BY <1>0, <1>7 DEF TypeOK, JNITypeOK
  <2> QED
    BY <2>1, <2>2, <2>3, <2>4 DEF CallInv
<1>9. CallPlays(a)
  BY DEF CallPlays
<1>10. EngineInv'
  BY DEF SessionInv, EngineInv
<1> QED
  BY <1>1, <1>7, <1>8, <1>9, <1>10, CallStep

(* A human's or the computer's move is added to the plays.                 *)
LEMMA MoveCall ==
  ASSUME TypeOK, TypeOK', InstanceInv, SessionInv, NEW a \in Callers,
         CallEngine(a), UNCHANGED <<act, games>>,
         NEW c, c = Head(ctl[a].inq), c.command \notin {"START", "UNDO"},
         IsCurrent(ctl[a].instance),
         NEW m \in Moves, NEW raised \in RaisedFlags(tree),
         tree' = MakeMoveRoot(tree, m, raised),
         FillResult(a, GameStatusToReturnCode(tree'.status), FALSE, m, 0, tree'.plays),
         UNCHANGED <<g_init, g_instance_id, aborted>>
  PROVE  SessionInv'
<1> DEFINE game == GameOf(a)
           plays == game.plays
           e == [by |-> c.player, move |-> m, cookie |-> TRUE]
<1>0. /\ g_instance_id > 0 /\ ctl[a].instance = g_instance_id
      /\ IdOf(ctl[a], jr[a]) = g_instance_id
      /\ tree.plays = Bare(plays) /\ tree.status = {} /\ tree.turn = c.player
      /\ c.player = Turn(game) /\ c.player \in Sides /\ plays \in Seq(Entry)
  BY CurrentCall
<1>1. raised \in {{}, {"mated"}, {"drawn"}}
  BY DEF RaisedFlags
<1>2. PICK t, n : t = tree' /\ n = g_instance_id'
  OBVIOUS
<1>3. /\ t.plays = Append(Bare(plays), [by |-> c.player, move |-> m])
      /\ t.turn = Opponent(c.player) /\ t.status = raised /\ t.intact = tree.intact
  BY <1>0, <1>2 DEF MakeMoveRoot
<1>4. PICK r2 : /\ r2.status = GameStatusToReturnCode(raised) /\ r2.move = m
                /\ r2.board = t.plays /\ jr' = [jr EXCEPT ![a] = r2]
  BY <1>2, <1>3 DEF FillResult
<1>5. r2 \in JniResult \cup {NoResult} /\ c \in EngineCommands
  BY <1>4, Calling DEF TypeOK, JNITypeOK
<1>6. PICK ans \in Results : ans = ReplyTo(c, r2)
  BY <1>5, ReplyToType
<1>7. /\ r2.status # "INSTANCE_DELETED"
      /\ ans.board = t.plays /\ ans.lastMove = [by |-> c.player, move |-> m]
      /\ ans.lastMove # NoPlay /\ ans.undoMoves = 0
      /\ raised = {} <=> ans.gameState = "ACTIVE"
      /\ ans.nextPlayer = (IF ans.gameState = "ACTIVE" THEN Opponent(c.player) ELSE "INVALID")
  <2>1. c.player \in Sides /\ c.command \notin {"START", "UNDO"} /\ r2.move = m
        /\ r2.status = GameStatusToReturnCode(raised)
    BY <1>0, <1>4
  <2>2. /\ r2.status # "INSTANCE_DELETED"
        /\ ReplyTo(c, r2).board = r2.board
        /\ ReplyTo(c, r2).lastMove = [by |-> c.player, move |-> m]
        /\ ReplyTo(c, r2).lastMove # NoPlay
        /\ ReplyTo(c, r2).undoMoves = 0
        /\ raised = {} <=> ReplyTo(c, r2).gameState = "ACTIVE"
        /\ ReplyTo(c, r2).nextPlayer =
             (IF ReplyTo(c, r2).gameState = "ACTIVE" THEN Opponent(c.player) ELSE "INVALID")
    BY <1>1, <2>1, ReplyOfMove
  <2> QED
    BY <1>4, <1>6, <2>2
<1>8. e \in Entry /\ PlaysAfter(plays, ans) = Append(plays, e)
  <2>1. /\ [by |-> ans.lastMove.by, move |-> ans.lastMove.move, cookie |-> TRUE] \in Entry
        /\ PlaysAfter(plays, ans) =
             Append(plays, [by |-> ans.lastMove.by, move |-> ans.lastMove.move, cookie |-> TRUE])
    BY <1>0, <1>7, PlaysAfterPlay
  <2>2. ans.lastMove.by = c.player /\ ans.lastMove.move = m
    BY <1>7
  <2> QED
    BY <2>1, <2>2
<1>9. Bare(PlaysAfter(plays, ans)) = t.plays
  <2>1. e.by = c.player /\ e.move = m
    OBVIOUS
  <2> HIDE DEF e
  <2> QED
    BY <1>0, <1>3, <1>8, <2>1, BareAppend
<1>10. /\ Len(PlaysAfter(plays, ans)) = Len(plays) + 1 /\ Len(plays) \in Nat
       /\ Opponent(c.player) = SideAt(Len(plays) + 1)
  BY <1>0, <1>8, AppendProperties, SideTurns DEF Turn
<1>11. AnswerFits(ans, game)
  BY <1>0, <1>7, <1>10 DEF AnswerFits
<1>12. CallInv(a, c, r2, t, n)
  <2>1. IdAfter(c, ctl[a], r2) = n /\ n > 0 /\ ~(n <= 0)
    BY <1>0, <1>2 DEF IdAfter, TypeOK, JNITypeOK
  <2>2. ResultFits(c, r2, game)
    BY <1>6, <1>11 DEF ResultFits
  <2>3. ResultAgrees(t, c, r2, game)
    BY <1>3, <1>6, <1>7, <1>9 DEF ResultAgrees
  <2> QED
    BY <2>1, <2>2, <2>3 DEF CallInv
<1>13. CallPlays(a)
  BY <1>0 DEF CallPlays
<1>14. EngineInv'
  <2>1. Len(t.plays) = Len(plays) + 1
    BY <1>0, <1>3, <1>8, <1>9, <1>10, BareLength, AppendProperties
  <2> QED
    BY <1>2, <1>3, <1>10, <2>1 DEF SessionInv, EngineInv
<1> QED
  BY <1>2, <1>4, <1>12, <1>13, <1>14, CallStep

(* An undo takes the last two plays back, which are the engine's.          *)
LEMMA UndoCall ==
  ASSUME TypeOK, TypeOK', InstanceInv, SessionInv, NEW a \in Callers,
         CallEngine(a), UNCHANGED <<act, games>>,
         NEW c, c = Head(ctl[a].inq), c.command = "UNDO", IsCurrent(ctl[a].instance),
         tree' = UnmakeMoveRoot(UnmakeMoveRoot(tree, c.cookie1), c.cookie2),
         FillResult(a, "OK", FALSE, NoMove, 0, tree'.plays),
         UNCHANGED <<g_init, g_instance_id, aborted>>
  PROVE  SessionInv'
<1> DEFINE game == GameOf(a)
           plays == game.plays
           len == Len(plays)
<1>0. /\ g_instance_id > 0 /\ ctl[a].instance = g_instance_id
      /\ IdOf(ctl[a], jr[a]) = g_instance_id
      /\ tree.plays = Bare(plays) /\ tree.status = {} /\ tree.turn = c.player
      /\ c.player = Turn(game) /\ c.player \in Sides /\ plays \in Seq(Entry)
      /\ tree.intact
  BY CurrentCall DEF SessionInv, EngineInv
<1>1. /\ len >= 2 /\ len \in Nat
      /\ c.cookie1 = plays[len].move /\ c.cookie2 = plays[len - 1].move
  BY <1>0, Calling DEF RequestFits
<1>2. PICK t, n : t = tree' /\ n = g_instance_id'
  OBVIOUS
<1>3. PICK t1 : t1 = UnmakeMoveRoot(tree, c.cookie1)
  OBVIOUS
<1>4. /\ Bare(plays) \in Seq(Play) /\ Len(Bare(plays)) = len
      /\ \A i \in 1..len : Bare(plays)[i].move = plays[i].move
  <2>1. plays \in Seq(Entry)
    BY <1>0
  <2> HIDE DEF plays
  <2>2. /\ Bare(plays) \in Seq(Play) /\ Len(Bare(plays)) = len
        /\ \A i \in 1..len : Bare(plays)[i] = [by |-> plays[i].by, move |-> plays[i].move]
    BY <2>1, BareLength
  <2>3. ASSUME NEW i \in 1..len PROVE Bare(plays)[i].move = plays[i].move
    <3>1. Bare(plays)[i] = [by |-> plays[i].by, move |-> plays[i].move]
      BY <2>2
    <3> HIDE DEF len
    <3> QED
      BY <3>1
  <2> QED
    BY <2>2, <2>3
<1>5. /\ t1.plays = Front(Bare(plays)) /\ t1.turn = Opponent(c.player)
      /\ t1.status = {} /\ t1.intact
  <2>1. len \in 1..len /\ len # 0 /\ len > 0
    BY <1>1
  <2> HIDE DEF plays, len
  <2> QED
    BY <1>0, <1>1, <1>3, <1>4, <2>1 DEF UnmakeMoveRoot
<1>6. /\ Len(t1.plays) = len - 1 /\ t1.plays \in Seq(Play)
      /\ t1.plays[len - 1].move = plays[len - 1].move
  <2>1. len - 1 \in 1..len /\ len - 1 \in 1..(len - 1)
    BY <1>1
  <2> HIDE DEF plays, len
  <2>2. Bare(plays) # <<>>
    BY <1>1, <1>4, EmptySeq
  <2>3. /\ Front(Bare(plays)) \in Seq(Play) /\ Len(Front(Bare(plays))) = len - 1
        /\ \A i \in 1..(len - 1) : Front(Bare(plays))[i] = Bare(plays)[i]
    BY <1>4, <2>2, AllButLast
  <2> QED
    BY <1>4, <1>5, <2>1, <2>3
<1>7. /\ t.plays = Front(Front(Bare(plays))) /\ t.turn = c.player
      /\ t.status = {} /\ t.intact
  <2>1. len - 1 # 0 /\ len - 1 > 0
    BY <1>1
  <2>2. Opponent(Opponent(c.player)) = c.player
    BY <1>0 DEF Sides, Opponent
  <2>3. t = UnmakeMoveRoot(t1, c.cookie2)
    BY <1>2, <1>3
  <2> HIDE DEF plays, len
  <2> QED
    BY <1>1, <1>5, <1>6, <2>1, <2>2, <2>3 DEF UnmakeMoveRoot
<1>8. PICK r2 : /\ r2.status = "OK" /\ r2.move = NoMove
                /\ r2.board = t.plays /\ jr' = [jr EXCEPT ![a] = r2]
  BY <1>2 DEF FillResult
<1>9. r2 \in JniResult \cup {NoResult} /\ c \in EngineCommands
  BY <1>8, Calling DEF TypeOK, JNITypeOK
<1>10. PICK ans \in Results : ans = ReplyTo(c, r2)
  BY <1>9, ReplyToType
<1>11. /\ ans.board = t.plays /\ ans.lastMove = NoPlay /\ ans.undoMoves = 2
       /\ ans.nextPlayer = c.player /\ ans.gameState = "ACTIVE"
  BY <1>0, <1>8, <1>10, ReplyOfUndo
<1>12. PlaysAfter(plays, ans) = SubSeq(plays, 1, len - 2)
  BY <1>11, PlaysAfterUndo
<1>13. /\ Len(PlaysAfter(plays, ans)) = len - 2
       /\ Bare(PlaysAfter(plays, ans)) = t.plays
       /\ PlaysAfter(plays, ans) \in Seq(Entry)
  BY <1>0, <1>1, <1>7, <1>12, BareTakeBack
<1>14. SideAt(len - 2) = c.player
  BY <1>0, <1>1, SideTurns DEF Turn
<1>15. AnswerFits(ans, game)
  BY <1>1, <1>11, <1>13, <1>14 DEF AnswerFits
<1>16. CallInv(a, c, r2, t, n)
  <2>1. IdAfter(c, ctl[a], r2) = n /\ n > 0 /\ ~(n <= 0)
    BY <1>0, <1>2 DEF IdAfter, TypeOK, JNITypeOK
  <2>2. ResultFits(c, r2, game)
    BY <1>10, <1>15 DEF ResultFits
  <2>3. ResultAgrees(t, c, r2, game)
    BY <1>7, <1>8, <1>10, <1>11, <1>13 DEF ResultAgrees
  <2> QED
    BY <2>1, <2>2, <2>3 DEF CallInv
<1>17. CallPlays(a)
  BY <1>0 DEF CallPlays
<1>18. EngineInv'
  <2>1. Len(t.plays) = len - 2
    BY <1>13, BareLength
  <2> QED
    BY <1>2, <1>7, <1>14, <2>1 DEF SessionInv, EngineInv
<1> QED
  BY <1>2, <1>8, <1>16, <1>17, <1>18, CallStep

(* What START finds, and what its activity is told whatever it returns.    *)
LEMMA StartCall ==
  ASSUME TypeOK, InstanceInv, SessionInv, NEW a \in Callers, CallEngine(a),
         NEW c, c = Head(ctl[a].inq), c.command = "START",
         NEW r2 \in JniResult \cup {NoResult}, r2.status = "OK", r2.instance # 0
  PROVE  /\ Running(a) /\ Owner(a) /\ act[a].state = "null" /\ a \in Created
         /\ c.resume \in Int /\ c.board = GameOf(a).initial
         /\ c.player = Turn(GameOf(a)) /\ c.player \in Sides
         /\ IdOf(ctl[a], jr[a]) = c.resume
         /\ \/ c.resume = g_instance_id
            \/ c.resume = -1 /\ g_instance_id = 0
            \/ c.resume = 0
         /\ GameOf(a).plays \in Seq(Entry) /\ ~HasAnswer(ctl[a], jr[a])
         /\ ResultFits(c, r2, GameOf(a))
         /\ ReplyTo(c, r2).board = r2.board
         /\ ReplyTo(c, r2).lastMove = NoPlay /\ ReplyTo(c, r2).undoMoves = 0
         /\ ReplyTo(c, r2).gameState = "ACTIVE"
         /\ PlaysAfter(GameOf(a).plays, ReplyTo(c, r2)) = GameOf(a).plays
<1> DEFINE game == GameOf(a)
<1>0. /\ c \in EngineCommands /\ Owner(a) /\ act[a].life # "none"
      /\ RequestFits(c, act[a], game) /\ ~HasAnswer(ctl[a], jr[a])
      /\ IdOf(ctl[a], jr[a]) = c.resume /\ Requests(ctl[a]) = {c}
  BY Calling
<1>1. /\ game \in Game /\ RequestInv(act[a], ctl[a], jr[a], game)
  BY <1>0, CreatedInv
<1>2. /\ c.player = Turn(game) /\ act[a].state = "null" /\ c.board = game.initial
  BY <1>0 DEF RequestFits
<1>3. Running(a)
  BY <1>1, <1>2 DEF RequestInv, Running
<1>4. /\ game.plays \in Seq(Entry) /\ c.player \in Sides /\ c.player # "INVALID"
      /\ Len(game.plays) \in Nat
  <2>1. game.plays \in Seq(Entry) /\ Len(game.plays) \in Nat
    BY <1>1 DEF Game
  <2> QED
    BY <1>2, <2>1, SideTurns DEF Turn
<1>5. c.resume \in Int
  BY <1>0 DEF EngineCommands
<1>6. \/ c.resume = g_instance_id
      \/ c.resume = -1 /\ g_instance_id = 0
      \/ c.resume = 0
  BY <1>0, <1>3 DEF SessionInv, OwnerInv
<1>8. PICK ans \in Results : ans = ReplyTo(c, r2)
  BY <1>0, ReplyToType
<1>9. /\ ans.board = r2.board /\ ans.lastMove = NoPlay /\ ans.undoMoves = 0
      /\ ans.nextPlayer = c.player /\ ans.gameState = "ACTIVE"
  BY <1>8 DEF ReplyTo
<1>10. PlaysAfter(game.plays, ans) = game.plays
  BY <1>4, <1>9, PlaysAfterNothing
<1>11. AnswerFits(ans, game)
  BY <1>2, <1>9, <1>10 DEF AnswerFits, Turn
<1>12. ResultFits(c, r2, game)
  BY <1>8, <1>11 DEF ResultFits
<1>13. a \in Created
  BY <1>0 DEF Created
<1> QED
  BY <1>0, <1>2, <1>3, <1>4, <1>5, <1>6, <1>8, <1>9, <1>10, <1>12, <1>13

(* Without an initialised engine there is no game, and the activity goes   *)
(* on by no instance.                                                      *)
LEMMA FailedStart ==
  ASSUME TypeOK, TypeOK', InstanceInv, SessionInv, NEW a \in Callers,
         CallEngine(a), UNCHANGED <<act, games>>,
         NEW c, c = Head(ctl[a].inq), c.command = "START", g_init # "ok",
         FillResult(a, "OK", TRUE, NoMove, -1, tree.plays),
         UNCHANGED <<g_init, g_instance_id, tree, aborted>>
  PROVE  SessionInv'
<1>1. PICK r2 : /\ r2.status = "OK" /\ r2.instance = -1 /\ r2.board = tree.plays
                /\ jr' = [jr EXCEPT ![a] = r2]
  BY DEF FillResult
<1>2. /\ Owner(a) /\ IdOf(ctl[a], jr[a]) = c.resume /\ c.resume \in Int
      /\ ResultFits(c, r2, GameOf(a))
      /\ ReplyTo(c, r2).lastMove = NoPlay /\ ReplyTo(c, r2).undoMoves = 0
  <2>1. r2.status = "OK" /\ r2.instance # 0 /\ r2 \in JniResult \cup {NoResult}
    BY <1>1 DEF TypeOK, JNITypeOK
  <2> QED
    BY <2>1, StartCall
<1>3. g_instance_id = 0
  BY DEF SessionInv, EngineInv
<1>4. c.resume <= 0
  BY <1>2, <1>3, IdsBounded
<1>5. Bare(GameOf(a).plays) = GameOf(a).initial
  BY <1>2, <1>4 DEF SessionInv, OwnerInv, NothingPlayed
<1>6. PICK t, n : t = tree' /\ n = g_instance_id'
  OBVIOUS
<1>7. CallInv(a, c, r2, t, n)
  <2>1. IdAfter(c, ctl[a], r2) = -1 /\ n = 0
    BY <1>1, <1>3, <1>6 DEF IdAfter
  <2>2. ResultPlaysNothing(c, r2, GameOf(a))
    BY <1>2, <1>5 DEF ResultPlaysNothing
  <2> QED
    BY <1>2, <2>1, <2>2 DEF CallInv
<1>8. CallPlays(a)
  BY DEF CallPlays
<1>9. EngineInv'
  BY DEF SessionInv, EngineInv
<1> QED
  BY <1>1, <1>6, <1>7, <1>8, <1>9, CallStep

(* After a rotation START resumes the game that the engine still plays.    *)
LEMMA ResumedStart ==
  ASSUME TypeOK, TypeOK', InstanceInv, SessionInv, NEW a \in Callers,
         CallEngine(a), UNCHANGED <<act, games>>,
         NEW c, c = Head(ctl[a].inq), c.command = "START",
         c.resume # 0, IsCurrent(c.resume),
         FillResult(a, "OK", FALSE, NoMove, c.resume, tree.plays),
         UNCHANGED <<g_init, g_instance_id, tree, aborted>>
  PROVE  SessionInv'
<1>1. PICK r2 : /\ r2.status = "OK" /\ r2.instance = c.resume /\ r2.board = tree.plays
                /\ jr' = [jr EXCEPT ![a] = r2]
  BY DEF FillResult
<1>2. /\ Owner(a) /\ IdOf(ctl[a], jr[a]) = c.resume /\ c.resume \in Int
      /\ act[a].state = "null" /\ ~HasAnswer(ctl[a], jr[a])
      /\ ResultFits(c, r2, GameOf(a)) /\ ReplyTo(c, r2).board = r2.board
      /\ ReplyTo(c, r2).gameState = "ACTIVE"
      /\ PlaysAfter(GameOf(a).plays, ReplyTo(c, r2)) = GameOf(a).plays
  <2>1. r2.status = "OK" /\ r2.instance # 0 /\ r2 \in JniResult \cup {NoResult}
    BY <1>1 DEF TypeOK, JNITypeOK
  <2> QED
    BY <2>1, StartCall
<1>3. c.resume = g_instance_id /\ g_instance_id > 0
  BY DEF IsCurrent, TypeOK, JNITypeOK
<1>4. AgreesWith(tree, act[a], ctl[a], jr[a], GameOf(a))
  BY <1>2, <1>3 DEF SessionInv, OwnerInv
<1>5. tree.plays = Bare(GameOf(a).plays) /\ tree.status = {}
  BY <1>2, <1>4 DEF AgreesWith
<1>6. PICK t, n : t = tree' /\ n = g_instance_id'
  OBVIOUS
<1>7. CallInv(a, c, r2, t, n)
  <2>1. IdAfter(c, ctl[a], r2) = n /\ n > 0 /\ ~(n <= 0) /\ t = tree
    BY <1>1, <1>2, <1>3, <1>6 DEF IdAfter
  <2>2. ResultAgrees(t, c, r2, GameOf(a))
    BY <1>1, <1>2, <1>5, <2>1 DEF ResultAgrees
  <2> QED
    BY <1>2, <2>1, <2>2 DEF CallInv
<1>8. CallPlays(a)
  BY DEF CallPlays
<1>9. EngineInv'
  BY DEF SessionInv, EngineInv
<1>10. r2.instance # 0
  BY <1>1
<1> QED
  BY <1>1, <1>6, <1>7, <1>8, <1>9, <1>10, CallStep

(* Otherwise START begins the game the activity was created with.          *)
LEMMA NewStart ==
  ASSUME CalmUse, TypeOK, TypeOK', InstanceInv, SessionInv, NEW a \in Callers,
         CallEngine(a), UNCHANGED <<act, games>>,
         NEW c, c = Head(ctl[a].inq), c.command = "START", g_init = "ok",
         c.resume = 0 \/ ~IsCurrent(c.resume),
         g_instance_id' = NextInstance,
         tree' = IniGame(c.board, IF c.player = "BLACK" THEN "BLACK" ELSE "WHITE"),
         FillResult(a, "OK", FALSE, NoMove, g_instance_id', c.board),
         UNCHANGED <<g_init, aborted>>
  PROVE  SessionInv'
<1> DEFINE game == GameOf(a)
<1>0. PICK t, n : t = tree' /\ n = g_instance_id'
  OBVIOUS
<1>1. n = g_instance_id + 1 /\ n > 0 /\ ~(n <= 0) /\ n # 0
  BY <1>0 DEF NextInstance, TypeOK, JNITypeOK
<1>2. PICK r2 : /\ r2.status = "OK" /\ r2.instance = n /\ r2.board = c.board
                /\ jr' = [jr EXCEPT ![a] = r2]
  BY <1>0 DEF FillResult
<1>3. r2.instance # 0
  BY <1>1, <1>2
<1>4. /\ Running(a) /\ Owner(a) /\ a \in Created /\ c.resume \in Int
      /\ c.board = game.initial /\ c.player = Turn(game) /\ c.player \in Sides
      /\ IdOf(ctl[a], jr[a]) = c.resume
      /\ \/ c.resume = g_instance_id
         \/ c.resume = -1 /\ g_instance_id = 0
         \/ c.resume = 0
      /\ game.plays \in Seq(Entry) /\ ResultFits(c, r2, game)
      /\ ReplyTo(c, r2).board = r2.board /\ ReplyTo(c, r2).gameState = "ACTIVE"
      /\ PlaysAfter(game.plays, ReplyTo(c, r2)) = game.plays
  <2>1. r2.status = "OK" /\ r2.instance # 0 /\ r2 \in JniResult \cup {NoResult}
    BY <1>2, <1>3 DEF TypeOK, JNITypeOK
  <2> QED
    BY <2>1, StartCall
<1>5. c.resume <= 0
  BY <1>4 DEF IsCurrent
<1>6. Bare(game.plays) = game.initial
  BY <1>4, <1>5 DEF SessionInv, OwnerInv, NothingPlayed
<1>7. c.board \notin MatedBoards
  BY <1>4 DEF CalmUse, SessionInv, GamesInv
<1>8. /\ t.plays = c.board /\ t.turn = c.player /\ t.status = {} /\ t.intact
  BY <1>0, <1>4, <1>7 DEF IniGame, Sides
<1>9. CallInv(a, c, r2, t, n)
  <2>1. IdAfter(c, ctl[a], r2) = n
    BY <1>2 DEF IdAfter
  <2>2. ResultAgrees(t, c, r2, game)
    BY <1>2, <1>4, <1>6, <1>8 DEF ResultAgrees
  <2> QED
    BY <1>1, <1>4, <2>1, <2>2 DEF CallInv
<1>10. CallPlays(a)
  BY <1>0, <1>1, <1>4 DEF CallPlays
<1>11. EngineInv'
  <2>1. Len(t.plays) = Len(game.plays)
    BY <1>4, <1>6, <1>8, BareLength
  <2>2. t.turn = SideAt(Len(t.plays))
    BY <1>4, <1>8, <2>1 DEF Turn
  <2> QED
    BY <1>0, <1>8, <2>2 DEF SessionInv, EngineInv
<1> QED
  BY <1>0, <1>2, <1>9, <1>10, <1>11, CallStep

(* Whatever the thread asks of the engine, the invariant is preserved; in  *)
(* a game that has not ended a search never fails.                         *)
LEMMA CallEngineSession ==
  ASSUME CalmUse, TypeOK, TypeOK', InstanceInv, SessionInv, NEW a \in Callers,
         CallEngine(a), UNCHANGED <<act, games>>
  PROVE  SessionInv'
<1>0. PICK c : c = Head(ctl[a].inq)
  OBVIOUS
<1>1. CASE /\ c.command = "START"
           /\ StartGame(a, c.resume, c.board, IF c.player = "BLACK" THEN "BLACK" ELSE "WHITE")
  <2>1. CASE /\ g_init # "ok"
             /\ FillResult(a, "OK", TRUE, NoMove, -1, tree.plays)
             /\ UNCHANGED <<g_init, g_instance_id, tree, aborted>>
    BY <1>0, <1>1, <2>1, FailedStart
  <2>2. CASE /\ c.resume # 0 /\ IsCurrent(c.resume)
             /\ FillResult(a, "OK", FALSE, NoMove, c.resume, tree.plays)
             /\ UNCHANGED <<g_init, g_instance_id, tree, aborted>>
    BY <1>0, <1>1, <2>2, ResumedStart
  <2>3. CASE /\ g_init = "ok" /\ (c.resume = 0 \/ ~IsCurrent(c.resume))
             /\ g_instance_id' = NextInstance
             /\ tree' = IniGame(c.board, IF c.player = "BLACK" THEN "BLACK" ELSE "WHITE")
             /\ FillResult(a, "OK", FALSE, NoMove, g_instance_id', c.board)
             /\ UNCHANGED <<g_init, aborted>>
    BY <1>0, <1>1, <2>3, NewStart
  <2> QED
    BY <1>1, <2>1, <2>2, <2>3 DEF StartGame
<1>2. CASE c.command # "START" /\ AnotherInstanceStarted(a, ctl[a].instance)
  BY <1>0, <1>2, RefusedCall
<1>3. CASE /\ c.command = "HUMAN_PLAY" /\ HumanMove(a, ctl[a].instance, c.play)
           /\ ~AnotherInstanceStarted(a, ctl[a].instance)
  <2>1. CASE /\ IsCurrent(ctl[a].instance)
             /\ FillResult(a, "ILLEGAL_MOVE", TRUE, NoMove, 0, tree.plays)
             /\ UNCHANGED <<g_init, g_instance_id, tree, aborted>>
    BY <1>0, <1>3, <2>1, IllegalCall
  <2>2. CASE /\ IsCurrent(ctl[a].instance)
             /\ \E raised \in RaisedFlags(tree) :
                  /\ tree' = MakeMoveRoot(tree, c.play.move, raised)
                  /\ FillResult(a, GameStatusToReturnCode(tree'.status), FALSE,
                                c.play.move, 0, tree'.plays)
             /\ UNCHANGED <<g_init, g_instance_id, aborted>>
    <3>1. c \in EngineCommands
      BY <1>0, Calling
    <3>2. c.play.move \in Moves /\ c.command \notin {"START", "UNDO"}
      BY <1>3, <3>1 DEF EngineCommands, Play
    <3> QED
      BY <1>0, <2>2, <3>2, MoveCall
  <2> QED
    BY <1>3, <2>1, <2>2 DEF HumanMove
<1>4. CASE /\ c.command = "COMPUTER_PLAY" /\ ComputerMove(a, ctl[a].instance)
           /\ ~AnotherInstanceStarted(a, ctl[a].instance)
  <2>1. IsCurrent(ctl[a].instance)
    BY <1>4 DEF ComputerMove
  <2>2. "mated" \notin tree.status
    <3>1. tree.status = {}
      BY <1>0, <1>4, <2>1, CurrentCall
    <3> QED
      BY <3>1
  <2>3. PICK m \in Moves, raised \in RaisedFlags(tree) :
          /\ tree' = MakeMoveRoot(tree, m, raised)
          /\ FillResult(a, GameStatusToReturnCode(tree'.status), FALSE, m, 0, tree'.plays)
    BY <1>4, <2>2 DEF ComputerMove
  <2>4. UNCHANGED <<g_init, g_instance_id, aborted>>
    BY <1>4, <2>2 DEF ComputerMove
  <2>5. c.command \notin {"START", "UNDO"}
    BY <1>4
  <2> QED
    BY <1>0, <2>1, <2>3, <2>4, <2>5, MoveCall
<1>5. CASE /\ c.command = "UNDO" /\ Undo(a, ctl[a].instance, c.cookie1, c.cookie2)
           /\ ~AnotherInstanceStarted(a, ctl[a].instance)
  BY <1>0, <1>5, UndoCall DEF Undo
<1>6. c.command \in {"START", "HUMAN_PLAY", "COMPUTER_PLAY", "UNDO"}
  BY <1>0 DEF CallEngine
<1> QED
  BY <1>0, <1>1, <1>2, <1>3, <1>4, <1>5 DEF CallEngine

-----------------------------------------------------------------------------
(* New activities.                                                         *)

(* An activity that onCreate leaves with a START in its queue.             *)
LEMMA SpawnedInv ==
  ASSUME NEW c \in EngineCommands, c.command = "START",
         NEW k2, k2 = SendInput(NewController, c), NEW r, NEW game, NEW x2,
         x2.life = "running", x2.state = "null", x2.dialog = "none", x2.touch = "INVALID",
         x2.next = Turn(game), c.player = Turn(game), c.board = game.initial,
         x2.undos <= MaxUndos,
         x2.undos > 0 => \A i \in 1..Len(game.plays) : ~game.plays[i].cookie
  PROVE  /\ QueueInv(k2) /\ RequestInv(x2, k2, r, game) /\ UserInv(x2, k2, r, game)
         /\ IdOf(k2, r) = c.resume /\ ~HasAnswer(k2, r) /\ ~Idle(k2)
         /\ k2.current = NoCommand /\ c \in Starts(k2)
<1>1. /\ NewController \in Controller /\ ~NewController.quit
      /\ NewController.inq = <<>> /\ NewController.current = NoCommand
      /\ NewController.outq = <<>> /\ NewController.instance = -1
  BY EmptySeq DEF NewController, Controller
<1>2. 1..Len(<<>>) = {}
  BY EmptySeq
<1>3. Idle(NewController) /\ ~\E i \in 1..Len(NewController.inq) : TRUE
  BY <1>1, <1>2 DEF Idle, Requests
<1>4. /\ QueueInv(k2) /\ Requests(k2) = {c}
      /\ k2.current = NoCommand /\ k2.outq = <<>>
      /\ k2.instance = NewController.instance /\ k2.quit = NewController.quit
      /\ \A i \in 1..Len(k2.inq) : k2.inq[i] = DestroyCommand =>
           \E j \in 1..Len(NewController.inq) : NewController.inq[j] = DestroyCommand
  BY <1>1, <1>3, AskOne
<1>5. ~HasAnswer(k2, r) /\ k2.current.command # "START" /\ k2.instance # 0 /\ ~k2.quit
      /\ ~Idle(k2)
  BY <1>1, <1>4 DEF HasAnswer, NoCommand, Idle
<1>6. IdOf(k2, r) = c.resume
  BY <1>4, IdOfRequest
<1>7. c \in Starts(k2)
  BY <1>4 DEF Starts
<1>8. RequestInv(x2, k2, r, game)
  BY <1>3, <1>4, <1>5 DEF RequestInv, RequestFits
<1>9. UserInv(x2, k2, r, game)
  BY <1>5 DEF UserInv
<1> QED
  BY <1>4, <1>5, <1>6, <1>7, <1>8, <1>9

(* A new activity comes after all others and all their games.              *)
LEMMA SpawnedLast ==
  ASSUME SessionInv, TypeOK, NEW b \in Callers, act[b].life = "none"
  PROVE  \A d \in Created : d < b /\ act[d].game < b /\ act[d].game \in Created
<1> TAKE d \in Created
<1>1. d \in Callers /\ d # b /\ b \notin Created /\ act[d].game \in Callers
  BY DEF Created, TypeOK, Activity
<1>2. ~(b < d)
  BY <1>1 DEF SessionInv, GamesInv
<1>3. act[d].game <= d /\ act[d].game \in Created
  BY DEF SessionInv, GamesInv
<1> QED
  BY <1>1, <1>2, <1>3 DEF Callers

(* A launched activity starts a game of its own.                           *)
LEMMA LaunchSession ==
  ASSUME CalmUse, TypeOK, TypeOK', InstanceInv, SessionInv, Launch
  PROVE  SessionInv'
<1>0. PICK a \in Callers, board \in SavedGames \cup {<<>>}, replaying \in BOOLEAN,
           humans \in PlayerTypes : LaunchGame(a, board, replaying, humans)
  BY DEF Launch
<1> DEFINE next == SideAt(Len(board))
           c == StartCommand(0, board, next)
           x2 == NewActivity(a, next, MaxUndos, board, "none")
           game2 == [initial |-> board, replaying |-> replaying, humans |-> humans,
                     plays |-> NullCookies(board), saved |-> {}]
<1>1. /\ act[a].life = "none" /\ ~aborted
      /\ \A b \in Callers : ~Running(b) /\ (b < a => b \in Created)
      /\ act' = [act EXCEPT ![a] = x2]
      /\ ctl' = [ctl EXCEPT ![a] = SendInput(@, c)]
      /\ games' = [games EXCEPT ![a] = game2]
      /\ UNCHANGED jniVars
  BY <1>0 DEF LaunchGame, SideAt
<1>2. /\ ctl \in [Callers -> Controller] /\ act \in [Callers -> Activity]
      /\ games \in [Callers -> Game] /\ g_instance_id \in Nat
  BY DEF TypeOK, ControllerTypeOK, JNITypeOK
<1>3. ctl[a] = NewController
  BY <1>1 DEF InstanceInv
<1>4. board \in Seq(Play) /\ Alternating(board)
  BY ActivityAssumption, EmptySeq DEF CalmUse
<1>5. /\ NullCookies(board) \in Seq(Entry) /\ Len(NullCookies(board)) = Len(board)
      /\ Bare(NullCookies(board)) = board
      /\ \A i \in 1..Len(NullCookies(board)) : ~NullCookies(board)[i].cookie
      /\ Alternating(NullCookies(board)) /\ Len(board) \in Nat
  BY <1>4, BareNull
<1>6. next \in Sides /\ next = Turn(game2)
  BY <1>5, SideTurns DEF Turn
<1>7. c \in EngineCommands /\ c.command = "START" /\ c.resume = 0
      /\ c.board = board /\ c.player = next
  BY <1>4, <1>6 DEF StartCommand, EngineCommands, Players
<1>8. /\ x2.life = "running" /\ x2.state = "null" /\ x2.dialog = "none"
      /\ x2.touch = "INVALID" /\ x2.next = next /\ x2.undos = MaxUndos /\ x2.game = a
      /\ game2.plays = NullCookies(board) /\ game2.initial = board
  BY DEF NewActivity
<1> HIDE DEF next, c, x2, game2
<1>9. PICK k2 : k2 = SendInput(NewController, c)
  OBVIOUS
<1>10. /\ act'[a] = x2 /\ ctl'[a] = k2 /\ games'[a] = game2 /\ jr' = jr /\ tree' = tree
       /\ g_instance_id' = g_instance_id /\ g_init' = g_init /\ aborted' = aborted
       /\ \A b \in Callers \ {a} :
            act'[b] = act[b] /\ ctl'[b] = ctl[b] /\ games'[b] = games[b]
  BY <1>1, <1>2, <1>3, <1>9 DEF jniVars
<1>11. /\ QueueInv(k2) /\ RequestInv(x2, k2, jr[a], game2) /\ UserInv(x2, k2, jr[a], game2)
       /\ IdOf(k2, jr[a]) = 0 /\ ~HasAnswer(k2, jr[a]) /\ c \in Starts(k2)
  <2>1. MaxUndos <= MaxUndos
    BY ActivityAssumption
  <2>2. x2.undos > 0 => \A i \in 1..Len(game2.plays) : ~game2.plays[i].cookie
    BY <1>5, <1>8
  <2> QED
    BY <1>6, <1>7, <1>8, <1>9, <2>1, <2>2, SpawnedInv
<1>12. GameOf(a)' = game2
  BY <1>8, <1>10 DEF GameOf
<1>13. \A d \in Created : d < a /\ act[d].game < a /\ act[d].game \in Created
  BY <1>1, SpawnedLast
<1>14. /\ Created' = Created \cup {a} /\ a \notin Created /\ Created \subseteq Callers
       /\ \A d \in Created : d # a /\ act[d].game # a /\ act[d].game \in Callers
  <2>1. Created' = Created \cup {a} /\ a \notin Created /\ Created \subseteq Callers
    BY <1>1, <1>8, <1>10 DEF Created
  <2>2. a \in Int
    BY DEF Callers
  <2>3. \A d \in Created : d # a /\ act[d].game # a
    <3> TAKE d \in Created
    <3>1. ~(a < a)
      BY <2>2
    <3> QED
      BY <1>13, <3>1
  <2> QED
    BY <1>13, <2>1, <2>3
<1>15. \A d \in Created : act'[d] = act[d] /\ ctl'[d] = ctl[d] /\ GameOf(d)' = GameOf(d)
  BY <1>10, <1>14 DEF GameOf
<1>16. \A d \in Callers \ {a} : Owner(d)' <=> Owner(d)
  <2> TAKE d \in Callers \ {a}
  <2>1. CASE d \in Created
    <3>1. act'[d].life # "none" /\ act[d].life # "none" /\ act'[d].game = act[d].game
          /\ act'[d].game # a
      BY <1>14, <1>15, <2>1 DEF Created
    <3>2. (\A b \in Created' : act'[b].game = act'[d].game => b <= d)
          <=> (\A b \in Created : act[b].game = act[d].game => b <= d)
      BY <1>8, <1>10, <1>14, <1>15, <3>1
    <3> QED
      BY <3>1, <3>2 DEF Owner
  <2>2. CASE d \notin Created
    BY <1>10, <2>2 DEF Owner, Created
  <2> QED
    BY <2>1, <2>2
<1>17. ASSUME NEW d \in Callers PROVE ActivityInv(d)'
  <2>1. CASE d = a
    BY <1>10, <1>11, <1>12, <2>1 DEF ActivityInv
  <2>2. CASE d \in Created
    <3>1. ActivityInv(d)
      BY DEF SessionInv
    <3> QED
      BY <1>10, <1>15, <2>2, <3>1 DEF ActivityInv
  <2>3. CASE d # a /\ d \notin Created
    BY <1>10, <2>3 DEF ActivityInv, Created
  <2> QED
    BY <2>1, <2>2, <2>3
<1>18. ASSUME NEW d \in Callers PROVE OwnerInv(d)'
  <2>1. CASE d = a
    <3>1. ~(g_instance_id > 0 /\ 0 = g_instance_id)
      BY <1>2
    <3>2. NothingPlayed(k2, jr[a], game2)
      BY <1>5, <1>8, <1>11 DEF NothingPlayed
    <3>3. Owner(a)'
      <4>1. \A b \in Created' : b <= a
        BY <1>13, <1>14 DEF Callers
      <4> QED
        BY <1>8, <1>10, <4>1 DEF Owner
    <3> QED
      BY <1>10, <1>11, <1>12, <2>1, <3>1, <3>2, <3>3 DEF OwnerInv
  <2>2. CASE d \in Created
    <3>1. OwnerInv(d) /\ d # a /\ d \in Callers
      BY <1>14, <2>2 DEF SessionInv
    <3>2. ~Running(d)' /\ (Owner(d)' <=> Owner(d))
      BY <1>1, <1>15, <1>16, <2>2, <3>1 DEF Running
    <3> QED
      BY <1>10, <1>15, <2>2, <3>1, <3>2 DEF OwnerInv
  <2>3. CASE d # a /\ d \notin Created
    <3>1. act'[d].life = "none" /\ ~Owner(d)' /\ ~Running(d)'
      BY <1>10, <2>3 DEF Created, Owner, Running
    <3> QED
      BY <3>1 DEF OwnerInv
  <2> QED
    BY <2>1, <2>2, <2>3
<1>19. EngineInv'
  BY <1>10 DEF SessionInv, EngineInv
<1>20. GamesInv'
  <2>1. \A b, d \in Callers : Running(b)' /\ Running(d)' => b = d
    BY <1>1, <1>10 DEF Running
  <2>2. \A b, d \in Callers : d < b /\ b \in Created' => d \in Created'
    BY <1>1, <1>14 DEF SessionInv, GamesInv
  <2>3. \A b \in Callers : b \notin Created' => act'[b].state = "null"
    BY <1>10, <1>14 DEF SessionInv, GamesInv
  <2>4. \A b \in Created' : act'[b].game \in Created' /\ act'[b].game <= b
    <3>1. act'[a].game = a /\ a <= a
      BY <1>8, <1>10 DEF Callers
    <3> QED
      BY <1>14, <1>15, <3>1 DEF SessionInv, GamesInv
  <2>5. \A b \in Created' : GameOf(b)'.initial \in SavedGames \cup {<<>>}
    BY <1>8, <1>12, <1>14, <1>15 DEF SessionInv, GamesInv
  <2>6. \A g \in Callers : Alternating(games'[g].plays)
    BY <1>5, <1>8, <1>10 DEF SessionInv, GamesInv
  <2>7. \A b \in Callers : Running(b)' => \A d \in Created' : d <= b
    <3>1. \A b \in Callers : Running(b)' => b = a
      BY <1>1, <1>10 DEF Running
    <3>2. \A d \in Created' : d <= a
      BY <1>13, <1>14 DEF Callers
    <3> QED
      BY <3>1, <3>2
  <2> QED
    BY <2>1, <2>2, <2>3, <2>4, <2>5, <2>6, <2>7 DEF GamesInv
<1>21. FinishedGameIsSaved'
  <2> SUFFICES ASSUME NEW b \in Callers, act'[b].state \in GameStates \ {"ACTIVE"},
                      ~GameOf(b)'.replaying, GameOf(b)'.humans # {}
               PROVE  Bare(GameOf(b)'.plays) \in GameOf(b)'.saved
    BY DEF FinishedGameIsSaved
  <2>1. b # a
    BY <1>8, <1>10 DEF GameStates
  <2>2. b \in Created
    BY <1>10, <2>1 DEF SessionInv, GamesInv, GameStates
  <2>3. act[b].state \in GameStates \ {"ACTIVE"} /\ GameOf(b)' = GameOf(b)
    BY <1>15, <2>2
  <2> QED
    BY <2>3 DEF SessionInv, FinishedGameIsSaved
<1> QED
  BY <1>17, <1>18, <1>19, <1>20, <1>21 DEF SessionInv

(* A rotated activity is replaced by one that asks for its instance.       *)
LEMMA RotateSession ==
  ASSUME CalmUse, TypeOK, TypeOK', InstanceInv, SessionInv, NEW a \in Callers, Rotate(a)
  PROVE  SessionInv'
<1> DEFINE x == act[a]
           k == ctl[a]
           r == jr[a]
           game == GameOf(a)
           next == IF x.next = "BLACK" THEN "BLACK" ELSE "WHITE"
           undos == IF x.undos = 0 THEN MaxUndos ELSE x.undos
           c == StartCommand(k.instance, game.initial, next)
           old == [x EXCEPT !.life = "destroyed", !.dialog = "none"]
           new == NewActivity(x.game, next, undos, game.initial, x.dialog)
<1>1. PICK b \in Callers :
        /\ act[b].life = "none" /\ \A d \in Callers : d < b => d \in Created
        /\ act' = [act EXCEPT ![a].life = "destroyed", ![a].dialog = "none", ![b] = new]
        /\ ctl' = [ctl EXCEPT ![a] = SendInput(@, DestroyCommand), ![b] = SendInput(@, c)]
  BY DEF Rotate
<1>2. Running(a) /\ Situation(a) \in RotateWhen /\ UNCHANGED <<jniVars, games>>
  BY DEF Rotate
<1>3. /\ Owner(a) /\ a \in Created /\ x.life = "running"
      /\ QueueInv(k) /\ RequestInv(x, k, r, game) /\ UserInv(x, k, r, game)
      /\ k \in Controller /\ x \in Activity /\ x.game \in Callers /\ game \in Game
      /\ ctl \in [Callers -> Controller] /\ act \in [Callers -> Activity]
      /\ g_instance_id \in Nat
  BY <1>2, RunningOwns DEF TypeOK, ControllerTypeOK, JNITypeOK
<1>4. x.dialog = "none" /\ x.state = "ACTIVE" /\ IsHuman(a, x.next)
  <2>1. Situation(a) = "idle"
    BY <1>2 DEF CalmUse
  <2>2. x.dialog \notin {"promote", "quit"} /\ x.state = "ACTIVE" /\ IsHuman(a, x.next)
    BY <2>1 DEF Situation
  <2> QED
    BY <1>3, <2>2 DEF Activity
<1>5. Idle(k) /\ x.next = Turn(game) /\ x.next \in Sides
  BY <1>2, <1>4, UsersTurn
<1>6. next = Turn(game) /\ next \in Sides
  BY <1>5 DEF Sides
<1>7. MaxUndos = 0 /\ undos = 0
  <2>1. MaxUndos = 0
    BY <1>2 DEF CalmUse
  <2>2. x.undos <= 0 /\ x.undos \in Nat
    BY <1>3, <2>1 DEF UserInv, Activity
  <2>3. x.undos = 0
    BY <2>2
  <2> QED
    BY <2>1, <2>3
<1>8. a # b /\ b \notin Created
  BY <1>1, <1>3 DEF Created
<1>9. ctl[b] = NewController
  BY <1>1 DEF InstanceInv
<1>10. c \in EngineCommands /\ c.command = "START" /\ c.resume = k.instance
       /\ c.board = game.initial /\ c.player = next
  BY <1>3, <1>6 DEF StartCommand, EngineCommands, Players, Controller, Game
<1>11. /\ old.life = "destroyed" /\ old.game = x.game /\ old.state = "ACTIVE"
  BY <1>3, <1>4 DEF Activity
<1>12. /\ new.life = "running" /\ new.state = "null" /\ new.dialog = "none"
       /\ new.touch = "INVALID" /\ new.next = next /\ new.undos = 0 /\ new.game = x.game
  BY <1>4, <1>7 DEF NewActivity
<1>13. PICK k2, old2 : k2 = SendInput(NewController, c) /\ old2 = SendInput(k, DestroyCommand)
  OBVIOUS
<1>14. /\ act'[a] = old /\ act'[b] = new
       /\ \A d \in Callers \ {a, b} : act'[d] = act[d]
  BY <1>1, <1>3, <1>8 DEF Activity
<1> HIDE DEF next, undos, c, old, new
<1>15. /\ ctl'[a] = old2 /\ ctl'[b] = k2 /\ jr' = jr /\ tree' = tree
       /\ g_instance_id' = g_instance_id /\ g_init' = g_init /\ aborted' = aborted
       /\ games' = games
       /\ \A d \in Callers \ {a, b} : ctl'[d] = ctl[d]
  BY <1>1, <1>2, <1>3, <1>8, <1>9, <1>13 DEF jniVars
<1>16. /\ QueueInv(k2) /\ RequestInv(new, k2, jr[b], game) /\ UserInv(new, k2, jr[b], game)
       /\ IdOf(k2, jr[b]) = k.instance /\ ~HasAnswer(k2, jr[b]) /\ k2.current = NoCommand
  <2>1. 0 <= MaxUndos /\ ~(0 > 0)
    BY <1>7
  <2>2. new.undos <= MaxUndos
        /\ (new.undos > 0 => \A i \in 1..Len(game.plays) : ~game.plays[i].cookie)
    BY <1>12, <2>1
  <2> QED
    BY <1>6, <1>10, <1>12, <1>13, <2>2, SpawnedInv
<1>17. /\ QueueInv(old2) /\ Requests(old2) = Requests(k) /\ old2.current = k.current
       /\ old2.outq = k.outq /\ old2.instance = k.instance
  BY <1>3, <1>13, DestroyIsNoRequest
<1>18. Idle(old2) /\ ~HasAnswer(old2, r) /\ ~HasAnswer(k, r)
       /\ Starts(k) = {} /\ IdOf(k, r) = k.instance
  <2>1. Requests(k) = {} /\ k.current = NoCommand /\ k.outq = <<>>
        /\ k.current.command # "START"
    BY <1>5 DEF Idle, NoCommand
  <2>2. Starts(k) = {}
    BY <2>1 DEF Starts
  <2> QED
    BY <1>17, <2>1, <2>2, NonStartId DEF HasAnswer, Idle
<1>19. /\ GameOf(a)' = game /\ GameOf(b)' = game
       /\ \A d \in Callers \ {a, b} : GameOf(d)' = GameOf(d)
  BY <1>11, <1>12, <1>14, <1>15 DEF GameOf
<1>20. \A d \in Created : d < b /\ act[d].game \in Created
  BY <1>1, SpawnedLast
<1>21. /\ Created' = Created \cup {b} /\ Created \subseteq Callers
       /\ \A d \in Created : d # b
  <2>1. Created' = Created \cup {b}
    BY <1>3, <1>8, <1>11, <1>12, <1>14 DEF Created
  <2> QED
    BY <1>8, <2>1 DEF Created
<1>22. /\ Owner(b)' /\ ~Owner(a)'
       /\ \A d \in Callers \ {a, b} : Owner(d)' <=> Owner(d)
  <2>1. Owner(b)'
    <3>1. \A d \in Created' : d <= b
      BY <1>20, <1>21 DEF Callers
    <3> QED
      BY <1>12, <1>14, <3>1 DEF Owner
  <2>2. ~Owner(a)'
    <3>1. a < b /\ ~(b <= a) /\ b \in Created'
      BY <1>3, <1>20, <1>21 DEF Callers
    <3> QED
      BY <1>11, <1>12, <1>14, <3>1 DEF Owner
  <2>3. ASSUME NEW d \in Callers \ {a, b} PROVE Owner(d)' <=> Owner(d)
    <3>1. CASE d \in Created
      <4>1. act'[d] = act[d] /\ act[d].life # "none"
        BY <1>14, <3>1 DEF Created
      <4>2. \A e \in Created : act'[e].game = act[e].game /\ e \in Created'
        BY <1>11, <1>14, <1>21
      <4>3. Owner(d)' => Owner(d)
        BY <4>1, <4>2 DEF Owner
      <4>4. ASSUME Owner(d) PROVE Owner(d)'
        <5>1. act[d].game # x.game
          <6>1. ~(act[d].game = act[a].game)
            BY <1>3, <3>1, <4>4 DEF Owner, Callers
          <6> QED
            BY <6>1
        <5>2. \A e \in Created' : act'[e].game = act[d].game => e \in Created
          BY <1>12, <1>14, <1>21, <5>1
        <5>3. \A e \in Created' : act'[e].game = act'[d].game => e <= d
          BY <4>1, <4>2, <4>4, <5>2 DEF Owner
        <5> QED
          BY <4>1, <5>3 DEF Owner
      <4> QED
        BY <4>3, <4>4
    <3>2. CASE d \notin Created
      BY <1>14, <3>2 DEF Owner, Created
    <3> QED
      BY <3>1, <3>2
  <2> QED
    BY <2>1, <2>2, <2>3
<1>23. /\ RequestInv(old, old2, r, game) /\ UserInv(old, old2, r, game)
  <2>1. Requests(old2) = {} /\ old2.current.command # "START" /\ old2.instance # 0
    BY <1>3, <1>17, <1>18 DEF Idle, RequestInv, NoCommand
  <2> QED
    BY <1>11, <1>18, <2>1 DEF RequestInv, UserInv
<1>24. ASSUME NEW d \in Callers PROVE ActivityInv(d)'
  <2>1. CASE d = a
    BY <1>14, <1>15, <1>17, <1>19, <1>23, <2>1 DEF ActivityInv
  <2>2. CASE d = b
    BY <1>14, <1>15, <1>16, <1>19, <2>2 DEF ActivityInv
  <2>3. CASE d \notin {a, b}
    <3>1. ActivityInv(d)
      BY DEF SessionInv
    <3> QED
      BY <1>14, <1>15, <1>19, <2>3, <3>1 DEF ActivityInv
  <2> QED
    BY <2>1, <2>2, <2>3
<1>25. /\ g_instance_id > 0 /\ k.instance = g_instance_id => AgreesWith(tree, x, k, r, game)
       /\ k.instance <= 0 => NothingPlayed(k, r, game)
       /\ \/ k.instance = g_instance_id
          \/ k.instance = -1 /\ g_instance_id = 0
  BY <1>2, <1>3, <1>18 DEF SessionInv, OwnerInv
<1>26. ASSUME NEW d \in Callers PROVE OwnerInv(d)'
  <2>1. CASE d = a
    <3>1. ~Running(a)'
      BY <1>11, <1>14 DEF Running
    <3> QED
      BY <1>11, <1>14, <1>15, <1>18, <1>22, <2>1, <3>1 DEF OwnerInv
  <2>2. CASE d = b
    <3>1. g_instance_id > 0 /\ k.instance = g_instance_id =>
            AgreesWith(tree, new, k2, jr[b], game)
      BY <1>4, <1>12, <1>16, <1>18, <1>25 DEF AgreesWith
    <3>2. k.instance <= 0 => NothingPlayed(k2, jr[b], game)
      BY <1>16, <1>25 DEF NothingPlayed
    <3> QED
      BY <1>12, <1>14, <1>15, <1>16, <1>19, <1>22, <1>25, <2>2, <3>1, <3>2 DEF OwnerInv
  <2>3. CASE d \notin {a, b}
    <3>1. OwnerInv(d)
      BY DEF SessionInv
    <3>2. (Owner(d)' <=> Owner(d)) /\ (Running(d)' <=> Running(d))
          /\ act'[d] = act[d] /\ ctl'[d] = ctl[d] /\ GameOf(d)' = GameOf(d)
      BY <1>14, <1>15, <1>19, <1>22, <2>3 DEF Running
    <3> QED
      BY <1>15, <3>1, <3>2 DEF OwnerInv
  <2> QED
    BY <2>1, <2>2, <2>3
<1>27. EngineInv'
  BY <1>15 DEF SessionInv, EngineInv
<1>28. GamesInv'
  <2>1. \A d, e \in Callers : Running(d)' /\ Running(e)' => d = e
    <3>1. \A d \in Callers : Running(d)' => d = b
      BY <1>2, <1>11, <1>14 DEF SessionInv, GamesInv, Running
    <3> QED
      BY <3>1
  <2>2. \A d, e \in Callers : e < d /\ d \in Created' => e \in Created'
    BY <1>1, <1>21 DEF SessionInv, GamesInv
  <2>3. \A d \in Callers : d \notin Created' => act'[d].state = "null"
    BY <1>3, <1>14, <1>21 DEF SessionInv, GamesInv
  <2>4. \A d \in Created' : act'[d].game \in Created' /\ act'[d].game <= d
    <3>1. x.game \in Created /\ x.game <= a /\ a < b
      BY <1>3, <1>20 DEF SessionInv, GamesInv
    <3>2. x.game <= b
      BY <1>3, <3>1 DEF Callers
    <3>3. \A d \in Created : act'[d].game = act[d].game
      BY <1>11, <1>14, <1>21
    <3> QED
      BY <1>12, <1>14, <1>21, <3>1, <3>2, <3>3 DEF SessionInv, GamesInv
  <2>5. \A d \in Created' : GameOf(d)'.initial \in SavedGames \cup {<<>>}
    BY <1>3, <1>19, <1>21 DEF SessionInv, GamesInv
  <2>6. \A g \in Callers : Alternating(games'[g].plays)
    BY <1>15 DEF SessionInv, GamesInv
  <2>7. \A d \in Callers : Running(d)' => \A e \in Created' : e <= d
    <3>1. \A d \in Callers : Running(d)' => d = b
      BY <1>2, <1>11, <1>14 DEF SessionInv, GamesInv, Running
    <3>2. \A e \in Created' : e <= b
      BY <1>20, <1>21 DEF Callers
    <3> QED
      BY <3>1, <3>2
  <2> QED
    BY <2>1, <2>2, <2>3, <2>4, <2>5, <2>6, <2>7 DEF GamesInv
<1>29. FinishedGameIsSaved'
  <2> SUFFICES ASSUME NEW d \in Callers, act'[d].state \in GameStates \ {"ACTIVE"},
                      ~GameOf(d)'.replaying, GameOf(d)'.humans # {}
               PROVE  Bare(GameOf(d)'.plays) \in GameOf(d)'.saved
    BY DEF FinishedGameIsSaved
  <2>1. d \notin {a, b}
    BY <1>11, <1>12, <1>14 DEF GameStates
  <2>2. act'[d] = act[d] /\ GameOf(d)' = GameOf(d)
    BY <1>14, <1>19, <2>1
  <2> QED
    BY <2>2 DEF SessionInv, FinishedGameIsSaved
<1> QED
  BY <1>24, <1>26, <1>27, <1>28, <1>29 DEF SessionInv

-----------------------------------------------------------------------------
(* The invariant holds at first, and every step preserves it.              *)
LEMMA InitSession == Init => SessionInv
<1> SUFFICES ASSUME Init PROVE SessionInv
  OBVIOUS
<1>1. \A a \in Callers : act[a].life = "none" /\ act[a].state = "null"
  BY DEF Init, NewActivity
<1>2. Created = {} /\ \A a \in Callers : ~Running(a) /\ ~Owner(a)
  BY <1>1 DEF Created, Running, Owner
<1>3. \A a \in Callers : ActivityInv(a) /\ OwnerInv(a)
  BY <1>1, <1>2 DEF ActivityInv, OwnerInv
<1>4. EngineInv
  <2>1. Len(<<>>) = 0 /\ SideAt(0) = "BLACK"
    BY EmptySeq DEF SideAt
  <2> QED
    BY <2>1 DEF Init, JNIInit, EngineInv
<1>5. GamesInv
  <2>1. 1..Len(<<>>) = {}
    BY EmptySeq
  <2>2. \A g \in Callers : games[g].plays = <<>>
    BY DEF Init, NoGame
  <2>3. \A g \in Callers : Alternating(games[g].plays)
    BY <2>1, <2>2 DEF Alternating
  <2> QED
    BY <1>1, <1>2, <2>3 DEF GamesInv
<1>6. FinishedGameIsSaved
  BY <1>1 DEF FinishedGameIsSaved, GameStates
<1> QED
  BY <1>3, <1>4, <1>5, <1>6 DEF SessionInv

(* Loading the engine changes no game.                                     *)
LEMMA InitializeSession ==
  ASSUME SessionInv, UNCHANGED <<ctl, act, games, g_instance_id, tree, jr, aborted>>,
         g_init = g_init' \/ g_init # "ok"
  PROVE  SessionInv'
<1>1. \A a \in Callers : ActivityInv(a)' /\ OwnerInv(a)'
  <2> TAKE a \in Callers
  <2>1. GameOf(a)' = GameOf(a)
    BY DEF GameOf
  <2>2. Owner(a)' <=> Owner(a)
    BY DEF Owner, Created
  <2>3. ActivityInv(a)'
    BY <2>1 DEF SessionInv, ActivityInv
  <2>4. OwnerInv(a)'
    BY <2>1, <2>2 DEF SessionInv, OwnerInv, Running
  <2> QED
    BY <2>3, <2>4
<1>2. EngineInv'
  BY DEF SessionInv, EngineInv
<1>3. GamesInv'
  BY DEF SessionInv, GamesInv, Running, Created, GameOf
<1>4. FinishedGameIsSaved'
  BY DEF SessionInv, FinishedGameIsSaved, GameOf
<1> QED
  BY <1>1, <1>2, <1>3, <1>4 DEF SessionInv

(* Every step preserves the invariant.                                     *)
LEMMA NextSession ==
  ASSUME CalmUse, TypeOK, TypeOK', InstanceInv, SessionInv, [Next]_vars
  PROVE  SessionInv'
<1>1. CASE InitializeStep
  BY <1>1, InitializeSession DEF InitializeStep, Initialize
<1>2. CASE Launch
  BY <1>2, LaunchSession
<1>3. ASSUME NEW a \in Callers, ControllerStep(a) PROVE SessionInv'
  <2>1. CASE CallEngine(a) /\ UNCHANGED <<act, games>>
    BY <2>1, CallEngineSession
  <2>2. CASE PostResult(a) /\ UNCHANGED <<act, games>>
    BY <2>2, PostedSession, RefusedSession
  <2>3. CASE DoDestroy(a) /\ UNCHANGED <<act, games>>
    BY <2>3, DoDestroySession
  <2> QED
    BY <1>3, <2>1, <2>2, <2>3 DEF ControllerStep
<1>4. ASSUME NEW a \in Callers, HandleResult(a) PROVE SessionInv'
  BY <1>4, HandleResultSession
<1>5. ASSUME NEW a \in Callers, UserStep(a) PROVE SessionInv'
  <2>1. CASE HumanPlay(a)
    BY <2>1, HumanPlaySession
  <2>2. CASE PromoteClick(a)
    BY <2>2, PromoteClickSession
  <2>3. CASE PromoteCancel(a)
    BY <2>3, PromoteCancelSession
  <2>4. CASE UndoMenu(a)
    BY <2>4, UndoMenuSession
  <2>5. CASE TryQuit(a)
    BY <2>5, TryQuitSession
  <2>6. CASE QuitYes(a) \/ QuitNo(a)
    BY <2>6, QuitSession
  <2>7. CASE Rotate(a)
    BY <2>7, RotateSession
  <2> QED
    BY <1>5, <2>1, <2>2, <2>3, <2>4, <2>5, <2>6, <2>7 DEF UserStep
<1>6. ASSUME NEW a \in Callers, Destroy(a) PROVE SessionInv'
  BY <1>6, DestroySession
<1>7. CASE UNCHANGED vars
  BY <1>7, InitializeSession DEF vars, jniVars
<1> QED
  BY <1>1, <1>2, <1>3, <1>4, <1>5, <1>6, <1>7 DEF Next

(* The inductive invariant of a calm session.                              *)
THEOREM SessionInvariant == CalmUse /\ Spec => []SessionInv
<1> SUFFICES ASSUME CalmUse PROVE Spec => []SessionInv
  OBVIOUS
<1>1. TypeOK /\ TypeOK' /\ InstanceInv /\ SessionInv /\ [Next]_vars => SessionInv'
  BY NextSession
<1> QED
  BY <1>1, InitSession, TypeCorrect, InstanceInvariant, PTL DEF Spec

-----------------------------------------------------------------------------
(* What the invariant implies: the properties of GameActivity.             *)

(* What an activity still waits for is nothing, or one result.             *)
LEMMA OutstandingRequests ==
  ASSUME NEW a \in Callers, ctl[a] \in Controller, QueueInv(ctl[a])
  PROVE  Outstanding(a) \in {0, 1} /\ (Outstanding(a) = 0 <=> Idle(ctl[a]))
<1> DEFINE k == ctl[a]
           D == {i \in 1..Len(k.inq) : k.inq[i] # DestroyCommand}
<1>1. Requests(k) = {k.inq[i] : i \in D}
  BY DEF Requests
<1>2. Outstanding(a) = Len(k.outq) + Cardinality(D) + (IF k.current = NoCommand THEN 0 ELSE 1)
  BY DEF Outstanding
<1>3. k.outq \in Seq(Results) /\ Len(k.outq) \in Nat /\ (Len(k.outq) = 0 <=> k.outq = <<>>)
  BY EmptySeq DEF Controller
<1>4. CASE D = {}
  <2>1. Cardinality(D) = 0 /\ Requests(k) = {}
    BY <1>1, <1>4, FS_EmptySet
  <2>2. CASE k.current # NoCommand
    BY <1>2, <1>3, <2>1, <2>2 DEF QueueInv, Idle
  <2>3. CASE k.current = NoCommand /\ k.outq # <<>>
    <3>1. Len(k.outq) = 1
      BY <2>3 DEF QueueInv
    <3>2. ~Idle(k)
      BY <2>3 DEF Idle
    <3>3. Outstanding(a) = 1
      BY <1>2, <2>1, <2>3, <3>1
    <3> QED
      BY <3>2, <3>3
  <2>4. CASE k.current = NoCommand /\ k.outq = <<>>
    BY <1>2, <1>3, <2>1, <2>4 DEF Idle
  <2> QED
    BY <2>2, <2>3, <2>4
<1>5. ASSUME NEW i \in D PROVE Outstanding(a) = 1 /\ ~Idle(k)
  <2>1. D = {i}
    BY DEF QueueInv
  <2>2. Cardinality(D) = 1
    BY <2>1, FS_Singleton
  <2>3. Requests(k) # {}
    BY <1>1
  <2>4. k.current = NoCommand /\ k.outq = <<>>
    BY <2>3 DEF QueueInv
  <2> HIDE DEF D
  <2> QED
    BY <1>2, <1>3, <2>2, <2>3, <2>4 DEF Idle
<1> HIDE DEF D
<1> QED
  BY <1>4, <1>5

(* A request is only made when nothing is under way.                       *)
THEOREM RequestsDoNotOvertake == CalmUse /\ Spec => []OneRequestAtATime
<1> SUFFICES ASSUME CalmUse PROVE Spec => []OneRequestAtATime
  OBVIOUS
<1>1. TypeOK /\ SessionInv => OneRequestAtATime
  <2> SUFFICES ASSUME TypeOK, SessionInv, NEW a \in Callers, Running(a)
               PROVE  /\ Outstanding(a) <= 1
                      /\ IsHuman(a, act[a].touch) => Outstanding(a) = 0 \/ act[a].next = "INVALID"
    BY DEF OneRequestAtATime
  <2>1. /\ QueueInv(ctl[a]) /\ UserInv(act[a], ctl[a], jr[a], GameOf(a))
        /\ ctl[a] \in Controller /\ act[a].life = "running" /\ act[a] \in Activity
        /\ GameOf(a) \in Game
    BY RunningOwns
  <2>2. Outstanding(a) \in {0, 1} /\ (Outstanding(a) = 0 <=> Idle(ctl[a]))
    BY <2>1, OutstandingRequests
  <2>3. ASSUME IsHuman(a, act[a].touch), act[a].next # "INVALID"
        PROVE  Idle(ctl[a])
    <3>1. act[a].touch # "INVALID"
      BY <2>1, <2>3 DEF IsHuman, Game, Sides
    <3>2. act[a].next = act[a].touch /\ act[a].state # "null"
      BY <2>1, <2>3, <3>1 DEF UserInv
    <3> QED
      BY <2>1, <2>3, <3>2 DEF UserInv, IsHuman
  <2> QED
    BY <2>2, <2>3
<1> QED
  BY <1>1, TypeCorrect, SessionInvariant, PTL

(* With nothing under way, what the user sees is the engine's position.    *)
LEMMA WhatIsSettled ==
  ASSUME TypeOK, SessionInv, NEW a \in Callers, Settled(a), g_instance_id > 0
  PROVE  /\ Bare(GameOf(a).plays) = tree.plays
         /\ act[a].board = tree.plays
         /\ act[a].state = "ACTIVE" <=> tree.status = {}
         /\ act[a].state = "ACTIVE" =>
              act[a].next = (IF act[a].dialog = "promote" THEN "INVALID" ELSE tree.turn)
<1>1. Running(a) /\ act[a].state # "null" /\ Outstanding(a) = 0
  BY DEF Settled
<1>2. /\ QueueInv(ctl[a]) /\ UserInv(act[a], ctl[a], jr[a], GameOf(a))
      /\ ctl[a] \in Controller /\ act[a].life = "running" /\ act[a] \in Activity
      /\ GameOf(a) \in Game /\ Owner(a)
  BY <1>1, RunningOwns
<1>3. Idle(ctl[a]) /\ ~HasAnswer(ctl[a], jr[a]) /\ Starts(ctl[a]) = {}
  <2>1. Idle(ctl[a])
    BY <1>1, <1>2, OutstandingRequests
  <2> QED
    BY <2>1 DEF Idle, HasAnswer, Starts
<1>4. IdOf(ctl[a], jr[a]) = g_instance_id
  BY <1>1, <1>3 DEF SessionInv, OwnerInv
<1>5. AgreesWith(tree, act[a], ctl[a], jr[a], GameOf(a))
  BY <1>2, <1>4 DEF SessionInv, OwnerInv
<1>6. /\ tree.plays = Bare(GameOf(a).plays)
      /\ tree.status = {} <=> act[a].state \in {"null", "ACTIVE"}
      /\ act[a].board = tree.plays
  BY <1>1, <1>3, <1>5 DEF AgreesWith
<1>7. tree.turn = Turn(GameOf(a))
  <2>1. GameOf(a).plays \in Seq(Entry)
    BY <1>2 DEF Game
  <2>2. tree.turn = SideAt(Len(tree.plays))
    BY DEF SessionInv, EngineInv
  <2> QED
    BY <1>6, <2>1, <2>2, BareLength DEF Turn
<1>8. act[a].state = "ACTIVE" =>
        act[a].next = (IF act[a].dialog = "promote" THEN "INVALID" ELSE tree.turn)
  BY <1>2, <1>3, <1>4, <1>7 DEF UserInv
<1> QED
  BY <1>1, <1>6, <1>8

(* With nothing under way, activity and engine agree on the game.           *)
THEOREM SettledIsTrue == CalmUse /\ Spec => []SettledAgreesWithEngine
<1> SUFFICES ASSUME CalmUse PROVE Spec => []SettledAgreesWithEngine
  OBVIOUS
<1>1. TypeOK /\ SessionInv => SettledAgreesWithEngine
  <2>1. ASSUME TypeOK, SessionInv, NEW a \in Callers, Settled(a), g_instance_id > 0
        PROVE  (act[a].state = "ACTIVE") = (tree.status = {})
    BY <2>1, WhatIsSettled, Zenon
  <2> QED
    BY <2>1, WhatIsSettled DEF SettledAgreesWithEngine
<1> QED
  BY <1>1, TypeCorrect, SessionInvariant, PTL

(* What is under way to the running activity of a game that has started is *)
(* the difference between its plays and the engine's position.             *)
LEMMA WhatIsUnderWay ==
  ASSUME TypeOK, SessionInv, NEW a \in Callers, Running(a), act[a].state # "null",
         g_instance_id > 0
  PROVE  \/ ResultsUnderWay(a) = <<>> /\ tree.plays = Bare(GameOf(a).plays)
         \/ \E r : /\ ResultsUnderWay(a) = <<r>>
                  /\ tree.plays = Bare(PlaysAfter(GameOf(a).plays, r))
<1> DEFINE k == ctl[a]
<1>1. /\ QueueInv(k) /\ RequestInv(act[a], k, jr[a], GameOf(a))
      /\ k \in Controller /\ Owner(a)
  BY RunningOwns DEF SessionInv, ActivityInv
<1>2. Starts(k) = {}
  BY <1>1 DEF Starts, RequestInv, RequestFits
<1>3. IdOf(k, jr[a]) = g_instance_id
  BY <1>2 DEF SessionInv, OwnerInv
<1>4. AgreesWith(tree, act[a], k, jr[a], GameOf(a))
  BY <1>1, <1>3 DEF SessionInv, OwnerInv
<1>5. k.outq \in Seq(Results)
  BY <1>1 DEF Controller
<1> HIDE DEF k
<1>6. CASE ~HasAnswer(k, jr[a])
  <2>1. k.current = NoCommand /\ k.outq = <<>> /\ tree.plays = Bare(GameOf(a).plays)
    BY <1>4, <1>6 DEF AgreesWith, HasAnswer
  <2>2. ResultsUnderWay(a) = <<>> \o <<>>
    BY <2>1 DEF ResultsUnderWay, k
  <2> QED
    BY <2>1, <2>2
<1>7. CASE HasAnswer(k, jr[a]) /\ k.current # NoCommand
  <2>1. k.outq = <<>>
    BY <1>1, <1>7 DEF QueueInv
  <2>2. jr[a].status # "INSTANCE_DELETED"
    BY <1>7, <2>1 DEF HasAnswer
  <2>3. PICK r : r = ReplyTo(k.current, jr[a])
    OBVIOUS
  <2>4. ResultsUnderWay(a) = <<>> \o <<r>>
    BY <1>7, <2>1, <2>2, <2>3 DEF ResultsUnderWay, k
  <2>5. tree.plays = Bare(PlaysAfter(GameOf(a).plays, r))
    BY <1>4, <1>7, <2>3 DEF AgreesWith, Answer
  <2> QED
    BY <2>4, <2>5
<1>8. CASE HasAnswer(k, jr[a]) /\ k.current = NoCommand
  <2>1. k.outq # <<>> /\ Len(k.outq) = 1
    BY <1>1, <1>8 DEF HasAnswer, QueueInv
  <2>2. ResultsUnderWay(a) = k.outq \o <<>>
    BY <1>8 DEF ResultsUnderWay, k
  <2>3. k.outq \o <<>> = <<Head(k.outq)>>
    BY <1>5, <2>1
  <2>4. tree.plays = Bare(PlaysAfter(GameOf(a).plays, Head(k.outq)))
    BY <1>4, <1>8 DEF AgreesWith, Answer
  <2> QED
    BY <2>2, <2>3, <2>4
<1> QED
  BY <1>6, <1>7, <1>8

(* Whatever is still queued by activities of other games, the engine plays  *)
(* the game of the running one, and no more than one result ahead of it.   *)
THEOREM TheRunningGameIsFollowed == CalmUse /\ Spec => []EngineFollowsTheRunningGame
<1> SUFFICES ASSUME CalmUse PROVE Spec => []EngineFollowsTheRunningGame
  OBVIOUS
<1>1. TypeOK /\ SessionInv => EngineFollowsTheRunningGame
  <2> SUFFICES ASSUME TypeOK, SessionInv, NEW a \in Callers, Running(a),
                      act[a].state # "null", g_instance_id > 0
               PROVE  /\ Len(ResultsUnderWay(a)) <= 1
                      /\ tree.plays = Bare(IF ResultsUnderWay(a) = <<>> THEN GameOf(a).plays
                                           ELSE PlaysAfter(GameOf(a).plays, Head(ResultsUnderWay(a))))
    BY DEF EngineFollowsTheRunningGame
  <2>1. CASE ResultsUnderWay(a) = <<>> /\ tree.plays = Bare(GameOf(a).plays)
    BY <2>1
  <2>2. ASSUME NEW r, ResultsUnderWay(a) = <<r>>,
               tree.plays = Bare(PlaysAfter(GameOf(a).plays, r))
        PROVE  /\ Len(ResultsUnderWay(a)) <= 1
               /\ tree.plays = Bare(IF ResultsUnderWay(a) = <<>> THEN GameOf(a).plays
                                    ELSE PlaysAfter(GameOf(a).plays, Head(ResultsUnderWay(a))))
    <3>1. Len(<<r>>) = 1 /\ Head(<<r>>) = r /\ <<r>> # <<>>
      OBVIOUS
    <3> QED
      BY <2>2, <3>1
  <2> QED
    BY <2>1, <2>2, WhatIsUnderWay
<1> QED
  BY <1>1, TypeCorrect, SessionInvariant, PTL

(* Black's plays and White's alternate in mPlays, whatever is taken back.  *)
THEOREM PlaysAlternate == CalmUse /\ Spec => []EvenEntriesAreBlack
<1> SUFFICES ASSUME CalmUse PROVE Spec => []EvenEntriesAreBlack
  OBVIOUS
<1>1. TypeOK /\ SessionInv => EvenEntriesAreBlack
  <2> SUFFICES ASSUME TypeOK, SessionInv, NEW g \in Callers, NEW i \in DOMAIN games[g].plays
               PROVE  games[g].plays[i].by = (IF i % 2 = 1 THEN "BLACK" ELSE "WHITE")
    BY DEF EvenEntriesAreBlack
  <2>1. games[g].plays \in Seq(Entry)
    BY DEF TypeOK, Game
  <2>2. i \in 1..Len(games[g].plays)
    BY <2>1, LenProperties
  <2>3. games[g].plays[i].by = SideAt(i - 1)
    BY <2>2 DEF SessionInv, GamesInv, Alternating
  <2>4. i \in Nat /\ i >= 1
    BY <2>1, <2>2, LenProperties
  <2>5. (i - 1) % 2 = 0 <=> i % 2 = 1
    BY <2>4
  <2> QED
    BY <2>3, <2>5 DEF SideAt
<1> QED
  BY <1>1, TypeCorrect, SessionInvariant, PTL

(* unmake_move_root only ever unmakes the last move of the root.           *)
THEOREM OnlyLastMovesAreUndone == CalmUse /\ Spec => []UndoTakesTheLastMoves
<1> SUFFICES ASSUME CalmUse PROVE Spec => []UndoTakesTheLastMoves
  OBVIOUS
<1>1. SessionInv => UndoTakesTheLastMoves
  BY DEF SessionInv, EngineInv, UndoTakesTheLastMoves
<1> QED
  BY <1>1, SessionInvariant, PTL

(* A search is only ever asked for in a game that goes on.                 *)
THEOREM EndedGameIsNotSearched == CalmUse /\ Spec => []NoSearchAfterTheEnd
<1> SUFFICES ASSUME CalmUse PROVE Spec => []NoSearchAfterTheEnd
  OBVIOUS
<1>1. TypeOK /\ InstanceInv /\ SessionInv => NoSearchAfterTheEnd
  <2> SUFFICES ASSUME TypeOK, InstanceInv, SessionInv, NEW a \in Callers,
                      ctl[a].inq # <<>>, Head(ctl[a].inq).command = "COMPUTER_PLAY",
                      ctl[a].current = NoCommand, ctl[a].instance = g_instance_id
               PROVE  tree.status = {}
    BY DEF NoSearchAfterTheEnd
  <2> DEFINE k == ctl[a]
             c == Head(k.inq)
  <2>1. act[a].life # "none"
    BY BusyIsCreated
  <2>2. /\ QueueInv(k) /\ RequestInv(act[a], k, jr[a], GameOf(a)) /\ k \in Controller
        /\ (~Idle(k) => Owner(a))
    BY <2>1, CreatedInv
  <2>3. k.inq \in Seq(Commands)
    BY <2>2 DEF Controller
  <2>4. 1 \in 1..Len(k.inq) /\ c = k.inq[1]
    BY <2>3, EmptySeq
  <2>5. c # DestroyCommand
    BY DEF DestroyCommand
  <2>6. \A i \in 1..Len(k.inq) : k.inq[i] # DestroyCommand => i = 1
    BY <2>2, <2>4, <2>5 DEF QueueInv
  <2>7. Requests(k) = {c}
    BY <2>4, <2>5, <2>6 DEF Requests
  <2>8. Owner(a) /\ ~Idle(k) /\ k.outq = <<>> /\ ~HasAnswer(k, jr[a])
    BY <2>2, <2>7 DEF Idle, HasAnswer, QueueInv
  <2>9. IdOf(k, jr[a]) = g_instance_id
    BY <2>7, IdOfRequest
  <2>10. g_instance_id > 0
    BY <2>2 DEF RequestInv, TypeOK, JNITypeOK
  <2>11. AgreesWith(tree, act[a], k, jr[a], GameOf(a))
    BY <2>8, <2>9, <2>10 DEF SessionInv, OwnerInv
  <2> QED
    BY <2>2, <2>8, <2>11 DEF AgreesWith, RequestInv
<1> QED
  BY <1>1, TypeCorrect, InstanceInvariant, SessionInvariant, PTL

(* A game that ended is among the saved logs, complete.                    *)
THEOREM FinishedGamesAreSaved == CalmUse /\ Spec => []FinishedGameIsSaved
<1> SUFFICES ASSUME CalmUse PROVE Spec => []FinishedGameIsSaved
  OBVIOUS
<1>1. SessionInv => FinishedGameIsSaved
  BY DEF SessionInv
<1> QED
  BY <1>1, SessionInvariant, PTL

(* Removing plays from mPlays never throws, which would end the process.   *)
THEOREM NothingIsThrown == CalmUse /\ Spec => []~aborted
<1> SUFFICES ASSUME CalmUse PROVE Spec => []~aborted
  OBVIOUS
<1>1. SessionInv => ~aborted
  BY DEF SessionInv, EngineInv
<1> QED
  BY <1>1, SessionInvariant, PTL

-----------------------------------------------------------------------------
(* Refinement: what the newest activity shows is a game of ShogiGame.      *)

(* Of activities created in order, one is the newest.                      *)
NewestOf(S) == CHOOSE a \in S \cup {1} : \A b \in S : b <= a

(* A greatest member is the newest.                                        *)
LEMMA GreatestIsNewest ==
  ASSUME NEW S \in SUBSET Callers, NEW z \in S, \A b \in S : b <= z
  PROVE  NewestOf(S) = z
<1>1. \A a \in S \cup {1} : (\A b \in S : b <= a) => a = z
  BY DEF Callers
<1>2. \E a \in S \cup {1} : \A b \in S : b <= a
  OBVIOUS
<1> QED
  BY <1>1, <1>2 DEF NewestOf

(* Activities are numbered without gaps, so there is a greatest.           *)
LEMMA NumberedWithoutGaps ==
  ASSUME NEW S \in SUBSET Callers, \A a \in S, b \in Callers : b < a => b \in S
  PROVE  /\ NewestOf(S) \in Callers
         /\ S # {} => NewestOf(S) \in S /\ \A b \in S : b <= NewestOf(S)
<1> DEFINE n == Cardinality(S)
<1>1. NActivities \in Nat \ {0}
  BY JNIAssumption
<1>2. IsFiniteSet(S) /\ n \in Nat
  <2>1. IsFiniteSet(Callers)
    BY <1>1, FS_Interval DEF Callers
  <2>2. IsFiniteSet(S)
    BY <2>1, FS_Subset
  <2> QED
    BY <2>2, FS_CardinalityType
<1>3. ASSUME NEW m \in S PROVE m \in 1..n
  <2>1. m \in Nat /\ m >= 1 /\ 1..m \in SUBSET S
    BY <1>1 DEF Callers
  <2>2. Cardinality(1..m) = m
    BY <2>1, FS_Interval
  <2>3. m <= n
    BY <1>2, <2>1, <2>2, FS_Subset
  <2> QED
    BY <1>2, <2>1, <2>3
<1>4. S = 1..n
  <2>1. IsFiniteSet(1..n) /\ Cardinality(1..n) = n
    BY <1>2, FS_Interval
  <2>2. S \in SUBSET (1..n)
    BY <1>3
  <2> QED
    BY <2>1, <2>2, FS_Subset
<1>5. CASE S = {}
  <2>1. \A a \in S \cup {1} : a = 1
    BY <1>5
  <2>2. NewestOf(S) = 1
    BY <1>5, <2>1 DEF NewestOf
  <2> QED
    BY <1>1, <1>5, <2>2 DEF Callers
<1>6. CASE S # {}
  <2> HIDE DEF n
  <2>1. n \in S /\ \A b \in S : b <= n
    BY <1>2, <1>4, <1>6
  <2>2. NewestOf(S) = n
    BY <2>1, GreatestIsNewest
  <2> QED
    BY <1>6, <2>1, <2>2
<1> QED
  BY <1>5, <1>6

(* The newest activity of a session.                                       *)
LEMMA TheNewest ==
  ASSUME TypeOK, SessionInv
  PROVE  /\ Newest = NewestOf(Created) /\ Newest \in Callers
         /\ act[Newest].game \in Callers
         /\ Created # {} => Newest \in Created /\ \A b \in Created : b <= Newest
<1>1. Newest = NewestOf(Created)
  BY DEF Newest, NewestOf
<1>2. Created \in SUBSET Callers
  BY DEF Created
<1>3. \A a \in Created, b \in Callers : b < a => b \in Created
  BY <1>2 DEF SessionInv, GamesInv
<1>4. Newest \in Callers /\ (Created # {} => Newest \in Created /\ \A b \in Created : b <= Newest)
  BY <1>1, <1>2, <1>3, NumberedWithoutGaps
<1> QED
  BY <1>1, <1>4 DEF TypeOK, Activity

(* What ShogiGame sees of a session.                                       *)
TheLog == Bare(games[act[Newest].game].plays)
IsOver == act[Newest].state \notin {"null", "ACTIVE"}

(* Most steps neither create an activity nor touch its plays.              *)
LEMMA KeepsTheLog ==
  ASSUME TypeOK, SessionInv,
         \A b \in Callers : /\ act'[b].game = act[b].game /\ act'[b].state = act[b].state
                            /\ act'[b].life = "none" <=> act[b].life = "none",
         \A g \in Callers : games'[g].plays = games[g].plays
  PROVE  UNCHANGED <<TheLog, IsOver>>
<1>1. Created' = Created
  BY DEF Created
<1>2. Newest' = Newest
  BY <1>1 DEF Newest
<1>3. Newest \in Callers /\ act[Newest].game \in Callers
  BY TheNewest
<1> QED
  BY <1>2, <1>3 DEF TheLog, IsOver

(* An activity that is created becomes the newest.                         *)
LEMMA CreatedIsNewest ==
  ASSUME TypeOK, SessionInv, NEW a \in Callers, act[a].life = "none",
         \A b \in Callers : b < a => b \in Created,
         \A b \in Callers : act'[b].life = "none" <=> act[b].life = "none" /\ b # a
  PROVE  Newest' = a
<1>1. Created' = Created \cup {a}
  BY DEF Created
<1>2. ASSUME NEW b \in Created PROVE b <= a
  <2>1. b \in Callers /\ a \notin Created
    BY DEF Created
  <2>2. ~(a < b)
    BY <2>1 DEF SessionInv, GamesInv
  <2> QED
    BY <2>1, <2>2 DEF Callers
<1>3. Newest' = NewestOf(Created \cup {a})
  BY <1>1 DEF Newest, NewestOf
<1>4. Created \cup {a} \in SUBSET Callers /\ a <= a
  BY DEF Created, Callers
<1> QED
  BY <1>2, <1>3, <1>4, GreatestIsNewest

(* Plays without their cookies, up to the nth.                             *)
LEMMA BareSubSeq ==
  ASSUME NEW e \in Seq(Entry), NEW n \in Nat, n <= Len(e)
  PROVE  Bare(SubSeq(e, 1, n)) = SubSeq(Bare(e), 1, n)
<1> DEFINE f == SubSeq(e, 1, n)
           b == Bare(e)
           s == SubSeq(b, 1, n)
<1>1. /\ b \in Seq(Play) /\ Len(b) = Len(e) /\ Len(e) \in Nat
      /\ \A i \in 1..Len(e) : b[i] = [by |-> e[i].by, move |-> e[i].move]
  BY BareLength
<1>2. (IF 1 <= n THEN n - 1 + 1 ELSE 0) = n /\ n - 1 + 1 = n
      /\ (\A i \in 1..n : 1 + i - 1 = i) /\ 1..n \subseteq 1..Len(e)
  BY <1>1
<1>3. (\A i \in 1..n : e[i] \in Entry) /\ (\A i \in 1..n : b[i] \in Play)
  BY <1>1, <1>2, ElementOfSeq
<1>4. f \in Seq(Entry) /\ Len(f) = n /\ \A i \in 1..n : f[i] = e[i]
  <2>1. /\ f \in Seq(Entry) /\ Len(f) = (IF 1 <= n THEN n - 1 + 1 ELSE 0)
        /\ \A i \in 1..(n - 1 + 1) : f[i] = e[1 + i - 1]
    BY <1>3, SubSeqProperties
  <2> HIDE DEF f
  <2> QED
    BY <1>2, <2>1
<1>5. s \in Seq(Play) /\ Len(s) = n /\ \A i \in 1..n : s[i] = b[i]
  <2> HIDE DEF b
  <2>1. /\ s \in Seq(Play) /\ Len(s) = (IF 1 <= n THEN n - 1 + 1 ELSE 0)
        /\ \A i \in 1..(n - 1 + 1) : s[i] = b[1 + i - 1]
    BY <1>1, <1>3, SubSeqProperties
  <2> HIDE DEF s
  <2> QED
    BY <1>2, <2>1
<1> HIDE DEF f, b, s
<1>6. /\ Bare(f) \in Seq(Play) /\ Len(Bare(f)) = n
      /\ \A i \in 1..n : Bare(f)[i] = [by |-> f[i].by, move |-> f[i].move]
  BY <1>4, BareLength
<1>7. \A i \in 1..n : Bare(f)[i] = s[i]
  BY <1>1, <1>2, <1>4, <1>5, <1>6
<1>8. Bare(f) = s
  BY <1>5, <1>6, <1>7, SeqEqual
<1> QED
  BY <1>8 DEF f, s, b

(* A result that is handled is a play, a pair taken back, or nothing new.  *)
LEMMA ResultIsAStep ==
  ASSUME NEW e \in Seq(Entry), NEW ans \in Results, NEW game, game.plays = e,
         AnswerFits(ans, game)
  PROVE  \/ /\ ans.lastMove # NoPlay
            /\ \E m \in Moves : Bare(PlaysAfter(e, ans))
                                  = Append(Bare(e), [by |-> SideAt(Len(Bare(e))), move |-> m])
         \/ /\ ans.gameState = "ACTIVE" /\ Len(Bare(e)) >= 2
            /\ Bare(PlaysAfter(e, ans)) = SubSeq(Bare(e), 1, Len(Bare(e)) - 2)
         \/ ans.gameState = "ACTIVE" /\ Bare(PlaysAfter(e, ans)) = Bare(e)
<1>1. Len(Bare(e)) = Len(e) /\ Len(e) \in Nat /\ ans.undoMoves \in {0, 2}
  BY BareLength DEF Results
<1>2. CASE ans.lastMove # NoPlay
  <2> DEFINE x == [by |-> ans.lastMove.by, move |-> ans.lastMove.move, cookie |-> TRUE]
  <2>1. ans.undoMoves = 0
    BY <1>1, <1>2 DEF AnswerFits
  <2>2. x \in Entry /\ PlaysAfter(e, ans) = Append(e, x)
    BY <1>2, <2>1, PlaysAfterPlay
  <2>3. x.by = SideAt(Len(Bare(e))) /\ x.move \in Moves
    BY <1>1, <1>2, <2>2 DEF AnswerFits, Turn, Entry
  <2> HIDE DEF x
  <2>4. Bare(PlaysAfter(e, ans)) = Append(Bare(e), [by |-> SideAt(Len(Bare(e))), move |-> x.move])
    BY <2>2, <2>3, BareAppend
  <2> QED
    BY <1>2, <2>3, <2>4
<1>3. CASE ans.lastMove = NoPlay /\ ans.undoMoves = 2
  <2>1. Len(e) >= 2 /\ ans.gameState = "ACTIVE"
    BY <1>3 DEF AnswerFits
  <2>2. PlaysAfter(e, ans) = SubSeq(e, 1, Len(e) - 2)
    BY <1>3, PlaysAfterUndo
  <2>3. Bare(SubSeq(e, 1, Len(e) - 2)) = SubSeq(Bare(e), 1, Len(e) - 2)
    BY <1>1, <2>1, BareSubSeq
  <2> QED
    BY <1>1, <2>1, <2>2, <2>3
<1>4. CASE ans.lastMove = NoPlay /\ ans.undoMoves = 0
  <2>1. ans.gameState = "ACTIVE" /\ PlaysAfter(e, ans) = e
    BY <1>4, PlaysAfterNothing DEF AnswerFits
  <2> QED
    BY <2>1
<1> QED
  BY <1>1, <1>2, <1>3, <1>4

(* mEventHandler takes a result: a step of the game of the newest activity. *)
LEMMA HandleResultRefines ==
  ASSUME TypeOK, InstanceInv, SessionInv, NEW a \in Callers, HandleResult(a)
  PROVE  Session!Next \/ UNCHANGED <<TheLog, IsOver>>
<1> DEFINE x == act[a]
           k == ctl[a]
           game == GameOf(a)
           ans == Head(k.outq)
           z == Newest
<1>0. k.outq # <<>> /\ x.life # "none"
  BY BusyIsCreated DEF HandleResult
<1>1. /\ QueueInv(k) /\ RequestInv(x, k, jr[a], game)
      /\ k \in Controller /\ x \in Activity /\ x.game \in Callers /\ game \in Game
      /\ game = games[x.game] /\ ~Idle(k) /\ Owner(a)
      /\ act \in [Callers -> Activity] /\ games \in [Callers -> Game]
  BY <1>0, CreatedInv DEF Idle
<1>2. ans \in Results /\ k.current = NoCommand
  BY <1>0, <1>1, HeadTailProperties DEF Controller, QueueInv
<1>3. HasAnswer(k, jr[a]) /\ Answer(k, jr[a]) = ans
  BY <1>0, <1>2 DEF HasAnswer, Answer
<1>4. AnswerFits(ans, game) /\ x.state \in {"null", "ACTIVE"}
  BY <1>1, <1>3 DEF RequestInv
<1>5. /\ act' = [act EXCEPT ![a].next = ans.nextPlayer, ![a].touch = ans.nextPlayer,
                            ![a].state = ans.gameState, ![a].board = ans.board]
      /\ games' = [games EXCEPT ![x.game] =
           IF ans.gameState # "ACTIVE"
           THEN MaybeSaveGame([game EXCEPT !.plays = PlaysAfter(@, ans)])
           ELSE [game EXCEPT !.plays = PlaysAfter(@, ans)]]
  BY <1>1 DEF HandleResult
<1>6. /\ act'[a].state = ans.gameState
      /\ \A b \in Callers : /\ act'[b].game = act[b].game
                            /\ act'[b].life = "none" <=> act[b].life = "none"
                            /\ b # a => act'[b].state = act[b].state
  BY <1>1, <1>5 DEF Activity
<1>7. /\ games'[x.game].plays = PlaysAfter(game.plays, ans)
      /\ \A g \in Callers : g # x.game => games'[g].plays = games[g].plays
  <2>1. PlaysAfter(game.plays, ans) \in Seq(Entry)
    BY <1>1, <1>2, PlaysAfterType DEF Game
  <2>2. PICK game1 : game1 = [game EXCEPT !.plays = PlaysAfter(@, ans)]
    OBVIOUS
  <2>3. game1 \in Game /\ game1.plays = PlaysAfter(game.plays, ans)
    BY <1>1, <2>1, <2>2 DEF Game
  <2>4. MaybeSaveGame(game1).plays = game1.plays
    BY <2>3, SavedFields
  <2>5. games' = [games EXCEPT ![x.game] = IF ans.gameState # "ACTIVE"
                                           THEN MaybeSaveGame(game1) ELSE game1]
    BY <1>5, <2>2
  <2> QED
    BY <1>1, <2>3, <2>4, <2>5
<1>8. /\ Newest' = z /\ z \in Callers /\ act[z].game \in Callers /\ z \in Created
      /\ a <= z
  <2>1. Created' = Created /\ a \in Created
    BY <1>0, <1>6 DEF Created
  <2> QED
    BY <2>1, TheNewest DEF Newest
<1> HIDE DEF z, ans
<1>9. CASE act[z].game = x.game
  <2>1. z = a
    BY <1>1, <1>8, <1>9 DEF Owner, Callers
  <2>2. TheLog = Bare(game.plays) /\ TheLog' = Bare(PlaysAfter(game.plays, ans))
        /\ ~IsOver /\ (IsOver' <=> ans.gameState # "ACTIVE")
    <3>1. TheLog = Bare(game.plays)
      BY <1>1, <2>1 DEF TheLog, z
    <3>2. TheLog' = Bare(PlaysAfter(game.plays, ans))
      BY <1>6, <1>7, <1>8, <2>1 DEF TheLog
    <3>3. ~IsOver
      BY <1>4, <2>1 DEF IsOver, z
    <3>4. IsOver' <=> ans.gameState # "ACTIVE"
      BY <1>2, <1>6, <1>8, <2>1 DEF IsOver, Results, GameStates
    <3> QED
      BY <3>1, <3>2, <3>3, <3>4
  <2>3. game.plays \in Seq(Entry)
    BY <1>1 DEF Game
  <2>4. \/ \E m \in Moves : TheLog' = Append(TheLog, [by |-> SideAt(Len(TheLog)), move |-> m])
        \/ ~IsOver' /\ Len(TheLog) >= 2 /\ TheLog' = SubSeq(TheLog, 1, Len(TheLog) - 2)
        \/ ~IsOver' /\ TheLog' = TheLog
    BY <1>2, <1>4, <2>2, <2>3, ResultIsAStep
  <2>5. CASE \E m \in Moves : TheLog' = Append(TheLog, [by |-> SideAt(Len(TheLog)), move |-> m])
    BY <2>2, <2>5 DEF Session!Next, Session!MakePlay, Session!Turn, SideAt, TheLog, IsOver
  <2>6. CASE ~IsOver' /\ Len(TheLog) >= 2 /\ TheLog' = SubSeq(TheLog, 1, Len(TheLog) - 2)
    BY <2>2, <2>6 DEF Session!Next, Session!TakeBack, TheLog, IsOver
  <2>7. CASE ~IsOver' /\ TheLog' = TheLog
    BY <2>2, <2>7 DEF IsOver
  <2> QED
    BY <2>4, <2>5, <2>6, <2>7
<1>10. CASE act[z].game # x.game
  <2>1. z # a
    BY <1>10
  <2> QED
    BY <1>6, <1>7, <1>8, <1>10, <2>1 DEF TheLog, IsOver, z
<1> QED
  BY <1>9, <1>10

(* A launched game starts from the board it was given.                     *)
LEMMA LaunchRefines ==
  ASSUME TypeOK, SessionInv, Launch
  PROVE  Session!Next
<1>1. PICK a \in Callers, board \in SavedGames \cup {<<>>}, replaying \in BOOLEAN,
           humans \in PlayerTypes : LaunchGame(a, board, replaying, humans)
  BY DEF Launch
<1>2. PICK x2 : x2 = NewActivity(a, IF Len(board) % 2 = 0 THEN "BLACK" ELSE "WHITE",
                                 MaxUndos, board, "none")
  OBVIOUS
<1>3. /\ act[a].life = "none" /\ (\A b \in Callers : b < a => b \in Created)
      /\ act' = [act EXCEPT ![a] = x2]
      /\ games' = [games EXCEPT ![a] =
           [initial |-> board, replaying |-> replaying, humans |-> humans,
            plays |-> NullCookies(board), saved |-> {}]]
  BY <1>1, <1>2 DEF LaunchGame
<1>4. x2.life = "running" /\ x2.game = a /\ x2.state = "null"
  BY <1>2 DEF NewActivity
<1>5. act \in [Callers -> Activity] /\ games \in [Callers -> Game]
  BY DEF TypeOK
<1>6. Newest' = a
  BY <1>3, <1>4, <1>5, CreatedIsNewest
<1>7. TheLog' = board /\ IsOver' = FALSE
  <2>1. act'[a] = x2 /\ games'[a].plays = NullCookies(board)
    BY <1>3, <1>5
  <2>2. board \in Seq(Play)
    BY EmptySeq, ActivityAssumption
  <2>3. Bare(NullCookies(board)) = board
    BY <2>2, BareNull
  <2> QED
    BY <1>4, <1>6, <2>1, <2>3 DEF TheLog, IsOver
<1> QED
  BY <1>7 DEF Session!Next, Session!Start, TheLog, IsOver

(* A rotated game looks as it did.                                         *)
LEMMA RotateRefines ==
  ASSUME CalmUse, TypeOK, SessionInv, NEW a \in Callers, Rotate(a)
  PROVE  UNCHANGED <<TheLog, IsOver>>
<1>1. PICK b \in Callers :
        /\ Running(a) /\ Situation(a) \in RotateWhen /\ act[b].life = "none"
        /\ \A c \in Callers : c < b => c \in Created
        /\ act' = [act EXCEPT
             ![a].life = "destroyed", ![a].dialog = "none",
             ![b] = NewActivity(act[a].game,
                                IF act[a].next = "BLACK" THEN "BLACK" ELSE "WHITE",
                                IF act[a].undos = 0 THEN MaxUndos ELSE act[a].undos,
                                GameOf(a).initial, act[a].dialog)]
        /\ games' = games
  BY DEF Rotate
<1>2. act[a].life = "running" /\ a # b /\ act \in [Callers -> Activity]
  BY <1>1 DEF Running, TypeOK
<1>3. act[a].state = "ACTIVE"
  BY <1>1 DEF Situation, CalmUse
<1>4. /\ act'[b].game = act[a].game /\ act'[b].state = "null"
      /\ \A c \in Callers : act'[c].life = "none" <=> act[c].life = "none" /\ c # b
  BY <1>1, <1>2 DEF NewActivity, Activity
<1>5. Newest' = b
  BY <1>1, <1>4, CreatedIsNewest
<1>6. Newest = a
  <2>1. a \in Created /\ Created \in SUBSET Callers
    BY <1>2 DEF Created
  <2>2. \A c \in Created : c <= a
    BY <1>1 DEF SessionInv, GamesInv
  <2>3. NewestOf(Created) = a
    BY <2>1, <2>2, GreatestIsNewest
  <2> QED
    BY <2>3, TheNewest
<1> QED
  BY <1>1, <1>3, <1>4, <1>5, <1>6 DEF TheLog, IsOver

(* What the user does otherwise, and the threads, keep the plays.          *)
LEMMA UserRefines ==
  ASSUME CalmUse, TypeOK, SessionInv, NEW a \in Callers, UserStep(a) \/ Destroy(a)
  PROVE  UNCHANGED <<TheLog, IsOver>>
<1>1. act \in [Callers -> Activity] /\ games \in [Callers -> Game]
  BY DEF TypeOK
<1>2. CASE HumanPlay(a)
  <2>1. PICK m \in Moves : \/ act' = [act EXCEPT ![a] = TurnGivenUp(act[a])]
                           \/ act' = [act EXCEPT ![a] = [TurnGivenUp(act[a]) EXCEPT
                                        !.promo = [by |-> act[a].touch, move |-> m],
                                        !.dialog = "promote"]]
    BY <1>2 DEF HumanPlay
  <2> DEFINE y == TurnGivenUp(act[a])
             z == [y EXCEPT !.promo = [by |-> act[a].touch, move |-> m], !.dialog = "promote"]
  <2>2. /\ y.game = act[a].game /\ y.state = act[a].state /\ y.life = act[a].life
        /\ z.game = act[a].game /\ z.state = act[a].state /\ z.life = act[a].life
    BY <1>1 DEF TurnGivenUp, Activity
  <2>3. act' = [act EXCEPT ![a] = y] \/ act' = [act EXCEPT ![a] = z]
    BY <2>1
  <2> HIDE DEF y, z
  <2>4. /\ \A b \in Callers : /\ act'[b].game = act[b].game /\ act'[b].state = act[b].state
                              /\ act'[b].life = act[b].life
        /\ games' = games
    BY <1>1, <1>2, <2>2, <2>3 DEF HumanPlay
  <2> QED
    BY <2>4, KeepsTheLog
<1>3. CASE PromoteClick(a)
  <2>1. /\ \A b \in Callers : /\ act'[b].game = act[b].game /\ act'[b].state = act[b].state
                              /\ act'[b].life = act[b].life
        /\ games' = games
    BY <1>1, <1>3 DEF PromoteClick, Activity
  <2> QED
    BY <2>1, KeepsTheLog
<1>4. CASE PromoteCancel(a)
  <2>1. /\ \A b \in Callers : /\ act'[b].game = act[b].game /\ act'[b].state = act[b].state
                              /\ act'[b].life = act[b].life
        /\ games' = games
    BY <1>1, <1>4 DEF PromoteCancel, Activity
  <2> QED
    BY <2>1, KeepsTheLog
<1>5. CASE UndoMenu(a)
  <2>1. /\ \A b \in Callers : /\ act'[b].game = act[b].game /\ act'[b].state = act[b].state
                              /\ act'[b].life = act[b].life
        /\ games' = games
    BY <1>1, <1>5 DEF UndoMenu, Activity
  <2> QED
    BY <2>1, KeepsTheLog
<1>6. CASE TryQuit(a)
  <2>1. /\ \A b \in Callers : /\ act'[b].game = act[b].game /\ act'[b].state = act[b].state
                              /\ act'[b].life = "none" <=> act[b].life = "none"
        /\ games' = games
    BY <1>1, <1>6 DEF TryQuit, Visible, Running, Activity
  <2> QED
    BY <2>1, KeepsTheLog
<1>7. CASE QuitYes(a)
  <2>1. \A b \in Callers : /\ act'[b].game = act[b].game /\ act'[b].state = act[b].state
                           /\ act'[b].life = "none" <=> act[b].life = "none"
    BY <1>1, <1>7 DEF QuitYes, Running, Activity
  <2>2. games' = [games EXCEPT ![act[a].game] = MaybeSaveGame(@)] /\ act[a].game \in Callers
    BY <1>1, <1>7 DEF QuitYes, Activity
  <2>3. \A g \in Callers : games'[g].plays = games[g].plays
    BY <1>1, <2>2, SavedFields
  <2> QED
    BY <2>1, <2>3, KeepsTheLog
<1>8. CASE QuitNo(a)
  <2>1. /\ \A b \in Callers : /\ act'[b].game = act[b].game /\ act'[b].state = act[b].state
                              /\ act'[b].life = act[b].life
        /\ games' = games
    BY <1>1, <1>8 DEF QuitNo, Activity
  <2> QED
    BY <2>1, KeepsTheLog
<1>9. CASE Destroy(a)
  <2>1. /\ \A b \in Callers : /\ act'[b].game = act[b].game /\ act'[b].state = act[b].state
                              /\ act'[b].life = "none" <=> act[b].life = "none"
        /\ games' = games
    BY <1>1, <1>9 DEF Destroy, Activity
  <2> QED
    BY <2>1, KeepsTheLog
<1> QED
  BY <1>2, <1>3, <1>4, <1>5, <1>6, <1>7, <1>8, <1>9, RotateRefines DEF UserStep

(* Every step of a session is a step of its game, or changes nothing in it. *)
LEMMA NextRefines ==
  ASSUME CalmUse, TypeOK, InstanceInv, SessionInv, [Next]_vars
  PROVE  Session!Next \/ UNCHANGED <<TheLog, IsOver>>
<1>1. ASSUME UNCHANGED <<act, games>> PROVE UNCHANGED <<TheLog, IsOver>>
  BY <1>1, KeepsTheLog
<1>2. CASE InitializeStep \/ UNCHANGED vars
  BY <1>1, <1>2 DEF InitializeStep, vars
<1>3. ASSUME NEW a \in Callers, ControllerStep(a) PROVE UNCHANGED <<TheLog, IsOver>>
  BY <1>1, <1>3 DEF ControllerStep
<1> QED
  BY <1>2, <1>3, LaunchRefines, HandleResultRefines, UserRefines DEF Next

(* Whatever the threads do, the user sees a game of shogi: sides in turn,  *)
(* plays taken back in pairs, nothing after the end.                       *)
THEOREM TheSessionIsAGame == CalmUse /\ Spec => SessionIsAGame
<1> SUFFICES ASSUME CalmUse PROVE Spec => SessionIsAGame
  OBVIOUS
<1>1. TypeOK /\ Init => Session!Init
  <2> SUFFICES ASSUME TypeOK, Init PROVE Session!Init
    OBVIOUS
  <2>1. Newest \in Callers /\ act[Newest].game \in Callers
    BY InitSession, TheNewest
  <2>2. act[Newest].state = "null" /\ games[act[Newest].game].plays = <<>>
    BY <2>1 DEF Init, NewActivity, NoGame
  <2>3. Bare(<<>>) = <<>>
    <3>1. <<>> \in Seq(Entry) /\ Len(<<>>) = 0
      BY EmptySeq
    <3>2. Bare(<<>>) \in Seq(Play) /\ Len(Bare(<<>>)) = 0
      BY <3>1, BareLength
    <3> QED
      BY <3>2, EmptySeq
  <2> QED
    BY <2>2, <2>3 DEF Session!Init
<1>2. TypeOK /\ InstanceInv /\ SessionInv /\ [Next]_vars
        => [Session!Next]_<<TheLog, IsOver>>
  BY NextRefines
<1>3. TypeOK /\ InstanceInv /\ SessionInv /\ [Next]_vars
        => [Session!Next]_<<Bare(games[act[Newest].game].plays),
                            act[Newest].state \notin {"null", "ACTIVE"}>>
  BY <1>2 DEF TheLog, IsOver
<1> QED
  BY <1>1, <1>3, TypeCorrect, InstanceInvariant, SessionInvariant, PTL
     DEF Spec, SessionIsAGame, Session!Spec
=============================================================================
