---------------------------- MODULE GameActivity ----------------------------
(***************************************************************************)
(* A session of the app: the GameActivity objects the user creates by      *)
(* starting, resuming, rotating and leaving games, each with its own       *)
(* BoardView and BonanzaController, all on top of the one engine.          *)
(*                                                                         *)
(* Everything here runs on the main thread, so a callback is one step:     *)
(* touch and menu events, dialog buttons, the lifecycle callbacks, and     *)
(* mEventHandler taking a Result.                                          *)
(*                                                                         *)
(* A game is named after the activity that launched it.  A rotation        *)
(* replaces the activity within one main-thread message, and the Bundle    *)
(* between the two is not serialised: the new object and the dead one      *)
(* share mPlays and mMoveCookies, which is why they belong to the game.    *)
(***************************************************************************)
EXTENDS BonanzaController, FiniteSets

CONSTANTS
  PlayerTypes,      \* the sets of players the preference "player_types" may make human
  MaxUndos,         \* the preference "max_undos"
  SavedGames,       \* the logs a game may be resumed from, up to the play shown
  RotateWhen,       \* the situations in which the user may rotate the screen
  LeaveWhen,        \* the situations in which the user may leave a game
  TouchDuringUndo   \* may a touch arrive between an undo and its result?

Situations == {"starting", "idle", "busy", "promoting", "quitting", "over"}

ASSUME ActivityAssumption ==
  /\ PlayerTypes \subseteq SUBSET Sides
  /\ MaxUndos \in Nat
  /\ SavedGames \subseteq Seq(Play)
  /\ RotateWhen \subseteq Situations
  /\ LeaveWhen \subseteq Situations
  /\ TouchDuringUndo \in BOOLEAN

VARIABLES
  act,     \* act[a]: the fields of activity a
  games    \* games[g]: what the activities of game g share, and its saved logs

vars == <<jniVars, ctl, act, games>>

(* An entry of mPlays; a resumed play has a null cookie in mMoveCookies.   *)
Entry == [by : Sides, move : Moves, cookie : BOOLEAN]

Activity ==
  [life : {"none", "running", "finishing", "destroyed"},
   game : Callers,
   next : Players,                        \* mNextPlayer
   state : GameStates \cup {"null"},      \* mGameState
   board : Seq(Play),                     \* mBoard
   touch : Players,                       \* mBoardView.mCurrentPlayer
   promo : Play \cup {NoPlay},            \* mSavedPlayForPromotion
   dialog : {"none", "promote", "quit"},  \* the dialog on the screen
   undos : Nat]                           \* mUndosRemaining

Game == [initial : Seq(Play),         \* the intent's initial_board
         replaying : BOOLEAN,         \* mReplayingSavedGame
         humans : SUBSET Sides,       \* mHumanPlayers
         plays : Seq(Entry),          \* mPlays and mMoveCookies
         saved : SUBSET Seq(Play)]    \* the logs handed to saveLogInMemory

Bare(entries) ==
  [i \in 1..Len(entries) |-> [by |-> entries[i].by, move |-> entries[i].move]]
NullCookies(board) ==
  [i \in 1..Len(board) |-> [by |-> board[i].by, move |-> board[i].move, cookie |-> FALSE]]

Created == {a \in Callers : act[a].life # "none"}
Running(a) == act[a].life = "running"
Visible(a) == Running(a) /\ act[a].dialog = "none" /\ ~aborted
GameOf(a) == games[act[a].game]
IsHuman(a, p) == p \in GameOf(a).humans
IsComputer(a, p) == p # "INVALID" /\ ~IsHuman(a, p)

NewActivity(g, next, undos, board, dialog) ==
  [life |-> "running", game |-> g, next |-> next, state |-> "null",
   board |-> board, touch |-> "INVALID", promo |-> NoPlay, dialog |-> dialog,
   undos |-> undos]

NoGame == [initial |-> <<>>, replaying |-> FALSE, humans |-> {}, plays |-> <<>>, saved |-> {}]

Init ==
  /\ JNIInit
  /\ ControllerInit
  /\ act = [a \in Callers |-> [NewActivity(1, "INVALID", 0, <<>>, "none")
                                 EXCEPT !.life = "none"]]
  /\ games = [g \in Callers |-> NoGame]

MaybeSaveGame_LongGames(game) ==
  IF game.replaying \/ game.humans = {} \/ Len(game.plays) <= 2 THEN game
  ELSE [game EXCEPT !.saved = @ \cup {Bare(game.plays)}]

(* maybeSaveGame, called with the plays as they are then.                  *)
MaybeSaveGame(game) ==
  IF game.replaying \/ game.humans = {} THEN game
  ELSE [game EXCEPT !.saved = @ \cup {Bare(game.plays)}]

Situation(a) ==
  IF act[a].dialog = "promote" THEN "promoting"
  ELSE IF act[a].dialog = "quit" THEN "quitting"
  ELSE IF act[a].state = "null" THEN "starting"
  ELSE IF act[a].state # "ACTIVE" THEN "over"
  ELSE IF IsHuman(a, act[a].next) THEN "idle"
  ELSE "busy"

-----------------------------------------------------------------------------
(* StartScreenActivity.newGame2 and ReplayGameActivity.resumeGame start a  *)
(* GameActivity; onCreate makes its controller and sends START.  The start *)
(* and replay screens are in front only when no GameActivity runs.         *)
LaunchGame(a, board, replaying, humans) ==
  LET next == IF Len(board) % 2 = 0 THEN "BLACK" ELSE "WHITE" IN
  /\ ~aborted
  /\ act[a].life = "none"
  /\ \A b \in Callers : ~Running(b) /\ (b < a => b \in Created)
  /\ replaying \/ board = <<>>
  /\ replaying => board \in SavedGames
  /\ act' = [act EXCEPT ![a] = NewActivity(a, next, MaxUndos, board, "none")]
  /\ ctl' = [ctl EXCEPT ![a] = SendInput(@, StartCommand(0, board, next))]
  /\ games' = [games EXCEPT ![a] =
       [initial |-> board, replaying |-> replaying, humans |-> humans,
        plays |-> NullCookies(board), saved |-> {}]]
  /\ UNCHANGED jniVars

Launch ==
  \E a \in Callers, board \in SavedGames \cup {<<>>}, replaying \in BOOLEAN,
     humans \in PlayerTypes : LaunchGame(a, board, replaying, humans)

(* mPlays and mMoveCookies when a result is handled: the play it brings is *)
(* added, then the plays it takes back are removed.                        *)
Added_Always(plays, r) ==
  Append(plays, [by |-> r.lastMove.by, move |-> r.lastMove.move, cookie |-> TRUE])
Added(plays, r) ==
  IF r.lastMove = NoPlay THEN plays
  ELSE Append(plays, [by |-> r.lastMove.by, move |-> r.lastMove.move, cookie |-> TRUE])
PlaysAfter_OneUndone(plays, r) ==
  SubSeq(Added(plays, r), 1, Len(Added(plays, r)) - (IF r.undoMoves = 2 THEN 1 ELSE 0))
PlaysAfter(plays, r) ==
  SubSeq(Added(plays, r), 1, Len(Added(plays, r)) - r.undoMoves)

AsksComputer_AfterPlay(a, r) == IsComputer(a, r.nextPlayer) /\ r.lastMove # NoPlay
AsksComputer(a, r) == IsComputer(a, r.nextPlayer)

(* mEventHandler.handleMessage.  It does not look at mDestroyed.  Removing *)
(* from an empty mPlays throws, which ends the process.                    *)
HandleResult(a) ==
  LET r == Head(ctl[a].outq)
      g == act[a].game
      k == [ctl[a] EXCEPT !.outq = Tail(@)]
      game == [games[g] EXCEPT !.plays = PlaysAfter(@, r)]
  IN /\ ~aborted
     /\ ctl[a].outq # <<>>
     /\ act' = [act EXCEPT ![a].next = r.nextPlayer, ![a].touch = r.nextPlayer,
                           ![a].state = r.gameState, ![a].board = r.board]
     /\ ctl' = [ctl EXCEPT ![a] = IF AsksComputer(a, r)
                                  THEN SendInput(k, ComputerCommand(r.nextPlayer))
                                  ELSE k]
     /\ games' = [games EXCEPT ![g] = IF r.gameState # "ACTIVE"
                                      THEN MaybeSaveGame(game) ELSE game]
     /\ aborted' = (r.undoMoves > Len(Added(games[g].plays, r)))
     /\ UNCHANGED <<g_init, g_instance_id, tree, jr>>

(* Nobody may play until the result of what was asked is there.            *)
TurnGivenUp_Later(activity) == activity
TurnGivenUp(activity) == [activity EXCEPT !.next = "INVALID", !.touch = "INVALID"]

(* BoardView.onTouch hands a play to onHumanPlay.  BoardView only looks at *)
(* its own mCurrentPlayer.  A play that may promote opens the dialog.      *)
HumanPlay(a) ==
  \E m \in Moves :
    LET player == act[a].touch
        play == [by |-> player, move |-> m]
    IN /\ Visible(a)
       /\ IsHuman(a, player)
       /\ act[a].next = "INVALID" => TouchDuringUndo
       /\ \/ /\ act' = [act EXCEPT ![a] = TurnGivenUp(@)]
             /\ ctl' = [ctl EXCEPT ![a] = SendInput(@, HumanCommand(player, play))]
          \/ /\ m \notin Drops
             /\ act' = [act EXCEPT ![a] = [TurnGivenUp(@) EXCEPT !.promo = play,
                                                                 !.dialog = "promote"]]
             /\ UNCHANGED ctl
       /\ UNCHANGED <<jniVars, games>>

(* onClick of the promotion dialog: the play as it was, or its promotion,  *)
(* which is another move.  After a rotation the dialog is on the screen    *)
(* again but the saved play is gone, and the click only closes it.         *)
PromoteClick(a) ==
  \E m \in Moves \ Drops :
    LET play == act[a].promo IN
    /\ ~aborted
    /\ Running(a)
    /\ act[a].dialog = "promote"
    /\ act' = [act EXCEPT ![a].promo = NoPlay, ![a].dialog = "none"]
    /\ ctl' = IF play = NoPlay THEN ctl
              ELSE [ctl EXCEPT ![a] =
                      SendInput(@, HumanCommand(play.by, [play EXCEPT !.move = m]))]
    /\ UNCHANGED <<jniVars, games>>

PromoteCancel(a) ==
  LET play == act[a].promo IN
  /\ ~aborted
  /\ Running(a)
  /\ act[a].dialog = "promote"
  /\ act' = IF play = NoPlay THEN [act EXCEPT ![a].dialog = "none"]
            ELSE [act EXCEPT ![a].promo = NoPlay, ![a].dialog = "none",
                             ![a].next = play.by, ![a].touch = play.by]
  /\ UNCHANGED <<jniVars, ctl, games>>

UndoOf_Reversed(player, plays) ==
  UndoCommand(player, plays[Len(plays) - 1].move, plays[Len(plays)].move)
UndoOf(player, plays) ==
  UndoCommand(player, plays[Len(plays)].move, plays[Len(plays) - 1].move)

(* The menu item "undo", enabled by updateUndoMenu, then undo() itself.    *)
(* It leaves BoardView.mCurrentPlayer alone.                               *)
UndoMenu(a) ==
  LET plays == GameOf(a).plays
      n == Len(plays)
  IN /\ Visible(a)
     /\ act[a].undos > 0
     /\ IsHuman(a, act[a].next)
     /\ n >= 2
     /\ plays[n].cookie /\ plays[n - 1].cookie
     /\ ctl' = [ctl EXCEPT ![a] = SendInput(@, UndoOf(act[a].next, plays))]
     /\ act' = [act EXCEPT ![a].next = "INVALID", ![a].undos = @ - 1]
     /\ UNCHANGED <<jniVars, games>>

(* tryQuitGame: ask while a game is going on, otherwise finish().          *)
TryQuit(a) ==
  /\ Visible(a)
  /\ Situation(a) \in LeaveWhen
  /\ act' = [act EXCEPT ![a] =
       IF @.state = "ACTIVE" /\ GameOf(a).plays # <<>>
       THEN [@ EXCEPT !.dialog = "quit"] ELSE [@ EXCEPT !.life = "finishing"]]
  /\ UNCHANGED <<jniVars, ctl, games>>

QuitYes(a) ==
  /\ ~aborted
  /\ Running(a)
  /\ act[a].dialog = "quit"
  /\ act' = [act EXCEPT ![a].dialog = "none", ![a].life = "finishing"]
  /\ games' = [games EXCEPT ![act[a].game] = MaybeSaveGame(@)]
  /\ UNCHANGED <<jniVars, ctl>>

QuitNo(a) ==
  /\ ~aborted
  /\ Running(a)
  /\ act[a].dialog = "quit"
  /\ act' = [act EXCEPT ![a].dialog = "none"]
  /\ UNCHANGED <<jniVars, ctl, games>>

(* onDestroy of a finished activity, some time after finish().             *)
Destroy(a) ==
  /\ ~aborted
  /\ act[a].life = "finishing"
  /\ act' = [act EXCEPT ![a].life = "destroyed"]
  /\ ctl' = [ctl EXCEPT ![a] = SendInput(@, DestroyCommand)]
  /\ UNCHANGED <<jniVars, games>>

(* A rotation: onSaveInstanceState and onDestroy of the old activity, then *)
(* onCreate of the new one with the saved state.  Any mNextPlayer but      *)
(* BLACK is saved as WHITE, a saved 0 undos is taken for a missing value,  *)
(* and mInstanceId is saved whatever it is.                                *)
Rotate(a) ==
  \E b \in Callers :
    LET next == IF act[a].next = "BLACK" THEN "BLACK" ELSE "WHITE"
        undos == IF act[a].undos = 0 THEN MaxUndos ELSE act[a].undos
        board == GameOf(a).initial
    IN /\ ~aborted
       /\ Running(a)
       /\ Situation(a) \in RotateWhen
       /\ act[b].life = "none"
       /\ \A c \in Callers : c < b => c \in Created
       /\ act' = [act EXCEPT
            ![a].life = "destroyed", ![a].dialog = "none",
            ![b] = NewActivity(act[a].game, next, undos, board, act[a].dialog)]
       /\ ctl' = [ctl EXCEPT
            ![a] = SendInput(@, DestroyCommand),
            ![b] = SendInput(@, StartCommand(ctl[a].instance, board, next))]
       /\ UNCHANGED <<jniVars, games>>

-----------------------------------------------------------------------------
ControllerStep(a) ==
  \/ CallEngine(a) /\ UNCHANGED <<act, games>>
  \/ PostResult(a) /\ UNCHANGED <<act, games>>
  \/ DoDestroy(a) /\ UNCHANGED <<act, games>>

UserStep(a) ==
  \/ HumanPlay(a) \/ PromoteClick(a) \/ PromoteCancel(a)
  \/ UndoMenu(a) \/ TryQuit(a) \/ QuitYes(a) \/ QuitNo(a) \/ Rotate(a)

InitializeStep == ~aborted /\ Initialize /\ UNCHANGED <<ctl, act, games>>

Next ==
  \/ InitializeStep
  \/ Launch
  \/ \E a \in Callers :
       ControllerStep(a) \/ HandleResult(a) \/ UserStep(a) \/ Destroy(a)

Spec == Init /\ [][Next]_vars

(* The threads and the main looper run; the user need not do anything.     *)
(* A search ends: iterate() stops at its depth and time limits.            *)
Fairness ==
  \A a \in Callers : WF_vars(ControllerStep(a)) /\ WF_vars(HandleResult(a))

FairSpec == Spec /\ Fairness

-----------------------------------------------------------------------------
(* Correctness.                                                            *)

(* Requests of activity a that it has not seen the result of.              *)
Outstanding(a) ==
  Len(ctl[a].outq) + Cardinality({i \in 1..Len(ctl[a].inq) : ctl[a].inq[i] # DestroyCommand})
    + (IF ctl[a].current = NoCommand THEN 0 ELSE 1)

Settled(a) == Running(a) /\ act[a].state # "null" /\ Outstanding(a) = 0

(* The values of all variables stay in their domains (the fields of the    *)
(* Java classes and the static variables of shogi_jni.c).                  *)
TypeOK ==
  /\ JNITypeOK
  /\ ControllerTypeOK
  /\ act \in [Callers -> Activity]
  /\ games \in [Callers -> Game]

(* Requests and results never overtake each other because GameActivity     *)
(* keeps at most one under way: whoever may act next has seen the result   *)
(* of everything that was asked before.                                    *)
OneRequestAtATime ==
  \A a \in Callers : Running(a) =>
    /\ Outstanding(a) <= 1
    /\ IsHuman(a, act[a].touch) => Outstanding(a) = 0 \/ act[a].next = "INVALID"

(* When nothing is under way and the engine has been able to start a game, *)
(* what the activity keeps (mPlays, mBoard, mNextPlayer, mGameState) is    *)
(* what the engine has on its root position.                               *)
SettledAgreesWithEngine ==
  \A a \in Callers : Settled(a) /\ g_instance_id > 0 =>
    /\ Bare(GameOf(a).plays) = tree.plays
    /\ act[a].board = tree.plays
    /\ (act[a].state = "ACTIVE") = (tree.status = {})
    /\ act[a].state = "ACTIVE" =>
         act[a].next = (IF act[a].dialog = "promote" THEN "INVALID" ELSE tree.turn)

(* "Even (resp. odd) entries are moves by the black (resp. white) player"  *)
(* (GameActivity.java, mPlays; Java counts from 0).                        *)
EvenEntriesAreBlack ==
  \A g \in Callers : \A i \in DOMAIN games[g].plays :
    games[g].plays[i].by = (IF i % 2 = 1 THEN "BLACK" ELSE "WHITE")

(* "cookie1 must be the last move made in the game ... cookie2 ... must be *)
(* the penultimate move" (BonanzaJNI.java, undo): the engine never unmakes *)
(* another move than its last, nor one of before the game.                 *)
UndoTakesTheLastMoves == tree.intact

(* com_turn_start asserts that the game has not ended (utility.c).         *)
NoSearchAfterTheEnd ==
  \A a \in Callers :
    /\ ctl[a].inq # <<>>
    /\ Head(ctl[a].inq).command = "COMPUTER_PLAY"
    /\ ctl[a].current = NoCommand /\ ~ctl[a].quit
    /\ ctl[a].instance = g_instance_id
    => tree.status = {}

(* A finished game that may be saved has been handed to saveLogInMemory,   *)
(* with every play of it.                                                  *)
FinishedGameIsSaved ==
  \A a \in Callers :
    /\ act[a].state \in GameStates \ {"ACTIVE"}
    /\ ~GameOf(a).replaying
    /\ GameOf(a).humans # {}
    => Bare(GameOf(a).plays) \in GameOf(a).saved

(* An instance ID names one game: two activities that hold the same one    *)
(* are the same game before and after a rotation, so that none of them can *)
(* play a move in a game of the other's.                                   *)
InstancesNameGames ==
  \A a, b \in Callers :
    ctl[a].instance = ctl[b].instance /\ ctl[a].instance > 0
      => act[a].game = act[b].game

(* Why that is so.  A controller holds an instance ID from the moment a     *)
(* queued START asks to resume it, while the result of START is on its way, *)
(* and once mInstanceId is set.                                            *)
IdsOf(k, result) ==
  {k.instance}
    \cup (IF k.current.command = "START" THEN {result.instance} ELSE {})
    \cup {k.inq[i].resume : i \in {j \in 1..Len(k.inq) : k.inq[j].command = "START"}}

HeldBy(c) == IdsOf(ctl[c], jr[c])

(* No one holds an ID that was not given out yet, so that the next game's  *)
(* is new; an ID is only passed on along the activities of one game; what  *)
(* was not created holds nothing; no result waits without a command.       *)
InstanceInv ==
  /\ \A c \in Callers : \A n \in HeldBy(c) : n <= g_instance_id
  /\ \A a, b \in Callers : \A n \in HeldBy(a) \cap HeldBy(b) :
       n > 0 => act[a].game = act[b].game
  /\ \A c \in Callers : act[c].life = "none" => ctl[c] = NewController
  /\ \A c \in Callers : ctl[c].current = NoCommand => jr[c] = NoResult

(* The results a has not handled: those posted, then that of the call its   *)
(* controller has just made, unless the call was refused.                  *)
ResultsUnderWay(a) ==
  ctl[a].outq \o
    (IF ctl[a].current = NoCommand \/ jr[a].status = "INSTANCE_DELETED" THEN <<>>
     ELSE <<ReplyTo(ctl[a].current, jr[a])>>)

(* Once the game of the running activity has started, the engine plays that *)
(* game and no other, also while something is under way: its position is   *)
(* made of the plays of mPlays and of the one result that is on its way.   *)
(* Requests that activities of other games left in their queues, and       *)
(* results they still get, make no difference whenever they are executed.  *)
EngineFollowsTheRunningGame ==
  \A a \in Callers : Running(a) /\ act[a].state # "null" /\ g_instance_id > 0 =>
    LET results == ResultsUnderWay(a) IN
    /\ Len(results) <= 1
    /\ tree.plays = Bare(IF results = <<>> THEN GameOf(a).plays
                         ELSE PlaysAfter(GameOf(a).plays, Head(results)))

(* Waiting ends: unless the game is left, is over, or a dialog is open,    *)
(* the user gets the turn back after every request.                        *)
Waiting(a) == Visible(a) /\ act[a].state \in {"null", "ACTIVE"} /\ ~IsHuman(a, act[a].touch)
TurnComesBack ==
  \A a \in Callers : Waiting(a) ~> ~Waiting(a)

(* The game the newest activity shows, as ShogiGame sees it.               *)
Newest == CHOOSE a \in Created \cup {1} : \A b \in Created : b <= a

Session == INSTANCE ShogiGame WITH
  Openings <- SavedGames \cup {<<>>},
  log <- Bare(games[act[Newest].game].plays),
  over <- act[Newest].state \notin {"null", "ACTIVE"}

(* Whatever the threads do, the plays a user sees are a game of shogi:     *)
(* sides in turn, plays taken back in pairs, nothing after the end.        *)
SessionIsAGame == Session!Spec
=============================================================================
