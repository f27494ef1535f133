# A TLA+ model of AndroidShogi

AndroidShogi is an Android shogi program: Java activities (`src/src/com/ysaito/shogi`)
on top of the Bonanza engine (`src/jni`), reached over JNI.  This directory holds a
model of it: TLA+ modules translated from the code, TLC configurations that check
them, and proofs that TLAPS checks.

## 1. The system

| part | state it keeps | operations | talks to |
|---|---|---|---|
| `StartScreenActivity`, `StartGameDialog` | handicap, preferences | start a new game, initialise the engine in a thread | starts `GameActivity`, calls `BonanzaJNI.initialize` |
| `GameActivity` | next player, game state, board, `mPlays`/`mMoveCookies`, undos left, saved promotion | touch, promotion dialog, undo menu, quit dialog, lifecycle callbacks, results of the controller | `BonanzaController` (calls; messages back), `BoardView` (calls; callbacks), `GameLogListManager` (AsyncTask) |
| `BoardView` | `mCurrentPlayer`, board, piece being moved | touch events, `update` | callback `onHumanPlay` |
| `BonanzaController` | message queue of a HandlerThread, `mInstanceId` | start, humanPlay, computerMove, undo2, destroy | the native interface (synchronous), the activity's handler (messages) |
| `shogi_jni.c` | `g_lock`, `g_instance_id`, `g_initialized`, `g_initialization_error` | initialize, startGame, humanMove, computerMove, undo | the engine, under `g_lock` |
| engine, root position (`makemove.c`, `utility.c`, `csa.c`) | board, turn, repetition table, consecutive checks, material, last principal variation, `game_status` | `ini_game`, `make_move_root`, `unmake_move_root`, `com_turn_start` | `shogi_jni.c` |
| engine, board (`makemove.c`, `unmake.c`, `attack.c`, `valid.c`, `ini.c`) | `posi_t`: the squares, and a dozen copies of the same facts as bitboards, hash key, material | `make_move`, `unmake_move`, attacks, pins, `is_move_valid` | everything below |
| engine, move generators (`gencap.c`, `gennocap.c`, `gendrop.c`, `genevasn.c`, `movgenex.c`) | | one generator per kind of move, for each side | the board |
| engine, checks and mates (`genchk.c`, `mate1ply.c`, `mate3.c`) | | checks, mate in one, mate in three | the generators, the board |
| engine, search (`iterate.c`, `searchr.c`, `search.c`, `quiesrch.c`, `next.c`, `root.c`) | `tree_t` per ply, killers, history, `root_alpha`/`beta`/`value`, `last_pv` | `iterate` | generators, mate solvers, the tables; leaves `last_pv` to the root position |
| engine, tables (`hash.c`) | transposition table, rejections | `hash_store`, `hash_probe`, `add_rejections`, `sub_rejections` | the search; outlives searches and games |
| engine, evaluation and book (`evaluate.c`, `swap.c`, `book.c`) | weights and book read from files | `evaluate`, `swap`, `book_probe` | the search |
| `GameLogListManager`, `GameLogListActivity` | summary file, log files on the SD card, trash, undo tokens | list, save, delete, undo of a deletion | files; called from several AsyncTasks |
| `ReplayGameActivity` | a log, the number of plays shown | seek, resume as a game | starts `GameActivity` |
| `GenericListActivity`, `Optus*`, `ExternalCacheManager` | lists fetched in the background, a cache directory | fetch, show, expire | the network, files |
| `GameLog`, `Play`, `Board`, `OptusParser` | values | parsing, writing, packing | |

What is hard here: every `GameActivity` has its own thread and queue, but there is one
engine; a screen rotation replaces the activity while requests are under way, and the old and
the new object share the lists of plays; results are delivered to activities that are already
destroyed; several AsyncTasks rewrite one file; the engine's root position keeps one level of
saved values and is asked to go back two.  In the engine every fact about the board is kept many
times over and updated by hand, most functions exist twice, once for each side; the search keeps
state per ply that outlives the calls, its table answers for positions it was not asked about, and a signal
ends it anywhere.  `PROJECT.json` lists every such hazard at its line.

What makes each part correct:

* session: activity and engine agree whenever nothing is under way; one request at a time; the
  user gets the turn back; what is seen is a game of shogi; a finished game is saved;
* native interface: an instance ID names one game; a stranger's request changes nothing; no
  search after the end; undo takes back the last moves;
* root position: repetition is detected at the fourth occurrence whatever was taken back,
  and make followed by unmake restores everything;
* board: the copies agree after any moves made and taken back;
* generators and mate solvers: exactly the legal moves, every check, no mate that is none;
* search and tables: a value is one its position can have, whatever was pruned, looked up or
  interrupted; the move that is played is backed by a line; nothing is left behind;
* saved games: no saved log is lost, a deletion can be undone, a torn file loses nothing;
* replay, lists, cache: what is shown is what was asked for last.

## 2. Modules

| module | models | variables |
|---|---|---|
| `BonanzaJNI` | `shogi_jni.c`, and the root position as the session sees it | `g_init`, `g_instance_id`, `tree`, `jr`, `aborted` |
| `BonanzaController` | `BonanzaController.java`: queues, thread, `Result.fromJNI` | `ctl` |
| `GameActivity` | `GameActivity.java` and the session around it; composes the two above; the refinement `Session` | `act`, `games` |
| `ShogiGame` | abstract specification of a session | `log`, `over` |
| `MCGameActivity` | instances for TLC | |
| `RootPosition` | the engine's root position: `makemove.c`, `utility.c`, the root move list of `root.c`; implements the `tree` of `BonanzaJNI` | `root`, `cookies`, `outcome`, `undone` |
| `MCRootPosition` | graphs of positions for TLC | |
| `GameLogListManager` | the saved games: `GameLogListManager.java` and the tasks that call it | `summaryFile`, `card`, `trash`, `clock`, `task`, `lock`, `shown`, `fresh`, `tokens`; history: `library`, `crashed` |
| `MCGameLogListManager` | instances for TLC | |
| `Bitboards` | squares, pieces, lines, attack tables of `ini.c` and `shogi.h` | |
| `Position` | `posi_t` with its copies, `make_move`, `unmake_move`, `attack.c`, `is_move_valid`, `exam_bb` | |
| `MoveGen` | the generators | |
| `ShogiRules` | the rules of shogi on an array of squares: the abstract specification of the generators | |
| `Moves` | a walk that makes moves and takes them back; composes `Position`, `MoveGen`, `ShogiRules` | `start`, `pos`, `turn`, `line`, `seen` |
| `Checks` | `genchk.c`, `is_move_check_b/w` of `search.c` | |
| `Mates` | `mate1ply.c` | |
| `MateSearch` | `mate3.c` | |
| `CheckingMoves` | what `Checks` promises; composes it with `Moves` | |
| `MatingMoves` | what `Mates` promises, on top of `CheckingMoves` | |
| `Solvers` | what `MateSearch` promises, on top of `MatingMoves` | |
| `MCMoves` | positions for TLC | |
| `TransTable` | the transposition table of `hash.c`, `is_hand_eq_supe` | |
| `Search` | `iterate`, `searchr`, `search`, `search_quies`, `gen_next_move`, the root list, rejections | `stack`, `ret`, `t`, `g` |
| `SearchValues` | the abstract specification of the search: what a position can be worth | |
| `MCSearch` | a game to search for TLC | |
| `SessionProofs` | theorems about the session | |
| `RootProofs` | theorems about the root position | |
| `LogProofs` | theorems about the saved games | |
| `RulesProofs`, `LegalProofs` | theorems about the board, the generators and the rules | |
| `CheckProofs` | theorems about the moves that give check, and the mates that are announced | |
| `MateProofs` | theorems about the mates that must be announced | |
| `TransTableProofs` | theorems about the transposition table | |

### The session

One `GameActivity` object is a number `1..NActivities`, in the order of creation; it is the
caller of its own controller.  A game is named after the activity that launched it: a rotation
creates a new activity for the same game.  `mPlays` and `mMoveCookies` belong to the game
(`games[g].plays`) because the Bundle of a rotation is handed over within the process, without
serialisation, and both objects then hold the same lists.

A step is what one thread does before another can see it.  Callbacks of the main thread are one
step each (`HumanPlay`, `PromoteClick`, `PromoteCancel`, `UndoMenu`, `TryQuit`, `QuitYes`,
`QuitNo`, `HandleResult`, `Destroy`, `Rotate`, `Launch`).  The controller thread makes two:
`CallEngine` takes the next command and makes the native call, atomic because of `g_lock`;
`PostResult` uses what it returned.  Between them any other activity may call the engine.
`DoDestroy` quits the looper, and drops what is queued.

The position is the sequence of plays since the handicap position.  The rules of shogi are a
choice: the engine accepts or refuses a move of the side to move, and a move may mate or draw.
Cookies are the moves themselves; a resumed play has no cookie.  A board that was wrecked by
`unmake_move_root` with a wrong argument is remembered by `tree.intact = FALSE` only.

The environment is switched by constants: who plays (`PlayerTypes`, a set of the sets of human
sides a game may be started with), when the user may rotate (`RotateWhen`) or leave
(`LeaveWhen`), whether a touch may come between an undo and its result (`TouchDuringUndo`), whether
initialisation may fail (`InitMayFail`), which saved positions are mated (`MatedBoards`).  The
passing runs state what the code guarantees while the user keeps out of the races that the
violation runs show.

### The root position

`RootPosition` looks inside the `tree` of the session: the board, the turn, the hash key, the repetition
table `rep` with its `root_nrep`, the counters of consecutive checks (`nsuc_check`), `MATERIAL`,
`last_pv` and `game_status`, with the *one* saved level of each that `make_move_root` keeps.
The rules of shogi are a graph of positions given by a constant: a move is an edge with a
mover; `Checks` and `Material` label the positions; `b_gen_evasion` and `is_mate` are sets
of edges.  A hash key stands for its position (a collision is not modelled), and a key read outside of
`rep_board_list` is `Garbage`.  Actions are the native calls: `HumanMove`, `ComputerMove`
(the search chooses any root move, and any answer for the second move of the line it leaves in
`last_pv`) and `Undo` (two calls of `unmake_move_root`).  `DetectRepetition` keeps the indices of
the C code: which entries are compared, from which one, and how consecutive checks are counted.
Calls on a finished game are not part of this model: `BonanzaController` gives the turn to nobody then.

`RootIsTheTree` says that this module implements what `BonanzaJNI` assumes of the engine: a step
either makes a move on the `tree` of the session, takes two back, or changes nothing.

### The saved games

A log stands for its digest, the key of the summary's map and the name of its file.  An entry of
the summary is a log with or without a `path` (`sd`).  Each background task goes through the phases of
its method: `queued`, then what it does to the log's file (`WriteKif`, `MoveToTrash`, `MoveBack`,
`CannotMove`, `NoFileToMove`), `read` and change of its own copy of the list (`ChangeList`), truncation of
the summary (`OpenSummary`) and the write (`WriteSummary`), which also evicts old logs from memory and
ends the task.  `lock` is the monitor of the singleton; only the `synchronized` methods
take it.  A summary that is truncated reads as an empty list, as `readSummary` returns one after any
exception.  `card` holds each file's time of modification, which the scan compares with the time of
the last scan; `Granularity` rounds it.  `library` is a history variable: the logs
a user is entitled to see; it loses a log by a deletion, by an eviction, or if the process dies while
the summary is truncated and the log has no file.

A `.kif` file is assumed to parse back to the digest it is named after.  That is so for games
without handicap only: `GameLog.toKif` replays the plays on a board without handicap, Black first,
and `doParseKif` reads them in the same way, so handicap games are left out here and planned with
`GameLog`.

### The board, the generators and the mate solvers

These modules have the real board of 81 squares and all the pieces.  A bitboard is the set of its squares;
the three words and the rotated copies keep their meaning (which squares, in which
copy) but not their bits.  A hash key is the set of the random numbers that were xored into it.  A
generator is the set of moves it writes.  A definition takes the side to move `c` where the source has
a half for Black and one for White; each white half was read against the black one, and
is the black one turned by 180 degrees.

`make_move` and `unmake_move` update every copy as the code does: the sets per piece and side, the
unions (golds, bishop and horse, rook and dragon, ...), the squares attacked by pawns, the occupancies plain and
rotated, the kings, `MATERIAL`, the key.  `exam_bb` is the check `debug.c` makes of them.
`Moves` walks as the search does: `Make` a generated move, go on unless the own king is left in check,
`UnMake` it.

The solvers of mate in one return the first mate they meet; the model has the set of all they
would accept.  `mate3.c` stops at the first check that mates, and is a recursion of two levels here.

### The search

`Search` makes the recursion of C a stack: a frame is a call of `search` that has not returned, and a
step is what a call does up to its next call or its return (`NullWindowReturns`, `IidReturns`,
`Settle`, ...).  What C keeps in `tree_t` per ply, and what a call therefore finds as another
left it (`cur`, `amove_hash`, killers, the principal variation, the state of `gen_next_move`),
is in `t`; the state of `iterate` and `searchr` is in `g`.  The control is complete: null move and mate threat, internal
deepening, extensions, futility, late move reduction, re-searches, aspiration, the table
and its side effects, killers and history, the signals that end a search.  The rules of shogi, the
evaluation, what `swap` says of a capture and what the mate solvers find are constants.  `SearchQuies` and the
choice of the next move are operators.

Two choices of the code are left open.  Quiet moves are sorted by history with ties in the order
the sort leaves them: the model keeps the order of the list.  The killers' values are compared
where they decide a move's stage only.

`TransTable` keeps of an entry all fields but its signature: one thread writes the table.

## 3. Runs

`CHECK_DEADLOCK FALSE` but for `search`: the app really stops when its last activity is left, a game
ends, and the bound on tasks is reached; a walk over the board stops at its depth.

### Session (`MCGameActivity`)

`m1` is a move on the board, `d1` a drop; `NActivities`, `MaxPlies` (a move that makes the game
this long ends it) and `MaxUndos` bound a run.  Two moves suffice to tell a move on the board,
its promotion and a drop apart; five plies allow two undos of two plies each after a
resumed play and an end of the game after them.

| run | instance | shows |
|---|---|---|
| `session` | one game with every assignment of people and engine to the sides (chosen at the launch), 5 plies, 2 undos, a saved game to resume; fairness | agreement with the engine, turns, undos, saving, the refinement of `ShogiGame`, the turn comes back |
| `activities` | three activities for one or more games: rotation while idle, a new game after one was left, initialisation that may fail; the drop only, 2 plies, no undos | an instance ID names one game (`InstancesNameGames`), the engine plays the game on the screen, at most one result ahead of its plays, whatever requests and results of games that were left are still under way (`EngineFollowsTheRunningGame`) |

Violation runs, one property each; each is a finding:

| run | property | what happens |
|---|---|---|
| `rotate_busy` | `EvenEntriesAreBlack` | a rotation while a request is under way saves `INVALID` as White, the late result is added to the shared list |
| `touch_during_undo` | `UndoTakesTheLastMoves` | `BoardView` takes touches while an undo is under way |
| `leave_at_start` | `TurnComesBack` | the START of a game that was left displaces the new game, whose controller quits silently |

An idle rotation is safe only without undos (`MaxUndos = 0` in `activities`): an undo, or leaving
through a restored quit dialog (the situation `"quitting"`, which no passing run allows before the
START is over), while the START of the new activity is under way runs into the races of
`touch_during_undo` and `leave_at_start`.

### Root position (`MCRootPosition`)

The graph is a cycle of four plies in which Black chooses, in two of the positions, between a
check and a quiet move; White may answer one check with a check, to which every answer is a check; there are a mate and a move that leaves
the king in check.  So the root list is emptied where that answer repeats, and every mixture of checks and quiet moves between four occurrences of a
position exists.  The cycle's positions occur for the fourth time at ply 16 at the latest, so
`MaxPlies = 20` cuts nothing off and `RepLimit = 207`, the value of the code, is
not reached there; `root_undo` has `RepLimit = 4`, so that positions are forgotten and then
moves are taken back.

| run | instance | shows |
|---|---|---|
| `root_rules` | Black by a person or the engine, no undo | a draw exactly at the fourth occurrence, perpetual checks refused and only they, the engine gives up only where every legal move is a check that repeats a position for the third time (`GivesUpOnlyOnRepeatedChecks`), the reported move is the one made |
| `root_undo` | a graph with captures, White by the engine, 2 undos, 16 plies, a table of 4 positions | board, table and hash key go back with the game; refinement of the session's `tree` |
| `root_undo_material` | the same graph, 1 undo, 6 plies: **violation** of `MaterialIsRight` | two captures taken back restore the `MATERIAL` between them, since `save_material[0]` holds one level |

### Saved games (`MCGameLogListManager`)

| run | instance | shows |
|---|---|---|
| `logs_calm` | two logs, one of which fits in memory, five tasks, two times, one death of the process at any moment; the user waits for a task and its listing | no log is lost, deleted logs stay away, files and entries agree, deletions can be undone |
| `logs_hasty` | three tasks, no waiting, no death: **violation** of `NoLogIsLost` | a listing overlaps `saveLogInMemory`, which is not synchronized, and overwrites the saved log |

Two logs and a limit of one make an eviction; five tasks are save, list, save to the card (or delete),
list, undo; two times distinguish a file older than a scan from one of the same moment.

### Board, generators, solvers (`MCMoves`)

`board` starts from 155 positions: the opening, up to 100 with 2 to 26 pieces scattered by a linear congruence,
up to 300 with a piece lined up between a king and a slider behind it (those where both kings are on
the board and the side that moved is not in check are kept), 6 with few
pieces from which walks go two moves deep (`Depth`), and 8 composed ones for what chance seldom brings: a
pinned piece that could take a dropped pawn, a pawn that shuts the line it is guarded along, a double check, a
knight's check, a mate by discovered check only. 8 751 distinct states, about two minutes.
All is decided by the neighbourhood of two kings and the lines through them, which is why lined up positions are the larger part; with no walks deeper than two
the copies are compared after four updates at most, and every update is a function of the position.

| property | says |
|---|---|
| `CopiesAgree` | what `exam_bb` asserts: all copies say the same, no piece is lost |
| `TakenBackIsRestored` | `unmake_move` undoes `make_move`, including key and material |
| `GeneratorsFindTheLegalMoves` | the generators write the moves of `ShogiRules`, evasions need no further test, a pawn may not be dropped to mate |
| `RememberedMovesAreChecked` | `is_move_valid` accepts a move from another position only where it may be played |
| `ChecksAreFound` | `genchk.c` finds every check but the named kinds, and only checks |
| `ChecksAreRecognised` | `is_move_check_b/w` knows before the move |
| `MatingMovesMate`, `ContactMatesAreFound` | mate in one: only mates, and one whenever there is one by a piece that gives check from next to the king or as a knight |
| `MateAnswersStandForAll`, `MateInThreeIsKept` | mate in three: the answers tried stand for all, a mate that is found stays one |

### Search (`MCSearch`)

`search` searches two positions after each other, as two turns of the computer in one game do, so that the table, the
killers, `last_pv` and the rejections are those the first left.  The game is a graph of ten layers with
eight ordinary boards, a mated one and one on the forced way there, each for either side holding the pawn that can
be dropped and taken: captures, drops, checks, moves that leave the king in check, declined promotions, transpositions, passes.
The keys collide in rows of the table (five rows), so that entries are displaced.
`depth_limit = 4` iterations, `PLY_MAX = 7`, `QUIES_PLY_LIMIT = 2`.
`REJEC_MIN_DEPTH = 12` (of 8 per ply) lets rejections happen in so shallow a search.  At every fourth node (`Signals`) the
search may be told to stop.  12 494 distinct states; every action of the search fires.

| property | says |
|---|---|
| `ValuesAreTrue` | a value that `search` or `search_quies` returns lies between the least and the most its position can be worth (`Worth`), within the window |
| `TableIsTrue` | `hash_probe` gives no false answer for any hand, turn and window on a stored board |
| `AnswerIsBacked` | the move that is played starts a legal line, and its value is one the line and the root can have, even after a stop |
| `EachMoveIsTriedOnce` | where no cut-off ends it, the loop got every move once |
| `LeavesNoTrace` | all rejections are taken back |

`Worth` does not say what alpha-beta should return at a depth: extensions, reductions and the table make that
depend on the history of the search.  It says what no such decision may exceed: a line may stop anywhere with
its evaluation, or go on with any legal move, and mates are counted.  Three assumptions, which TLC evaluates on the graph, say what the pruning takes
from shogi: more in hand is worth no less and a pass no more than a move; `eval_max_score` bounds what a move gains; lines end.

That each search ends with an answer is checked as the absence of a deadlock: the number of nodes grows with every
search step and the graph is finite, so the only final states are those of `Answered`.

### Seen while modelling, without a run of its own

* `startGame` overwrites its error status with `R_OK` (`shogi_jni.c`), so that a failed
  initialisation is not reported, unlike what `BonanzaJNI.initialize` promises.
* A rotation with no undos left restores all of them: `initializeLong` takes the 0 in the Bundle for
  a missing value and reads the preference.
* The root list drops checks that `make_move_root` would still accept, since it counts one occurrence fewer
  (`root.c:91`), and keeps none if all are such: then `iterate.c:239` reports "No legal moves to search" and
  `computerMove` aborts the app although there is a legal move.  In the graph of `root_rules` a game gets there after
  ten plies; what the engine may give up on is `GivesUpOnlyOnRepeatedChecks`, that it never does with a legal move
  left is false.
* A rotation before the START was executed resumes the instance -1 and starts a new game under the plays of the old
  one (`GameActivity.java:233`): `EngineFollowsTheRunningGame` fails in the instance of `activities` with `"starting"` in `RotateWhen`.
* After an undo `nsuc_check` is one level off, so a perpetual check can be drawn:
  `NoDrawByPerpetualCheck` fails in the instance of `root_rules` with `MaxUndos = 1`.
* `root_nrep` goes down for every move that is taken back, also for those the full table has forgotten;
  in a game of more than 207 plies it becomes negative after the 104th undo in a row.  `TableIsHistory` fails
  with `RepLimit` below `MaxPlies` and below `2 * MaxUndos`.
* With `Granularity = 2`, as on cards that keep seconds, a file saved in the second of a scan is not
  listed before a reload.
* With `Rematches = TRUE` a game whose log equals one on the card replaces its entry in the list by one
  that is only in memory.
* Resuming a saved position that is mate starts a search: `startGame` (`shogi_jni.c:367`) does not look for it, the
  assertion of `utility.c:457` is compiled out (`NoSearchAfterTheEnd` fails with such a position in `MatedBoards`).
* `genchk.c:405`: checks by a lance that shields its own slider are flagged as promotions wherever they end.
  `genchk.c` omits pawns that open a line by a capture or along a rank, and declined promotions;
  `ChecksAreFound` names both exceptions.
* `next.c:104` reads `psortv[n - 1]` also when there is neither a capture nor a killer and `n` is 0.
* `hash.c:1025` packs `ply << 1` and the turn below bit 6: from ply 32 on the ply spoils the hand.
* `hash.c:136` moves a displaced entry aside only if both hand and key differ, so an entry with the same hand is
  dropped; one with no key, if Black has something in hand, overwrites `always[0]`.
* `iterate.c:165` reuses the line of the last search two plies later, with the value of a mate not shifted.
* An entry of the other side to move counts a mate one ply too near.
* `clear_trans_table` is called by `ini_trans_table` only: entries survive from game to game, and age by search.

### Fairness

`FairSpec` assumes weak fairness of every controller's step and of every activity's
`HandleResult`: the looper threads run, and a search ends (the run `search`).  Nothing is assumed of the user: `TurnComesBack` speaks of requests the program
makes, and holds although the user may do nothing.  The root position and the saved games are checked for
safety only: their operations are called by the session's threads, and they wait for nobody but for
the monitor, whose holder never waits.

## 4. Proofs

The theorems hold for every value of the constants that the assumption of the module allows
(`JNIAssumption`, `ActivityAssumption`, `RootAssumption`, `LogsAssumption`, `MovesAssumption`,
`TransTableAssumption`); what a theorem needs beyond them is a hypothesis in its statement, and is named here.

### The session

`SessionProofs!TypeCorrect` is `Spec => []TypeOK`, with one lemma per native call and controller step.

It proves `InstancesNameGames` for any use of the program.  That is not
inductive: `mInstanceId` is set from a result that is on its way, which comes from a START that is
queued.  `InstanceInv` therefore speaks of all the IDs a controller holds in these three places
(`HeldBy`), bounds them by `g_instance_id` so that the next ID is new, and says that an activity that
was not created holds nothing.  The proof follows the flow of an ID: `Rotate` passes the old
controller's ID to a START of the same game, `CallEngine` moves it from the queue to the
result, `PostResult` to the field.

`SessionProofs` proves what the run `session` checks, for any number of activities, plies and undos and an
initialisation that may fail, under the hypothesis `CalmUse`: no touch comes between an undo and its result, a game is
not left before it has started, the screen is rotated only on the user's turn and only if undo is switched off, resumed games alternate and are not over.
Without it the properties are false: that is what the violation runs show.  `SessionInv` has three parts.

* Of each activity: at most one request is queued, in a native call or answered (`QueueInv`), which is why nothing overtakes; it fits
  the game it was made for, and so does its answer (`RequestInv`); the user is asked only when it is the user's turn and nothing is under way (`UserInv`).
* Of the owner of the engine's game: while an answer is on its way, the engine has what the lists of the activity will have once it is handled;
  otherwise they are equal (`AgreesWith`).  The owner is found by the instance ID the activity goes by (`IdOf`), which is in
  a queued START, in its result or in the controller; hence `InstanceInv`.  This is `TheRunningGameIsFollowed`: the running
  activity is the owner once a game has started, and one thing at most is under way to it.
* Of all: only the last activity runs, each game's plays alternate, the engine's board is intact.

`OneRequestAtATime`, `SettledAgreesWithEngine`, `EvenEntriesAreBlack`, `UndoTakesTheLastMoves`,
`NoSearchAfterTheEnd` and `FinishedGameIsSaved` follow, and `NothingIsThrown`: no `CHECK` of the native code and no
exception of the controller ends the program.

`TheSessionIsAGame` is the refinement `GameActivity => ShogiGame`, step by step: the abstract
log is that of the newest activity, which exists because activities are numbered without gaps;
each result it handles is a play, a pair of plays taken back, or nothing; all other steps stutter.

### The root position

`RootProofs` is about every graph of positions, every bound and every
assignment of sides.  `RootTypeCorrect` is type correctness.  `BoardAlwaysFollowsTheGame` is inductive
with the types (`FollowInv`): the cookies form a path in the graph that ends on the board.
`TableAlwaysHistory` (`TableInv`) adds that the table holds the last positions of that path; it needs
`MaxPlies <= RepLimit \/ 2 * MaxUndos <= RepLimit`, since a table that has forgotten positions does not
get them back, and `root_nrep` falls by two with every undo: the hypothesis names the limit of the code.  `RootAlwaysTheTree` is the refinement:
`MadeIsMake` and `UndoneIsUnmake` show that `Made` and two `UnmakeMoveRoot`s are, through the
mapping `TreeOf`, the operators of `BonanzaJNI`.  `TheMadeMoveIsReported` is `ReportedMoveIsMade`.

The rules of repetition are proved for games that fit into the table (`MaxPlies <= RepLimit`, 207 in the code).

* `GamesAreDrawnAtTheFourth`: a game is over by repetition exactly when its last position has occurred four
  times.  `detect_repetition` compares every second entry, from the fourth before the last on: it would miss an occurrence two
  plies ago.  The hypothesis `NothingIsMovedBack` excludes that: a piece that was just moved or dropped is
  still there after one reply, so no two plies lead back.
* `OnlyPerpetualChecksAreRefused` and `PerpetualChecksDrawNoGame` need `MaxUndos = 0`: `unmake_move_root`
  restores `nsuc_check` from one saved level, and undo calls it twice.  `CheckInv` says that every ply
  that is counted in a row was a check, the invariant of the second theorem (`RowsAreCounted`) that every check of a row is counted:
  the 8-bit counter does not overflow (`MaxPlies <= 509`).  Occurrences are at least four plies apart,
  so that a row through four of them has the six checks the code asks for.
* `SearchFailsOnlyWithoutAMove`: `make_move_root` never refuses a move that the root list kept
  (`KeptMovesAreAccepted`), since the list was tested by the same function with one occurrence fewer.
  `TheSearchGivesUpOnlyOnRepeatedChecks` says when the list is empty.  One lemma about `detect_repetition`, `PerpetualRightly`, serves
  both counts: it says "perpetual check" for the n-th time only of a check with nothing but checks since the n-th last
  occurrence.

### The saved games

`LogProofs` proves `LogsTypeOK` and, under `CalmUse` (the user waits for a task and its listing, the
card keeps exact times, no two games have the same log), `NoLogIsLost`, `DeletedStaysAway`,
`ListedFilesExist` and `DeletionsCanBeUndone`, for any number of logs and tasks.  The process may die at
any step.  `LogInv` says of each phase of a task where the file of its log is, what its own copy of the list has, and
what the summary, the library and the tokens know.  What a listing would show of the
summary (`VisibleIn`) leaves out entries whose file is gone, since "reload" drops them after a death
between the move of a file and the write of the summary.

### The board

The first part of `RulesProofs` is about any set of starts that `MovesAssumption` allows (one king per side, no pawn or
knight that could never move, the side that moved not in check) and walks of any depth.  `EveryWalk` is the
invariant: each position is `Sane`, has the pieces of the start, and each saved level leads back to the position before it.
A position is sane if its copies are those of the array of squares (`Copies`), its key and its
material are those of the copies, and no pawn or knight is dead.  `TheCopiesAgree` and `AMoveTakenBackIsUndone` follow.
The argument has four steps.

1. Of a move that `Fits`, each copy toggles what the array of squares changes (`MakingKeepsCopies`), and toggling
   the same again restores it (`TakingBackRestores`).  Nothing here depends on the generators.
2. `GeneratedAreGood`: every generated move fits.  It could fail to in one way that no bitboard shows: by taking
   the king, which is not in a bitboard of pieces.  What a piece of the mover reaches it attacks
   (`WhatIsReachedIsAttacked`: knights, golds and lances are looked up from the other end, sliders on rotated boards), and the
   search goes on only if the king of the waiting side is not attacked.  So `EveryMoveFits` needs the guard of `Make`.
3. In check, the drops between king and checker land on empty squares only because nothing
   stands between a piece and what it attacks (`NothingInTheWay`, `BetweenIsEmpty`): the code does not test them.
4. `NoPieceIsLost` and `MaterialFollows` count: a set of squares loses or gains the square of the move, and the
   hand the piece taken or dropped.  `eval_material` is written out, as in the source, so that a sum over pieces needs no recursion.

### The rules

The second part of `RulesProofs` compares the engine with `ShogiRules`, which knows an array of squares, two hands and rays that run until
something is in the way.  It rests on `EveryWalk`: where a side's king is not attacked by the side to move, and the copies agree.

1. *Lines are rays.*  Two squares on a line of the tables of `ini.c` are joined by one ray, and `abb_obstacle` of them
   is what the ray passes (`LinesLead`, `OneLineOnly`, `ObstaclesOnRay`); a line with two ends is two directions.
2. *What a piece reaches is what it hits* (`ReachIsHits`), kind by kind, the lance by the order of squares.
   `is_black_attacked` looks from the square attacked instead; `StrikersReach` turns that round.  With
   `WhatIsReachedIsAttacked` this gives `CheckIsCheckByTheRules`: `InCheck` is check.
3. `MovesByRules` are the moves of the rules, of which the safety of the king is left to the search and a
   mate by a dropped pawn to `IsMatePawnDrop`.  `RememberedMovesAreByTheRules`: a move remembered from an earlier position of the walk, any
   number of moves ago, passes `is_move_valid` exactly if it is among them.  A step can become invalid only by what stands on its
   squares or between them (`HitsElsewhere`), and that is what `is_move_valid` looks at.
4. `GeneratorsFollowTheRules`: out of check the generators make `MovesByRules`, all and no other, each direction generator by
   generator: promotions that `gencap.c` forces and `movgenex.c` declines make up the choice the rules give.
   `GeneratorsFindTheSafeMoves` adds the test after the move.

`LegalProofs` does what this leaves open.  First: a pawn that `attack.c` finds to mate, without dropping it, is one that mates.

1. *What a move opens and shuts.*  A piece hits a square if it aims at it and no square between is taken (`HitsAre`), so what a
   side attacks after a move of the other is told by the squares between (`AttackedAfter`).  `KingSteps`: a king that nothing that
   runs attacks steps to a square that is attacked just if it was before.
2. *Pins.*  `is_pinned_on_white_king` looks from the piece along its line, both ways; `PinnedIs`: it finds the pieces that stand
   alone between their king and an enemy's that runs.  `DiscoverIs`: with a move off the line this opens it.
3. *The pawn.*  Only the pawn gives check (`PawnChecksAlone`: the drop opens nothing), so a drop or a move that does not take it
   leaves the check, a king's step is judged by what the side attacks with the pawn's square taken (`MarkedIsDropped`), and
   a piece that takes the pawn may do so unless `IsDiscover` (`OtherAnswers`).  Pawns and lances, which
   the code leaves out, could take it only from the king's side (`NeitherPawnNorLanceTakes`).  This is `MateIsMate`.

With it `MovesByRules` are the moves of the rules, and `RememberedMovesAreCheckedByTheRules` is the run's `RememberedMovesAreChecked`;
`QuietPositionsAreComplete` is the half of `GeneratorsFindTheLegalMoves` out of check, at any depth of a walk.

In check `genevasn.c` works the other way round: it makes only moves that are safe.

4. *The king.*  The king is lifted off the occupancies to see where it may go: what attacks a square then attacks the king that
   has gone there (`LiftedIsMoved`), so `KingEvades`: its moves are the safe ones.
5. *The others.*  If one piece z gives check, a move is safe exactly if it goes to z or between z and the king and its piece is not
   pinned (`AnswersToOne`); if two do, none is (`AnswersToTwo`).  A lance meets the line of a check on one square at most
   (`LanceLandsOnce`): looking at the nearest only, the code forgets nothing.
6. *Promotions.*  The moves of the rules are told apart by whether they decline a promotion the generators force (`Declines`).
   `AnswersAreSteps`: those of `genevasn.c` decline nothing and are complete; `Ex2Is`: those of `movgenex.c` are the rest.
7. *Two at most.*  `genevasn.c` tells two checkers from one and takes every other number for one.  The inductive invariant
   `SparseInv` says that there are never more: of the pieces that give check after a move one has moved, and one at most was
   uncovered (`MovesCheckTwice`).  This is `NoTripleCheck`, and needs of the start what `Playable` says.

With `EvasionsAre` both halves make `EveryLegalMoveIsFound`, of which `TheGeneratorsFindTheLegalMoves` is the case a run checks.

### Checks

`CheckProofs` is about moves that give check, told without making them, as `search.c` and `genchk.c` do.

1. *What a move sees and what it opens.*  On a square that was not attacked a move of the other side gives check with the
   piece that moved or one it uncovers (`AttackedByMoving`).  The piece is looked at on the board before the move; that
   this makes no difference is `DirectIs`: if the square it left were in its way, it would have attacked the king from there (`RunsThrough`).
2. *Kings.*  `is_move_check_b` tests no king, whose steps could seem to give check; a king that did would stand in check
   itself (`KingsSeeNoKing`), so of legal moves it is right.  This is `EveryCheckIsRecognised`.
3. *Squares to check from.*  `genchk.c` looks from the king: the squares `SeenFrom` which a piece of a kind would see it
   (`SeesFrom`), and for a piece that shields a line the squares off that line (`OpenedIs`).  So `Check` makes the steps that give check
   (`CheckGives`), and each generator's moves are those of its kinds that decline no forced promotion (`GoldsCheck` to
   `PromotedCheck`).  Bishops and rooks that shield a line may go anywhere: a move along it would start from a check (`SlidersOpen`).
4. *Two exceptions.*  Lances that shield a line are promoted wherever they end (`LancesCheck`, the finding at `genchk.c:405`);
   of pawns those are missing that shield a file or rank, or take as they leave a diagonal, and give no check where they
   arrive (`PawnsCheck`, `OnlyOpened`).  With the drops (`DropsCheck`) this is `EveryCheckIsFound`.

### Mate in one

`mate1ply.c` announces a mate without making the move: it lifts the piece off its bitboard and the occupancies, leaves it off, and
asks from where the king is attacked and what could take.  The second half of `CheckProofs` shows that the answer holds after the move,
and `MateProofs` that a mate is found.

1. *What is seen.*  `AsSeen` relates the bitboards that attacks are read off to a board, which need not be that of a
   position.  `LiftedLeaves`: after the lifting they are those of the board without the piece, although board array, hash key and
   material still have it.  `SeenAlike`: an attack on a square does not depend on what stands there, so it is the same before the arrival.
2. *The king* cannot take (`KingCannotTake`: the piece is supported), cannot flee to where it is attacked with itself lifted
   and the square of arrival filled (`KingCannotFlee`), nor along the squares the solver leaves out because the new piece reaches them
   (`KingCannotStep`).  `Covers` says what the latter takes for granted: only the king itself stands between.
3. *The others.*  What could take is pinned (`TakersArePinned`), or another piece gives check too
   (`UncoveredGives`), and nothing can be put between (`OthersCannotAnswer`).  So `SolvedIsMate`; `StepMates` and
   `DropMatesToo` add that the move may be played: the solver's `IsDiscover` keeps its own king safe (`UndiscoveredIsSafe`).
4. *Next to the king.*  That `Covers` holds of the tables the code uses is a matter of the squares around the king: rooks
   beside it, bishops on its diagonals, a promoted rook on a diagonal by what it really attacks, and so on (`RooksBear` to
   `LancesBear`), because between two squares next to the king that are in line only the king can stand (`OnlyTheKingBetween`).

Piece by piece (`DropsMate` to `PawnsMate`) this is `EveryMateAnnouncedIsOne`.  The way back starts from a mate by the rules.

5. *What is asked holds of a mate.*  The mated king's steps are attacked and its defenders' answers are not safe, so the solver, looking at
   the lifted board, sees neither an escape (`KingIsCaught`) nor a taker that is free (`NothingTakes`): `MateIsSolved`, and with it
   `MatingStepPasses` and `MatingDropPasses`.  This needs of the solver's tables the converse of `Covers`: what they leave out of the
   king's steps includes all that the new piece attacks (`Catches`).
6. *Next to the king again.*  Rank and file differences (`Away`), turned for the side, make that a matter of
   small numbers: `StepsCatch`, `SlidersCatch` and `DragonsCatch`.
7. *What is not tried is not the only way.*  The solver tries a subset of squares and promotions, and of the hand the strongest pieces: a mate
   by another is a mate by one it tries too, since a piece that attacks more from the same square mates as well (`DragonComes` to
   `PawnComes`, `DropComes`).  This is `NoContactMateIsMissed`; `TheContactMatesAreFound` is the case the run checks.

### The transposition table

`TransTableProofs` is about the operators of `TransTable`, for every key, hand, ply and table.
`MateDistanceSurvives`, `MateIsLaterDeeper` and `KeptValueFits` say that a mate's distance survives the
shift by the ply, in both directions and within 16 bits.  `HandsAreOrdered`: `is_hand_eq_supe` compares
sums, in which dearer pieces make up for cheaper ones, and is a partial order all the same, so `eval_supe`
takes no entry for better and worse at once.  `KeptResultIsFound`: a result at the preferred place answers the
next probe.  `StoreInventsNothing`: `hash_store` has three ways to write (`ThreeWays`), none of which brings
anything but the new result or touches another row, so that a property of entries, once it holds of every
result that is stored, holds of the table.  That the results have it is the run `search`'s `TableIsTrue`.

### Model-checked only

* `TurnComesBack`: liveness.
* What mate in three promises (`MateAnswersStandForAll`, `MateInThreeIsKept`): `MateSearch` uses `RECURSIVE` operators.
* The search, whose promise `Worth` is a fixed point over the graph (`Search` and `SearchValues` use `RECURSIVE` operators).

## 5. Not modelled

* Session: think times, toasts, drawing and animation; `abort` and `undo1`, which nobody calls; the restoration of
  an activity after the process was killed.
* Root position: hash collisions, the record of the game in a file.
* Saved games: I/O errors other than a missing file, several activities that list at once, handicap games.
* Board: the bits of bitboards and keys.
* Generators and solvers: the order in which moves are written, and which of several mates is returned.
* Search: the evaluation and `swap` are constants; the numbers of the killers, and ties of the sort by
  history; the clock and the node limit, which `Signals` replaces by stops at any of the chosen nodes; repetitions inside a line,
  since a graph without cycles is what makes `Worth` well defined (the rules of repetition are
  checked in `RootPosition`); resignation, which the threshold of 999999 rules out; the parts compiled out
  (`MINIMUM`, `TLP`, `MPV`).
* Tables: `hash_learn`, which writes what learning found, and the initialisation of the table's size.
* Evaluation (`evaluate.c`, `swap.c`): sums of weights read from a file.  Opening book (`book.c`, `proce.c`): look-ups
  in files and commands of a protocol the app does not use.
* Replay's seek bar, the lists that are fetched in the background, the parser and writer of logs: see the plan.

## 6. Plan

What is left, in this order; each module gets an MC module, a run that shares its instance with a component's other properties
where it can, and, where marked, theorems.

1. `GenericList`: `ParallelFetcher`, `ListThread` and `ExternalCacheManager`: results of an older
   request, expiry, the order of streams.  `ReplayGameActivity` with its seek bar, and the state
   machine of touches in `BoardView`.
2. `ShogiValues`: `Play`, `Board`, `CapturedPiece` and the KIF format of `GameLog`, as conversions that are
   inverse of each other over bounded inputs; handicap logs.
3. `time.c`: limits and the node count at which the clock is read, in the place of `Signals`.
4. Repetition inside the search (`detect_rep` and `nsuc_check` in `search.c`) on a graph with cycles.
5. Theorems: the answers of `mate3.c`.

Runs are kept few: a component's properties share one instance where they can, and a violation run gives
way to a more important question.
