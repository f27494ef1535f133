------------------------- MODULE GameLogListManager -------------------------
(***************************************************************************)
(* The saved games: GameLogListManager, its summary file, the directory of *)
(* logs on the card and the trash in it, and the background tasks of       *)
(* GameActivity, ReplayGameActivity and GameLogListActivity that use it.   *)
(*                                                                         *)
(* Tasks run in parallel.  listLogs, deleteLog and undo are synchronized;  *)
(* saveLogInMemory and saveLogInSdcard are not.  A log stands for its      *)
(* digest; a .kif file is named after the digest and parses back to it.    *)
(***************************************************************************)
EXTENDS Integers, Sequences, SequencesExt, FiniteSets

CONSTANTS
  Logs,          \* the logs there may be
  NoLog,         \* not one of them
  Date,          \* when each game was started
  MaxInMemory,   \* MAX_IN_MEMORY_LOGS
  Granularity,   \* of File.lastModified
  Hasty,         \* does the user act before the last task and its listing are over?
  Rematches,     \* may a game end with a log that is already there?
  MayCrash,      \* may the process be killed, once?
  MaxTasks,      \* bound: background tasks in a behaviour
  MaxTime        \* bound: the clock

ASSUME LogsAssumption ==
  /\ NoLog \notin Logs
  /\ Date \in [Logs -> Nat]
  /\ \A k, l \in Logs : Date[k] = Date[l] => k = l   \* the digest breaks ties
  /\ MaxInMemory \in Nat
  /\ Granularity \in Nat \ {0}
  /\ Hasty \in BOOLEAN /\ Rematches \in BOOLEAN /\ MayCrash \in BOOLEAN
  /\ MaxTasks \in Nat /\ MaxTime \in Nat

VARIABLES
  summaryFile,   \* log_summary, the serialised LogList
  card,          \* card[l]: when the file of l was modified
  trash,         \* trash[l]: the same for its file in the trash
  clock,
  task,          \* task[t]: the t-th AsyncTask or listing
  lock,          \* the task in a synchronized method
  shown,         \* the entries on the user's screen
  fresh,         \* nothing was done since they were listed
  tokens,        \* mUndoTokens
  library,       \* what the user is entitled to see: a history variable
  crashed        \* the process was killed: a history variable

logVars == <<summaryFile, card, trash, clock, task, lock, shown, fresh, tokens,
             library, crashed>>

NoFile == 0
NoOne == 0
(* A GameLog with or without a path().                                     *)
LogEntry == [log : Logs, sd : BOOLEAN]
LogList == [lastScan : Int, logs : SUBSET LogEntry]
EmptyList == [lastScan |-> -1, logs |-> {}]

NoEntry == [log |-> NoLog, sd |-> FALSE]
NewTask == [phase |-> "new", op |-> "listLogs", entry |-> NoEntry, list |-> EmptyList]
Tasks == 1..MaxTasks

Synchronized == {"listLogs", "resetLogs", "deleteLog", "undo"}
Operations == Synchronized \cup {"saveLogInMemory", "saveLogInSdcard"}

(* The card keeps times in steps.                                          *)
LastModified(now) == now - (now % Granularity)

Files(directory) == {l \in Logs : directory[l] # NoFile}
DigestsOf(entries) == {e.log : e \in entries}
InMemory(entries) == {e \in entries : ~e.sd}

Running(t) == task[t].phase \notin {"new", "done"}
Quiet == \A t \in Tasks : ~Running(t)

Init ==
  /\ summaryFile = EmptyList
  /\ card = [l \in Logs |-> NoFile] /\ trash = [l \in Logs |-> NoFile]
  /\ clock = 1
  /\ task = [t \in Tasks |-> NewTask]
  /\ lock = NoOne
  /\ shown = {} /\ fresh = FALSE
  /\ tokens = <<>>
  /\ library = {}
  /\ crashed = FALSE

-----------------------------------------------------------------------------
(* LogList.logs is a map from digests.                                     *)
Put(list, e) == [list EXCEPT !.logs = {x \in @ : x.log # e.log} \cup {e}]
RemoveLog(list, l) == [list EXCEPT !.logs = {x \in @ : x.log # l}]

(* readSummary: a file that is not there, or that was truncated and is not *)
(* yet written, gives an empty list.                                       *)
Truncated == EmptyList

(* scanDirectory reads the files modified since the last scan.             *)
Rescanned_After(since) == {l \in Files(card) : card[l] > since}
Rescanned(since) == {l \in Files(card) : card[l] >= since}

ScanDirectory(list) ==
  LET found == Rescanned(list.lastScan) IN
  [lastScan |-> clock,
   logs |-> {x \in list.logs : x.log \notin found} \cup [log : found, sd : {TRUE}]]

RemoveLogsInSdCard(list) == [lastScan |-> -1, logs |-> InMemory(list.logs)]

(* removeOldInMemoryLogs keeps the newest.                                 *)
Newer(e, entries) == {x \in entries : Date[x.log] > Date[e.log]}
Evicted(entries) ==
  {e \in InMemory(entries) : Cardinality(Newer(e, InMemory(entries))) >= MaxInMemory}

RemoveOldInMemoryLogs(list) == [list EXCEPT !.logs = @ \ Evicted(@)]

(* What an operation makes of the summary it has read.                     *)
ChangedList_KeepsDeleted(op, e, list) ==
  CASE op = "saveLogInMemory" -> Put(list, [e EXCEPT !.sd = FALSE])
    [] op = "saveLogInSdcard" -> RemoveLog(list, e.log)
    [] op = "deleteLog" -> IF e.sd THEN list ELSE RemoveLog(list, e.log)
    [] op = "undo" -> Put(list, e)
    [] op = "listLogs" -> ScanDirectory(list)
    [] op = "resetLogs" -> ScanDirectory(RemoveLogsInSdCard(list))
ChangedList_UndoAsMemory(op, e, list) ==
  CASE op \in {"saveLogInMemory", "undo"} -> Put(list, [e EXCEPT !.sd = FALSE])
    [] op \in {"saveLogInSdcard", "deleteLog"} -> RemoveLog(list, e.log)
    [] op = "listLogs" -> ScanDirectory(list)
    [] op = "resetLogs" -> ScanDirectory(RemoveLogsInSdCard(list))
ChangedList(op, e, list) ==
  CASE op = "saveLogInMemory" -> Put(list, [e EXCEPT !.sd = FALSE])
    [] op \in {"saveLogInSdcard", "deleteLog"} -> RemoveLog(list, e.log)
    [] op = "undo" -> Put(list, e)
    [] op = "listLogs" -> ScanDirectory(list)
    [] op = "resetLogs" -> ScanDirectory(RemoveLogsInSdCard(list))

-----------------------------------------------------------------------------
(* The user, and what starts a task.                                       *)
Execute(op, e) ==
  \E t \in Tasks :
    /\ task[t].phase = "new"
    /\ \A u \in Tasks : u < t => task[u].phase # "new"
    /\ task' = [task EXCEPT ![t] = [phase |-> "queued", op |-> op, entry |-> e,
                                    list |-> EmptyList]]

Calm == Quiet \/ Hasty
OnList == (Quiet /\ fresh) \/ Hasty

(* The logs that exist somewhere or did.                                   *)
Known == Files(card) \cup Files(trash)
           \cup {task[t].entry.log : t \in {u \in Tasks : task[u].phase # "new"}}

(* GameActivity.maybeSaveGame.  A game takes longer than to save one.      *)
GameEnds ==
  \E l \in Logs :
    /\ Calm
    /\ \A t \in Tasks : Running(t) => task[t].op # "saveLogInMemory"
    /\ Rematches \/ l \notin Known
    /\ Execute("saveLogInMemory", [log |-> l, sd |-> FALSE])
    /\ fresh' = FALSE
    /\ UNCHANGED <<summaryFile, card, trash, clock, lock, shown, tokens, library, crashed>>

(* Another program stores a .kif file where the logs are looked for.       *)
Download ==
  \E l \in Logs \ Known :
    /\ Calm
    /\ card' = [card EXCEPT ![l] = LastModified(clock)]
    /\ library' = library \cup {l}
    /\ fresh' = FALSE
    /\ UNCHANGED <<summaryFile, trash, clock, task, lock, shown, tokens, crashed>>

(* The menus of GameLogListActivity, and of ReplayGameActivity, from which *)
(* a log that is on the card can be saved to it once more.                 *)
SaveOrDelete ==
  \E e \in shown, op \in {"saveLogInSdcard", "deleteLog"} :
    /\ OnList
    /\ Execute(op, e)
    /\ fresh' = FALSE
    /\ UNCHANGED <<summaryFile, card, trash, clock, lock, shown, tokens, library, crashed>>

UndoDeletion ==
  /\ OnList
  /\ tokens # <<>>
  /\ Execute("undo", Last(tokens))
  /\ tokens' = Front(tokens)
  /\ fresh' = FALSE
  /\ UNCHANGED <<summaryFile, card, trash, clock, lock, shown, library, crashed>>

(* A list is requested when the activity is created, by "reload", and when *)
(* a save, a deletion or an undo is over.                                  *)
StartListing ==
  \E op \in {"listLogs", "resetLogs"} :
    /\ Calm
    /\ Execute(op, NoEntry)
    /\ UNCHANGED <<summaryFile, card, trash, clock, lock, shown, fresh, tokens, library, crashed>>

Tick ==
  /\ clock < MaxTime
  /\ clock' = clock + 1
  /\ UNCHANGED <<summaryFile, card, trash, task, lock, shown, fresh, tokens, library, crashed>>
-----------------------------------------------------------------------------
(* The steps of a task.  First what it does to the files of the log.       *)
Enters(t) ==
  IF task[t].op \in Synchronized THEN lock = NoOne /\ lock' = t ELSE UNCHANGED lock

Moved_Lost(l, from, to) == to
Moved(l, from, to) == [to EXCEPT ![l] = from[l]]
Removed_Negative(l, from) == [from EXCEPT ![l] = -1]
Removed(l, from) == [from EXCEPT ![l] = NoFile]

WriteKif(t) ==
  /\ task[t].phase = "queued" /\ task[t].op = "saveLogInSdcard"
  /\ card' = [card EXCEPT ![task[t].entry.log] = LastModified(clock)]
  /\ library' = library \cup {task[t].entry.log}
  /\ task' = [task EXCEPT ![t].phase = "read"]
  /\ UNCHANGED <<summaryFile, trash, clock, lock, shown, fresh, tokens, crashed>>

MoveToTrash(t) ==
  LET e == task[t].entry IN
  /\ task[t].phase = "queued" /\ task[t].op = "deleteLog" /\ e.sd
  /\ e.log \in Files(card)
  /\ Enters(t)
  /\ card' = Removed(e.log, card) /\ trash' = Moved(e.log, card, trash)
  /\ task' = [task EXCEPT ![t].phase = "read"]
  /\ UNCHANGED <<summaryFile, clock, shown, fresh, tokens, library, crashed>>

MoveBack(t) ==
  LET e == task[t].entry IN
  /\ task[t].phase = "queued" /\ task[t].op = "undo" /\ e.sd
  /\ e.log \in Files(trash)
  /\ Enters(t)
  /\ trash' = Removed(e.log, trash) /\ card' = Moved(e.log, trash, card)
  /\ task' = [task EXCEPT ![t].phase = "read"]
  /\ UNCHANGED <<summaryFile, clock, shown, fresh, tokens, library, crashed>>

(* The file is not there: a toast, and the summary stays as it is.         *)
CannotMove(t) ==
  LET e == task[t].entry IN
  /\ task[t].phase = "queued" /\ e.sd /\ lock = NoOne
  /\ task[t].op \in {"deleteLog", "undo"}
  /\ e.log \notin Files(IF task[t].op = "deleteLog" THEN card ELSE trash)
  /\ task' = [task EXCEPT ![t].phase = "done"]
  /\ UNCHANGED <<summaryFile, card, trash, clock, lock, shown, fresh, tokens,
             library, crashed>>

NoFileToMove(t) ==
  /\ task[t].phase = "queued"
  /\ \/ task[t].op \in {"saveLogInMemory", "listLogs", "resetLogs"}
     \/ task[t].op \in {"deleteLog", "undo"} /\ ~task[t].entry.sd
  /\ Enters(t)
  /\ task' = [task EXCEPT ![t].phase = "read"]
  /\ UNCHANGED <<summaryFile, card, trash, clock, shown, fresh, tokens, library, crashed>>

(* readSummary and the change to the list, which only the task sees.       *)
ChangeList(t) ==
  /\ task[t].phase = "read"
  /\ task' = [task EXCEPT ![t].phase = "open",
        ![t].list = ChangedList(task[t].op, task[t].entry, summaryFile)]
  /\ UNCHANGED <<summaryFile, card, trash, clock, lock, shown, fresh, tokens, library, crashed>>

(* writeSummary truncates the file and then writes it.                     *)
OpenSummary(t) ==
  /\ task[t].phase = "open"
  /\ summaryFile' = Truncated
  /\ task' = [task EXCEPT ![t].phase = "write"]
  /\ UNCHANGED <<card, trash, clock, lock, shown, fresh, tokens, library, crashed>>

(* The write ends the method; what the task hands to its onPostExecute, or *)
(* to the list on the screen, is there with it.                            *)
WriteSummary(t) ==
  LET op == task[t].op
      e == task[t].entry
      list == RemoveOldInMemoryLogs(task[t].list)
      gone == DigestsOf(task[t].list.logs) \ DigestsOf(list.logs)
      listed == op \in {"listLogs", "resetLogs"}
  IN /\ task[t].phase = "write"
     /\ summaryFile' = list
     /\ lock' = IF op \in Synchronized THEN NoOne ELSE lock
     /\ task' = [task EXCEPT ![t].phase = "done", ![t].list = EmptyList]
     /\ shown' = IF listed THEN list.logs ELSE shown
     /\ fresh' = (fresh \/ listed)
     /\ tokens' = IF op = "deleteLog" THEN Append(tokens, e) ELSE tokens
     /\ library' = (CASE op \in {"saveLogInMemory", "undo"} -> library \cup {e.log}
                     [] op = "deleteLog" -> library \ {e.log}
                     [] OTHER -> library) \ gone
     /\ UNCHANGED <<card, trash, clock, crashed>>

(* The process is killed, and its tasks with it; files stay as they are.   *)
(* A log that was only in a truncated summary is gone, and a deletion that *)
(* had begun may have taken place or not.                                  *)
Crash ==
  LET deleted == {task[t].entry.log : t \in {u \in Tasks : Running(u) /\ task[u].op = "deleteLog"}}
      kept == IF summaryFile = Truncated THEN library \cap Files(card) ELSE library
  IN /\ MayCrash /\ ~crashed /\ ~Quiet
     /\ crashed' = TRUE
     /\ task' = [t \in Tasks |-> IF Running(t)
                                 THEN [task[t] EXCEPT !.phase = "done", !.list = EmptyList]
                                 ELSE task[t]]
     /\ lock' = NoOne
     /\ shown' = {} /\ fresh' = FALSE /\ tokens' = <<>>
     /\ library' = kept \ deleted
     /\ UNCHANGED <<summaryFile, card, trash, clock>>

TaskStep(t) ==
  \/ WriteKif(t) \/ MoveToTrash(t) \/ MoveBack(t) \/ CannotMove(t) \/ NoFileToMove(t)
  \/ ChangeList(t) \/ OpenSummary(t) \/ WriteSummary(t)

Next ==
  \/ GameEnds \/ Download \/ SaveOrDelete \/ UndoDeletion \/ StartListing \/ Tick
  \/ Crash
  \/ \E t \in Tasks : TaskStep(t)

Spec == Init /\ [][Next]_logVars

-----------------------------------------------------------------------------
(* Correctness.                                                            *)

(* What the next listing shows.                                            *)
Listed == RemoveOldInMemoryLogs(ScanDirectory(summaryFile)).logs

(* All values are in their domains.                                        *)
LogsTypeOK ==
  /\ summaryFile \in LogList
  /\ card \in [Logs -> Nat] /\ trash \in [Logs -> Nat]
  /\ clock \in Nat
  /\ task \in [Tasks -> [phase : {"new", "queued", "read", "open", "write", "done"},
                         op : Operations, entry : LogEntry \cup {NoEntry}, list : LogList]]
  /\ lock \in Tasks \cup {NoOne}
  /\ shown \subseteq LogEntry /\ fresh \in BOOLEAN
  /\ tokens \in Seq(LogEntry)
  /\ library \subseteq Logs /\ crashed \in BOOLEAN

(* "This class is thread safe" (GameLogListManager.java): once the tasks   *)
(* are over, a listing shows every log that was saved, restored or put on  *)
(* the card and was neither deleted nor evicted since.  The death of the   *)
(* process only takes the logs in memory, and only if it hits a write.     *)
NoLogIsLost == Quiet => library \subseteq DigestsOf(Listed)

(* What was deleted stays away until it is restored (unless the process    *)
(* was killed in between, as in the two properties below).                 *)
DeletedStaysAway == Quiet /\ ~crashed => DigestsOf(Listed) \subseteq library

(* A log that is listed as saved on the card has its file there, and only  *)
(* one entry stands for a log.                                             *)
ListedFilesExist ==
  Quiet /\ ~crashed =>
    /\ \A e \in Listed : e.sd = (e.log \in Files(card))
    /\ Cardinality(Listed) = Cardinality(DigestsOf(Listed))

(* Every deletion can be undone: the file is in the trash under the name   *)
(* that undo looks for, and moving it back overwrites nothing.             *)
DeletionsCanBeUndone ==
  Quiet /\ ~crashed => \A i \in 1..Len(tokens) :
    tokens[i].sd => tokens[i].log \in Files(trash) \ Files(card)
=============================================================================
