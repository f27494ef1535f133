----------------------------- MODULE LogProofs -----------------------------
(***************************************************************************)
(* Theorems about GameLogListManager.  The types hold however the user     *)
(* acts.  That no log is lost, that what was deleted stays away, that what *)
(* is listed is on the card and that deletions can be undone holds in calm *)
(* use, for any number of logs, tasks and logs in memory, with or without  *)
(* a crash: MCGameLogListManager_hasty.cfg shows what a hasty user can do. *)
(***************************************************************************)
EXTENDS GameLogListManager, FiniteSetTheorems, SequenceTheorems, TLAPS

(* The user waits for the last task and its listing, no two games have the *)
(* same log (it holds the time the game began), and the card keeps exact   *)
(* times.  There are finitely many logs, since a digest is of SHA-1.       *)
CalmUse == ~Hasty /\ ~Rematches /\ Granularity = 1 /\ IsFiniteSet(Logs)

-----------------------------------------------------------------------------
(* The inductive invariant.                                                *)

(* The logs that a listing made from a list shows, also after "reload", if *)
(* none is evicted: those in memory, those whose file is where the list    *)
(* says, and those a scan will find.                                       *)
VisibleIn(list) ==
  DigestsOf({x \in list.logs : x.sd => x.log \in Files(card)}) \cup Rescanned(list.lastScan)

Started == {t \in Tasks : Running(t) /\ task[t].phase # "queued"}
Listing == {"listLogs", "resetLogs"}

(* The logs a running task has moved or written, or is about to put into   *)
(* the summary, and those of them that it deletes.                         *)
Handled == {task[t].entry.log : t \in Started}
Deleting == {task[t].entry.log : t \in {u \in Started : task[u].op = "deleteLog"}}

TokenLogs == {tokens[i].log : i \in 1..Len(tokens)}

(* What the user is entitled to see when a task is over, if nothing is     *)
(* evicted.                                                                *)
OwedBy(t) ==
  CASE task[t].op \in {"saveLogInMemory", "undo"} -> library \cup {task[t].entry.log}
    [] task[t].op = "deleteLog" -> library \ {task[t].entry.log}
    [] OTHER -> library

(* One entry for each log, none of them of a deleted log; a log in memory  *)
(* whose file is on the card will be found by a scan.                      *)
ListInv(list) ==
  /\ list.lastScan <= clock
  /\ \A x, y \in list.logs : x.log = y.log => x = y
  /\ DigestsOf(list.logs) \subseteq Known \ TokenLogs
  /\ \A x \in list.logs : ~x.sd /\ x.log \in Files(card) => card[x.log] >= list.lastScan

(* The entries tell where the logs are.                                    *)
Exact(list, handled) ==
  \A x \in list.logs : x.log \notin handled => (x.sd <=> x.log \in Files(card))

OneAtATime == \A t, u \in Tasks : Running(t) /\ Running(u) => t = u

SummaryInv ==
  /\ ListInv(summaryFile)
  /\ Evicted(summaryFile.logs) = {}
  /\ ~crashed => Exact(summaryFile, Handled) /\ DigestsOf(summaryFile.logs) \subseteq library

(* Truncated by a task that has yet to write it, the summary shows nothing. *)
LibraryInv ==
  /\ (\A t \in Tasks : task[t].phase # "write")
       => library \ Deleting \subseteq VisibleIn(summaryFile)
  /\ (\E t \in Tasks : task[t].phase = "write") => summaryFile = EmptyList
  /\ library \subseteq Known
  /\ ~crashed => Files(card) \ Handled \subseteq library

TokensInv ==
  /\ \A i, j \in 1..Len(tokens) : tokens[i].log = tokens[j].log => i = j
  /\ \A i \in 1..Len(tokens) :
       /\ tokens[i].log \in Known \ (library \cup Files(card))
       /\ tokens[i].sd => tokens[i].log \in Files(trash)

(* What is known of a task's log, before its file is moved and after.      *)
EntryInv(t) ==
  LET e == task[t].entry
      queued == task[t].phase = "queued"
  IN /\ e.log \notin TokenLogs
     /\ task[t].op = "saveLogInMemory" => ~e.sd /\ e.log \notin library \cup Files(card)
     /\ task[t].op = "saveLogInSdcard" /\ ~queued => e.log \in library \cap Files(card)
     /\ task[t].op = "deleteLog" =>
          /\ ~queued \/ ~e.sd => e.log \notin Files(card)
          /\ ~queued /\ e.sd => e.log \in Files(trash)
     /\ task[t].op = "undo" =>
          /\ e.log \notin library \cup DigestsOf(summaryFile.logs)
          /\ queued => e.log \notin Files(card) /\ (e.sd => e.log \in Files(trash))
          /\ ~queued => (e.sd <=> e.log \in Files(card))

(* What is known of the list a task has changed and will write.            *)
ListChanged(t, list) ==
  /\ ListInv(list)
  /\ OwedBy(t) \subseteq VisibleIn(list)
  /\ ~crashed => Exact(list, {}) /\ DigestsOf(list.logs) \subseteq OwedBy(t)
  /\ task[t].op = "deleteLog" => task[t].entry.log \notin DigestsOf(list.logs)
  /\ task[t].op \in Listing => \A x \in list.logs : ~x.sd => x.log \notin Files(card)

ChangedInv(t) == ListChanged(t, task[t].list)

TaskInv ==
  \A t \in Tasks :
    /\ Running(t) => EntryInv(t)
    /\ Running(t) /\ task[t].op \notin Listing => ~fresh
    /\ task[t].phase \in {"read", "open"} /\ task[t].op = "saveLogInSdcard" =>
         card[task[t].entry.log] >= summaryFile.lastScan
    /\ task[t].phase \in {"open", "write"} => ChangedInv(t)

(* A fresh listing is the summary, and its logs in memory have no file.    *)
ShownInv ==
  Quiet /\ fresh =>
    /\ shown = summaryFile.logs
    /\ \A x \in shown : ~x.sd => x.log \notin Files(card)

LogInv ==
  /\ clock >= 1 /\ OneAtATime
  /\ SummaryInv /\ LibraryInv /\ TokensInv /\ TaskInv /\ ShownInv

-----------------------------------------------------------------------------
(* Types.                                                                  *)

(* What starts a task with a log names the log.                            *)
EntriesOK ==
  \A t \in Tasks : IF task[t].op \in Listing THEN task[t].entry = NoEntry
                                           ELSE task[t].entry \in LogEntry

LogsTyped == LogsTypeOK /\ EntriesOK

(* What task[t] may be.                                                    *)
TaskRecord == [phase : {"new", "queued", "read", "open", "write", "done"},
               op : Operations, entry : LogEntry \cup {NoEntry}, list : LogList]

(* The operations on lists give lists.                                     *)
LEMMA ListTypes ==
  ASSUME NEW list \in LogList, NEW e \in LogEntry \cup {NoEntry}, NEW op \in Operations,
         op \notin Listing => e \in LogEntry, clock \in Nat
  PROVE  ChangedList(op, e, list) \in LogList /\ RemoveOldInMemoryLogs(list) \in LogList
<1> DEFINE found == Rescanned(list.lastScan)
<1>1. list.logs \subseteq LogEntry /\ list.lastScan \in Int
  BY DEF LogList
<1>2. RemoveOldInMemoryLogs(list) \in LogList
  BY <1>1 DEF RemoveOldInMemoryLogs, LogList
<1>3. RemoveLog(list, e.log) \in LogList
  BY <1>1 DEF RemoveLog, LogList
<1>4. ASSUME NEW x \in LogEntry
      PROVE  Put(list, x) \in LogList
  BY <1>1 DEF Put, LogList
<1>5. ASSUME NEW l \in LogList
      PROVE  ScanDirectory(l) \in LogList
  <2>1. [log : Rescanned(l.lastScan), sd : {TRUE}] \subseteq LogEntry
    BY DEF Rescanned, Files, LogEntry
  <2>2. l.logs \subseteq LogEntry /\ clock \in Int
    BY DEF LogList
  <2> QED BY <2>1, <2>2 DEF ScanDirectory, LogList
<1>6. RemoveLogsInSdCard(list) \in LogList
  BY <1>1 DEF RemoveLogsInSdCard, LogList, InMemory
<1>7. op \notin Listing => [e EXCEPT !.sd = FALSE] \in LogEntry
  BY DEF LogEntry
<1>8. ChangedList(op, e, list) \in LogList
  <2>1. CASE op = "saveLogInMemory"
    BY <2>1, <1>4, <1>7 DEF ChangedList, Listing
  <2>2. CASE op \in {"saveLogInSdcard", "deleteLog"}
    BY <2>2, <1>3 DEF ChangedList
  <2>3. CASE op = "undo"
    BY <2>3, <1>4 DEF ChangedList, Listing
  <2>4. CASE op = "listLogs"
    BY <2>4, <1>5 DEF ChangedList
  <2>5. CASE op = "resetLogs"
    BY <2>5, <1>5, <1>6 DEF ChangedList
  <2> QED BY <2>1, <2>2, <2>3, <2>4, <2>5 DEF Operations, Synchronized
<1> QED BY <1>2, <1>8

(* The last token and the others.                                          *)
LEMMA LastToken ==
  ASSUME NEW S, NEW q \in Seq(S), q # <<>>
  PROVE  /\ Last(q) \in S /\ Front(q) \in Seq(S)
         /\ Len(q) \in Nat \ {0} /\ Last(q) = q[Len(q)]
         /\ Len(Front(q)) = Len(q) - 1
         /\ \A i \in 1..Len(q) - 1 : Front(q)[i] = q[i]
<1>1. Len(q) \in Nat \ {0}
  BY EmptySeq, LenProperties
<1>2. Last(q) \in S /\ Last(q) = q[Len(q)]
  BY <1>1, ElementOfSeq DEF Last
<1>3. /\ Front(q) \in Seq(S)
      /\ Len(Front(q)) = Len(q) - 1
      /\ \A i \in 1..Len(q) - 1 : Front(q)[i] = q[i]
  <2> DEFINE n == Len(q) - 1
  <2>1. n \in Nat /\ n + 1 = Len(q)
    BY <1>1
  <2>2. Front(q) = SubSeq(q, 1, n)
    BY DEF Front
  <2>3. \A i \in 1..n : q[i] \in S
    BY <2>1, ElementOfSeq
  <2> HIDE DEF n
  <2>4. /\ SubSeq(q, 1, n) \in Seq(S)
        /\ Len(SubSeq(q, 1, n)) = IF 1 <= n THEN n - 1 + 1 ELSE 0
        /\ \A i \in 1..n - 1 + 1 : SubSeq(q, 1, n)[i] = q[1 + i - 1]
    BY <2>1, <2>3, SubSeqProperties
  <2>5. n - 1 + 1 = n /\ (IF 1 <= n THEN n - 1 + 1 ELSE 0) = n
    BY <2>1
  <2>6. \A i \in 1..n : 1 + i - 1 = i
    BY <2>1
  <2>7. Len(q) - 1 = n
    BY DEF n
  <2> QED BY <2>2, <2>4, <2>5, <2>6, <2>7
<1> QED BY <1>1, <1>2, <1>3

(* A new task is a task.                                                   *)
LEMMA ExecuteTypes ==
  ASSUME LogsTyped, NEW op \in Operations, NEW e \in LogEntry \cup {NoEntry},
         IF op \in Listing THEN e = NoEntry ELSE e \in LogEntry, Execute(op, e)
  PROVE  /\ task' \in [Tasks -> TaskRecord]
         /\ EntriesOK'
<1> DEFINE new == [phase |-> "queued", op |-> op, entry |-> e, list |-> EmptyList]
<1>1. PICK t \in Tasks : task' = [task EXCEPT ![t] = new]
  BY DEF Execute
<1>2. EmptyList \in LogList
  BY DEF EmptyList, LogList
<1>3. new \in TaskRecord
  BY <1>2 DEF TaskRecord
<1>4. new.op = op /\ new.entry = e
  OBVIOUS
<1> HIDE DEF new
<1>5. \A u \in Tasks : task'[u] = IF u = t THEN new ELSE task[u]
  BY <1>1 DEF LogsTyped, LogsTypeOK
<1> QED BY <1>1, <1>3, <1>4, <1>5 DEF LogsTyped, LogsTypeOK, EntriesOK, TaskRecord

(* So is one that has gone on.                                             *)
LEMMA TaskStepTypes ==
  ASSUME LogsTyped, NEW t \in Tasks, NEW phase \in {"queued", "read", "open", "write", "done"},
         NEW list \in LogList,
         task' = [task EXCEPT ![t].phase = phase, ![t].list = list]
  PROVE  /\ task' \in [Tasks -> TaskRecord]
         /\ EntriesOK'
<1> DEFINE next == [task[t] EXCEPT !.phase = phase, !.list = list]
<1>1. \A u \in Tasks : task[u] \in TaskRecord
  BY DEF LogsTyped, LogsTypeOK, TaskRecord
<1>2. next \in TaskRecord /\ next.op = task[t].op /\ next.entry = task[t].entry
  BY <1>1 DEF TaskRecord
<1>3. task' = [task EXCEPT ![t] = next]
  BY DEF LogsTyped, LogsTypeOK
<1> HIDE DEF next
<1>4. \A u \in Tasks : task'[u] = IF u = t THEN next ELSE task[u]
  BY <1>3 DEF LogsTyped, LogsTypeOK
<1>5. task' \in [Tasks -> TaskRecord]
  BY <1>1, <1>2, <1>3 DEF LogsTyped, LogsTypeOK, TaskRecord
<1> QED BY <1>2, <1>4, <1>5 DEF LogsTyped, EntriesOK

(* A task that only goes to its next phase is still a task.                *)
LEMMA PhaseStepTypes ==
  ASSUME LogsTyped, NEW t \in Tasks, NEW phase \in {"queued", "read", "open", "write", "done"},
         task' = [task EXCEPT ![t].phase = phase]
  PROVE  /\ task' \in [Tasks -> TaskRecord]
         /\ EntriesOK'
<1>1. task' = [task EXCEPT ![t].phase = phase, ![t].list = task[t].list]
  BY DEF LogsTyped, LogsTypeOK
<1> QED BY <1>1, TaskStepTypes DEF LogsTyped, LogsTypeOK

(* Files that are moved are files.                                         *)
LEMMA MovedTypes ==
  ASSUME NEW from \in [Logs -> Nat], NEW to \in [Logs -> Nat], NEW l \in Logs
  PROVE  Moved(l, from, to) \in [Logs -> Nat] /\ Removed(l, from) \in [Logs -> Nat]
BY DEF Moved, Removed, NoFile

(* File.lastModified is a time, whatever its granularity.                  *)
LEMMA LastModifiedIsATime ==
  ASSUME NEW now \in Nat
  PROVE  LastModified(now) \in Nat
<1>1. /\ now % Granularity \in 0..Granularity - 1 /\ Granularity \in Nat \ {0}
      /\ now = Granularity * (now \div Granularity) + (now % Granularity)
      /\ now \div Granularity \in Nat
  BY LogsAssumption
<1>2. LastModified(now) = Granularity * (now \div Granularity)
  BY <1>1 DEF LastModified
<1> QED BY <1>1, <1>2

(* Every step keeps the types.                                             *)
LEMMA LogsNextType ==
  ASSUME LogsTyped, [Next]_logVars
  PROVE  LogsTyped'
<1> USE DEF LogsTyped, LogsTypeOK, TaskRecord
<1>l. LastModified(clock) \in Nat
  BY LastModifiedIsATime
<1>e. EmptyList \in LogList
  BY DEF EmptyList, LogList
<1>s. /\ \A op \in Operations : op \in Listing \/ op \in {"saveLogInMemory", "saveLogInSdcard", "deleteLog", "undo"}
      /\ {"saveLogInMemory", "saveLogInSdcard", "deleteLog", "undo"} \subseteq Operations
      /\ Listing \subseteq Operations
      /\ {"saveLogInMemory", "saveLogInSdcard", "deleteLog", "undo"} \cap Listing = {}
  BY DEF Operations, Synchronized, Listing
<1>1. CASE GameEnds
  <2>1. PICK l \in Logs : Execute("saveLogInMemory", [log |-> l, sd |-> FALSE])
    BY <1>1 DEF GameEnds
  <2>2. [log |-> l, sd |-> FALSE] \in LogEntry
    BY DEF LogEntry
  <2> QED BY <1>1, <1>s, <2>1, <2>2, ExecuteTypes DEF GameEnds
<1>2. CASE Download
  <2>1. PICK l \in Logs \ Known :
          /\ card' = [card EXCEPT ![l] = LastModified(clock)]
          /\ library' = library \cup {l}
    BY <1>2 DEF Download
  <2>2. card' \in [Logs -> Nat] /\ library' \subseteq Logs
    BY <2>1, <1>l
  <2>3. UNCHANGED <<summaryFile, trash, clock, task, lock, shown, tokens, crashed>> /\ fresh' = FALSE
    BY <1>2 DEF Download
  <2> QED BY <2>2, <2>3 DEF EntriesOK
<1>3. CASE SaveOrDelete
  <2>1. PICK e \in shown, op \in {"saveLogInSdcard", "deleteLog"} : Execute(op, e)
    BY <1>3 DEF SaveOrDelete
  <2> QED BY <1>3, <1>s, <2>1, ExecuteTypes DEF SaveOrDelete
<1>4. CASE UndoDeletion
  <2>1. Last(tokens) \in LogEntry /\ Front(tokens) \in Seq(LogEntry)
    BY <1>4, LastToken DEF UndoDeletion
  <2> QED BY <1>4, <1>s, <2>1, ExecuteTypes DEF UndoDeletion
<1>5. CASE StartListing
  <2>1. PICK op \in Listing : Execute(op, NoEntry)
    BY <1>5 DEF StartListing, Listing
  <2> QED BY <1>5, <1>s, <2>1, ExecuteTypes DEF StartListing
<1>6. CASE Tick
  BY <1>6 DEF Tick, EntriesOK
<1>7. CASE Crash
  <2>1. \A u \in Tasks : task'[u] = IF Running(u) THEN [task[u] EXCEPT !.phase = "done", !.list = EmptyList]
                                                  ELSE task[u]
    BY <1>7 DEF Crash
  <2>2. task' \in [Tasks -> TaskRecord]
    BY <1>7, <1>e DEF Crash
  <2>3. \A u \in Tasks : task'[u].op = task[u].op /\ task'[u].entry = task[u].entry
    BY <2>1
  <2>4. EntriesOK'
    BY <2>3 DEF EntriesOK
  <2>5. tokens' \in Seq(LogEntry)
    BY <1>7, EmptySeq DEF Crash
  <2>6. /\ shown' \subseteq LogEntry /\ fresh' \in BOOLEAN /\ crashed' \in BOOLEAN
        /\ lock' \in Tasks \cup {NoOne} /\ library' \subseteq Logs
    BY <1>7 DEF Crash
  <2> QED BY <1>7, <2>2, <2>4, <2>5, <2>6 DEF Crash
<1>8. ASSUME NEW t \in Tasks, TaskStep(t)
      PROVE  LogsTyped'
  <2>e. IF task[t].op \in Listing THEN task[t].entry = NoEntry ELSE task[t].entry \in LogEntry
    BY DEF EntriesOK
  <2>f. task[t].op \notin Listing => task[t].entry.log \in Logs
    BY <2>e DEF LogEntry
  <2>1. CASE WriteKif(t)
    <3>1. task[t].entry.log \in Logs
      BY <2>1, <2>f DEF WriteKif, Listing
    <3>2. card' \in [Logs -> Nat] /\ library' \subseteq Logs
      BY <2>1, <3>1, <1>l DEF WriteKif
    <3> QED BY <2>1, <3>2, PhaseStepTypes DEF WriteKif
  <2>2. CASE MoveToTrash(t)
    <3>1. task[t].entry.log \in Logs
      BY <2>2, <2>f DEF MoveToTrash, Listing
    <3>2. card' \in [Logs -> Nat] /\ trash' \in [Logs -> Nat]
      BY <2>2, <3>1, MovedTypes DEF MoveToTrash
    <3>3. lock' \in Tasks \cup {NoOne}
      BY <2>2 DEF MoveToTrash, Enters
    <3> QED BY <2>2, <3>2, <3>3, PhaseStepTypes DEF MoveToTrash
  <2>3. CASE MoveBack(t)
    <3>1. task[t].entry.log \in Logs
      BY <2>3, <2>f DEF MoveBack, Listing
    <3>2. card' \in [Logs -> Nat] /\ trash' \in [Logs -> Nat]
      BY <2>3, <3>1, MovedTypes DEF MoveBack
    <3>3. lock' \in Tasks \cup {NoOne}
      BY <2>3 DEF MoveBack, Enters
    <3> QED BY <2>3, <3>2, <3>3, PhaseStepTypes DEF MoveBack
  <2>4. CASE CannotMove(t)
    BY <2>4, PhaseStepTypes DEF CannotMove
  <2>5. CASE NoFileToMove(t)
    <3>1. lock' \in Tasks \cup {NoOne}
      BY <2>5 DEF NoFileToMove, Enters
    <3> QED BY <2>5, <3>1, PhaseStepTypes DEF NoFileToMove
  <2>6. CASE ChangeList(t)
    <3>1. ChangedList(task[t].op, task[t].entry, summaryFile) \in LogList
      BY <2>e, ListTypes
    <3> QED BY <2>6, <3>1, TaskStepTypes DEF ChangeList
  <2>7. CASE OpenSummary(t)
    BY <2>7, <1>e, PhaseStepTypes DEF OpenSummary, Truncated
  <2>8. CASE WriteSummary(t)
    <3>1. RemoveOldInMemoryLogs(task[t].list) \in LogList
      BY <2>e, ListTypes
    <3>2. summaryFile' \in LogList /\ shown' \subseteq LogEntry /\ fresh' \in BOOLEAN
      <4>1. RemoveOldInMemoryLogs(task[t].list).logs \subseteq LogEntry
        BY <3>1 DEF LogList
      <4> QED BY <2>8, <3>1, <4>1 DEF WriteSummary
    <3>3. tokens' \in Seq(LogEntry)
      <4>1. CASE task[t].op = "deleteLog"
        <5>1. Append(tokens, task[t].entry) \in Seq(LogEntry)
          BY <2>e, <4>1, AppendProperties DEF Listing
        <5> QED BY <2>8, <4>1, <5>1 DEF WriteSummary
      <4>2. CASE task[t].op # "deleteLog"
        BY <2>8, <4>2 DEF WriteSummary
      <4> QED BY <4>1, <4>2
    <3>4. library' \subseteq Logs
      <4> DEFINE gone == DigestsOf(task[t].list.logs) \ DigestsOf(RemoveOldInMemoryLogs(task[t].list).logs)
                 owed == CASE task[t].op \in {"saveLogInMemory", "undo"} -> library \cup {task[t].entry.log}
                           [] task[t].op = "deleteLog" -> library \ {task[t].entry.log}
                           [] OTHER -> library
      <4>1. library' = owed \ gone
        BY <2>8 DEF WriteSummary
      <4>2. owed \subseteq Logs
        <5>1. CASE task[t].op \in {"saveLogInMemory", "undo"}
          BY <5>1, <2>f DEF Listing
        <5>2. CASE task[t].op = "deleteLog"
          BY <5>2
        <5>3. CASE task[t].op \notin {"saveLogInMemory", "undo", "deleteLog"}
          BY <5>3
        <5> QED BY <5>1, <5>2, <5>3
      <4> HIDE DEF gone, owed
      <4> QED BY <4>1, <4>2
    <3>5. lock' \in Tasks \cup {NoOne}
      BY <2>8 DEF WriteSummary
    <3> QED BY <2>8, <1>e, <3>2, <3>3, <3>4, <3>5, TaskStepTypes DEF WriteSummary
  <2> QED BY <1>8, <2>1, <2>2, <2>3, <2>4, <2>5, <2>6, <2>7, <2>8 DEF TaskStep
<1>9. CASE UNCHANGED logVars
  BY <1>9 DEF logVars, EntriesOK
<1> QED BY <1>1, <1>2, <1>3, <1>4, <1>5, <1>6, <1>7, <1>8, <1>9 DEF Next

(* The types hold at the start.                                            *)
LEMMA LogsInitType == Init => LogsTyped
<1> SUFFICES ASSUME Init PROVE LogsTyped
  OBVIOUS
<1>1. EmptyList \in LogList /\ NoFile \in Nat
  BY DEF EmptyList, LogList, NoFile
<1>2. "listLogs" \in Operations
  BY DEF Operations, Synchronized
<1>3. task \in [Tasks -> TaskRecord]
  BY <1>1, <1>2 DEF Init, NewTask, TaskRecord
<1>4. EntriesOK
  BY DEF EntriesOK, Init, NewTask, Listing
<1> QED BY <1>1, <1>3, <1>4, EmptySeq DEF Init, LogsTyped, LogsTypeOK, TaskRecord

(* The types hold in every state, for every user.                          *)
THEOREM LogsTypeCorrect == Spec => []LogsTypeOK
<1>1. LogsTyped /\ [Next]_logVars => LogsTyped'
  BY LogsNextType
<1>2. LogsTyped => LogsTypeOK
  BY DEF LogsTyped
<1> QED BY LogsInitType, <1>1, <1>2, PTL DEF Spec

-----------------------------------------------------------------------------
(* What the operations on lists do.                                        *)

(* Finitely many logs make finitely many entries.                          *)
LEMMA FiniteEntries ==
  ASSUME IsFiniteSet(Logs)
  PROVE  IsFiniteSet(LogEntry)
<1>1. IsFiniteSet({TRUE}) /\ IsFiniteSet({TRUE} \cup {FALSE}) /\ BOOLEAN = {TRUE} \cup {FALSE}
  BY FS_Singleton, FS_AddElement
<1>2. IsFiniteSet(Logs \X BOOLEAN)
  BY <1>1, FS_Product
<1> DEFINE f == [p \in Logs \X BOOLEAN |-> [log |-> p[1], sd |-> p[2]]]
<1>3. f \in [Logs \X BOOLEAN -> LogEntry]
  BY DEF LogEntry
<1>4. \A e \in LogEntry : \E p \in Logs \X BOOLEAN : f[p] = e
  <2> SUFFICES ASSUME NEW e \in LogEntry PROVE \E p \in Logs \X BOOLEAN : f[p] = e
    OBVIOUS
  <2>1. <<e.log, e.sd>> \in Logs \X BOOLEAN
    BY DEF LogEntry
  <2>2. f[<<e.log, e.sd>>] = e
    BY <2>1 DEF LogEntry
  <2> QED BY <2>1, <2>2
<1>5. f \in Surjection(Logs \X BOOLEAN, LogEntry)
  BY <1>3, <1>4 DEF Surjection
<1> QED BY <1>2, <1>5, FS_Surjection

(* Fewer logs in memory leave nothing to evict.                            *)
LEMMA FewerNotEvicted ==
  ASSUME IsFiniteSet(Logs), NEW S \in SUBSET LogEntry, NEW T \in SUBSET LogEntry,
         InMemory(T) \subseteq InMemory(S) \ Evicted(S)
  PROVE  Evicted(T) = {}
<1> SUFFICES ASSUME NEW e \in InMemory(T),
                    Cardinality(Newer(e, InMemory(T))) >= MaxInMemory
             PROVE  FALSE
  BY DEF Evicted
<1>1. IsFiniteSet(Newer(e, InMemory(S)))
  BY FiniteEntries, FS_Subset DEF Newer, InMemory
<1>2. Newer(e, InMemory(T)) \subseteq Newer(e, InMemory(S))
  BY DEF Newer
<1>3. /\ IsFiniteSet(Newer(e, InMemory(T)))
      /\ Cardinality(Newer(e, InMemory(T))) <= Cardinality(Newer(e, InMemory(S)))
  BY <1>1, <1>2, FS_Subset
<1>4. ~(Cardinality(Newer(e, InMemory(S))) >= MaxInMemory)
  BY DEF Evicted
<1>5. /\ Cardinality(Newer(e, InMemory(T))) \in Nat
      /\ Cardinality(Newer(e, InMemory(S))) \in Nat
      /\ MaxInMemory \in Nat
  BY <1>1, <1>3, FS_CardinalityType, LogsAssumption
<1> QED BY <1>3, <1>4, <1>5

(* A list written to the summary holds no log that the next one would evict. *)
LEMMA EvictedOnce ==
  ASSUME IsFiniteSet(Logs), NEW list \in LogList
  PROVE  /\ RemoveOldInMemoryLogs(list).lastScan = list.lastScan
         /\ RemoveOldInMemoryLogs(list).logs \subseteq list.logs
         /\ Evicted(RemoveOldInMemoryLogs(list).logs) = {}
         /\ \A x \in list.logs : x.sd => x \in RemoveOldInMemoryLogs(list).logs
<1>1. list.logs \subseteq LogEntry
  BY DEF LogList
<1>2. /\ RemoveOldInMemoryLogs(list).logs = list.logs \ Evicted(list.logs)
      /\ RemoveOldInMemoryLogs(list).lastScan = list.lastScan
  BY DEF RemoveOldInMemoryLogs, LogList
<1>3. InMemory(list.logs \ Evicted(list.logs)) \subseteq InMemory(list.logs) \ Evicted(list.logs)
  BY DEF InMemory
<1>4. Evicted(list.logs \ Evicted(list.logs)) = {}
  BY <1>1, <1>3, FewerNotEvicted
<1>5. \A x \in list.logs : x.sd => x \notin Evicted(list.logs)
  BY DEF Evicted, InMemory
<1> QED BY <1>2, <1>4, <1>5

(* A scan finds the files of a set of logs and keeps the other entries.    *)
LEMMA Scanned ==
  ASSUME NEW list \in LogList
  PROVE  /\ ScanDirectory(list).lastScan = clock
         /\ \A x \in ScanDirectory(list).logs :
              \/ x \in list.logs /\ x.log \notin Rescanned(list.lastScan)
              \/ x.log \in Rescanned(list.lastScan) /\ x = [log |-> x.log, sd |-> TRUE]
         /\ \A x \in list.logs : x.log \notin Rescanned(list.lastScan) => x \in ScanDirectory(list).logs
         /\ \A l \in Rescanned(list.lastScan) : [log |-> l, sd |-> TRUE] \in ScanDirectory(list).logs
         /\ DigestsOf(ScanDirectory(list).logs) = DigestsOf(list.logs) \cup Rescanned(list.lastScan)
<1> DEFINE found == Rescanned(list.lastScan)
           kept == {x \in list.logs : x.log \notin found}
<1>1. ScanDirectory(list) = [lastScan |-> clock, logs |-> kept \cup [log : found, sd : {TRUE}]]
  BY DEF ScanDirectory
<1>2. \A x \in [log : found, sd : {TRUE}] : x.log \in found /\ x = [log |-> x.log, sd |-> TRUE]
  <2> HIDE DEF found
  <2> SUFFICES ASSUME NEW x \in [log : found, sd : {TRUE}]
               PROVE  x.log \in found /\ x = [log |-> x.log, sd |-> TRUE]
    OBVIOUS
  <2>1. x.log \in found /\ x.sd = TRUE
    OBVIOUS
  <2> QED BY <2>1
<1>3. \A l \in found : [log |-> l, sd |-> TRUE] \in [log : found, sd : {TRUE}]
  OBVIOUS
<1>4. DigestsOf(kept \cup [log : found, sd : {TRUE}]) = DigestsOf(list.logs) \cup found
  <2>1. DigestsOf(kept \cup [log : found, sd : {TRUE}]) \subseteq DigestsOf(list.logs) \cup found
    BY <1>2 DEF DigestsOf
  <2>2. found \subseteq DigestsOf(kept \cup [log : found, sd : {TRUE}])
    <3> SUFFICES ASSUME NEW l \in found
                 PROVE  \E x \in kept \cup [log : found, sd : {TRUE}] : x.log = l
      BY DEF DigestsOf
    <3>1. [log |-> l, sd |-> TRUE].log = l
      OBVIOUS
    <3> HIDE DEF found, kept
    <3> QED BY <1>3, <3>1
  <2>3. DigestsOf(list.logs) \subseteq DigestsOf(kept \cup [log : found, sd : {TRUE}])
    <3> SUFFICES ASSUME NEW x \in list.logs
                 PROVE  x.log \in DigestsOf(kept \cup [log : found, sd : {TRUE}])
      BY DEF DigestsOf
    <3>1. CASE x.log \in found
      BY <3>1, <2>2
    <3>2. CASE x.log \notin found
      BY <3>2 DEF DigestsOf
    <3> QED BY <3>1, <3>2
  <2> QED BY <2>1, <2>2, <2>3
<1>5. /\ ScanDirectory(list).lastScan = clock
      /\ ScanDirectory(list).logs = kept \cup [log : found, sd : {TRUE}]
  BY <1>1
<1>6. DigestsOf(ScanDirectory(list).logs) = DigestsOf(list.logs) \cup found
  BY <1>4, <1>5
<1>7. \A x \in kept : x \in list.logs /\ x.log \notin found
  OBVIOUS
<1>8. \A x \in list.logs : x.log \notin found => x \in kept
  OBVIOUS
<1>9. found = Rescanned(list.lastScan)
  OBVIOUS
<1> HIDE DEF found, kept
<1> QED BY <1>2, <1>3, <1>5, <1>6, <1>7, <1>8, <1>9

-----------------------------------------------------------------------------
(* One task at a time.                                                     *)

(* The logs of all tasks so far.                                           *)
TaskLogs == {task[t].entry.log : t \in {u \in Tasks : task[u].phase # "new"}}

(* What is known is on the card, in the trash, or was given to a task.     *)
LEMMA KnownLogs == Known = Files(card) \cup Files(trash) \cup TaskLogs
BY DEF Known, TaskLogs

(* Nothing is moved while all is quiet.                                    *)
LEMMA WhenQuiet ==
  ASSUME LogsTyped, Quiet
  PROVE  /\ Handled = {} /\ Deleting = {} /\ OneAtATime
         /\ \A t \in Tasks : task[t].phase \in {"new", "done"}
BY DEF Quiet, Handled, Deleting, Started, OneAtATime, Running

(* A task is started when no other runs.                                   *)
LEMMA StartedTask ==
  ASSUME LogsTyped, Quiet, NEW op, NEW e, Execute(op, e)
  PROVE  \E t \in Tasks :
           /\ Running(t)'
           /\ task'[t].phase = "queued" /\ task'[t].op = op /\ task'[t].entry = e
           /\ \A u \in Tasks : u # t => task'[u] = task[u] /\ ~(Running(u)')
           /\ Handled' = {} /\ Deleting' = {} /\ OneAtATime' /\ ~(Quiet')
           /\ TaskLogs' = TaskLogs \cup {e.log}
           /\ \A u \in Tasks : task'[u].phase \notin {"read", "open", "write"}
<1> DEFINE new == [phase |-> "queued", op |-> op, entry |-> e, list |-> EmptyList]
<1>1. PICK t \in Tasks : task[t].phase = "new" /\ task' = [task EXCEPT ![t] = new]
  BY DEF Execute
<1>2. new.phase = "queued" /\ new.op = op /\ new.entry = e
  OBVIOUS
<1> HIDE DEF new
<1>3. \A u \in Tasks : task'[u] = IF u = t THEN new ELSE task[u]
  BY <1>1 DEF LogsTyped, LogsTypeOK
<1>4. \A u \in Tasks : u # t => task'[u] = task[u] /\ ~(Running(u)')
  BY <1>3 DEF Quiet, Running
<1>5. Running(t)' /\ ~(Quiet')
  BY <1>2, <1>3 DEF Running, Quiet
<1>6. Handled' = {} /\ Deleting' = {}
  BY <1>2, <1>3, <1>4 DEF Handled, Deleting, Started
<1>7. OneAtATime'
  BY <1>4 DEF OneAtATime
<1>8. TaskLogs' = TaskLogs \cup {e.log}
  BY <1>1, <1>2, <1>3 DEF TaskLogs
<1>9. \A u \in Tasks : task'[u].phase \notin {"read", "open", "write"}
  BY <1>2, <1>3, WhenQuiet
<1> QED BY <1>2, <1>3, <1>4, <1>5, <1>6, <1>7, <1>8, <1>9

(* A running task goes on, and no other.                                   *)
LEMMA RunningTask ==
  ASSUME LogsTyped, OneAtATime, NEW t \in Tasks, Running(t)
  PROVE  /\ \A u \in Tasks : u # t => ~Running(u)
         /\ Handled = IF task[t].phase = "queued" THEN {} ELSE {task[t].entry.log}
         /\ Deleting = IF task[t].phase # "queued" /\ task[t].op = "deleteLog"
                       THEN {task[t].entry.log} ELSE {}
         /\ ~Quiet
BY DEF OneAtATime, Handled, Deleting, Started, Quiet

StepTo(t, phase, list) == [task EXCEPT ![t].phase = phase, ![t].list = list]

(* What a step of the only running task changes in the set of tasks.       *)
LEMMA SteppedTask ==
  ASSUME LogsTyped, OneAtATime, NEW t \in Tasks, Running(t),
         NEW phase \in {"read", "open", "write", "done"}, NEW list \in LogList,
         task' = StepTo(t, phase, list)
  PROVE  /\ task'[t].phase = phase /\ task'[t].op = task[t].op
         /\ task'[t].entry = task[t].entry /\ task'[t].list = list
         /\ \A u \in Tasks : u # t => task'[u] = task[u] /\ ~(Running(u)')
                                      /\ task'[u].phase \notin {"read", "open", "write"}
         /\ OneAtATime' /\ (phase = "done" => Quiet') /\ (phase # "done" => ~(Quiet'))
         /\ Handled' = IF phase = "done" THEN {} ELSE {task[t].entry.log}
         /\ Deleting' = IF phase # "done" /\ task[t].op = "deleteLog"
                        THEN {task[t].entry.log} ELSE {}
         /\ TaskLogs' = TaskLogs
<1> DEFINE next == [task[t] EXCEPT !.phase = phase, !.list = list]
<1>0. task[t] \in TaskRecord
  BY DEF LogsTyped, LogsTypeOK, TaskRecord
<1>1. /\ next.phase = phase /\ next.op = task[t].op
      /\ next.entry = task[t].entry /\ next.list = list
  BY <1>0 DEF TaskRecord
<1>2. task' = [task EXCEPT ![t] = next]
  BY DEF LogsTyped, LogsTypeOK, StepTo
<1> HIDE DEF next
<1>3. \A u \in Tasks : task'[u] = IF u = t THEN next ELSE task[u]
  BY <1>2 DEF LogsTyped, LogsTypeOK
<1>4. \A u \in Tasks : u # t => task'[u] = task[u] /\ ~(Running(u)')
                                /\ task'[u].phase \notin {"read", "open", "write"}
  BY <1>3, RunningTask DEF Running
<1>5. /\ OneAtATime'
      /\ (phase = "done" => Quiet') /\ (phase # "done" => ~(Quiet'))
  BY <1>1, <1>3, <1>4 DEF OneAtATime, Running, Quiet
<1>a. task'[t].phase = phase /\ task'[t].op = task[t].op /\ task'[t].entry = task[t].entry
  BY <1>1, <1>3
<1>b. Started' = IF phase = "done" THEN {} ELSE {t}
  BY <1>4, <1>a DEF Started, Running
<1>6. Handled' = IF phase = "done" THEN {} ELSE {task[t].entry.log}
  <2>1. Handled' = {task'[u].entry.log : u \in Started'}
    BY DEF Handled
  <2> QED BY <2>1, <1>b, <1>a
<1>7. Deleting' = IF phase # "done" /\ task[t].op = "deleteLog" THEN {task[t].entry.log} ELSE {}
  <2>1. Deleting' = {task'[u].entry.log : u \in {v \in Started' : task'[v].op = "deleteLog"}}
    BY DEF Deleting
  <2>2. {v \in Started' : task'[v].op = "deleteLog"}
          = IF phase # "done" /\ task[t].op = "deleteLog" THEN {t} ELSE {}
    BY <1>a, <1>b
  <2> QED BY <2>1, <2>2, <1>a
<1>8. TaskLogs' = TaskLogs
  <2>1. \A u \in Tasks : task'[u].entry = task[u].entry
    BY <1>a, <1>4
  <2>2. \A u \in Tasks : task'[u].phase = "new" <=> task[u].phase = "new"
    BY <1>a, <1>4 DEF Running
  <2>3. TaskLogs' = {task'[u].entry.log : u \in {v \in Tasks : task'[v].phase # "new"}}
    BY DEF TaskLogs
  <2>4. {v \in Tasks : task'[v].phase # "new"} = {v \in Tasks : task[v].phase # "new"}
    BY <2>2
  <2>5. TaskLogs' = {task'[u].entry.log : u \in {v \in Tasks : task[v].phase # "new"}}
    BY <2>3, <2>4
  <2> QED BY <2>1, <2>5 DEF TaskLogs
<1> QED BY <1>1, <1>3, <1>4, <1>5, <1>6, <1>7, <1>8

-----------------------------------------------------------------------------
(* The user's steps.                                                       *)

(* Starting a task moves nothing.                                          *)
LEMMA StartKeeps ==
  ASSUME LogsTyped, LogInv, Quiet, NEW op, NEW e, Execute(op, e),
         UNCHANGED <<summaryFile, card, trash, clock, library, crashed>>,
         TokensInv', TokenLogs' \subseteq TokenLogs, e.log \notin TokenLogs',
         op \in Listing \/ ~(fresh'),
         op = "saveLogInMemory" => ~e.sd /\ e.log \notin library \cup Files(card),
         op = "deleteLog" /\ ~e.sd => e.log \notin Files(card),
         op = "undo" => /\ e.log \notin library \cup DigestsOf(summaryFile.logs) \cup Files(card)
                        /\ e.sd => e.log \in Files(trash)
  PROVE  LogInv'
<1>1. PICK t \in Tasks :
           /\ Running(t)'
           /\ task'[t].phase = "queued" /\ task'[t].op = op /\ task'[t].entry = e
           /\ \A u \in Tasks : u # t => task'[u] = task[u] /\ ~(Running(u)')
           /\ Handled' = {} /\ Deleting' = {} /\ OneAtATime' /\ ~(Quiet')
           /\ TaskLogs' = TaskLogs \cup {e.log}
           /\ \A u \in Tasks : task'[u].phase \notin {"read", "open", "write"}
  BY StartedTask
<1>2. Known \subseteq Known'
  BY <1>1, KnownLogs DEF Files, Known, TaskLogs
<1>3. Handled = {} /\ Deleting = {} /\ \A u \in Tasks : task[u].phase # "write"
  BY WhenQuiet
<1>4. ListInv(summaryFile)'
  BY <1>2 DEF LogInv, SummaryInv, ListInv, Files
<1>5. SummaryInv'
  BY <1>1, <1>3, <1>4 DEF LogInv, SummaryInv, Exact, Files
<1>6. LibraryInv'
  <2>1. library \subseteq VisibleIn(summaryFile) /\ VisibleIn(summaryFile)' = VisibleIn(summaryFile)
    BY <1>3 DEF LogInv, LibraryInv, VisibleIn, DigestsOf, Rescanned, Files
  <2> QED BY <1>1, <1>2, <1>3, <2>1 DEF LogInv, LibraryInv, Files
<1>7. EntryInv(t)'
  BY <1>1 DEF EntryInv, Files
<1>8. TaskInv'
  BY <1>1, <1>7 DEF TaskInv
<1>9. ShownInv' /\ clock' >= 1
  BY <1>1 DEF ShownInv, LogInv
<1> QED BY <1>1, <1>5, <1>6, <1>8, <1>9 DEF LogInv

(* A game ends: its log is a new one, not on the card and not deleted.     *)
LEMMA GameEndsKeeps ==
  ASSUME LogsTyped, LogInv, CalmUse, GameEnds
  PROVE  LogInv'
<1>1. PICK l \in Logs : l \notin Known /\ Execute("saveLogInMemory", [log |-> l, sd |-> FALSE])
  BY DEF GameEnds, CalmUse
<1> DEFINE e == [log |-> l, sd |-> FALSE]
<1>2. e.log = l /\ ~e.sd
  OBVIOUS
<1>3. Quiet /\ ~(fresh') /\ UNCHANGED <<summaryFile, card, trash, clock, tokens, library, crashed>>
  BY DEF GameEnds, CalmUse, Calm
<1>4. l \notin library \cup Files(card) \cup TokenLogs
  BY <1>1 DEF LogInv, LibraryInv, TokensInv, TokenLogs, Known
<1>5. Known \subseteq Known'
  BY <1>1, <1>3, StartedTask, KnownLogs DEF Files, Known, TaskLogs
<1>6. TokensInv' /\ TokenLogs' = TokenLogs
  BY <1>3, <1>5 DEF LogInv, TokensInv, TokenLogs, Files
<1> HIDE DEF e
<1>7. Execute("saveLogInMemory", e)
  BY <1>1 DEF e
<1>8. "saveLogInMemory" # "deleteLog" /\ "saveLogInMemory" # "undo"
  OBVIOUS
<1> QED BY <1>2, <1>3, <1>4, <1>6, <1>7, <1>8, StartKeeps

(* The menus act on a fresh entry, so what it says of the card is true.    *)
LEMMA SaveOrDeleteKeeps ==
  ASSUME LogsTyped, LogInv, CalmUse, SaveOrDelete
  PROVE  LogInv'
<1>1. PICK e \in shown, op \in {"saveLogInSdcard", "deleteLog"} : Execute(op, e)
  BY DEF SaveOrDelete
<1>2. /\ Quiet /\ fresh /\ ~(fresh')
      /\ UNCHANGED <<summaryFile, card, trash, clock, tokens, library, crashed>>
  BY DEF SaveOrDelete, CalmUse, OnList
<1>3. e \in summaryFile.logs /\ (~e.sd => e.log \notin Files(card))
  BY <1>2 DEF LogInv, ShownInv
<1>4. e.log \notin TokenLogs
  BY <1>3 DEF LogInv, SummaryInv, ListInv, DigestsOf
<1>5. Known \subseteq Known'
  BY <1>1, <1>2, StartedTask, KnownLogs DEF Files, Known, TaskLogs
<1>6. TokensInv' /\ TokenLogs' = TokenLogs
  BY <1>2, <1>5 DEF LogInv, TokensInv, TokenLogs, Files
<1>7. op # "saveLogInMemory" /\ op # "undo"
  OBVIOUS
<1> QED BY <1>1, <1>2, <1>3, <1>4, <1>6, <1>7, StartKeeps

(* The last token: its log is in no list, and its file is in the trash.    *)
LEMMA UndoDeletionKeeps ==
  ASSUME LogsTyped, LogInv, CalmUse, UndoDeletion
  PROVE  LogInv'
<1> DEFINE e == Last(tokens)
<1>1. /\ Quiet /\ tokens # <<>> /\ tokens' = Front(tokens) /\ Execute("undo", e) /\ ~(fresh')
      /\ UNCHANGED <<summaryFile, card, trash, clock, library, crashed>>
  BY DEF UndoDeletion, CalmUse, OnList
<1>2. tokens \in Seq(LogEntry)
  BY DEF LogsTyped, LogsTypeOK
<1>3. /\ Len(tokens) \in Nat \ {0} /\ e = tokens[Len(tokens)]
      /\ Len(tokens') = Len(tokens) - 1
      /\ \A i \in 1..Len(tokens) - 1 : tokens'[i] = tokens[i]
  BY <1>1, <1>2, LastToken
<1> HIDE DEF e
<1>4. /\ Len(tokens) \in 1..Len(tokens)
      /\ \A i \in 1..Len(tokens') : i \in 1..Len(tokens) /\ i # Len(tokens) /\ tokens'[i] = tokens[i]
  BY <1>3
<1>5. /\ e.log \in Known \ (library \cup Files(card))
      /\ e.sd => e.log \in Files(trash)
  BY <1>3, <1>4 DEF LogInv, TokensInv
<1>6. e.log \notin TokenLogs'
  BY <1>3, <1>4 DEF LogInv, TokensInv, TokenLogs
<1>7. e.log \notin DigestsOf(summaryFile.logs)
  BY <1>3, <1>4 DEF LogInv, SummaryInv, ListInv, TokenLogs
<1>8. TokenLogs' \subseteq TokenLogs
  BY <1>4 DEF TokenLogs
<1>9. Known \subseteq Known'
  BY <1>1, StartedTask, KnownLogs DEF Files, Known, TaskLogs
<1>10. TokensInv'
  BY <1>1, <1>4, <1>9 DEF LogInv, TokensInv, Files
<1>11. "undo" # "saveLogInMemory" /\ "undo" # "deleteLog"
  OBVIOUS
<1> QED BY <1>1, <1>5, <1>6, <1>7, <1>8, <1>10, <1>11, StartKeeps

(* A listing names no log.                                                 *)
LEMMA StartListingKeeps ==
  ASSUME LogsTyped, LogInv, CalmUse, StartListing
  PROVE  LogInv'
<1>1. PICK op \in Listing : Execute(op, NoEntry)
  BY DEF StartListing, Listing
<1>2. Quiet /\ UNCHANGED <<summaryFile, card, trash, clock, tokens, library, crashed>>
  BY DEF StartListing, CalmUse, Calm
<1>3. Known \subseteq Known'
  BY <1>1, <1>2, StartedTask, KnownLogs DEF Files, Known, TaskLogs
<1>4. TokensInv' /\ TokenLogs' = TokenLogs
  BY <1>2, <1>3 DEF LogInv, TokensInv, TokenLogs, Files
<1>5. NoEntry.log \notin TokenLogs
  <2>1. NoEntry.log \notin Logs
    BY LogsAssumption DEF NoEntry
  <2>2. TokenLogs \subseteq Logs
    <3>1. \A i \in 1..Len(tokens) : tokens[i] \in LogEntry
      BY ElementOfSeq DEF LogsTyped, LogsTypeOK
    <3> QED BY <3>1 DEF TokenLogs, LogEntry
  <2> QED BY <2>1, <2>2
<1>6. op # "saveLogInMemory" /\ op # "undo" /\ op # "deleteLog"
  BY DEF Listing
<1> QED BY <1>1, <1>2, <1>4, <1>5, <1>6, StartKeeps

(* Time passes.                                                            *)
LEMMA TickKeeps ==
  ASSUME LogsTyped, LogInv, Tick
  PROVE  LogInv'
<1>1. /\ clock' = clock + 1 /\ clock \in Nat
      /\ UNCHANGED <<summaryFile, card, trash, task, lock, shown, fresh, tokens, library, crashed>>
  BY DEF Tick, LogsTyped, LogsTypeOK
<1>2. /\ Known' = Known /\ TokenLogs' = TokenLogs /\ Files(card)' = Files(card)
      /\ Files(trash)' = Files(trash) /\ Handled' = Handled /\ Deleting' = Deleting
      /\ OneAtATime' = OneAtATime /\ Quiet' = Quiet /\ clock' >= 1
  BY <1>1 DEF Known, TokenLogs, Files, Handled, Deleting, Started, Running, OneAtATime, Quiet, LogInv
<1>3. ASSUME NEW list \in LogList, ListInv(list)
      PROVE  ListInv(list)'
  <2>1. list.lastScan \in Int
    BY DEF LogList
  <2> QED BY <1>1, <1>2, <1>3, <2>1 DEF ListInv
<1>4. SummaryInv'
  <2>1. summaryFile \in LogList
    BY DEF LogsTyped, LogsTypeOK
  <2>2. ListInv(summaryFile)'
    BY <1>1, <1>3, <2>1 DEF LogInv, SummaryInv
  <2> QED BY <1>1, <1>2, <2>2 DEF LogInv, SummaryInv, Exact
<1>5. LibraryInv' /\ TokensInv' /\ ShownInv'
  BY <1>1, <1>2 DEF LogInv, LibraryInv, TokensInv, ShownInv, VisibleIn, DigestsOf, Rescanned
<1>6. TaskInv'
  <2> SUFFICES ASSUME NEW t \in Tasks
               PROVE  (/\ Running(t) => EntryInv(t)
                       /\ Running(t) /\ task[t].op \notin Listing => ~fresh
                       /\ task[t].phase \in {"read", "open"} /\ task[t].op = "saveLogInSdcard" =>
                            card[task[t].entry.log] >= summaryFile.lastScan
                       /\ task[t].phase \in {"open", "write"} => ChangedInv(t))'
    BY DEF TaskInv
  <2>1. (Running(t) => EntryInv(t))'
    BY <1>1, <1>2 DEF LogInv, TaskInv, EntryInv, Running
  <2>2. (task[t].phase \in {"open", "write"} => ChangedInv(t))'
    <3> SUFFICES ASSUME task[t].phase \in {"open", "write"} PROVE ChangedInv(t)'
      BY <1>1
    <3>1. ChangedInv(t) /\ task[t].list \in LogList
      BY DEF LogInv, TaskInv, LogsTyped, LogsTypeOK
    <3>2. ListInv(task[t].list)'
      <4> DEFINE list == task[t].list
      <4>1. ListInv(list)'
        BY <1>1, <1>2, <3>1 DEF ChangedInv, ListChanged, ListInv, LogList
      <4> QED BY <4>1
    <3> QED BY <1>1, <1>2, <3>1, <3>2 DEF ChangedInv, ListChanged, Exact, VisibleIn, DigestsOf, Rescanned, OwedBy
  <2> QED BY <1>1, <2>1, <2>2 DEF LogInv, TaskInv, Running
<1> QED BY <1>2, <1>4, <1>5, <1>6 DEF LogInv

(* Where times are exact a file is as old as its last write.               *)
LEMMA ExactTime ==
  ASSUME Granularity = 1, NEW now \in Nat
  PROVE  LastModified(now) = now
<1>1. now % 1 = 0
  OBVIOUS
<1> QED BY <1>1 DEF LastModified

(* A file that comes from elsewhere is of a new log, and is found.         *)
LEMMA DownloadKeeps ==
  ASSUME LogsTyped, LogInv, CalmUse, Download
  PROVE  LogInv'
<1>1. PICK l \in Logs \ Known :
        card' = [card EXCEPT ![l] = LastModified(clock)] /\ library' = library \cup {l}
  BY DEF Download
<1>2. /\ Quiet /\ ~(fresh')
      /\ UNCHANGED <<summaryFile, trash, clock, task, lock, shown, tokens, crashed>>
  BY DEF Download, CalmUse, Calm
<1>3. /\ clock \in Nat /\ clock >= 1 /\ LastModified(clock) = clock
      /\ summaryFile.lastScan \in Int /\ summaryFile.lastScan <= clock
  BY ExactTime DEF LogsTyped, LogsTypeOK, CalmUse, LogInv, SummaryInv, ListInv, LogList
<1>4. /\ \A k \in Logs : card'[k] = IF k = l THEN clock ELSE card[k]
      /\ Files(card)' = Files(card) \cup {l}
  <2>1. \A k \in Logs : card'[k] = IF k = l THEN clock ELSE card[k]
    BY <1>1, <1>3 DEF LogsTyped, LogsTypeOK
  <2> QED BY <1>1, <1>3, <2>1 DEF Files, NoFile
<1>5. /\ Known' = Known \cup {l} /\ TokenLogs' = TokenLogs /\ Files(trash)' = Files(trash)
      /\ Handled' = {} /\ Deleting' = {} /\ Handled = {} /\ Deleting = {}
      /\ OneAtATime' /\ Quiet' /\ clock' >= 1
  <2>1. TaskLogs' = TaskLogs /\ Files(trash)' = Files(trash) /\ TokenLogs' = TokenLogs
    BY <1>2 DEF TaskLogs, Files, TokenLogs
  <2>2. Known' = Files(card)' \cup Files(trash)' \cup TaskLogs'
    BY DEF Known, TaskLogs
  <2>3. Quiet' /\ Handled' = Handled /\ Deleting' = Deleting /\ OneAtATime' = OneAtATime
    BY <1>2 DEF Quiet, Running, Handled, Deleting, Started, OneAtATime
  <2> QED BY <1>2, <1>3, <1>4, <2>1, <2>2, <2>3, KnownLogs, WhenQuiet DEF LogInv
<1>6. \A u \in Tasks : task[u].phase \in {"new", "done"}
  BY <1>2, WhenQuiet
<1>7. l \notin DigestsOf(summaryFile.logs) /\ l \notin TokenLogs
  BY <1>1 DEF LogInv, SummaryInv, ListInv, TokensInv, TokenLogs
<1>8. ListInv(summaryFile)'
  <2>1. \A x \in summaryFile.logs : x.log # l /\ x.log \in DigestsOf(summaryFile.logs)
    BY <1>7 DEF DigestsOf
  <2>2. \A x \in summaryFile.logs : ~x.sd /\ x.log \in Files(card) => card'[x.log] >= summaryFile.lastScan
    BY <1>4, <2>1 DEF LogInv, SummaryInv, ListInv, Files
  <2> QED BY <1>2, <1>4, <1>5, <2>1, <2>2 DEF LogInv, SummaryInv, ListInv
<1>9. SummaryInv'
  <2>1. Exact(summaryFile, Handled) => Exact(summaryFile, Handled)'
    BY <1>2, <1>4, <1>5, <1>7 DEF Exact, DigestsOf
  <2> QED BY <1>1, <1>2, <1>8, <2>1 DEF LogInv, SummaryInv
<1>10. LibraryInv'
  <2>1. library \subseteq VisibleIn(summaryFile)
    BY <1>5, <1>6 DEF LogInv, LibraryInv
  <2>2. VisibleIn(summaryFile) \cup {l} \subseteq VisibleIn(summaryFile)'
    BY <1>2, <1>3, <1>4 DEF VisibleIn, DigestsOf, Rescanned, Files
  <2> QED BY <1>1, <1>2, <1>4, <1>5, <1>6, <2>1, <2>2 DEF LogInv, LibraryInv
<1>11. TokensInv'
  BY <1>1, <1>2, <1>4, <1>5, <1>7 DEF LogInv, TokensInv, TokenLogs
<1>12. TaskInv' /\ ShownInv'
  BY <1>2, <1>6 DEF TaskInv, ShownInv, Running
<1> QED BY <1>5, <1>9, <1>10, <1>11, <1>12 DEF LogInv

(* What is left after the process was killed.                              *)
LEMMA CrashKeeps ==
  ASSUME LogsTyped, LogInv, Crash
  PROVE  LogInv'
<1>1. /\ crashed' /\ ~(fresh') /\ tokens' = <<>>
      /\ UNCHANGED <<summaryFile, card, trash, clock>>
      /\ \A u \in Tasks : task'[u] = IF Running(u) THEN [task[u] EXCEPT !.phase = "done", !.list = EmptyList]
                                                   ELSE task[u]
  BY DEF Crash
<1>2. \A u \in Tasks : /\ task'[u].phase \in {"new", "done"}
                       /\ task'[u].entry = task[u].entry
                       /\ task'[u].phase = "new" <=> task[u].phase = "new"
  <2> SUFFICES ASSUME NEW u \in Tasks
               PROVE  /\ task'[u].phase \in {"new", "done"}
                      /\ task'[u].entry = task[u].entry
                      /\ task'[u].phase = "new" <=> task[u].phase = "new"
    OBVIOUS
  <2>1. task[u] \in TaskRecord
    BY DEF LogsTyped, LogsTypeOK, TaskRecord
  <2> QED BY <1>1, <2>1 DEF TaskRecord, Running
<1>3. Quiet' /\ Handled' = {} /\ Deleting' = {} /\ OneAtATime'
  BY <1>2 DEF Quiet, Handled, Deleting, Started, OneAtATime, Running
<1>4. Known' = Known
  <2>1. {v \in Tasks : task'[v].phase # "new"} = {v \in Tasks : task[v].phase # "new"}
    BY <1>2
  <2>2. TaskLogs' = {task'[u].entry.log : u \in {v \in Tasks : task'[v].phase # "new"}}
    BY DEF TaskLogs
  <2>3. TaskLogs' = {task'[u].entry.log : u \in {v \in Tasks : task[v].phase # "new"}}
    BY <2>1, <2>2
  <2>4. TaskLogs' = TaskLogs
    BY <1>2, <2>3 DEF TaskLogs
  <2>5. Known' = Files(card)' \cup Files(trash)' \cup TaskLogs'
    BY DEF Known, TaskLogs
  <2> QED BY <1>1, <2>4, <2>5, KnownLogs DEF Files
<1>5. TokenLogs' = {} /\ Len(tokens') = 0
  <2>1. Len(tokens') = 0
    BY <1>1, EmptySeq
  <2>2. 1..Len(tokens') = {}
    BY <2>1
  <2> QED BY <2>1, <2>2 DEF TokenLogs
<1>6. SummaryInv'
  BY <1>1, <1>4, <1>5 DEF LogInv, SummaryInv, ListInv, Files
<1>7. LibraryInv'
  <2> DEFINE deleted == {task[t].entry.log : t \in {u \in Tasks : Running(u) /\ task[u].op = "deleteLog"}}
             kept == IF summaryFile = Truncated THEN library \cap Files(card) ELSE library
  <2>1. library' = kept \ deleted
    BY DEF Crash
  <2>2. Deleting \subseteq deleted
    BY DEF Deleting, Started
  <2>3. VisibleIn(summaryFile)' = VisibleIn(summaryFile)
    BY <1>1 DEF VisibleIn, DigestsOf, Rescanned, Files
  <2>4. CASE summaryFile = EmptyList
    <3>1. \A k \in Files(card) : card[k] >= summaryFile.lastScan
      BY <2>4 DEF EmptyList, LogsTyped, LogsTypeOK, Files
    <3>2. Files(card) \subseteq VisibleIn(summaryFile)
      BY <3>1 DEF VisibleIn, DigestsOf, Rescanned
    <3>3. library' \subseteq Files(card) \cap library
      BY <2>1, <2>4 DEF Truncated
    <3> QED BY <1>1, <1>2, <1>4, <2>3, <3>2, <3>3 DEF LogInv, LibraryInv
  <2>5. CASE summaryFile # EmptyList
    <3>1. library \ Deleting \subseteq VisibleIn(summaryFile)
      BY <2>5 DEF LogInv, LibraryInv
    <3>2. library' \subseteq library \ Deleting
      BY <2>1, <2>2, <2>5 DEF Truncated
    <3> QED BY <1>1, <1>2, <1>4, <2>3, <3>1, <3>2 DEF LogInv, LibraryInv
  <2> QED BY <2>4, <2>5
<1>8. TokensInv'
  <2>1. 1..Len(tokens') = {}
    BY <1>5
  <2> QED BY <2>1 DEF TokensInv
<1>9. TaskInv' /\ ShownInv'
  BY <1>1, <1>2 DEF TaskInv, ShownInv, Running
<1> QED BY <1>1, <1>3, <1>6, <1>7, <1>8, <1>9 DEF LogInv

-----------------------------------------------------------------------------
(* The steps of a task.                                                    *)

(* What is to be shown of a step of the only task.                         *)
LEMMA OnlyTaskMatters ==
  ASSUME LogsTyped, LogInv, NEW t \in Tasks, Running(t),
         NEW phase \in {"read", "open", "write", "done"}, NEW list \in LogList,
         task' = StepTo(t, phase, list),
         phase # "done" => EntryInv(t)',
         phase # "done" => ~(fresh') \/ task[t].op \in Listing,
         phase \in {"read", "open"} /\ task[t].op = "saveLogInSdcard" =>
            card'[task[t].entry.log] >= summaryFile'.lastScan,
         phase \in {"open", "write"} => ChangedInv(t)'
  PROVE  TaskInv'
<1>1. /\ task'[t].phase = phase /\ task'[t].op = task[t].op /\ task'[t].entry = task[t].entry
      /\ \A u \in Tasks : u # t => ~(Running(u)') /\ task'[u].phase \notin {"read", "open", "write"}
  BY SteppedTask DEF LogInv
<1>2. phase = "done" => ~(Running(t)')
  BY <1>1 DEF Running
<1> QED BY <1>1, <1>2 DEF TaskInv

(* What the invariant says of a running task.                              *)
LEMMA TaskFacts ==
  ASSUME LogsTyped, LogInv, NEW t \in Tasks, Running(t)
  PROVE  /\ EntryInv(t) /\ OneAtATime /\ clock \in Nat /\ clock >= 1
         /\ task[t].op \notin Listing =>
              /\ ~fresh /\ task[t].entry \in LogEntry /\ task[t].entry.log \in Logs
              /\ task[t].entry.sd \in BOOLEAN
         /\ task[t].op \in Listing => task[t].entry = NoEntry /\ NoEntry.log \notin Logs /\ ~NoEntry.sd
         /\ task[t].entry.log \in TaskLogs
         /\ task[t].list \in LogList /\ summaryFile \in LogList /\ summaryFile.lastScan \in Int
<1>1. NoEntry.log \notin Logs /\ ~NoEntry.sd
  BY LogsAssumption DEF NoEntry
<1>2. task[t].entry.log \in TaskLogs
  BY DEF TaskLogs, Running
<1> QED BY <1>1, <1>2 DEF LogInv, TaskInv, LogsTyped, LogsTypeOK, EntriesOK, LogEntry, LogList

(* A step to the next phase keeps the list of the task.                    *)
LEMMA PhaseStep ==
  ASSUME LogsTyped, NEW t \in Tasks, NEW phase,
         task' = [task EXCEPT ![t].phase = phase]
  PROVE  task' = StepTo(t, phase, task[t].list)
BY DEF LogsTyped, LogsTypeOK, StepTo

(* The file is written, and the next scan will find it.                    *)
LEMMA WriteKifKeeps ==
  ASSUME LogsTyped, LogInv, CalmUse, NEW t \in Tasks, WriteKif(t)
  PROVE  LogInv'
<1> DEFINE l == task[t].entry.log
<1>1. /\ Running(t) /\ task[t].phase = "queued" /\ task[t].op = "saveLogInSdcard"
      /\ card' = [card EXCEPT ![l] = LastModified(clock)] /\ library' = library \cup {l}
      /\ task' = [task EXCEPT ![t].phase = "read"]
      /\ UNCHANGED <<summaryFile, trash, clock, lock, shown, fresh, tokens, crashed>>
  BY DEF WriteKif, Running
<1>2. task' = StepTo(t, "read", task[t].list)
  BY <1>1, PhaseStep
<1>3. /\ l \in Logs /\ l \notin TokenLogs /\ ~fresh
      /\ clock \in Nat /\ clock >= 1 /\ LastModified(clock) = clock
      /\ summaryFile.lastScan \in Int /\ summaryFile.lastScan <= clock
      /\ l \in TaskLogs /\ OneAtATime /\ task[t].list \in LogList
  BY <1>1, TaskFacts, ExactTime DEF EntryInv, Listing, CalmUse, LogInv, SummaryInv, ListInv
<1>4. /\ \A k \in Logs : card'[k] = IF k = l THEN clock ELSE card[k]
      /\ Files(card)' = Files(card) \cup {l} /\ Files(trash)' = Files(trash)
  <2>1. \A k \in Logs : card'[k] = IF k = l THEN clock ELSE card[k]
    BY <1>1, <1>3 DEF LogsTyped, LogsTypeOK
  <2> QED BY <1>1, <1>3, <2>1 DEF Files, NoFile
<1> HIDE DEF l
<1>5. /\ task'[t].phase = "read" /\ task'[t].op = task[t].op /\ task'[t].entry = task[t].entry
      /\ \A u \in Tasks : task'[u].phase # "write"
      /\ OneAtATime' /\ ~(Quiet') /\ Handled' = {l} /\ Deleting' = {} /\ TaskLogs' = TaskLogs
  <2>1. Handled' = {task[t].entry.log} /\ Deleting' = {}
    BY <1>1, <1>2, <1>3, SteppedTask
  <2> QED BY <1>1, <1>2, <1>3, <2>1, SteppedTask DEF l
<1>6. Handled = {} /\ Deleting = {} /\ \A u \in Tasks : task[u].phase # "write"
  BY <1>1, <1>3, RunningTask DEF Running
<1>7. Known' = Known /\ TokenLogs' = TokenLogs
  <2>1. Known' = Files(card)' \cup Files(trash)' \cup TaskLogs'
    BY DEF Known, TaskLogs
  <2> QED BY <1>1, <1>3, <1>4, <1>5, <2>1, KnownLogs DEF TokenLogs
<1>8. ListInv(summaryFile)'
  <2>1. ASSUME NEW x \in summaryFile.logs, ~x.sd, x.log \in Files(card)'
        PROVE  card'[x.log] >= summaryFile.lastScan
    <3>1. x.log \in Logs
      BY <2>1 DEF Files
    <3>2. CASE x.log = l
      BY <1>3, <1>4, <3>2
    <3>3. CASE x.log # l
      BY <1>4, <2>1, <3>1, <3>3 DEF LogInv, SummaryInv, ListInv
    <3> QED BY <3>2, <3>3
  <2>2. \A x \in summaryFile.logs : ~x.sd /\ x.log \in Files(card)' => card'[x.log] >= summaryFile.lastScan
    BY <2>1
  <2> QED BY <1>1, <1>3, <1>7, <2>2 DEF LogInv, SummaryInv, ListInv
<1>9. SummaryInv'
  <2>1. Exact(summaryFile, Handled) => Exact(summaryFile, Handled)'
    BY <1>1, <1>4, <1>5, <1>6 DEF Exact
  <2> QED BY <1>1, <1>8, <2>1 DEF LogInv, SummaryInv
<1>10. LibraryInv'
  <2>1. library \subseteq VisibleIn(summaryFile)
    BY <1>6 DEF LogInv, LibraryInv
  <2>2. VisibleIn(summaryFile) \cup {l} \subseteq VisibleIn(summaryFile)'
    BY <1>1, <1>3, <1>4 DEF VisibleIn, DigestsOf, Rescanned, Files
  <2>3. l \in Known
    BY <1>3, KnownLogs
  <2> QED BY <1>1, <1>4, <1>5, <1>6, <1>7, <2>1, <2>2, <2>3 DEF LogInv, LibraryInv
<1>11. TokensInv'
  BY <1>1, <1>3, <1>4, <1>7 DEF LogInv, TokensInv, TokenLogs
<1>12. EntryInv(t)'
  <2>1. /\ task'[t].entry.log = l /\ l \notin TokenLogs'
        /\ task'[t].op = "saveLogInSdcard" /\ task'[t].phase = "read"
    BY <1>1, <1>3, <1>5, <1>7 DEF l
  <2>2. l \in library' \cap Files(card)'
    BY <1>1, <1>3, <1>4, <1>5
  <2> QED BY <2>1, <2>2 DEF EntryInv
<1>13. card'[l] >= summaryFile'.lastScan
  BY <1>1, <1>3, <1>4
<1>14. TaskInv'
  BY <1>1, <1>2, <1>3, <1>12, <1>13, OnlyTaskMatters DEF l
<1>15. ShownInv' /\ clock' >= 1
  BY <1>1, <1>3, <1>5 DEF ShownInv
<1> QED BY <1>5, <1>9, <1>10, <1>11, <1>14, <1>15 DEF LogInv

(* The file goes to the trash; the summary still has its entry.            *)
LEMMA MoveToTrashKeeps ==
  ASSUME LogsTyped, LogInv, NEW t \in Tasks, MoveToTrash(t)
  PROVE  LogInv'
<1> DEFINE l == task[t].entry.log
<1>1. /\ Running(t) /\ task[t].phase = "queued" /\ task[t].op = "deleteLog" /\ task[t].entry.sd
      /\ l \in Files(card)
      /\ card' = [card EXCEPT ![l] = NoFile] /\ trash' = [trash EXCEPT ![l] = card[l]]
      /\ task' = [task EXCEPT ![t].phase = "read"]
      /\ UNCHANGED <<summaryFile, clock, shown, fresh, tokens, library, crashed>>
  BY DEF MoveToTrash, Running, Moved, Removed
<1>2. task' = StepTo(t, "read", task[t].list)
  BY <1>1, PhaseStep
<1>3. /\ l \in Logs /\ l \notin TokenLogs /\ ~fresh /\ clock >= 1
      /\ l \in TaskLogs /\ OneAtATime /\ task[t].list \in LogList
  BY <1>1, TaskFacts DEF EntryInv, Listing
<1>4. /\ \A k \in Logs : card'[k] = IF k = l THEN NoFile ELSE card[k]
      /\ Files(card)' = Files(card) \ {l} /\ Files(trash)' = Files(trash) \cup {l}
  <2>1. /\ \A k \in Logs : card'[k] = IF k = l THEN NoFile ELSE card[k]
        /\ \A k \in Logs : trash'[k] = IF k = l THEN card[l] ELSE trash[k]
    BY <1>1, <1>3 DEF LogsTyped, LogsTypeOK
  <2> QED BY <1>1, <1>3, <2>1 DEF Files
<1> HIDE DEF l
<1>5. /\ task'[t].phase = "read" /\ task'[t].op = task[t].op /\ task'[t].entry = task[t].entry
      /\ \A u \in Tasks : task'[u].phase # "write"
      /\ OneAtATime' /\ ~(Quiet') /\ Handled' = {l} /\ Deleting' = {l} /\ TaskLogs' = TaskLogs
  <2>1. Handled' = {task[t].entry.log} /\ Deleting' = {task[t].entry.log}
    BY <1>1, <1>2, <1>3, SteppedTask
  <2> QED BY <1>1, <1>2, <1>3, <2>1, SteppedTask DEF l
<1>6. Handled = {} /\ Deleting = {} /\ \A u \in Tasks : task[u].phase # "write"
  BY <1>1, <1>3, RunningTask DEF Running
<1>7. Known' = Known /\ TokenLogs' = TokenLogs
  <2>1. Known' = Files(card)' \cup Files(trash)' \cup TaskLogs'
    BY DEF Known, TaskLogs
  <2> QED BY <1>1, <1>3, <1>4, <1>5, <2>1, KnownLogs DEF TokenLogs
<1>8. ListInv(summaryFile)'
  <2>1. \A x \in summaryFile.logs : ~x.sd /\ x.log \in Files(card)' => card'[x.log] >= summaryFile.lastScan
    BY <1>4 DEF LogInv, SummaryInv, ListInv, Files
  <2> QED BY <1>1, <1>7, <2>1 DEF LogInv, SummaryInv, ListInv
<1>9. SummaryInv'
  <2>1. Exact(summaryFile, Handled) => Exact(summaryFile, Handled)'
    BY <1>1, <1>4, <1>5, <1>6 DEF Exact
  <2> QED BY <1>1, <1>8, <2>1 DEF LogInv, SummaryInv
<1>10. LibraryInv'
  <2>1. library \subseteq VisibleIn(summaryFile)
    BY <1>6 DEF LogInv, LibraryInv
  <2>2. VisibleIn(summaryFile) \ {l} \subseteq VisibleIn(summaryFile)'
    BY <1>1, <1>4 DEF VisibleIn, DigestsOf, Rescanned, Files
  <2> QED BY <1>1, <1>4, <1>5, <1>6, <1>7, <2>1, <2>2 DEF LogInv, LibraryInv
<1>11. TokensInv'
  BY <1>1, <1>3, <1>4, <1>7 DEF LogInv, TokensInv, TokenLogs
<1>12. EntryInv(t)'
  <2>1. /\ task'[t].entry.log = l /\ l \notin TokenLogs'
        /\ task'[t].op = "deleteLog" /\ task'[t].phase = "read"
    BY <1>1, <1>3, <1>5, <1>7 DEF l
  <2>2. l \notin Files(card)' /\ l \in Files(trash)'
    BY <1>1, <1>3, <1>4, <1>5
  <2> QED BY <2>1, <2>2 DEF EntryInv
<1>13. "deleteLog" # "saveLogInSdcard"
  OBVIOUS
<1>14. TaskInv'
  BY <1>1, <1>2, <1>3, <1>12, <1>13, OnlyTaskMatters
<1>15. ShownInv' /\ clock' >= 1
  BY <1>1, <1>3, <1>5 DEF ShownInv
<1> QED BY <1>5, <1>9, <1>10, <1>11, <1>14, <1>15 DEF LogInv

(* The file comes back under a time that a scan may overlook.              *)
LEMMA MoveBackKeeps ==
  ASSUME LogsTyped, LogInv, NEW t \in Tasks, MoveBack(t)
  PROVE  LogInv'
<1> DEFINE l == task[t].entry.log
<1>1. /\ Running(t) /\ task[t].phase = "queued" /\ task[t].op = "undo" /\ task[t].entry.sd
      /\ l \in Files(trash)
      /\ trash' = [trash EXCEPT ![l] = NoFile] /\ card' = [card EXCEPT ![l] = trash[l]]
      /\ task' = [task EXCEPT ![t].phase = "read"]
      /\ UNCHANGED <<summaryFile, clock, shown, fresh, tokens, library, crashed>>
  BY DEF MoveBack, Running, Moved, Removed
<1>2. task' = StepTo(t, "read", task[t].list)
  BY <1>1, PhaseStep
<1>3. /\ l \in Logs /\ l \notin TokenLogs /\ ~fresh /\ clock >= 1
      /\ l \notin library \cup DigestsOf(summaryFile.logs) \cup Files(card)
      /\ l \in TaskLogs /\ OneAtATime /\ task[t].list \in LogList
      /\ task[t].entry.sd = TRUE
  BY <1>1, TaskFacts DEF EntryInv, Listing
<1>4. /\ \A k \in Logs : k # l => card'[k] = card[k]
      /\ Files(card)' = Files(card) \cup {l} /\ Files(trash)' = Files(trash) \ {l}
  <2>1. /\ \A k \in Logs : card'[k] = IF k = l THEN trash[l] ELSE card[k]
        /\ \A k \in Logs : trash'[k] = IF k = l THEN NoFile ELSE trash[k]
    BY <1>1, <1>3 DEF LogsTyped, LogsTypeOK
  <2> QED BY <1>1, <1>3, <2>1 DEF Files
<1> HIDE DEF l
<1>5. /\ task'[t].phase = "read" /\ task'[t].op = task[t].op /\ task'[t].entry = task[t].entry
      /\ \A u \in Tasks : task'[u].phase # "write"
      /\ OneAtATime' /\ ~(Quiet') /\ Handled' = {l} /\ Deleting' = {} /\ TaskLogs' = TaskLogs
  <2>1. Handled' = {task[t].entry.log} /\ Deleting' = {}
    BY <1>1, <1>2, <1>3, SteppedTask
  <2> QED BY <1>1, <1>2, <1>3, <2>1, SteppedTask DEF l
<1>6. Handled = {} /\ Deleting = {} /\ \A u \in Tasks : task[u].phase # "write"
  BY <1>1, <1>3, RunningTask DEF Running
<1>7. Known' = Known /\ TokenLogs' = TokenLogs
  <2>1. Known' = Files(card)' \cup Files(trash)' \cup TaskLogs'
    BY DEF Known, TaskLogs
  <2> QED BY <1>1, <1>3, <1>4, <1>5, <2>1, KnownLogs DEF TokenLogs
<1>8. ListInv(summaryFile)'
  <2>0. \A x \in summaryFile.logs : x.log # l
    BY <1>3 DEF DigestsOf
  <2>1. \A x \in summaryFile.logs : ~x.sd /\ x.log \in Files(card)' => card'[x.log] >= summaryFile.lastScan
    BY <1>4, <2>0 DEF LogInv, SummaryInv, ListInv, Files
  <2> QED BY <1>1, <1>7, <2>1 DEF LogInv, SummaryInv, ListInv
<1>9. SummaryInv'
  <2>1. Exact(summaryFile, Handled) => Exact(summaryFile, Handled)'
    BY <1>1, <1>4, <1>5, <1>6 DEF Exact
  <2> QED BY <1>1, <1>8, <2>1 DEF LogInv, SummaryInv
<1>10. LibraryInv'
  <2>1. library \subseteq VisibleIn(summaryFile)
    BY <1>6 DEF LogInv, LibraryInv
  <2>2. VisibleIn(summaryFile) \subseteq VisibleIn(summaryFile)'
    <3>1. \A k \in Rescanned(summaryFile.lastScan) : k # l /\ k \in Logs /\ k \in Files(card)
      BY <1>3 DEF Rescanned, Files
    <3> QED BY <1>1, <1>4, <3>1 DEF VisibleIn, DigestsOf, Rescanned
  <2> QED BY <1>1, <1>4, <1>5, <1>6, <1>7, <2>1, <2>2 DEF LogInv, LibraryInv
<1>11. TokensInv'
  BY <1>1, <1>3, <1>4, <1>7 DEF LogInv, TokensInv, TokenLogs
<1>12. EntryInv(t)'
  <2>1. /\ task'[t].entry.log = l /\ l \notin TokenLogs'
        /\ task'[t].op = "undo" /\ task'[t].phase = "read"
    BY <1>1, <1>3, <1>5, <1>7 DEF l
  <2>2. l \notin library' \cup DigestsOf(summaryFile.logs)' /\ l \in Files(card)' /\ task'[t].entry.sd
    BY <1>1, <1>3, <1>4, <1>5
  <2> QED BY <2>1, <2>2 DEF EntryInv
<1>13. "undo" # "saveLogInSdcard"
  OBVIOUS
<1>14. TaskInv'
  BY <1>1, <1>2, <1>3, <1>12, <1>13, OnlyTaskMatters
<1>15. ShownInv' /\ clock' >= 1
  BY <1>1, <1>3, <1>5 DEF ShownInv
<1> QED BY <1>5, <1>9, <1>10, <1>11, <1>14, <1>15 DEF LogInv

(* A file that is not there is not moved, and the task is over.            *)
LEMMA CannotMoveKeeps ==
  ASSUME LogsTyped, LogInv, NEW t \in Tasks, CannotMove(t)
  PROVE  LogInv'
<1>1. /\ Running(t) /\ task[t].phase = "queued" /\ task[t].op \in {"deleteLog", "undo"}
      /\ task' = [task EXCEPT ![t].phase = "done"]
      /\ UNCHANGED <<summaryFile, card, trash, clock, shown, fresh, tokens, library, crashed>>
  BY DEF CannotMove, Running
<1>2. task' = StepTo(t, "done", task[t].list)
  BY <1>1, PhaseStep
<1>3. ~fresh /\ clock >= 1 /\ OneAtATime /\ task[t].list \in LogList
  BY <1>1, TaskFacts DEF Listing
<1>4. /\ task'[t].phase = "done" /\ \A u \in Tasks : task'[u].phase # "write"
      /\ OneAtATime' /\ Handled' = {} /\ Deleting' = {} /\ TaskLogs' = TaskLogs
  <2>1. Handled' = {} /\ Deleting' = {}
    BY <1>1, <1>2, <1>3, SteppedTask
  <2> QED BY <1>1, <1>2, <1>3, <2>1, SteppedTask
<1>5. Handled = {} /\ Deleting = {} /\ \A u \in Tasks : task[u].phase # "write"
  BY <1>1, <1>3, RunningTask DEF Running
<1>6. Files(card)' = Files(card) /\ Files(trash)' = Files(trash) /\ TokenLogs' = TokenLogs
  BY <1>1 DEF Files, TokenLogs
<1>7. Known' = Known
  <2>1. Known' = Files(card)' \cup Files(trash)' \cup TaskLogs'
    BY DEF Known, TaskLogs
  <2> QED BY <1>4, <1>6, <2>1, KnownLogs
<1>8. SummaryInv'
  BY <1>1, <1>4, <1>5, <1>6, <1>7 DEF LogInv, SummaryInv, ListInv, Exact
<1>9. LibraryInv'
  BY <1>1, <1>4, <1>5, <1>6, <1>7 DEF LogInv, LibraryInv, VisibleIn, DigestsOf, Rescanned
<1>10. TokensInv'
  BY <1>1, <1>6, <1>7 DEF LogInv, TokensInv
<1>11. TaskInv'
  BY <1>1, <1>2, <1>3, OnlyTaskMatters
<1> QED BY <1>1, <1>3, <1>4, <1>8, <1>9, <1>10, <1>11 DEF LogInv, ShownInv

(* A task without a file to move goes on to the summary.                   *)
LEMMA NoFileToMoveKeeps ==
  ASSUME LogsTyped, LogInv, NEW t \in Tasks, NoFileToMove(t)
  PROVE  LogInv'
<1> DEFINE l == task[t].entry.log
<1>1. /\ Running(t) /\ task[t].phase = "queued"
      /\ \/ task[t].op \in {"saveLogInMemory"} \cup Listing
         \/ task[t].op \in {"deleteLog", "undo"} /\ ~task[t].entry.sd
      /\ task' = [task EXCEPT ![t].phase = "read"]
      /\ UNCHANGED <<summaryFile, card, trash, clock, shown, fresh, tokens, library, crashed>>
  BY DEF NoFileToMove, Running, Listing
<1>2. task' = StepTo(t, "read", task[t].list)
  BY <1>1, PhaseStep
<1>3. /\ clock >= 1 /\ OneAtATime /\ task[t].list \in LogList /\ EntryInv(t)
      /\ ~fresh \/ task[t].op \in Listing
  BY <1>1, TaskFacts
<1>4. /\ task'[t].phase = "read" /\ task'[t].op = task[t].op /\ task'[t].entry = task[t].entry
      /\ \A u \in Tasks : task'[u].phase # "write"
      /\ OneAtATime' /\ ~(Quiet') /\ TaskLogs' = TaskLogs
      /\ Handled' = {l}
  <2>1. Handled' = {task[t].entry.log}
    BY <1>1, <1>2, <1>3, SteppedTask
  <2> QED BY <1>1, <1>2, <1>3, <2>1, SteppedTask
<1>5. Handled = {} /\ Deleting = {} /\ \A u \in Tasks : task[u].phase # "write"
  BY <1>1, <1>3, RunningTask DEF Running
<1>6. Files(card)' = Files(card) /\ Files(trash)' = Files(trash) /\ TokenLogs' = TokenLogs
  BY <1>1 DEF Files, TokenLogs
<1>7. Known' = Known
  <2>1. Known' = Files(card)' \cup Files(trash)' \cup TaskLogs'
    BY DEF Known, TaskLogs
  <2> QED BY <1>4, <1>6, <2>1, KnownLogs
<1>8. SummaryInv'
  BY <1>1, <1>4, <1>5, <1>6, <1>7 DEF LogInv, SummaryInv, ListInv, Exact
<1>9. LibraryInv'
  BY <1>1, <1>4, <1>5, <1>6, <1>7 DEF LogInv, LibraryInv, VisibleIn, DigestsOf, Rescanned
<1>10. TokensInv'
  BY <1>1, <1>6, <1>7 DEF LogInv, TokensInv
<1>11. EntryInv(t)'
  BY <1>1, <1>3, <1>4, <1>6 DEF EntryInv, Listing
<1>12. task[t].op # "saveLogInSdcard"
  BY <1>1 DEF Listing
<1>13. TaskInv'
  BY <1>1, <1>2, <1>3, <1>11, <1>12, OnlyTaskMatters
<1> QED BY <1>1, <1>3, <1>4, <1>8, <1>9, <1>10, <1>13 DEF LogInv, ShownInv

(* The summary is truncated; what it will be is known to the task.         *)
LEMMA OpenSummaryKeeps ==
  ASSUME LogsTyped, LogInv, NEW t \in Tasks, OpenSummary(t)
  PROVE  LogInv'
<1> DEFINE l == task[t].entry.log
<1>1. /\ Running(t) /\ task[t].phase = "open" /\ summaryFile' = EmptyList
      /\ task' = [task EXCEPT ![t].phase = "write"]
      /\ UNCHANGED <<card, trash, clock, shown, fresh, tokens, library, crashed>>
  BY DEF OpenSummary, Running, Truncated
<1>2. task' = StepTo(t, "write", task[t].list)
  BY <1>1, PhaseStep
<1>3. /\ clock >= 1 /\ clock \in Nat /\ OneAtATime /\ task[t].list \in LogList /\ EntryInv(t)
      /\ ChangedInv(t)
      /\ ~fresh \/ task[t].op \in Listing
  BY <1>1, TaskFacts DEF LogInv, TaskInv
<1>4. /\ task'[t].phase = "write" /\ task'[t].op = task[t].op /\ task'[t].entry = task[t].entry
      /\ task'[t].list = task[t].list
      /\ OneAtATime' /\ ~(Quiet') /\ TaskLogs' = TaskLogs
      /\ Handled' = {l}
  <2>1. Handled' = {task[t].entry.log}
    BY <1>1, <1>2, <1>3, SteppedTask
  <2> QED BY <1>1, <1>2, <1>3, <2>1, SteppedTask
<1>5. Handled = {l}
  BY <1>1, <1>3, RunningTask
<1>6. Files(card)' = Files(card) /\ Files(trash)' = Files(trash) /\ TokenLogs' = TokenLogs
  BY <1>1 DEF Files, TokenLogs
<1>7. Known' = Known
  <2>1. Known' = Files(card)' \cup Files(trash)' \cup TaskLogs'
    BY DEF Known, TaskLogs
  <2> QED BY <1>4, <1>6, <2>1, KnownLogs
<1>8. SummaryInv'
  <2>1. /\ EmptyList.logs = {} /\ EmptyList.lastScan = -1 /\ DigestsOf({}) = {} /\ Evicted({}) = {}
    BY DEF EmptyList, DigestsOf, Evicted, InMemory
  <2>2. -1 <= clock
    BY <1>3
  <2> QED BY <1>1, <2>1, <2>2 DEF SummaryInv, ListInv, Exact
<1>9. LibraryInv'
  BY <1>1, <1>4, <1>5, <1>6, <1>7 DEF LogInv, LibraryInv
<1>10. TokensInv'
  BY <1>1, <1>6, <1>7 DEF LogInv, TokensInv
<1>11. EntryInv(t)'
  <2>1. DigestsOf(summaryFile.logs)' = {}
    BY <1>1 DEF EmptyList, DigestsOf
  <2> QED BY <1>1, <1>3, <1>4, <1>6, <2>1 DEF EntryInv
<1>12. ChangedInv(t)'
  BY <1>1, <1>3, <1>4, <1>6, <1>7 DEF ChangedInv, ListChanged, ListInv, Exact, OwedBy, VisibleIn, DigestsOf, Rescanned
<1>13. TaskInv'
  BY <1>1, <1>2, <1>3, <1>11, <1>12, OnlyTaskMatters
<1> QED BY <1>1, <1>3, <1>4, <1>8, <1>9, <1>10, <1>13 DEF LogInv, ShownInv

-----------------------------------------------------------------------------
(* The change a task makes to the list it has read.                        *)

(* The facts that ChangeList starts from and the invariant of its result.  *)
ReadInv(t) ==
  LET l == task[t].entry.log
  IN /\ Running(t) /\ task[t].phase = "read"
     /\ EntryInv(t) /\ ListInv(summaryFile) /\ summaryFile \in LogList
     /\ clock \in Nat /\ clock >= 1
     /\ library \ (IF task[t].op = "deleteLog" THEN {l} ELSE {}) \subseteq VisibleIn(summaryFile)
     /\ task[t].op = "saveLogInSdcard" => card[l] >= summaryFile.lastScan
     /\ ~crashed => /\ Exact(summaryFile, {l})
                    /\ DigestsOf(summaryFile.logs) \subseteq library
                    /\ Files(card) \ {l} \subseteq library
     /\ TokensInv
     /\ l \in TaskLogs

(* A log put in the summary or taken out of it.                            *)
LEMMA PutLog ==
  ASSUME LogsTyped, NEW t \in Tasks, ReadInv(t), task[t].op \in {"saveLogInMemory", "undo"}
  PROVE  ListChanged(t, Put(summaryFile, task[t].entry))
<1> DEFINE e == task[t].entry
           l == task[t].entry.log
           list == Put(summaryFile, e)
<1>1. /\ list.lastScan = summaryFile.lastScan
      /\ list.logs = {x \in summaryFile.logs : x.log # l} \cup {e}
  BY DEF Put, ReadInv, LogList
<1>2. /\ l \notin TokenLogs /\ l \in Known
      /\ e.sd <=> l \in Files(card)
  BY KnownLogs DEF ReadInv, EntryInv
<1>3. \A x \in list.logs : x = e \/ (x \in summaryFile.logs /\ x.log # l)
  BY <1>1
<1>4. OwedBy(t) = library \cup {l}
  BY DEF OwedBy
<1>5. task[t].op \notin Listing /\ task[t].op # "deleteLog"
  BY DEF Listing
<1>6. e \in list.logs /\ \A x \in summaryFile.logs : x.log # l => x \in list.logs
  BY <1>1
<1> HIDE DEF list, e
<1>7. e.log = l
  BY DEF e
<1>8. ListInv(list)
  <2>1. \A x, y \in list.logs : x.log = y.log => x = y
    BY <1>3, <1>7 DEF ReadInv, ListInv
  <2>2. DigestsOf(list.logs) \subseteq Known \ TokenLogs
    BY <1>2, <1>3, <1>7 DEF ReadInv, ListInv, DigestsOf
  <2>3. \A x \in list.logs : ~x.sd /\ x.log \in Files(card) => card[x.log] >= list.lastScan
    BY <1>1, <1>2, <1>3, <1>7 DEF ReadInv, ListInv
  <2> QED BY <1>1, <2>1, <2>2, <2>3 DEF ReadInv, ListInv
<1>9. OwedBy(t) \subseteq VisibleIn(list)
  <2>1. l \in VisibleIn(list)
    BY <1>2, <1>6, <1>7 DEF VisibleIn, DigestsOf
  <2>2. \A k \in VisibleIn(summaryFile) : k # l => k \in VisibleIn(list)
    BY <1>1, <1>6 DEF VisibleIn, DigestsOf
  <2>3. library \subseteq VisibleIn(summaryFile)
    BY <1>5 DEF ReadInv
  <2> QED BY <1>4, <2>1, <2>2, <2>3
<1>10. ~crashed => Exact(list, {}) /\ DigestsOf(list.logs) \subseteq OwedBy(t)
  <2> SUFFICES ASSUME ~crashed PROVE Exact(list, {}) /\ DigestsOf(list.logs) \subseteq OwedBy(t)
    OBVIOUS
  <2>1. Exact(list, {})
    BY <1>2, <1>3, <1>7 DEF ReadInv, Exact
  <2>2. DigestsOf(list.logs) \subseteq OwedBy(t)
    BY <1>3, <1>4, <1>7 DEF ReadInv, DigestsOf
  <2> QED BY <2>1, <2>2
<1> QED BY <1>5, <1>8, <1>9, <1>10 DEF ListChanged, list, e

(* A log taken out of the list is visible only if its file is.             *)
LEMMA TakeLogOut ==
  ASSUME LogsTyped, NEW t \in Tasks, ReadInv(t), task[t].op \in {"saveLogInSdcard", "deleteLog"}
  PROVE  ListChanged(t, RemoveLog(summaryFile, task[t].entry.log))
<1> DEFINE l == task[t].entry.log
           list == RemoveLog(summaryFile, l)
<1>1. /\ list.lastScan = summaryFile.lastScan
      /\ list.logs = {x \in summaryFile.logs : x.log # l}
  BY DEF RemoveLog, ReadInv, LogList
<1>2. l \notin DigestsOf(list.logs)
  BY <1>1 DEF DigestsOf
<1>3. /\ list.logs \subseteq summaryFile.logs
      /\ \A x \in summaryFile.logs : x.log # l => x \in list.logs
  BY <1>1
<1>4. task[t].op \notin Listing
  BY DEF Listing
<1> HIDE DEF list
<1>5. ListInv(list)
  BY <1>1, <1>3 DEF ReadInv, ListInv, DigestsOf
<1>6. OwedBy(t) \subseteq VisibleIn(list)
  <2>1. \A k \in VisibleIn(summaryFile) : k # l => k \in VisibleIn(list)
    BY <1>1, <1>3 DEF VisibleIn, DigestsOf
  <2>2. CASE task[t].op = "deleteLog"
    <3>1. OwedBy(t) = library \ {l}
      BY <2>2 DEF OwedBy
    <3> QED BY <2>1, <2>2, <3>1 DEF ReadInv
  <2>3. CASE task[t].op = "saveLogInSdcard"
    <3>1. OwedBy(t) = library
      BY <2>3 DEF OwedBy
    <3>2. l \in Files(card) /\ card[l] >= list.lastScan
      BY <1>1, <2>3 DEF ReadInv, EntryInv
    <3>3. l \in VisibleIn(list)
      BY <3>2 DEF VisibleIn, Rescanned
    <3> QED BY <2>1, <2>3, <3>1, <3>3 DEF ReadInv
  <2> QED BY <2>2, <2>3
<1>7. ~crashed => Exact(list, {}) /\ DigestsOf(list.logs) \subseteq OwedBy(t)
  <2> SUFFICES ASSUME ~crashed PROVE Exact(list, {}) /\ DigestsOf(list.logs) \subseteq OwedBy(t)
    OBVIOUS
  <2>1. \A x \in list.logs : x \in summaryFile.logs /\ x.log # l
    BY <1>1
  <2>2. Exact(list, {})
    BY <2>1 DEF ReadInv, Exact
  <2>3. DigestsOf(list.logs) \subseteq library \ {l}
    BY <2>1 DEF ReadInv, DigestsOf
  <2>4. library \ {l} \subseteq OwedBy(t)
    BY DEF OwedBy
  <2> QED BY <2>2, <2>3, <2>4
<1> QED BY <1>2, <1>4, <1>5, <1>6, <1>7 DEF ListChanged, list

(* A scan of the summary, or of its logs in memory alone.                  *)
LEMMA ScanList ==
  ASSUME LogsTyped, NEW t \in Tasks, ReadInv(t), task[t].op \in Listing,
         NEW before \in {summaryFile, RemoveLogsInSdCard(summaryFile)}
  PROVE  ListChanged(t, ScanDirectory(before))
<1> DEFINE list == ScanDirectory(before)
           found == Rescanned(before.lastScan)
<1>1. /\ before \in LogList /\ before.logs \subseteq summaryFile.logs
      /\ \A x \in summaryFile.logs : ~x.sd => x \in before.logs
      /\ before.lastScan \in {-1, summaryFile.lastScan}
      /\ before.lastScan = -1 \/ before = summaryFile
  <2>1. CASE before = summaryFile
    BY <2>1 DEF ReadInv
  <2>2. CASE before = RemoveLogsInSdCard(summaryFile)
    BY <2>2 DEF ReadInv, RemoveLogsInSdCard, LogList, InMemory
  <2> QED BY <2>1, <2>2
<1>2. /\ task[t].entry.log \notin Logs /\ task[t].op # "deleteLog"
      /\ OwedBy(t) = library
  <2>1. task[t].entry = NoEntry
    BY DEF LogsTyped, EntriesOK
  <2> QED BY <2>1, LogsAssumption DEF NoEntry, OwedBy, Listing
<1>3. /\ list.lastScan = clock
      /\ \A x \in list.logs :
           \/ x \in before.logs /\ x.log \notin found
           \/ x.log \in found /\ x = [log |-> x.log, sd |-> TRUE]
      /\ DigestsOf(list.logs) = DigestsOf(before.logs) \cup found
  BY <1>1, Scanned
<1>4. found \subseteq Files(card) /\ Files(card) \subseteq Logs
  BY DEF Rescanned, Files
<1>5. \A x \in before.logs : ~x.sd /\ x.log \in Files(card) => x.log \in found
  <2> SUFFICES ASSUME NEW x \in before.logs, ~x.sd, x.log \in Files(card)
               PROVE  x.log \in found
    OBVIOUS
  <2>1. card[x.log] \in Nat
    BY <1>4 DEF LogsTyped, LogsTypeOK
  <2>2. card[x.log] >= summaryFile.lastScan
    BY <1>1 DEF ReadInv, ListInv
  <2>3. card[x.log] >= before.lastScan
    BY <1>1, <2>1, <2>2
  <2> QED BY <2>3 DEF Rescanned
<1>6. \A x \in found : [log |-> x, sd |-> TRUE].sd /\ [log |-> x, sd |-> TRUE].log = x
  OBVIOUS
<1> HIDE DEF list, found
<1>7. \A x \in list.logs : ~x.sd => x.log \notin Files(card)
  BY <1>3, <1>5, <1>6
<1>8. ListInv(list)
  <2>1. \A x, y \in list.logs : x.log = y.log => x = y
    BY <1>1, <1>3 DEF ReadInv, ListInv
  <2>2. DigestsOf(list.logs) \subseteq Known \ TokenLogs
    <3>1. Files(card) \subseteq Known \ TokenLogs
      BY KnownLogs DEF ReadInv, TokensInv, TokenLogs
    <3>2. DigestsOf(before.logs) \subseteq DigestsOf(summaryFile.logs)
      BY <1>1 DEF DigestsOf
    <3> QED BY <1>3, <1>4, <3>1, <3>2 DEF ReadInv, ListInv
  <2> QED BY <1>3, <1>7, <2>1, <2>2 DEF ReadInv, ListInv
<1>9. OwedBy(t) \subseteq VisibleIn(list)
  <2>1. VisibleIn(summaryFile) \subseteq DigestsOf(before.logs) \cup found
    <3>1. CASE before = summaryFile
      BY <3>1 DEF VisibleIn, DigestsOf, found
    <3>2. CASE before.lastScan = -1
      <4>1. \A k \in Logs : card[k] >= -1
        BY DEF LogsTyped, LogsTypeOK
      <4>2. found = Files(card)
        BY <1>4, <3>2, <4>1 DEF found, Rescanned
      <4>3. \A x \in summaryFile.logs : (x.sd => x.log \in Files(card)) =>
               x.log \in DigestsOf(before.logs) \cup Files(card)
        BY <1>1 DEF DigestsOf
      <4>4. Rescanned(summaryFile.lastScan) \subseteq Files(card)
        BY DEF Rescanned
      <4> QED BY <4>2, <4>3, <4>4 DEF VisibleIn, DigestsOf
    <3> QED BY <1>1, <3>1, <3>2
  <2>2. \A x \in list.logs : x.sd /\ x.log \notin Files(card) => x \in before.logs /\ x.log \notin found
    BY <1>3, <1>4
  <2>3. \A k \in VisibleIn(summaryFile) : k \in VisibleIn(list)
    <3> SUFFICES ASSUME NEW k \in VisibleIn(summaryFile) PROVE k \in VisibleIn(list)
      OBVIOUS
    <3>1. PICK x \in list.logs : x.log = k
      BY <1>3, <2>1 DEF DigestsOf
    <3>2. CASE x.sd => x.log \in Files(card)
      BY <3>1, <3>2 DEF VisibleIn, DigestsOf
    <3>3. CASE x.sd /\ x.log \notin Files(card)
      <4>1. x \in summaryFile.logs
        BY <1>1, <2>2, <3>3
      <4>2. k \notin Rescanned(summaryFile.lastScan)
        BY <3>1, <3>3 DEF Rescanned
      <4>3. PICK y \in summaryFile.logs : y.log = k /\ (y.sd => y.log \in Files(card))
        BY <4>2 DEF VisibleIn, DigestsOf
      <4>4. y = x
        BY <3>1, <4>1, <4>3 DEF ReadInv, ListInv
      <4> QED BY <3>3, <4>3, <4>4
    <3> QED BY <3>2, <3>3
  <2> QED BY <1>2, <2>3 DEF ReadInv
<1>10. ~crashed => Exact(list, {}) /\ DigestsOf(list.logs) \subseteq OwedBy(t)
  <2> SUFFICES ASSUME ~crashed PROVE Exact(list, {}) /\ DigestsOf(list.logs) \subseteq OwedBy(t)
    OBVIOUS
  <2>1. \A x \in before.logs : x.log \in Logs /\ (x.sd <=> x.log \in Files(card))
    <3>1. \A x \in before.logs : x.log \in Logs
      BY <1>1 DEF LogList, LogEntry
    <3> QED BY <1>1, <1>2, <3>1 DEF ReadInv, Exact
  <2>2. Exact(list, {})
    BY <1>3, <1>4, <1>6, <2>1 DEF Exact
  <2>3. DigestsOf(before.logs) \subseteq library
    BY <1>1 DEF ReadInv, DigestsOf
  <2>4. found \subseteq library
    BY <1>2, <1>4 DEF ReadInv
  <2> QED BY <1>2, <1>3, <2>2, <2>3, <2>4
<1> QED BY <1>2, <1>7, <1>8, <1>9, <1>10 DEF ListChanged, list

(* The list a task is going to write keeps what it has to.                 *)
LEMMA ChangeListKeeps ==
  ASSUME LogsTyped, LogInv, NEW t \in Tasks, ChangeList(t)
  PROVE  LogInv'
<1> DEFINE l == task[t].entry.log
<1>0. PICK list \in LogList : list = ChangedList(task[t].op, task[t].entry, summaryFile)
  BY ListTypes DEF LogsTyped, LogsTypeOK, EntriesOK
<1>1. /\ Running(t) /\ task[t].phase = "read"
      /\ task' = StepTo(t, "open", list)
      /\ UNCHANGED <<summaryFile, card, trash, clock, shown, fresh, tokens, library, crashed>>
  BY <1>0 DEF ChangeList, Running, StepTo
<1>3. /\ clock >= 1 /\ clock \in Nat /\ OneAtATime /\ EntryInv(t)
      /\ ~fresh \/ task[t].op \in Listing
  BY <1>1, TaskFacts
<1>4. /\ Handled = {l}
      /\ Deleting = IF task[t].op = "deleteLog" THEN {l} ELSE {}
      /\ \A u \in Tasks : task[u].phase # "write"
  BY <1>1, <1>3, RunningTask DEF Running
<1>5. ReadInv(t)
  <2>1. /\ ListInv(summaryFile) /\ TokensInv
        /\ library \ Deleting \subseteq VisibleIn(summaryFile)
        /\ ~crashed => /\ Exact(summaryFile, Handled)
                       /\ DigestsOf(summaryFile.logs) \subseteq library
                       /\ Files(card) \ Handled \subseteq library
    BY <1>4 DEF LogInv, SummaryInv, LibraryInv
  <2>2. task[t].op = "saveLogInSdcard" => card[l] >= summaryFile.lastScan
    BY <1>1 DEF LogInv, TaskInv
  <2>3. summaryFile \in LogList /\ l \in TaskLogs
    BY <1>1, TaskFacts
  <2> QED BY <1>1, <1>3, <1>4, <2>1, <2>2, <2>3 DEF ReadInv
<1>6. ListChanged(t, list)
  <2>1. CASE task[t].op = "saveLogInMemory"
    <3>1. task[t].entry \in LogEntry /\ task[t].entry.sd = FALSE
      BY <1>1, <1>3, <2>1, TaskFacts DEF EntryInv, Listing
    <3>2. [task[t].entry EXCEPT !.sd = FALSE] = task[t].entry
      BY <3>1 DEF LogEntry
    <3>3. list = Put(summaryFile, task[t].entry)
      BY <1>0, <2>1, <3>2 DEF ChangedList
    <3> QED BY <1>5, <2>1, <3>3, PutLog
  <2>2. CASE task[t].op \in {"saveLogInSdcard", "deleteLog"}
    <3>1. list = RemoveLog(summaryFile, l)
      BY <1>0, <2>2 DEF ChangedList
    <3> QED BY <1>5, <2>2, <3>1, TakeLogOut
  <2>3. CASE task[t].op = "undo"
    <3>1. list = Put(summaryFile, task[t].entry)
      BY <1>0, <2>3 DEF ChangedList
    <3> QED BY <1>5, <2>3, <3>1, PutLog
  <2>4. CASE task[t].op = "listLogs"
    <3>1. list = ScanDirectory(summaryFile)
      BY <1>0, <2>4 DEF ChangedList
    <3> QED BY <1>5, <2>4, <3>1, ScanList DEF Listing
  <2>5. CASE task[t].op = "resetLogs"
    <3>1. list = ScanDirectory(RemoveLogsInSdCard(summaryFile))
      BY <1>0, <2>5 DEF ChangedList
    <3> QED BY <1>5, <2>5, <3>1, ScanList DEF Listing
  <2> QED BY <2>1, <2>2, <2>3, <2>4, <2>5 DEF LogsTyped, LogsTypeOK, Operations, Synchronized
<1>7. /\ task'[t].phase = "open" /\ task'[t].op = task[t].op /\ task'[t].entry = task[t].entry
      /\ task'[t].list = list /\ \A u \in Tasks : task'[u].phase # "write"
      /\ OneAtATime' /\ ~(Quiet') /\ TaskLogs' = TaskLogs
      /\ Handled' = {l} /\ Deleting' = IF task[t].op = "deleteLog" THEN {l} ELSE {}
  <2>1. Handled' = {task[t].entry.log} /\ Deleting' = IF task[t].op = "deleteLog" THEN {task[t].entry.log} ELSE {}
    BY <1>1, <1>3, SteppedTask
  <2> QED BY <1>1, <1>3, <2>1, SteppedTask
<1>8. Files(card)' = Files(card) /\ Files(trash)' = Files(trash) /\ TokenLogs' = TokenLogs
  BY <1>1 DEF Files, TokenLogs
<1>9. Known' = Known
  <2>1. Known' = Files(card)' \cup Files(trash)' \cup TaskLogs'
    BY DEF Known, TaskLogs
  <2> QED BY <1>7, <1>8, <2>1, KnownLogs
<1>10. SummaryInv'
  BY <1>1, <1>4, <1>7, <1>8, <1>9 DEF LogInv, SummaryInv, ListInv, Exact
<1>11. LibraryInv'
  BY <1>1, <1>4, <1>7, <1>8, <1>9 DEF LogInv, LibraryInv, VisibleIn, DigestsOf, Rescanned
<1>12. TokensInv'
  BY <1>1, <1>8, <1>9 DEF LogInv, TokensInv
<1>13. EntryInv(t)'
  BY <1>1, <1>3, <1>7, <1>8 DEF EntryInv
<1>14. ChangedInv(t)'
  <2>1. /\ ListInv(list)' /\ OwedBy(t)' = OwedBy(t) /\ VisibleIn(list)' = VisibleIn(list)
        /\ Exact(list, {})' <=> Exact(list, {})
    BY <1>1, <1>6, <1>7, <1>8, <1>9 DEF ListChanged, ListInv, OwedBy, VisibleIn, DigestsOf, Rescanned, Exact
  <2>2. ListChanged(t, list)'
    BY <1>1, <1>6, <1>7, <1>8, <2>1 DEF ListChanged
  <2> QED BY <1>7, <2>2 DEF ChangedInv, ListChanged, ListInv, OwedBy, VisibleIn, DigestsOf, Rescanned, Exact
<1>15. task[t].op = "saveLogInSdcard" => card'[l] >= summaryFile'.lastScan
  BY <1>1, <1>5 DEF ReadInv
<1>16. TaskInv'
  BY <1>1, <1>3, <1>13, <1>14, <1>15, OnlyTaskMatters
<1> QED BY <1>1, <1>3, <1>7, <1>10, <1>11, <1>12, <1>16 DEF LogInv, ShownInv

(* The summary is written, and old logs in memory are dropped.             *)
LEMMA WriteSummaryKeeps ==
  ASSUME LogsTyped, LogInv, CalmUse, NEW t \in Tasks, WriteSummary(t)
  PROVE  LogInv'
<1> DEFINE e == task[t].entry
           l == task[t].entry.log
           old == task[t].list
<1>0. PICK list \in LogList : list = RemoveOldInMemoryLogs(task[t].list)
  BY ListTypes DEF LogsTyped, LogsTypeOK, EntriesOK
<1> DEFINE gone == DigestsOf(old.logs) \ DigestsOf(list.logs)
<1>1. /\ Running(t) /\ task[t].phase = "write" /\ summaryFile' = list
      /\ task' = StepTo(t, "done", EmptyList)
      /\ UNCHANGED <<card, trash, clock, crashed>>
      /\ tokens' = IF task[t].op = "deleteLog" THEN Append(tokens, e) ELSE tokens
      /\ shown' = IF task[t].op \in Listing THEN list.logs ELSE shown
      /\ fresh' = (fresh \/ task[t].op \in Listing)
      /\ library' = OwedBy(t) \ gone
  BY <1>0 DEF WriteSummary, Running, StepTo, OwedBy, Listing
<1>2. EmptyList \in LogList
  BY DEF EmptyList, LogList
<1>3. /\ clock >= 1 /\ OneAtATime /\ EntryInv(t) /\ old \in LogList
      /\ task[t].op \notin Listing => ~fresh /\ e \in LogEntry
      /\ task[t].op \in Listing => l \notin Logs
      /\ l \in TaskLogs /\ ListChanged(t, old)
  <2>1. ListChanged(t, old)
    BY <1>1 DEF LogInv, TaskInv, ChangedInv, ListChanged
  <2> QED BY <1>1, <2>1, TaskFacts
<1>4. /\ list.lastScan = old.lastScan /\ list.logs \subseteq old.logs /\ Evicted(list.logs) = {}
      /\ \A x \in old.logs : x.sd => x \in list.logs
  BY <1>0, <1>3, EvictedOnce DEF CalmUse
<1>5. /\ \A k \in gone : k \notin DigestsOf(list.logs) /\ k \in DigestsOf(old.logs)
      /\ \A k \in DigestsOf(old.logs) : k \notin DigestsOf(list.logs) => k \in gone
      /\ DigestsOf(list.logs) \subseteq DigestsOf(old.logs)
  BY <1>4 DEF DigestsOf
<1> HIDE DEF gone
<1>6. /\ task'[t].phase = "done" /\ \A u \in Tasks : task'[u].phase # "write"
      /\ OneAtATime' /\ TaskLogs' = TaskLogs
      /\ Handled' = {} /\ Deleting' = {}
  <2>1. Handled' = {} /\ Deleting' = {}
    BY <1>1, <1>2, <1>3, SteppedTask
  <2> QED BY <1>1, <1>2, <1>3, <2>1, SteppedTask
<1>7. Files(card)' = Files(card) /\ Files(trash)' = Files(trash)
  BY <1>1 DEF Files
<1>8. Known' = Known /\ l \in Known
  <2>1. Known' = Files(card)' \cup Files(trash)' \cup TaskLogs'
    BY DEF Known, TaskLogs
  <2> QED BY <1>3, <1>6, <1>7, <2>1, KnownLogs
<1>9. /\ OwedBy(t) \subseteq library \cup {l}
      /\ task[t].op = "deleteLog" => l \notin OwedBy(t)
      /\ \A k \in library : k # l => k \in OwedBy(t)
      /\ task[t].op \in {"undo", "saveLogInMemory"} => l \in OwedBy(t)
      /\ task[t].op = "saveLogInSdcard" => OwedBy(t) = library
  BY DEF OwedBy
<1>10. TokenLogs' = TokenLogs \cup (IF task[t].op = "deleteLog" THEN {l} ELSE {})
  <2>1. CASE task[t].op = "deleteLog"
    <3>1. e \in LogEntry /\ tokens \in Seq(LogEntry)
      BY <1>3, <2>1 DEF Listing, LogsTyped, LogsTypeOK
    <3>2. /\ Len(tokens') = Len(tokens) + 1 /\ Len(tokens) \in Nat
          /\ \A i \in 1..Len(tokens) : tokens'[i] = tokens[i]
          /\ tokens'[Len(tokens) + 1] = e
      BY <1>1, <2>1, <3>1, AppendProperties, LenProperties
    <3>3. 1..Len(tokens') = 1..Len(tokens) \cup {Len(tokens) + 1}
      BY <3>2
    <3>4. TokenLogs' = {tokens'[i].log : i \in 1..Len(tokens) \cup {Len(tokens) + 1}}
      BY <3>3 DEF TokenLogs
    <3> QED BY <2>1, <3>2, <3>4 DEF TokenLogs
  <2>2. CASE task[t].op # "deleteLog"
    BY <1>1, <2>2 DEF TokenLogs
  <2> QED BY <2>1, <2>2
<1>11. ListInv(list)'
  <2>1. DigestsOf(list.logs) \subseteq Known \ TokenLogs'
    BY <1>3, <1>5, <1>10 DEF ListChanged, ListInv
  <2> QED BY <1>1, <1>3, <1>4, <1>7, <1>8, <2>1 DEF ListChanged, ListInv
<1>12. SummaryInv'
  <2>1. ~crashed => Exact(list, {})' /\ DigestsOf(list.logs) \subseteq library'
    <3> SUFFICES ASSUME ~crashed PROVE Exact(list, {})' /\ DigestsOf(list.logs) \subseteq library'
      OBVIOUS
    <3>1. Exact(list, {})'
      BY <1>3, <1>4, <1>7 DEF ListChanged, Exact
    <3>2. DigestsOf(list.logs) \subseteq library'
      BY <1>1, <1>3, <1>5 DEF ListChanged
    <3> QED BY <3>1, <3>2
  <2>2. Exact(summaryFile, Handled)' <=> Exact(list, {})'
    BY <1>1, <1>6 DEF Exact
  <2>3. ListInv(summaryFile)' <=> ListInv(list)'
    BY <1>1 DEF ListInv
  <2>4. Evicted(summaryFile.logs)' = {}
    <3>1. Evicted(summaryFile.logs)' = Evicted(list.logs)
      BY <1>1 DEF Evicted
    <3> QED BY <3>1, <1>4
  <2> QED BY <1>1, <1>11, <2>1, <2>2, <2>3, <2>4 DEF SummaryInv
<1>13. LibraryInv'
  <2>1. library' \subseteq VisibleIn(summaryFile)'
    <3> SUFFICES ASSUME NEW k \in library' PROVE k \in VisibleIn(summaryFile)'
      OBVIOUS
    <3>1. k \in VisibleIn(old) /\ k \notin gone
      BY <1>1, <1>3 DEF ListChanged
    <3>2. CASE k \in Rescanned(old.lastScan)
      BY <1>1, <1>4, <1>7, <3>2 DEF VisibleIn, Rescanned
    <3>3. CASE k \notin Rescanned(old.lastScan)
      <4>1. PICK x \in old.logs : x.log = k /\ (x.sd => x.log \in Files(card))
        BY <3>1, <3>3 DEF VisibleIn, DigestsOf
      <4>2. k \in DigestsOf(old.logs)
        BY <4>1 DEF DigestsOf
      <4>3. k \in DigestsOf(list.logs)
        BY <1>5, <3>1, <4>2
      <4>4. PICK y \in list.logs : y.log = k
        BY <4>3 DEF DigestsOf
      <4>5. y = x
        BY <1>3, <1>4, <4>1, <4>4 DEF ListChanged, ListInv
      <4> QED BY <1>1, <1>7, <4>1, <4>4, <4>5 DEF VisibleIn, DigestsOf
    <3> QED BY <3>2, <3>3
  <2>2. library' \subseteq Known'
    BY <1>1, <1>8, <1>9 DEF LogInv, LibraryInv
  <2>3. ~crashed => Files(card) \subseteq library'
    <3> SUFFICES ASSUME ~crashed, NEW k \in Files(card) PROVE k \in library'
      OBVIOUS
    <3>1. k \notin gone
      <4> SUFFICES ASSUME NEW x \in old.logs, x.log = k PROVE k \in DigestsOf(list.logs)
        BY <1>5 DEF DigestsOf
      <4>1. x.sd
        BY <1>3 DEF ListChanged, Exact
      <4>2. x \in list.logs
        BY <1>4, <4>1
      <4> QED BY <4>2 DEF DigestsOf
    <3>2. CASE k # l
      <4>1. k \in library
        <5>1. Handled = {l}
          BY <1>1, <1>3, RunningTask
        <5> QED BY <3>2, <5>1 DEF LogInv, LibraryInv
      <4> QED BY <1>1, <1>9, <3>1, <3>2, <4>1
    <3>3. CASE k = l
      <4>0. k \in Logs
        BY DEF Files
      <4>1. task[t].op \in {"saveLogInMemory", "saveLogInSdcard", "deleteLog", "undo"}
        BY <1>3, <3>3, <4>0 DEF LogsTyped, LogsTypeOK, Operations, Synchronized, Listing
      <4>2. task[t].op # "deleteLog"
        BY <1>1, <1>3, <3>3 DEF EntryInv
      <4>3. task[t].op = "saveLogInSdcard" => l \in library
        BY <1>1, <1>3 DEF EntryInv
      <4> QED BY <1>1, <1>9, <3>1, <3>3, <4>1, <4>2, <4>3
    <3> QED BY <3>2, <3>3
  <2> QED BY <1>1, <1>6, <1>7, <2>1, <2>2, <2>3 DEF LibraryInv
<1>14. TokensInv'
  <2>0. \A i \in 1..Len(tokens) :
          /\ tokens[i].log \in Known \ (library \cup Files(card))
          /\ tokens[i].log # l
          /\ tokens[i].sd => tokens[i].log \in Files(trash)
    BY <1>3 DEF LogInv, TokensInv, EntryInv, TokenLogs
  <2>a. \A k \in library' : k \in library \cup {l}
    BY <1>1, <1>9
  <2>b. \A i \in 1..Len(tokens) : tokens[i].log \notin library' \cup Files(card)
    BY <2>0, <2>a
  <2>1. CASE task[t].op = "deleteLog"
    <3>1. e \in LogEntry /\ tokens \in Seq(LogEntry)
      BY <1>3, <2>1 DEF Listing, LogsTyped, LogsTypeOK
    <3>2. /\ Len(tokens') = Len(tokens) + 1 /\ Len(tokens) \in Nat
          /\ \A i \in 1..Len(tokens) : tokens'[i] = tokens[i]
          /\ tokens'[Len(tokens) + 1] = e
      BY <1>1, <2>1, <3>1, AppendProperties, LenProperties
    <3>3. \A i \in 1..Len(tokens') : i \in 1..Len(tokens) \/ i = Len(tokens) + 1
      BY <3>2
    <3>4. l \in Known \ (library' \cup Files(card)) /\ (e.sd => l \in Files(trash))
      BY <1>1, <1>3, <1>8, <1>9, <2>1 DEF EntryInv
    <3>5. \A i \in 1..Len(tokens') :
            /\ tokens'[i].log \in Known \ (library' \cup Files(card))
            /\ tokens'[i].sd => tokens'[i].log \in Files(trash)
      BY <2>0, <2>b, <3>2, <3>3, <3>4
    <3>6. \A i, j \in 1..Len(tokens') : tokens'[i].log = tokens'[j].log => i = j
      BY <2>0, <3>2, <3>3 DEF LogInv, TokensInv
    <3> QED BY <1>7, <1>8, <3>5, <3>6 DEF TokensInv
  <2>2. CASE task[t].op # "deleteLog"
    BY <1>1, <1>7, <1>8, <2>0, <2>b, <2>2 DEF LogInv, TokensInv
  <2> QED BY <2>1, <2>2
<1>15. TaskInv'
  BY <1>1, <1>2, <1>3, OnlyTaskMatters
<1>16. ShownInv'
  <2>1. CASE task[t].op \in Listing
    <3>1. \A x \in list.logs : ~x.sd => x.log \notin Files(card)
      BY <1>3, <1>4, <2>1 DEF ListChanged
    <3> QED BY <1>1, <1>7, <2>1, <3>1 DEF ShownInv
  <2>2. CASE task[t].op \notin Listing
    BY <1>1, <1>3, <2>2 DEF ShownInv
  <2> QED BY <2>1, <2>2
<1> QED BY <1>1, <1>3, <1>6, <1>12, <1>13, <1>14, <1>15, <1>16 DEF LogInv

-----------------------------------------------------------------------------
(* The theorems.                                                           *)

(* The invariant holds at the start.                                       *)
LEMMA LogInitInv == Init => LogInv
<1> SUFFICES ASSUME Init PROVE LogInv
  OBVIOUS
<1>1. /\ summaryFile.logs = {} /\ summaryFile.lastScan = -1 /\ clock = 1
      /\ library = {} /\ ~fresh /\ tokens = <<>>
      /\ \A t \in Tasks : task[t].phase = "new"
  BY DEF Init, EmptyList, NewTask
<1>2. Files(card) = {}
  BY DEF Init, Files
<1>3. Len(tokens) = 0 /\ 1..Len(tokens) = {}
  <2>1. Len(tokens) = 0
    BY <1>1, EmptySeq
  <2> QED BY <2>1
<1>4. DigestsOf({}) = {} /\ Evicted({}) = {} /\ -1 <= clock
  BY <1>1 DEF DigestsOf, Evicted, InMemory
<1>5. SummaryInv
  BY <1>1, <1>4 DEF SummaryInv, ListInv, Exact
<1>6. LibraryInv /\ TokensInv /\ TaskInv /\ ShownInv /\ OneAtATime
  BY <1>1, <1>2, <1>3 DEF LibraryInv, TokensInv, TaskInv, ShownInv, OneAtATime, Running
<1> QED BY <1>1, <1>5, <1>6 DEF LogInv

(* Every step keeps the invariant.                                         *)
LEMMA NextLogInv ==
  ASSUME LogsTyped, LogInv, CalmUse, [Next]_logVars
  PROVE  LogInv'
<1>1. CASE GameEnds
  BY <1>1, GameEndsKeeps
<1>2. CASE Download
  BY <1>2, DownloadKeeps
<1>3. CASE SaveOrDelete
  BY <1>3, SaveOrDeleteKeeps
<1>4. CASE UndoDeletion
  BY <1>4, UndoDeletionKeeps
<1>5. CASE StartListing
  BY <1>5, StartListingKeeps
<1>6. CASE Tick
  BY <1>6, TickKeeps
<1>7. CASE Crash
  BY <1>7, CrashKeeps
<1>8. ASSUME NEW t \in Tasks, TaskStep(t)
      PROVE  LogInv'
  BY <1>8, WriteKifKeeps, MoveToTrashKeeps, MoveBackKeeps, CannotMoveKeeps, NoFileToMoveKeeps,
     ChangeListKeeps, OpenSummaryKeeps, WriteSummaryKeeps DEF TaskStep
<1>9. CASE UNCHANGED logVars
  BY <1>9 DEF logVars, LogInv, OneAtATime, SummaryInv, LibraryInv, TokensInv, TaskInv, ShownInv,
     ListInv, Exact, VisibleIn, Rescanned, Files, DigestsOf, Known, TokenLogs, Handled, Deleting,
     Started, Running, Quiet, EntryInv, ChangedInv, ListChanged, OwedBy
<1> QED BY <1>1, <1>2, <1>3, <1>4, <1>5, <1>6, <1>7, <1>8, <1>9 DEF Next

(* The invariant holds in every state of calm use.                         *)
LEMMA LogInvariant == CalmUse /\ Spec => [](LogsTyped /\ LogInv)
<1> SUFFICES ASSUME CalmUse PROVE Spec => [](LogsTyped /\ LogInv)
  OBVIOUS
<1>1. Init => LogsTyped /\ LogInv
  BY LogsInitType, LogInitInv
<1>2. LogsTyped /\ LogInv /\ [Next]_logVars => (LogsTyped /\ LogInv)'
  BY LogsNextType, NextLogInv
<1> QED BY <1>1, <1>2, PTL DEF Spec

(* What the next listing shows when no task runs.                          *)
LEMMA QuietListing ==
  ASSUME LogsTyped, LogInv, CalmUse, Quiet
  PROVE  /\ Listed = ScanDirectory(summaryFile).logs
         /\ Listed \subseteq LogEntry
         /\ DigestsOf(Listed) = DigestsOf(summaryFile.logs) \cup Rescanned(summaryFile.lastScan)
         /\ \A x \in Listed :
              \/ x \in summaryFile.logs /\ x.log \notin Rescanned(summaryFile.lastScan)
              \/ x.log \in Rescanned(summaryFile.lastScan) /\ x = [log |-> x.log, sd |-> TRUE]
<1> DEFINE scan == ScanDirectory(summaryFile)
<1>1. summaryFile \in LogList /\ clock \in Nat
  BY DEF LogsTyped, LogsTypeOK
<1>2. /\ DigestsOf(scan.logs) = DigestsOf(summaryFile.logs) \cup Rescanned(summaryFile.lastScan)
      /\ \A x \in scan.logs :
           \/ x \in summaryFile.logs /\ x.log \notin Rescanned(summaryFile.lastScan)
           \/ x.log \in Rescanned(summaryFile.lastScan) /\ x = [log |-> x.log, sd |-> TRUE]
  BY <1>1, Scanned
<1>3. scan \in LogList
  <2>1. ChangedList("listLogs", NoEntry, summaryFile) = scan
    BY DEF ChangedList
  <2>2. "listLogs" \in Operations /\ "listLogs" \in Listing
    BY DEF Operations, Synchronized, Listing
  <2> QED BY <1>1, <2>1, <2>2, ListTypes
<1>4. scan.logs \subseteq LogEntry /\ summaryFile.logs \subseteq LogEntry
  BY <1>1, <1>3 DEF LogList
<1>5. InMemory(scan.logs) \subseteq InMemory(summaryFile.logs) \ Evicted(summaryFile.logs)
  <2>1. \A x : x = [log |-> x.log, sd |-> TRUE] => x.sd
    OBVIOUS
  <2>2. Evicted(summaryFile.logs) = {}
    BY DEF LogInv, SummaryInv
  <2> QED BY <1>2, <2>1, <2>2 DEF InMemory
<1>6. Evicted(scan.logs) = {}
  BY <1>4, <1>5, FewerNotEvicted DEF CalmUse
<1>7. Listed = scan.logs
  <2>1. RemoveOldInMemoryLogs(scan).logs = scan.logs \ Evicted(scan.logs)
    BY <1>3 DEF RemoveOldInMemoryLogs, LogList
  <2> QED BY <1>6, <2>1 DEF Listed
<1> HIDE DEF scan
<1> QED BY <1>2, <1>4, <1>7 DEF scan

(* Once the tasks are over a listing shows every log that was saved,       *)
(* restored or put on the card and not deleted or evicted since, even      *)
(* after the process was killed in the middle of a task.                   *)
THEOREM NoLogIsEverLost == CalmUse /\ Spec => []NoLogIsLost
<1> SUFFICES ASSUME CalmUse PROVE Spec => []NoLogIsLost
  OBVIOUS
<1>1. LogsTyped /\ LogInv => NoLogIsLost
  <2> SUFFICES ASSUME LogsTyped, LogInv, Quiet
               PROVE  library \subseteq DigestsOf(Listed)
    BY DEF NoLogIsLost
  <2>1. library \subseteq VisibleIn(summaryFile)
    BY WhenQuiet DEF LogInv, LibraryInv
  <2> QED BY <2>1, QuietListing DEF VisibleIn, DigestsOf
<1> QED BY <1>1, LogInvariant, PTL

(* What was deleted stays away until it is restored.                       *)
THEOREM DeletedLogsStayAway == CalmUse /\ Spec => []DeletedStaysAway
<1> SUFFICES ASSUME CalmUse PROVE Spec => []DeletedStaysAway
  OBVIOUS
<1>1. LogsTyped /\ LogInv => DeletedStaysAway
  <2> SUFFICES ASSUME LogsTyped, LogInv, Quiet, ~crashed
               PROVE  DigestsOf(Listed) \subseteq library
    BY DEF DeletedStaysAway
  <2>1. DigestsOf(summaryFile.logs) \subseteq library /\ Files(card) \subseteq library
    BY WhenQuiet DEF LogInv, SummaryInv, LibraryInv
  <2> QED BY <2>1, QuietListing DEF Rescanned
<1> QED BY <1>1, LogInvariant, PTL

(* A log listed as saved on the card has its file there, no other has, and *)
(* one entry stands for a log.                                             *)
THEOREM EveryListedFileExists == CalmUse /\ Spec => []ListedFilesExist
<1> SUFFICES ASSUME CalmUse PROVE Spec => []ListedFilesExist
  OBVIOUS
<1>1. LogsTyped /\ LogInv => ListedFilesExist
  <2> SUFFICES ASSUME LogsTyped, LogInv, Quiet, ~crashed
               PROVE  /\ \A e \in Listed : e.sd = (e.log \in Files(card))
                      /\ Cardinality(Listed) = Cardinality(DigestsOf(Listed))
    BY DEF ListedFilesExist
  <2>1. \A x \in summaryFile.logs : x.sd <=> x.log \in Files(card)
    BY WhenQuiet DEF LogInv, SummaryInv, Exact
  <2>2. \A x : x = [log |-> x.log, sd |-> TRUE] => x.sd
    OBVIOUS
  <2>3. ASSUME NEW e \in Listed
        PROVE  e.sd = (e.log \in Files(card))
    <3>1. e.sd <=> e.log \in Files(card)
      BY <2>1, <2>2, QuietListing DEF Rescanned
    <3>2. e.sd \in BOOLEAN
      BY QuietListing DEF LogEntry
    <3> QED BY <3>1, <3>2
  <2>4. \A x, y \in Listed : x.log = y.log => x = y
    <3>1. \A x, y \in summaryFile.logs : x.log = y.log => x = y
      BY DEF LogInv, SummaryInv, ListInv
    <3> QED BY <3>1, QuietListing
  <2> DEFINE f == [e \in Listed |-> e.log]
  <2>5. f \in Bijection(Listed, DigestsOf(Listed))
    BY <2>4 DEF DigestsOf, Bijection, Injection, Surjection, IsInjective
  <2>6. IsFiniteSet(Listed)
    BY QuietListing, FiniteEntries, FS_Subset DEF CalmUse
  <2>7. Cardinality(Listed) = Cardinality(DigestsOf(Listed))
    BY <2>5, <2>6, FS_Bijection DEF ExistsBijection
  <2> QED BY <2>3, <2>7
<1> QED BY <1>1, LogInvariant, PTL

(* Every deletion can be undone.                                           *)
THEOREM EveryDeletionCanBeUndone == CalmUse /\ Spec => []DeletionsCanBeUndone
<1>1. LogInv => DeletionsCanBeUndone
  BY DEF LogInv, TokensInv, DeletionsCanBeUndone
<1> QED BY <1>1, LogInvariant, PTL
=============================================================================
