-------------------------- MODULE LspServerProofs --------------------------
(***************************************************************************)
(* Proofs about LspServer for any set of documents and any bounds: the     *)
(* type invariant, the three safety properties of the debounce state and   *)
(* SettledFresh, what the client sees in the end.                          *)
(*                                                                         *)
(* None of the three is inductive alone. Arming a timer overwrites the     *)
(* entry of task nextTask, so it must be known that this task was never    *)
(* used (Counters); and drainTimers reaches every pending timer and every  *)
(* live goroutine only because the two maps hold them all, which is what   *)
(* NoLostTimer and OneLiveDiagnose say.                                    *)
(***************************************************************************)
EXTENDS LspServer, TLAPS

\* Tasks are used in order, a handler that will arm a timer has one left, and
\* versions lag behind the count of texts.
Counters ==
  /\ \A t \in TaskIds : t >= nextTask => tasks[t].at = "unused"
  /\ phase = "schedule" => nextTask <= MaxTasks
  /\ \A u \in Uris : docs[u].version < nextText

Debounce == OneLiveDiagnose /\ NoLostTimer /\ ReturnDrains

IInv == TypeOK /\ Counters /\ Debounce

-----------------------------------------------------------------------------
(* The operators on the table of tasks keep its type.                      *)

\* Stopping timers and cancelling contexts yields a table of tasks again.
LEMMA StoppedType ==
  ASSUME NEW ts \in [TaskIds -> Task], NEW S
  PROVE  Stopped(ts, S) \in [TaskIds -> Task]
BY DEF Stopped, Task, TaskStates

\* Cancelling contexts yields a table of tasks again.
LEMMA CancelledType ==
  ASSUME NEW ts \in [TaskIds -> Task], NEW S
  PROVE  Cancelled(ts, S) \in [TaskIds -> Task]
BY DEF Cancelled, Task, TaskStates

\* The store's functions keep its type when the text and version fit.
LEMMA StoreType ==
  ASSUME NEW d \in [Uris -> Documents], NEW u \in Uris,
         NEW text \in 0..MaxTexts, NEW version \in -1..MaxTexts
  PROVE  /\ version >= 0 => open(d, u, text, version) \in [Uris -> Documents]
         /\ update(d, u, text, version) \in [Uris -> Documents]
         /\ close(d, u) \in [Uris -> Documents]
         /\ setAnalysis(d, u, text) \in [Uris -> Documents]
<1> USE BoundsAssumption
<1>1. version >= 0 => open(d, u, text, version) \in [Uris -> Documents]
  BY DEF open, Documents, NoText
<1>2. update(d, u, text, version) \in [Uris -> Documents]
  BY DEF update, Documents, NoText
<1>3. close(d, u) \in [Uris -> Documents]
  BY DEF close, Documents, Closed, NoText
<1>4. setAnalysis(d, u, text) \in [Uris -> Documents]
  BY DEF setAnalysis, Documents, NoText
<1> QED BY <1>1, <1>2, <1>3, <1>4

\* No function of the store lets a version pass a bound that the argument
\* keeps to.
LEMMA StoreVersion ==
  ASSUME NEW d \in [Uris -> Documents], NEW u \in Uris, NEW text, NEW version \in Int,
         NEW n \in Nat, version < n, 0 < n, \A w \in Uris : d[w].version < n
  PROVE  /\ \A w \in Uris : open(d, u, text, version)[w].version < n
         /\ \A w \in Uris : update(d, u, text, version)[w].version < n
         /\ \A w \in Uris : close(d, u)[w].version < n
         /\ \A w \in Uris : setAnalysis(d, u, text)[w].version < n
<1>1. \A w \in Uris : open(d, u, text, version)[w].version < n
  BY DEF open, Documents
<1>2. \A w \in Uris : update(d, u, text, version)[w].version < n
  BY DEF update, Documents
<1>3. \A w \in Uris : close(d, u)[w].version < n
  BY DEF close, Documents, Closed
<1>4. \A w \in Uris : setAnalysis(d, u, text)[w].version < n
  BY DEF setAnalysis, Documents
<1> QED BY <1>1, <1>2, <1>3, <1>4

-----------------------------------------------------------------------------
(* Types and counters.                                                     *)

\* The initial state satisfies the whole invariant.
LEMMA InitIInv == Init => IInv
<1> SUFFICES ASSUME Init PROVE IInv
  OBVIOUS
<1> USE BoundsAssumption
<1>1. TypeOK
  <2>1. docs \in [Uris -> Documents]
    BY DEF Init, Documents, Closed, NoText
  <2>2. tasks \in [TaskIds -> Task]
    BY DEF Init, Task, TaskStates, NoText
  <2>3. /\ debounceTimers \in [Uris -> 0..MaxTasks]
        /\ diagCancels \in [Uris -> 0..MaxTasks]
        /\ shown \in [Uris -> 0..MaxTexts]
    BY DEF Init, NoTask, NoText
  <2>4. /\ initialized \in BOOLEAN /\ shutdownRequested \in BOOLEAN
        /\ exitCode \in {0, 1} /\ exitClosed \in BOOLEAN /\ ctxDone \in BOOLEAN
        /\ phase \in Phases /\ current \in Uris
    BY Zenon DEF Init, Phases
  <2>5. nextTask \in 1..(MaxTasks + 1) /\ nextText \in 1..(MaxTexts + 1)
    BY DEF Init
  <2> QED
    BY <2>1, <2>2, <2>3, <2>4, <2>5 DEF TypeOK
<1>2. Counters
  BY DEF Init, Counters, TaskIds, Closed
<1>3. Debounce
  BY DEF Init, Debounce, OneLiveDiagnose, NoLostTimer, ReturnDrains,
         Unfinished, Running
<1> QED BY <1>1, <1>2, <1>3 DEF IInv

\* The messages that change a document keep the types and the counters.
LEMMA TextTypes ==
  ASSUME TypeOK, Counters, NEW u \in Uris,
         \/ HandleDidOpen(u) \/ HandleDidChange(u) \/ HandleEmptyChange(u)
         \/ HandleDidSave(u) \/ HandleDidClose(u)
  PROVE  TypeOK' /\ Counters'
<1> USE BoundsAssumption DEF NewText, StartHandler, loopVars, schedVars
<1>1. docs \in [Uris -> Documents] /\ nextText \in 1..(MaxTexts + 1)
  BY DEF TypeOK
<1>2. docs[u].version \in 0..MaxTexts /\ docs[u].version < nextText
  BY <1>1 DEF Documents, Counters
<1>3. \A w \in Uris : docs[w].version < nextText /\ docs[w].version \in Int
  BY <1>1 DEF Counters, Documents
<1>4. CASE HandleDidOpen(u)
  <2>1. docs' = open(docs, u, nextText, 1) /\ nextText' = nextText + 1
        /\ nextText <= MaxTexts /\ nextTask <= MaxTasks /\ phase' = "schedule"
    BY <1>4 DEF HandleDidOpen
  <2>2. docs' \in [Uris -> Documents]
    BY <1>1, <2>1, StoreType
  <2>3. \A w \in Uris : docs'[w].version < nextText'
    <3>1. \A w \in Uris : docs[w].version < nextText'
      BY <1>1, <1>3, <2>1
    <3>2. nextText' \in Nat /\ 1 < nextText' /\ 0 < nextText'
      BY <1>1, <2>1
    <3> QED BY <1>1, <2>1, <3>1, <3>2, StoreVersion
  <2> QED BY <1>4, <2>1, <2>2, <2>3 DEF HandleDidOpen, TypeOK, Counters, Phases
<1>5. CASE HandleDidChange(u)
  <2>1. docs' = update(docs, u, nextText, docs[u].version + 1)
        /\ nextText' = nextText + 1
        /\ nextText <= MaxTexts /\ nextTask <= MaxTasks /\ phase' = "schedule"
    BY <1>5 DEF HandleDidChange
  <2>2. docs[u].version + 1 \in -1..MaxTexts /\ docs[u].version + 1 < nextText'
    BY <1>1, <1>2, <2>1
  <2>3. docs' \in [Uris -> Documents]
    BY <1>1, <2>1, <2>2, StoreType
  <2>4. \A w \in Uris : docs'[w].version < nextText'
    <3>1. \A w \in Uris : docs[w].version < nextText'
      BY <1>1, <1>3, <2>1
    <3>2. nextText' \in Nat /\ 0 < nextText' /\ docs[u].version + 1 \in Int
      BY <1>1, <2>1, <2>2
    <3> QED BY <1>1, <2>1, <2>2, <3>1, <3>2, StoreVersion
  <2> QED BY <1>5, <2>1, <2>3, <2>4 DEF HandleDidChange, TypeOK, Counters, Phases
<1>6. CASE HandleEmptyChange(u)
  BY <1>6 DEF HandleEmptyChange, TypeOK, Counters, Phases
<1>7. CASE HandleDidSave(u)
  <2>1. CASE UNCHANGED <<docs, nextText>>
    BY <1>7, <2>1 DEF HandleDidSave, TypeOK, Counters, Phases
  <2>2. CASE NewText /\ docs' = update(docs, u, nextText, -1)
    <3>1. docs' \in [Uris -> Documents]
      BY <1>1, <2>2, StoreType
    <3>2. \A w \in Uris : docs'[w].version < nextText'
      <4>1. \A w \in Uris : docs[w].version < nextText'
        BY <1>1, <1>3, <2>2
      <4>2. nextText' \in Nat /\ -1 < nextText' /\ 0 < nextText'
        BY <1>1, <2>2
      <4> QED BY <1>1, <2>2, <4>1, <4>2, StoreVersion
    <3> QED BY <1>7, <2>2, <3>1, <3>2 DEF HandleDidSave, TypeOK, Counters, Phases
  <2> QED BY <1>7, <2>1, <2>2 DEF HandleDidSave
<1>8. CASE HandleDidClose(u)
  <2>1. docs' = close(docs, u) /\ nextText' = nextText /\ phase' = "cleanup"
    BY <1>8 DEF HandleDidClose
  <2>2. docs' \in [Uris -> Documents]
    BY <1>1, <2>1 DEF close, Documents, Closed, NoText
  <2>3. \A w \in Uris : docs'[w].version < nextText'
    BY <1>1, <1>3, <2>1 DEF close, Documents, Closed
  <2> QED BY <1>8, <2>1, <2>2, <2>3 DEF HandleDidClose, TypeOK, Counters, Phases
<1> QED BY <1>4, <1>5, <1>6, <1>7, <1>8

\* The loop and the lifecycle messages keep the types and the counters.
LEMMA LoopTypes ==
  ASSUME TypeOK, Counters,
         \/ LoopTop \/ SkipMalformed \/ ReadError \/ HandleInitialize
         \/ HandleShutdown \/ HandleExit \/ CancelContext
  PROVE  TypeOK' /\ Counters'
<1> USE DEF TypeOK, Counters, Phases, loopVars, schedVars
<1>1. CASE LoopTop          BY <1>1 DEF LoopTop
<1>2. CASE SkipMalformed    BY <1>2 DEF SkipMalformed
<1>3. CASE ReadError        BY <1>3 DEF ReadError
<1>4. CASE HandleInitialize BY <1>4 DEF HandleInitialize
<1>5. CASE HandleShutdown   BY <1>5 DEF HandleShutdown
<1>6. CASE HandleExit       BY <1>6 DEF HandleExit
<1>7. CASE CancelContext    BY <1>7 DEF CancelContext
<1> QED BY <1>1, <1>2, <1>3, <1>4, <1>5, <1>6, <1>7

\* The sections under Server.mu keep the types and the counters.
LEMMA ScheduleTypes ==
  ASSUME TypeOK, Counters,
         \/ scheduleDiagnose \/ CloseCleanup \/ CloseClear
         \/ DiagnoseCancel \/ drainTimers
  PROVE  TypeOK' /\ Counters'
<1> USE BoundsAssumption DEF loopVars
<1>1. tasks \in [TaskIds -> Task] /\ nextTask \in 1..(MaxTasks + 1)
  BY DEF TypeOK
<1>2. CASE scheduleDiagnose
  <2> DEFINE new == [uri |-> current, at |-> "armed", cancelled |-> FALSE,
                     version |-> 0, text |-> NoText]
             old == Cancelled(Stopped(tasks, {debounceTimers[current]}),
                              {diagCancels[current]})
  <2>1. nextTask \in TaskIds /\ nextTask' = nextTask + 1
    BY <1>1, <1>2 DEF scheduleDiagnose, Counters, TaskIds
  <2>2. new \in Task
    BY DEF Task, TaskStates, NoText, TypeOK
  <2>3. old \in [TaskIds -> Task]
    BY <1>1, StoppedType, CancelledType
  <2>4. tasks' = [old EXCEPT ![nextTask] = new]
    BY <1>2 DEF scheduleDiagnose
  <2>5. tasks' \in [TaskIds -> Task]
    BY <2>2, <2>3, <2>4
  <2>6. debounceTimers' \in [Uris -> 0..MaxTasks] /\ diagCancels' \in [Uris -> 0..MaxTasks]
    BY <1>2, <2>1 DEF scheduleDiagnose, TypeOK, TaskIds
  <2>7. TypeOK'
    <3>1. nextTask' \in 1..(MaxTasks + 1)
      BY <2>1 DEF TaskIds
    <3> QED BY <1>2, <2>5, <2>6, <3>1 DEF scheduleDiagnose, TypeOK, Phases
  <2>8. \A t \in TaskIds : t >= nextTask' => tasks'[t].at = "unused"
    <3> SUFFICES ASSUME NEW t \in TaskIds, t >= nextTask'
                 PROVE  tasks'[t].at = "unused"
      OBVIOUS
    <3>1. t # nextTask /\ tasks[t].at = "unused"
      BY <1>1, <2>1 DEF Counters, TaskIds
    <3>2. tasks'[t].at = old[t].at
      BY <2>3, <2>4, <3>1
    <3>3. old[t].at = "unused"
      BY <1>1, <3>1 DEF Stopped, Cancelled, Task
    <3> QED BY <3>2, <3>3
  <2> QED BY <1>2, <2>7, <2>8 DEF scheduleDiagnose, Counters
<1>3. CASE CloseCleanup
  <2>1. tasks' \in [TaskIds -> Task]
    BY <1>1, <1>3, StoppedType, CancelledType DEF CloseCleanup
  <2>2. debounceTimers' \in [Uris -> 0..MaxTasks] /\ diagCancels' \in [Uris -> 0..MaxTasks]
    BY <1>3 DEF CloseCleanup, TypeOK, NoTask
  <2>3. \A t \in TaskIds : tasks[t].at = "unused" => tasks'[t].at = "unused"
    BY <1>1, <1>3 DEF CloseCleanup, Stopped, Cancelled, Task
  <2> QED BY <1>3, <2>1, <2>2, <2>3 DEF CloseCleanup, TypeOK, Counters, Phases
<1>4. CASE CloseClear
  BY <1>4 DEF CloseClear, TypeOK, Counters, Phases, NoText, schedVars
<1>5. CASE DiagnoseCancel
  <2>1. tasks' \in [TaskIds -> Task]
    BY <1>1, <1>5, CancelledType DEF DiagnoseCancel
  <2>2. \A t \in TaskIds : tasks[t].at = "unused" => tasks'[t].at = "unused"
    BY <1>1, <1>5 DEF DiagnoseCancel, Cancelled, Task
  <2> QED BY <1>5, <2>1, <2>2 DEF DiagnoseCancel, TypeOK, Counters, Phases
<1>6. CASE drainTimers
  <2>1. tasks' \in [TaskIds -> Task]
    BY <1>1, <1>6, StoppedType, CancelledType DEF drainTimers
  <2>2. debounceTimers' \in [Uris -> 0..MaxTasks] /\ diagCancels' \in [Uris -> 0..MaxTasks]
    BY <1>6 DEF drainTimers, NoTask
  <2>3. \A t \in TaskIds : tasks[t].at = "unused" => tasks'[t].at = "unused"
    BY <1>1, <1>6 DEF drainTimers, Stopped, Cancelled, Task
  <2> QED BY <1>6, <2>1, <2>2, <2>3 DEF drainTimers, TypeOK, Counters, Phases
<1> QED BY <1>2, <1>3, <1>4, <1>5, <1>6

\* Timers and the steps of diagnose keep the types and the counters.
LEMMA TaskTypes ==
  ASSUME TypeOK, Counters, NEW t \in TaskIds, FireTimer(t) \/ Diagnose(t)
  PROVE  TypeOK' /\ Counters'
<1> USE BoundsAssumption DEF TaskOnly, GoTo, loopVars
<1>1. /\ tasks \in [TaskIds -> Task] /\ docs \in [Uris -> Documents]
      /\ tasks[t] \in Task /\ docs[tasks[t].uri] \in Documents
      /\ nextTask \in Nat
  BY DEF TypeOK, Task
<1>2. CASE FireTimer(t) \/ CheckContext(t) \/ CheckStale(t)
  <2>1. PICK at \in TaskStates : tasks' = [tasks EXCEPT ![t].at = at] /\ tasks[t].at # "unused"
    BY <1>2 DEF FireTimer, CheckContext, CheckStale, TaskStates
  <2>2. tasks' \in [TaskIds -> Task]
    BY <1>1, <2>1 DEF Task
  <2>3. \A r \in TaskIds : tasks[r].at = "unused" => tasks'[r].at = "unused"
    BY <1>1, <2>1 DEF Task
  <2> QED
    BY <1>2, <2>2, <2>3 DEF FireTimer, CheckContext, CheckStale, TypeOK, Counters
<1>3. CASE CaptureDocument(t)
  <2>1. tasks' \in [TaskIds -> Task]
    BY <1>1, <1>3 DEF CaptureDocument, Task, TaskStates, Documents
  <2>2. \A r \in TaskIds : tasks[r].at = "unused" => tasks'[r].at = "unused"
    BY <1>1, <1>3 DEF CaptureDocument, Task
  <2> QED BY <1>3, <2>1, <2>2 DEF CaptureDocument, TypeOK, Counters
<1>4. CASE StoreAnalysis(t)
  <2>1. tasks[t].uri \in Uris /\ tasks[t].text \in 0..MaxTexts
    BY <1>1 DEF Task
  <2>2. docs' \in [Uris -> Documents]
    BY <1>1, <1>4, <2>1, StoreType DEF StoreAnalysis
  <2>3. \A w \in Uris : docs'[w].version = docs[w].version
    BY <1>1, <1>4 DEF StoreAnalysis, setAnalysis, Documents
  <2>4. tasks' \in [TaskIds -> Task]
    BY <1>1, <1>4 DEF StoreAnalysis, Task, TaskStates
  <2>5. \A r \in TaskIds : tasks[r].at = "unused" => tasks'[r].at = "unused"
    BY <1>1, <1>4 DEF StoreAnalysis, Task
  <2> QED BY <1>4, <2>2, <2>3, <2>4, <2>5 DEF StoreAnalysis, TypeOK, Counters
<1>5. CASE Publish(t)
  <2>1. tasks' \in [TaskIds -> Task]
    BY <1>1, <1>5 DEF Publish, Task, TaskStates
  <2>2. shown' \in [Uris -> 0..MaxTexts]
    BY <1>1, <1>5 DEF Publish, TypeOK, Task
  <2>3. \A r \in TaskIds : tasks[r].at = "unused" => tasks'[r].at = "unused"
    BY <1>1, <1>5 DEF Publish, Task
  <2> QED BY <1>5, <2>1, <2>2, <2>3 DEF Publish, TypeOK, Counters
<1> QED BY <1>2, <1>3, <1>4, <1>5 DEF Diagnose

-----------------------------------------------------------------------------
(* The debounce state.                                                     *)

\* scheduleDiagnose, handleDidClose and the deferred calls of Run keep the
\* debounce state: whatever they take out of a map, they have stopped and
\* cancelled first.
LEMMA ScheduleDebounce ==
  ASSUME TypeOK, Counters, Debounce,
         scheduleDiagnose \/ CloseCleanup \/ DiagnoseCancel \/ drainTimers
  PROVE  Debounce'
<1> USE BoundsAssumption
<1>1. /\ tasks \in [TaskIds -> Task] /\ current \in Uris
      /\ debounceTimers \in [Uris -> 0..MaxTasks] /\ diagCancels \in [Uris -> 0..MaxTasks]
      /\ \A t \in TaskIds : tasks[t].uri \in Uris
  BY DEF TypeOK, Task
<1>2. \A t \in TaskIds : /\ Unfinished(t) /\ ~tasks[t].cancelled => diagCancels[tasks[t].uri] = t
                         /\ tasks[t].at = "armed" => debounceTimers[tasks[t].uri] = t
  BY DEF Debounce, OneLiveDiagnose, NoLostTimer
<1>3. CASE scheduleDiagnose
  <2> DEFINE old == Cancelled(Stopped(tasks, {debounceTimers[current]}),
                              {diagCancels[current]})
  <2>1. /\ phase' = "top" /\ nextTask \in TaskIds
        /\ debounceTimers' = [debounceTimers EXCEPT ![current] = nextTask]
        /\ diagCancels' = [diagCancels EXCEPT ![current] = nextTask]
    BY <1>3 DEF scheduleDiagnose, Counters, TypeOK, TaskIds
  <2>2. tasks' = [old EXCEPT ![nextTask] = [uri |-> current, at |-> "armed",
                    cancelled |-> FALSE, version |-> 0, text |-> NoText]]
    BY <1>3 DEF scheduleDiagnose
  <2>3. old \in [TaskIds -> Task]
    BY <1>1, StoppedType, CancelledType
  <2>4. /\ tasks'[nextTask].uri = current
        /\ debounceTimers'[current] = nextTask /\ diagCancels'[current] = nextTask
    BY <1>1, <2>1, <2>2, <2>3
  <2>5. ASSUME NEW t \in TaskIds, t # nextTask
        PROVE  /\ (Unfinished(t) /\ ~tasks[t].cancelled => diagCancels[tasks[t].uri] = t)'
               /\ (tasks[t].at = "armed" => debounceTimers[tasks[t].uri] = t)'
    <3>1. tasks'[t] = old[t]
      BY <2>2, <2>3, <2>5
    <3>2. /\ tasks'[t].uri = tasks[t].uri
          /\ tasks'[t].at = (IF t = debounceTimers[current] /\ tasks[t].at = "armed"
                             THEN "done" ELSE tasks[t].at)
          /\ t = diagCancels[current] => tasks'[t].cancelled = TRUE
          /\ t # diagCancels[current] => tasks'[t].cancelled = tasks[t].cancelled
      BY <1>1, <3>1, ZenonT(60) DEF Stopped, Cancelled, Task
    <3>3. Unfinished(t)' => Unfinished(t)
      BY <3>2 DEF Unfinished, Running
    <3>4. tasks[t].uri # current =>
            /\ debounceTimers'[tasks[t].uri] = debounceTimers[tasks[t].uri]
            /\ diagCancels'[tasks[t].uri] = diagCancels[tasks[t].uri]
      BY <1>1, <2>1
    <3>5. Unfinished(t)' /\ ~tasks'[t].cancelled => diagCancels'[tasks'[t].uri] = t
      BY <1>2, <3>2, <3>3, <3>4
    <3>6. tasks'[t].at = "armed" => debounceTimers'[tasks'[t].uri] = t
      BY <1>2, <3>2, <3>4
    <3> QED BY <3>5, <3>6
  <2>6. OneLiveDiagnose' /\ NoLostTimer'
    BY <2>4, <2>5 DEF OneLiveDiagnose, NoLostTimer
  <2> QED BY <2>1, <2>6 DEF Debounce, ReturnDrains
<1>4. CASE CloseCleanup
  <2>1. /\ phase' = "clear"
        /\ debounceTimers' = [debounceTimers EXCEPT ![current] = NoTask]
        /\ diagCancels' = [diagCancels EXCEPT ![current] = NoTask]
        /\ tasks' = Cancelled(Stopped(tasks, {debounceTimers[current]}),
                              {diagCancels[current]})
    BY <1>4 DEF CloseCleanup
  <2>2. ASSUME NEW t \in TaskIds
        PROVE  /\ (Unfinished(t) /\ ~tasks[t].cancelled => diagCancels[tasks[t].uri] = t)'
               /\ (tasks[t].at = "armed" => debounceTimers[tasks[t].uri] = t)'
    <3>1. /\ tasks'[t].uri = tasks[t].uri
          /\ tasks'[t].at = (IF t = debounceTimers[current] /\ tasks[t].at = "armed"
                             THEN "done" ELSE tasks[t].at)
          /\ t = diagCancels[current] => tasks'[t].cancelled = TRUE
          /\ t # diagCancels[current] => tasks'[t].cancelled = tasks[t].cancelled
      BY <1>1, <2>1 DEF Stopped, Cancelled, Task
    <3>2. Unfinished(t)' => Unfinished(t)
      BY <3>1 DEF Unfinished, Running
    <3>3. tasks[t].uri # current =>
            /\ debounceTimers'[tasks[t].uri] = debounceTimers[tasks[t].uri]
            /\ diagCancels'[tasks[t].uri] = diagCancels[tasks[t].uri]
      BY <1>1, <2>1
    <3>4. Unfinished(t)' /\ ~tasks'[t].cancelled => diagCancels'[tasks'[t].uri] = t
      BY <1>2, <3>1, <3>2, <3>3
    <3>5. tasks'[t].at = "armed" => debounceTimers'[tasks'[t].uri] = t
      BY <1>2, <3>1, <3>3
    <3> QED BY <3>4, <3>5
  <2>3. OneLiveDiagnose' /\ NoLostTimer'
    BY <2>2 DEF OneLiveDiagnose, NoLostTimer
  <2> QED BY <2>1, <2>3 DEF Debounce, ReturnDrains
<1>5. CASE DiagnoseCancel
  <2>1. /\ phase' = "draining"
        /\ debounceTimers' = debounceTimers /\ diagCancels' = diagCancels
        /\ tasks' = Cancelled(tasks, {t \in TaskIds : tasks[t].at # "unused"})
    BY <1>5 DEF DiagnoseCancel
  <2>2. ASSUME NEW t \in TaskIds
        PROVE  /\ tasks'[t].uri = tasks[t].uri /\ tasks'[t].at = tasks[t].at
               /\ tasks'[t].at # "unused" => tasks'[t].cancelled = TRUE
    BY <1>1, <2>1 DEF Cancelled, Task
  <2>3. OneLiveDiagnose'
    BY <2>2 DEF OneLiveDiagnose, Unfinished, Running
  <2>4. NoLostTimer'
    BY <1>2, <2>1, <2>2 DEF NoLostTimer
  <2> QED BY <2>1, <2>3, <2>4 DEF Debounce, ReturnDrains
<1>6. CASE drainTimers
  <2>1. tasks' = Cancelled(Stopped(tasks, {debounceTimers[u] : u \in Uris}),
                           {diagCancels[u] : u \in Uris})
    BY <1>6 DEF drainTimers
  <2>2. ASSUME NEW t \in TaskIds
        PROVE  tasks'[t].at # "armed" /\ (Unfinished(t)' => tasks'[t].cancelled)
    <3>1. tasks[t].at = "armed" => t \in {debounceTimers[u] : u \in Uris}
      BY <1>1, <1>2
    <3>2. tasks'[t].at # "armed"
      BY <1>1, <2>1, <3>1 DEF Stopped, Cancelled, Task
    <3>3. Unfinished(t)' => Unfinished(t)
      BY <1>1, <2>1 DEF Stopped, Cancelled, Task, Unfinished, Running
    <3>4. Unfinished(t) /\ ~tasks[t].cancelled => t \in {diagCancels[u] : u \in Uris}
      BY <1>1, <1>2
    <3>5. tasks[t].cancelled => tasks'[t].cancelled
      BY <1>1, <2>1 DEF Stopped, Cancelled, Task
    <3>6. t \in {diagCancels[u] : u \in Uris} => tasks'[t].cancelled
      BY <1>1, <2>1 DEF Stopped, Cancelled, Task
    <3> QED BY <3>2, <3>3, <3>4, <3>5, <3>6
  <2> QED BY <2>2 DEF Debounce, OneLiveDiagnose, NoLostTimer, ReturnDrains
<1> QED BY <1>3, <1>4, <1>5, <1>6

\* A timer that fires and a goroutine that advances keep their document and
\* their context, and no step of theirs arms a timer.
LEMMA TaskDebounce ==
  ASSUME TypeOK, Debounce, NEW t \in TaskIds, FireTimer(t) \/ Diagnose(t)
  PROVE  Debounce'
<1>1. tasks \in [TaskIds -> Task]
  BY DEF TypeOK
<1>2. UNCHANGED <<phase, debounceTimers, diagCancels>>
  BY DEF FireTimer, Diagnose, CheckContext, CaptureDocument, CheckStale,
         StoreAnalysis, Publish, TaskOnly
<1>3. ASSUME NEW r \in TaskIds
      PROVE  /\ tasks'[r].uri = tasks[r].uri
             /\ tasks'[r].cancelled = tasks[r].cancelled
             /\ tasks'[r].at = "armed" => tasks[r].at = "armed"
             /\ Unfinished(r)' => Unfinished(r)
  <2> USE <1>1 DEF GoTo, Task, Unfinished, Running
  <2>1. CASE FireTimer(t)       BY <2>1 DEF FireTimer
  <2>2. CASE CheckContext(t)    BY <2>2 DEF CheckContext
  <2>3. CASE CaptureDocument(t) BY <2>3 DEF CaptureDocument
  <2>4. CASE CheckStale(t)      BY <2>4 DEF CheckStale
  <2>5. CASE StoreAnalysis(t)   BY <2>5 DEF StoreAnalysis
  <2>6. CASE Publish(t)         BY <2>6 DEF Publish
  <2> QED BY <2>1, <2>2, <2>3, <2>4, <2>5, <2>6 DEF Diagnose
<1>4. OneLiveDiagnose'
  BY <1>2, <1>3 DEF Debounce, OneLiveDiagnose
<1>5. NoLostTimer'
  BY <1>2, <1>3 DEF Debounce, NoLostTimer
<1>6. ReturnDrains'
  BY <1>2, <1>3 DEF Debounce, ReturnDrains
<1> QED BY <1>4, <1>5, <1>6 DEF Debounce

\* A step that leaves the tasks and the two maps alone and does not end Run
\* keeps the debounce state.
LEMMA FrameDebounce ==
  ASSUME Debounce, UNCHANGED schedVars, phase' # "returned" \/ UNCHANGED phase
  PROVE  Debounce'
BY DEF Debounce, OneLiveDiagnose, NoLostTimer, ReturnDrains, Unfinished, Running,
       schedVars

-----------------------------------------------------------------------------
\* Every step of the server keeps the inductive invariant.
LEMMA NextIInv == IInv /\ [Next]_vars => IInv'
<1> SUFFICES ASSUME TypeOK, Counters, Debounce, [Next]_vars
             PROVE  TypeOK' /\ Counters' /\ Debounce'
  BY DEF IInv
<1>1. CASE UNCHANGED vars
  <2>1. UNCHANGED schedVars /\ UNCHANGED phase
    BY <1>1 DEF vars
  <2>2. Debounce'
    BY <2>1, FrameDebounce
  <2>3. TypeOK'
    BY <1>1 DEF TypeOK, vars, loopVars, schedVars
  <2>4. Counters'
    BY <1>1 DEF Counters, vars, loopVars, schedVars
  <2> QED BY <2>2, <2>3, <2>4
<1>2. CASE \/ LoopTop \/ SkipMalformed \/ ReadError \/ HandleInitialize
           \/ HandleShutdown \/ HandleExit \/ CancelContext
  <2>1. UNCHANGED schedVars /\ (phase' # "returned" \/ UNCHANGED phase)
    BY <1>2 DEF LoopTop, SkipMalformed, ReadError, HandleInitialize,
                HandleShutdown, HandleExit, CancelContext
  <2> QED BY <1>2, <2>1, LoopTypes, FrameDebounce
<1>3. ASSUME NEW u \in Uris,
             \/ HandleDidOpen(u) \/ HandleDidChange(u) \/ HandleEmptyChange(u)
             \/ HandleDidSave(u) \/ HandleDidClose(u)
      PROVE  TypeOK' /\ Counters' /\ Debounce'
  <2>1. UNCHANGED schedVars /\ phase' # "returned"
    BY <1>3 DEF HandleDidOpen, HandleDidChange, HandleEmptyChange,
                HandleDidSave, HandleDidClose, StartHandler
  <2> QED BY <1>3, <2>1, TextTypes, FrameDebounce
<1>4. CASE CloseClear
  <2>1. UNCHANGED schedVars /\ phase' # "returned"
    BY <1>4 DEF CloseClear
  <2> QED BY <1>4, <2>1, ScheduleTypes, FrameDebounce
<1>5. CASE scheduleDiagnose \/ CloseCleanup \/ DiagnoseCancel \/ drainTimers
  BY <1>5, ScheduleTypes, ScheduleDebounce
<1>6. ASSUME NEW t \in TaskIds, FireTimer(t) \/ Diagnose(t)
      PROVE  TypeOK' /\ Counters' /\ Debounce'
  BY <1>6, TaskTypes, TaskDebounce
<1> QED BY <1>1, <1>2, <1>3, <1>4, <1>5, <1>6 DEF Next, Client, Main

\* The inductive invariant holds of every behaviour of the server.
LEMMA Inductive == Spec => []IInv
<1>1. Init => IInv
  BY InitIInv
<1> QED BY <1>1, NextIInv, PTL DEF Spec

\* Every state of the server is well typed: versions and texts stay within
\* what the client has sent, and no map names a task that does not exist.
THEOREM TypeCorrect == Spec => []TypeOK
<1>1. IInv => TypeOK
  BY DEF IInv
<1> QED BY <1>1, Inductive, PTL

\* However the handlers, timers and goroutines interleave, a document never
\* has two diagnose goroutines or timers with a live context.
THEOREM OneLive == Spec => []OneLiveDiagnose
<1>1. IInv => OneLiveDiagnose
  BY DEF IInv, Debounce
<1> QED BY <1>1, Inductive, PTL

\* No pending timer is ever out of reach of debounceTimers.
THEOREM TimersHeld == Spec => []NoLostTimer
<1>1. IInv => NoLostTimer
  BY DEF IInv, Debounce
<1> QED BY <1>1, Inductive, PTL

\* When Run has returned no timer is pending, and whatever diagnose goroutine
\* still runs has a cancelled context.
THEOREM RunDrains == Spec => []ReturnDrains
<1>1. IInv => ReturnDrains
  BY DEF IInv, Debounce
<1> QED BY <1>1, Inductive, PTL

-----------------------------------------------------------------------------
(***************************************************************************)
(* SettledFresh for any documents and bounds, when the client opens each   *)
(* document once and then changes it, and when a goroutine that has found  *)
(* its result current publishes it before the next timer of the document   *)
(* can fire.                                                               *)
(*                                                                         *)
(* The argument follows the newest task of a document, the one whose       *)
(* cancel function is in the map. Unless a handler has just changed the    *)
(* text and not yet armed its timer, the newest task was armed after the   *)
(* last change, so what it captures is the current version (Newest). Older *)
(* goroutines may still publish, but once the newest timer has fired, the  *)
(* ones past their version check hold the current version too (Overtaken). *)
(* A version determines its text (Captured), so whatever is published or   *)
(* stored from then on is the current text.                                *)
(***************************************************************************)

EditsOnly == Messages \subseteq {"open", "change"}

Serving == phase \in {"top", "reading", "schedule"}
Used(t) == tasks[t].at # "unused"
Holds(t) == tasks[t].at \in {"analyzing", "fresh", "stored"}
Passed(t) == tasks[t].at \in {"fresh", "stored"}

\* The handler that changed u has armed its timer.
Armed(u) == ~(phase = "schedule" /\ current = u)

\* The maps name the newest task of a document, and only that one can be armed
\* or have a live context.
NewestKnown(u) ==
  LET n == diagCancels[u] IN
  /\ debounceTimers[u] = n
  /\ n # NoTask => tasks[n].uri = u /\ Used(n) /\ ~tasks[n].cancelled
  /\ \A t \in TaskIds : tasks[t].uri = u /\ Used(t) =>
       t <= n /\ (t # n => tasks[t].at # "armed")

\* A snapshot of the current version is a snapshot of the current text.
Captured(u) ==
  \A t \in TaskIds : tasks[t].uri = u /\ Holds(t) =>
    /\ IsOpen(u) /\ tasks[t].version <= docs[u].version
    /\ tasks[t].version = docs[u].version => tasks[t].text = docs[u].text

\* Once the newest timer has fired, no goroutine past its check is behind.
Overtaken(u) ==
  tasks[diagCancels[u]].at # "armed" =>
    \A t \in TaskIds : tasks[t].uri = u /\ Passed(t) => tasks[t].version = docs[u].version

\* The newest task works on the current version and leaves its results behind.
Newest(u) ==
  LET n == diagCancels[u] IN
  /\ n # NoTask
  /\ Holds(n) => tasks[n].version = docs[u].version
  /\ tasks[n].at = "stored" => docs[u].analysis = docs[u].text
  /\ tasks[n].at = "done" /\ ~ctxDone =>
       shown[u] = docs[u].text /\ docs[u].analysis = docs[u].text

DocInv(u) ==
  /\ NewestKnown(u) /\ Captured(u)
  /\ Armed(u) /\ IsOpen(u) => Newest(u) /\ Overtaken(u)

EditsInv ==
  /\ phase \notin {"cleanup", "clear"}
  /\ \A u \in Uris : ~IsOpen(u) => docs[u] = Closed
  /\ Serving => \A u \in Uris : DocInv(u)

-----------------------------------------------------------------------------
(* What steps of other documents and of the loop leave alone.              *)

\* A document's invariant depends on its own entries and tasks only.
LEMMA DocFrame ==
  ASSUME TypeOK, NEW u \in Uris, DocInv(u), docs'[u] = docs[u], shown'[u] = shown[u],
         debounceTimers'[u] = debounceTimers[u], diagCancels'[u] = diagCancels[u],
         ctxDone => ctxDone', Armed(u)' => Armed(u),
         \A t \in TaskIds : \/ tasks'[t] = tasks[t]
                            \/ tasks'[t].uri # u /\ (tasks[t].uri = u => ~Used(t))
  PROVE  DocInv(u)'
<1> DEFINE n == diagCancels[u]
<1>1. n \in 0..MaxTasks /\ (n # NoTask => n \in TaskIds)
  BY DEF TypeOK, TaskIds, NoTask
<1>2. n # NoTask => tasks'[n] = tasks[n]
  BY <1>1 DEF DocInv, NewestKnown
<1>3. \A t \in TaskIds : tasks'[t].uri = u => tasks'[t] = tasks[t]
  OBVIOUS
<1>4. IsOpen(u)' = IsOpen(u)
  BY DEF IsOpen
<1>5. NewestKnown(u)'
  BY <1>2, <1>3 DEF DocInv, NewestKnown, Used
<1>6. Captured(u)'
  BY <1>3, <1>4 DEF DocInv, Captured, Holds
<1>7. ASSUME Armed(u)', IsOpen(u)' PROVE (Newest(u) /\ Overtaken(u))'
  <2>1. Newest(u) /\ Overtaken(u)
    BY <1>4, <1>7 DEF DocInv
  <2>2. tasks'[n] = tasks[n] /\ diagCancels'[u] = n
    BY <1>2, <2>1 DEF Newest
  <2>3. Newest(u)'
    BY <2>1, <2>2 DEF Newest, Holds
  <2>4. Overtaken(u)'
    BY <1>3, <2>1, <2>2 DEF Overtaken, Passed
  <2> QED BY <2>3, <2>4
<1> QED BY <1>5, <1>6, <1>7 DEF DocInv

\* The loop, the lifecycle messages and the end of Run.
LEMMA LoopEdits ==
  ASSUME TypeOK, EditsInv,
         \/ LoopTop \/ SkipMalformed \/ ReadError \/ HandleInitialize
         \/ HandleShutdown \/ HandleExit \/ CancelContext \/ UNCHANGED vars
  PROVE  EditsInv'
<1>1. /\ UNCHANGED <<docs, shown, schedVars>> /\ (ctxDone => ctxDone')
      /\ current' = current
      /\ \/ phase' = phase
         \/ phase = "top" /\ phase' \in {"cancelling", "reading"}
         \/ phase = "reading" /\ phase' \in {"top", "cancelling"}
  BY DEF LoopTop, SkipMalformed, ReadError, HandleInitialize, HandleShutdown, HandleExit,
     CancelContext, vars
<1>2. phase' \notin {"cleanup", "clear"} /\ (Serving' => Serving)
  BY <1>1 DEF EditsInv, Serving
<1>3. \A u \in Uris : ~IsOpen(u)' => docs'[u] = Closed
  BY <1>1 DEF EditsInv, IsOpen
<1>4. ASSUME NEW u \in Uris, Serving' PROVE DocInv(u)'
  <2>1. DocInv(u)
    BY <1>2, <1>4 DEF EditsInv
  <2>2. Armed(u)' => Armed(u)
    BY <1>1 DEF Armed
  <2> QED BY <1>1, <2>1, <2>2, DocFrame DEF schedVars
<1> QED BY <1>2, <1>3, <1>4 DEF EditsInv

\* The end of Run is outside the property's reach.
LEMMA EndEdits ==
  ASSUME EditsInv, DiagnoseCancel \/ drainTimers
  PROVE  EditsInv'
<1>1. phase' \in {"draining", "returned"} /\ docs' = docs
  BY DEF DiagnoseCancel, drainTimers
<1> QED BY <1>1 DEF EditsInv, Serving, IsOpen

-----------------------------------------------------------------------------
(* Messages and the arming of a timer.                                     *)

\* A document that is opened or changed gets a version no snapshot has.
LEMMA MessageEdits ==
  ASSUME TypeOK, Counters, EditsInv, EditsOnly, NEW u \in Uris,
         \/ HandleDidOpen(u) \/ HandleDidChange(u) \/ HandleEmptyChange(u)
         \/ HandleDidSave(u) \/ HandleDidClose(u)
  PROVE  EditsInv'
<1>1. HandleDidOpen(u) \/ HandleDidChange(u) \/ HandleEmptyChange(u)
  BY DEF EditsOnly, HandleDidSave, HandleDidClose
<1>2. /\ phase = "reading" /\ phase' = "schedule" /\ current' = u
      /\ UNCHANGED <<ctxDone, schedVars, shown>>
  BY <1>1 DEF HandleDidOpen, HandleDidChange, HandleEmptyChange, StartHandler
<1>3. docs \in [Uris -> Documents] /\ nextText \in Nat \ {0} /\ docs[u].version \in Nat
  BY DEF TypeOK, Documents
<1>4. \A w \in Uris : DocInv(w)
  BY <1>2 DEF EditsInv, Serving
<1>5. /\ \A w \in Uris \ {u} : docs'[w] = docs[w]
      /\ \/ docs'[u] = docs[u]
         \/ ~IsOpen(u) /\ docs'[u].text = nextText
         \/ IsOpen(u) /\ docs'[u].text = nextText /\ docs'[u].version = docs[u].version + 1
  <2>1. CASE HandleDidOpen(u)
    <3>1. ~IsOpen(u) /\ docs' = open(docs, u, nextText, 1)
      BY <2>1 DEF HandleDidOpen, EditsOnly
    <3> QED BY <1>3, <3>1 DEF open
  <2>2. CASE HandleDidChange(u)
    <3>1. docs' = update(docs, u, nextText, docs[u].version + 1)
      BY <2>2 DEF HandleDidChange
    <3> QED BY <1>3, <3>1 DEF update, IsOpen
  <2>3. CASE HandleEmptyChange(u)
    BY <2>3 DEF HandleEmptyChange
  <2> QED BY <1>1, <2>1, <2>2, <2>3
<1>6. \A w \in Uris : ~IsOpen(w)' => docs'[w] = Closed
  BY <1>3, <1>5 DEF EditsInv, IsOpen, NoText
<1>7. ASSUME NEW w \in Uris, w # u PROVE DocInv(w)'
  <2>1. Armed(w)
    BY <1>2 DEF Armed
  <2> QED BY <1>2, <1>4, <1>5, <1>7, <2>1, DocFrame DEF schedVars
<1>8. DocInv(u)'
  <2>1. ~Armed(u)'
    BY <1>2 DEF Armed
  <2>2. NewestKnown(u)'
    BY <1>2, <1>4 DEF DocInv, NewestKnown, Used, schedVars
  <2>3. Captured(u)'
    <3> SUFFICES ASSUME NEW t \in TaskIds, tasks'[t].uri = u, Holds(t)'
                 PROVE  /\ IsOpen(u)' /\ tasks'[t].version <= docs'[u].version
                        /\ tasks'[t].version = docs'[u].version =>
                             tasks'[t].text = docs'[u].text
      BY DEF Captured
    <3>1. /\ tasks'[t] = tasks[t] /\ IsOpen(u)
          /\ tasks[t].version <= docs[u].version /\ tasks[t].version \in Nat
          /\ tasks[t].version = docs[u].version => tasks[t].text = docs[u].text
      BY <1>2, <1>4 DEF DocInv, Captured, Holds, schedVars, TypeOK, Task
    <3> QED BY <1>3, <1>5, <3>1 DEF IsOpen, NoText
  <2> QED BY <2>1, <2>2, <2>3 DEF DocInv
<1> QED BY <1>2, <1>6, <1>7, <1>8 DEF EditsInv

\* scheduleDiagnose makes the new timer the newest task of its document and
\* touches no task of another one.
LEMMA ScheduleEdits ==
  ASSUME TypeOK, Counters, Debounce, EditsInv, scheduleDiagnose
  PROVE  EditsInv'
<1> USE BoundsAssumption
<1>0. PICK u \in Uris : u = current
  BY DEF TypeOK
<1> DEFINE n == diagCancels[u]
           old == Cancelled(Stopped(tasks, {debounceTimers[u]}), {n})
<1>1. /\ tasks \in [TaskIds -> Task] /\ u \in Uris /\ nextTask \in TaskIds
      /\ debounceTimers \in [Uris -> 0..MaxTasks] /\ diagCancels \in [Uris -> 0..MaxTasks]
  BY <1>0 DEF TypeOK, TaskIds, Counters, scheduleDiagnose
<1>2. /\ phase = "schedule" /\ phase' = "top" /\ UNCHANGED <<docs, shown, ctxDone, current>>
      /\ debounceTimers' = [debounceTimers EXCEPT ![u] = nextTask]
      /\ diagCancels' = [diagCancels EXCEPT ![u] = nextTask]
      /\ tasks' = [old EXCEPT ![nextTask] = [uri |-> u, at |-> "armed", cancelled |-> FALSE,
                                             version |-> 0, text |-> NoText]]
  BY <1>0 DEF scheduleDiagnose
<1>3. \A w \in Uris : DocInv(w)
  BY <1>2 DEF EditsInv, Serving
<1>4. /\ debounceTimers[u] = n
      /\ n # NoTask => n \in TaskIds /\ tasks[n].uri = u /\ Used(n)
  BY <1>1, <1>3 DEF DocInv, NewestKnown, TaskIds, NoTask
<1>5. old \in [TaskIds -> Task]
  BY <1>1, StoppedType, CancelledType
<1>6. \A t \in TaskIds : t # nextTask =>
        /\ tasks'[t] = old[t] /\ tasks'[t].uri = tasks[t].uri
        /\ tasks'[t].version = tasks[t].version /\ tasks'[t].text = tasks[t].text
        /\ tasks'[t].at = IF t = n /\ tasks[t].at = "armed" THEN "done" ELSE tasks[t].at
        /\ t # n => tasks'[t] = tasks[t]
  <2> SUFFICES ASSUME NEW t \in TaskIds, t # nextTask
               PROVE  /\ tasks'[t] = old[t] /\ tasks'[t].uri = tasks[t].uri
                      /\ tasks'[t].version = tasks[t].version /\ tasks'[t].text = tasks[t].text
                      /\ tasks'[t].at = IF t = n /\ tasks[t].at = "armed" THEN "done"
                                        ELSE tasks[t].at
                      /\ t # n => tasks'[t] = tasks[t]
    OBVIOUS
  <2>1. tasks'[t] = old[t]
    BY <1>2, <1>5
  <2> QED BY <1>1, <1>4, <2>1 DEF Stopped, Cancelled, Task
<1>7. /\ tasks'[nextTask] = [uri |-> u, at |-> "armed", cancelled |-> FALSE,
                             version |-> 0, text |-> NoText]
      /\ debounceTimers'[u] = nextTask /\ diagCancels'[u] = nextTask
  BY <1>1, <1>2, <1>5
<1>8. \A t \in TaskIds : Used(t) => t < nextTask
  BY <1>1 DEF Counters, Used, TaskIds
<1>9. ASSUME NEW w \in Uris, w # u PROVE DocInv(w)'
  <2>1. \A t \in TaskIds : \/ tasks'[t] = tasks[t]
                           \/ tasks'[t].uri # w /\ (tasks[t].uri = w => ~Used(t))
    <3> SUFFICES ASSUME NEW t \in TaskIds
                 PROVE  \/ tasks'[t] = tasks[t]
                        \/ tasks'[t].uri # w /\ (tasks[t].uri = w => ~Used(t))
      OBVIOUS
    <3>1. CASE t = nextTask
      BY <1>7, <1>8, <1>9, <3>1 DEF TaskIds
    <3>2. CASE t = n /\ t # nextTask
      BY <1>4, <1>6, <1>9, <3>2 DEF TaskIds, NoTask
    <3> QED BY <1>6, <3>1, <3>2
  <2>2. debounceTimers'[w] = debounceTimers[w] /\ diagCancels'[w] = diagCancels[w]
    BY <1>1, <1>2, <1>9
  <2>3. Armed(w)
    BY <1>0, <1>9 DEF Armed
  <2> QED BY <1>2, <1>3, <2>1, <2>2, <2>3, DocFrame
<1>10. DocInv(u)'
  <2>1. ASSUME NEW t \in TaskIds, tasks'[t].uri = u, Used(t)'
        PROVE  t <= nextTask /\ (t # nextTask => tasks'[t].at # "armed")
    <3>1. CASE t = nextTask
      BY <3>1 DEF TaskIds
    <3>2. CASE t # nextTask
      <4>1. Used(t) /\ tasks[t].uri = u
        BY <1>6, <2>1, <3>2 DEF Used
      <4>2. t # n => tasks[t].at # "armed"
        BY <1>3, <4>1 DEF DocInv, NewestKnown
      <4> QED BY <1>1, <1>6, <1>8, <3>2, <4>1, <4>2 DEF TaskIds
    <3> QED BY <3>1, <3>2
  <2>2. NewestKnown(u)'
    <3>1. /\ tasks'[nextTask].at # "unused" /\ ~tasks'[nextTask].cancelled
          /\ tasks'[nextTask].uri = u
      BY <1>7
    <3> QED BY <1>7, <2>1, <3>1 DEF NewestKnown, Used
  <2>3. Captured(u)'
    <3> SUFFICES ASSUME NEW t \in TaskIds, tasks'[t].uri = u, Holds(t)'
                 PROVE  /\ IsOpen(u)' /\ tasks'[t].version <= docs'[u].version
                        /\ tasks'[t].version = docs'[u].version =>
                             tasks'[t].text = docs'[u].text
      BY <1>2 DEF Captured
    <3>1. t # nextTask
      BY <1>7 DEF Holds
    <3>2. Holds(t) /\ tasks[t].uri = u
      BY <1>6, <3>1 DEF Holds
    <3>3. docs' = docs
      BY <1>2
    <3> QED BY <1>3, <1>6, <3>1, <3>2, <3>3 DEF DocInv, Captured, IsOpen
  <2>4. Newest(u)' /\ Overtaken(u)'
    <3>1. diagCancels'[u] = nextTask /\ tasks'[nextTask].at = "armed" /\ nextTask # NoTask
      BY <1>1, <1>7 DEF NoTask, TaskIds
    <3> QED BY <3>1 DEF Newest, Overtaken, Holds
  <2> QED BY <1>2, <2>2, <2>3, <2>4 DEF DocInv
<1>11. \A w \in Uris : ~IsOpen(w)' => docs'[w] = Closed
  BY <1>2 DEF EditsInv, IsOpen
<1> QED BY <1>2, <1>9, <1>10, <1>11 DEF EditsInv

-----------------------------------------------------------------------------
(* Timers and goroutines.                                                  *)

\* A step of task t changes no other task, and of t neither document nor context.
StepOf(t) ==
  /\ tasks' = [tasks EXCEPT ![t] = tasks'[t]]
  /\ tasks'[t].uri = tasks[t].uri /\ tasks'[t].cancelled = tasks[t].cancelled
  /\ tasks[t].at \notin {"unused", "done"} /\ tasks'[t].at \notin {"unused", "armed"}
  /\ UNCHANGED <<ctxDone, phase, current, debounceTimers, diagCancels>>

\* Every step of a timer or of diagnose is such a step.
LEMMA StepOfTask ==
  ASSUME TypeOK, NEW t \in TaskIds, FireTimer(t) \/ Diagnose(t)
  PROVE  StepOf(t)
<1>1. tasks \in [TaskIds -> Task] /\ tasks[t] \in Task
  BY DEF TypeOK
<1>2. UNCHANGED <<ctxDone, phase, current, debounceTimers, diagCancels>>
  BY DEF FireTimer, Diagnose, CheckContext, CaptureDocument, CheckStale, StoreAnalysis,
     Publish, TaskOnly
<1> USE <1>1 DEF GoTo, Task
<1>3. /\ tasks' = [tasks EXCEPT ![t] = tasks'[t]]
      /\ tasks'[t].uri = tasks[t].uri /\ tasks'[t].cancelled = tasks[t].cancelled
      /\ tasks[t].at \notin {"unused", "done"} /\ tasks'[t].at \notin {"unused", "armed"}
  <2>1. CASE FireTimer(t)       BY <2>1 DEF FireTimer
  <2>2. CASE CheckContext(t)    BY <2>2 DEF CheckContext
  <2>3. CASE CaptureDocument(t) BY <2>3 DEF CaptureDocument
  <2>4. CASE CheckStale(t)      BY <2>4 DEF CheckStale
  <2>5. CASE StoreAnalysis(t)   BY <2>5 DEF StoreAnalysis
  <2>6. CASE Publish(t)         BY <2>6 DEF Publish
  <2> QED BY <2>1, <2>2, <2>3, <2>4, <2>5, <2>6 DEF Diagnose
<1> QED BY <1>2, <1>3 DEF StepOf

\* The newest task of a document stays the newest.
LEMMA NewestKept ==
  ASSUME TypeOK, NEW t \in TaskIds, StepOf(t), NEW u \in Uris, u = tasks[t].uri,
         NewestKnown(u)
  PROVE  /\ NewestKnown(u)' /\ diagCancels[u] \in TaskIds /\ t <= diagCancels[u]
         /\ \A r \in TaskIds : r # t => tasks'[r] = tasks[r]
<1>1. tasks \in [TaskIds -> Task] /\ \A r \in TaskIds : r # t => tasks'[r] = tasks[r]
  BY DEF TypeOK, StepOf
<1>2. diagCancels[u] \in 0..MaxTasks /\ t <= diagCancels[u]
  BY DEF TypeOK, NewestKnown, Used, StepOf
<1>3. diagCancels[u] \in TaskIds
  BY <1>2 DEF TaskIds
<1>4. NewestKnown(u)'
  BY <1>1, <1>3 DEF NewestKnown, Used, StepOf
<1> QED BY <1>1, <1>2, <1>3, <1>4

\* Every step of a timer or of diagnose keeps the invariant of its document.
LEMMA TaskDoc ==
  ASSUME TypeOK, EditsInv, Serving, WindowPrompt, NEW t \in TaskIds,
         FireTimer(t) \/ Diagnose(t), NEW u \in Uris, u = tasks[t].uri
  PROVE  DocInv(u)'
<1> DEFINE n == diagCancels[u]
<1>1. DocInv(u) /\ (~IsOpen(u) => docs[u] = Closed)
  BY DEF EditsInv
<1>2. StepOf(t)
  BY StepOfTask
<1>3. /\ NewestKnown(u)' /\ n \in TaskIds /\ t <= n
      /\ \A r \in TaskIds : r # t => tasks'[r] = tasks[r]
  BY <1>1, <1>2, NewestKept DEF DocInv
<1>4. /\ tasks \in [TaskIds -> Task] /\ docs \in [Uris -> Documents]
      /\ tasks[t].version \in Nat /\ docs[u].version \in Nat
      /\ shown \in [Uris -> 0..MaxTexts]
  BY DEF TypeOK, Task, Documents
<1>5. /\ diagCancels' = diagCancels /\ ctxDone' = ctxDone /\ Armed(u)' = Armed(u)
      /\ tasks'[t].uri = u
  BY <1>2 DEF StepOf, Armed
<1>6. /\ docs'[u].text = docs[u].text /\ docs'[u].version = docs[u].version
      /\ docs'[u].analysis = IF tasks[t].at = "fresh" /\ IsOpen(u) THEN tasks[t].text
                             ELSE docs[u].analysis
      /\ shown'[u] = IF tasks[t].at = "stored" THEN tasks[t].text ELSE shown[u]
  <2> USE <1>4 DEF IsOpen
  <2>1. CASE FireTimer(t)       BY <2>1 DEF FireTimer
  <2>2. CASE CheckContext(t)    BY <2>2 DEF CheckContext
  <2>3. CASE CaptureDocument(t) BY <2>3 DEF CaptureDocument
  <2>4. CASE CheckStale(t)      BY <2>4 DEF CheckStale
  <2>5. CASE StoreAnalysis(t)   BY <2>5 DEF StoreAnalysis, setAnalysis, Documents
  <2>6. CASE Publish(t)         BY <2>6 DEF Publish
  <2> QED BY <2>1, <2>2, <2>3, <2>4, <2>5, <2>6 DEF Diagnose
<1>7. /\ IsOpen(u)' = IsOpen(u)
      /\ Holds(t)' =>
           /\ IsOpen(u)
           /\ \/ tasks[t].at = "ctxChecked" /\ tasks'[t].version = docs[u].version
                   /\ tasks'[t].text = docs[u].text
              \/ Holds(t) /\ tasks'[t].version = tasks[t].version
                   /\ tasks'[t].text = tasks[t].text
      /\ Passed(t)' => tasks[t].at = "fresh" \/ tasks'[t].version = docs[u].version
  <2> USE <1>1, <1>4 DEF IsOpen, Holds, Passed, GoTo, Task, DocInv, Captured, Closed, NoText
  <2>0. IsOpen(u)' = IsOpen(u)
    BY <1>6
  <2>1. CASE FireTimer(t)       BY <2>0, <2>1 DEF FireTimer
  <2>2. CASE CheckContext(t)    BY <2>0, <2>2 DEF CheckContext
  <2>3. CASE CaptureDocument(t) BY <2>0, <2>3 DEF CaptureDocument
  <2>4. CASE CheckStale(t)      BY <2>0, <2>4 DEF CheckStale
  <2>5. CASE StoreAnalysis(t)   BY <2>0, <2>5 DEF StoreAnalysis
  <2>6. CASE Publish(t)         BY <2>0, <2>6 DEF Publish
  <2> QED BY <2>1, <2>2, <2>3, <2>4, <2>5, <2>6 DEF Diagnose
<1>8. Captured(u)'
  <2> SUFFICES ASSUME NEW r \in TaskIds, tasks'[r].uri = u, Holds(r)'
               PROVE  /\ IsOpen(u)' /\ tasks'[r].version <= docs'[u].version
                      /\ tasks'[r].version = docs'[u].version => tasks'[r].text = docs'[u].text
    BY DEF Captured
  <2>1. CASE r # t
    <3>1. tasks'[r] = tasks[r] /\ Holds(r)
      BY <1>3, <2>1 DEF Holds
    <3> QED BY <1>1, <1>6, <1>7, <3>1 DEF DocInv, Captured
  <2>2. CASE r = t
    BY <1>1, <1>4, <1>6, <1>7, <2>2 DEF DocInv, Captured
  <2> QED BY <2>1, <2>2
<1>9. ASSUME Armed(u)', IsOpen(u)' PROVE Newest(u)' /\ Overtaken(u)'
  <2>1. Newest(u) /\ Overtaken(u) /\ IsOpen(u)
    BY <1>1, <1>5, <1>7, <1>9 DEF DocInv
  <2>2. \A r \in TaskIds : tasks[r].uri = u /\ Holds(r) /\ tasks[r].version = docs[u].version
          => tasks[r].text = docs[u].text
    BY <1>1 DEF DocInv, Captured
  <2>3. Passed(t) /\ tasks[n].at # "armed" => tasks[t].text = docs[u].text
    BY <2>1, <2>2 DEF Overtaken, Holds, Passed
  <2>4. /\ tasks'[t].at = "stored" => tasks[t].at = "fresh"
        /\ t = n /\ tasks'[t].at = "done" /\ ~ctxDone => tasks[t].at = "stored"
    <3> USE <1>1, <1>4 DEF GoTo, Task
    <3>1. CASE FireTimer(t)       BY <3>1 DEF FireTimer
    <3>2. CASE CheckContext(t)
      <4>1. t = n => ~tasks[t].cancelled
        BY <2>1 DEF DocInv, NewestKnown, Newest
      <4> QED BY <3>2, <4>1 DEF CheckContext
    <3>3. CASE CaptureDocument(t)
      <4>1. docs[u] # Closed
        BY <2>1 DEF IsOpen, Closed
      <4> QED BY <3>3, <4>1 DEF CaptureDocument
    <3>4. CASE CheckStale(t)
      <4>1. t = n => tasks[t].version = docs[u].version
        BY <2>1, <3>4 DEF Newest, Holds, CheckStale
      <4> QED BY <3>4, <4>1 DEF CheckStale
    <3>5. CASE StoreAnalysis(t)   BY <3>5 DEF StoreAnalysis
    <3>6. CASE Publish(t)         BY <3>6 DEF Publish
    <3> QED BY <3>1, <3>2, <3>3, <3>4, <3>5, <3>6 DEF Diagnose
  <2>5. Overtaken(u)'
    <3> SUFFICES ASSUME tasks'[n].at # "armed", NEW r \in TaskIds, tasks'[r].uri = u, Passed(r)'
                 PROVE  tasks'[r].version = docs[u].version
      BY <1>5, <1>6 DEF Overtaken
    <3>1. CASE tasks[n].at # "armed"
      <4>1. CASE r # t
        BY <1>3, <2>1, <3>1, <4>1 DEF Overtaken, Passed
      <4>2. CASE r = t
        <5>1. tasks[t].at = "fresh" =>
                tasks[t].version = docs[u].version /\ tasks'[t].version = tasks[t].version
          BY <1>7, <2>1, <3>1, <4>2 DEF Overtaken, Passed, Holds
        <5> QED BY <1>7, <4>2, <5>1
      <4> QED BY <4>1, <4>2
    <3>2. CASE tasks[n].at = "armed"
      <4>1. t = n
        BY <1>3, <3>2
      <4>2. FireTimer(t)
        BY <3>2, <4>1 DEF Diagnose, CheckContext, CaptureDocument, CheckStale, StoreAnalysis,
           Publish
      <4>3. r # t
        BY <1>4, <4>2 DEF FireTimer, GoTo, Passed, Task
      <4>4. tasks[r].uri = u /\ Passed(r)
        BY <1>3, <4>3 DEF Passed
      <4>5. r < t
        <5>1. r <= n
          BY <1>1, <4>4 DEF DocInv, NewestKnown, Used, Passed
        <5> QED BY <4>1, <4>3, <5>1, BoundsAssumption DEF TaskIds
      <4> QED BY <4>2, <4>4, <4>5 DEF FireTimer, OlderDone, Passed
    <3> QED BY <3>1, <3>2
  <2>6. Newest(u)'
    <3>1. n # NoTask /\ diagCancels'[u] = n
      BY <1>5, <2>1 DEF Newest
    <3>2. Holds(n)' => tasks'[n].version = docs'[u].version
      <4>1. CASE t = n
        BY <1>6, <1>7, <2>1, <3>1, <4>1 DEF Newest, Holds
      <4>2. CASE t # n
        BY <1>3, <1>6, <2>1, <3>1, <4>2 DEF Newest, Holds
      <4> QED BY <4>1, <4>2
    <3>3. ASSUME tasks'[n].at = "stored" PROVE docs'[u].analysis = docs'[u].text
      <4>1. CASE t = n
        <5>1. tasks[t].at = "fresh"
          BY <2>4, <3>3, <4>1
        <5> QED BY <1>6, <2>1, <2>3, <4>1, <5>1 DEF Passed
      <4>2. CASE t # n
        BY <1>3, <1>6, <2>1, <2>3, <3>3, <4>2 DEF Newest, Passed
      <4> QED BY <4>1, <4>2
    <3>4. ASSUME tasks'[n].at = "done", ~ctxDone'
          PROVE  shown'[u] = docs'[u].text /\ docs'[u].analysis = docs'[u].text
      <4>1. CASE t = n
        <5>1. tasks[t].at = "stored"
          BY <1>5, <2>4, <3>4, <4>1
        <5> QED BY <1>6, <2>1, <2>3, <4>1, <5>1 DEF Newest, Passed
      <4>2. CASE t # n
        BY <1>3, <1>5, <1>6, <2>1, <2>3, <3>4, <4>2 DEF Newest, Passed
      <4> QED BY <4>1, <4>2
    <3> QED BY <3>1, <3>2, <3>3, <3>4 DEF Newest
  <2> QED BY <2>5, <2>6
<1> QED BY <1>3, <1>8, <1>9 DEF DocInv

\* They keep the invariant of the others as well.
LEMMA TaskEdits ==
  ASSUME TypeOK, EditsInv, WindowPrompt, NEW t \in TaskIds, FireTimer(t) \/ Diagnose(t)
  PROVE  EditsInv'
<1>1. StepOf(t) /\ tasks \in [TaskIds -> Task] /\ tasks[t].uri \in Uris
  BY StepOfTask DEF TypeOK, Task
<1>2. /\ docs \in [Uris -> Documents]
      /\ \A w \in Uris : w # tasks[t].uri => docs'[w] = docs[w] /\ shown'[w] = shown[w]
      /\ \A w \in Uris : docs'[w] = docs[w] \/ (docs[w].text # NoText /\ docs'[w].text = docs[w].text)
  <2> USE DEF TypeOK
  <2>1. CASE FireTimer(t)       BY <2>1 DEF FireTimer
  <2>2. CASE CheckContext(t)    BY <2>2 DEF CheckContext
  <2>3. CASE CaptureDocument(t) BY <2>3 DEF CaptureDocument
  <2>4. CASE CheckStale(t)      BY <2>4 DEF CheckStale
  <2>5. CASE StoreAnalysis(t)   BY <1>1, <2>5 DEF StoreAnalysis, setAnalysis, Documents
  <2>6. CASE Publish(t)         BY <1>1, <2>6 DEF Publish
  <2> QED BY <2>1, <2>2, <2>3, <2>4, <2>5, <2>6 DEF Diagnose
<1>3. \A w \in Uris : ~IsOpen(w)' => docs'[w] = Closed
  BY <1>2 DEF EditsInv, IsOpen
<1>4. phase' = phase /\ Serving' = Serving /\ \A w \in Uris : Armed(w)' = Armed(w)
  BY <1>1 DEF StepOf, Serving, Armed
<1>5. ASSUME Serving, NEW w \in Uris PROVE DocInv(w)'
  <2>1. CASE w = tasks[t].uri
    BY <1>5, <2>1, TaskDoc
  <2>2. CASE w # tasks[t].uri
    <3>1. \A r \in TaskIds : \/ tasks'[r] = tasks[r]
                             \/ tasks'[r].uri # w /\ (tasks[r].uri = w => ~Used(r))
      BY <1>1, <2>2 DEF StepOf
    <3>2. DocInv(w)
      BY <1>5 DEF EditsInv
    <3> QED BY <1>1, <1>2, <1>4, <2>2, <3>1, <3>2, DocFrame DEF StepOf
  <2> QED BY <2>1, <2>2
<1> QED BY <1>3, <1>4, <1>5 DEF EditsInv

-----------------------------------------------------------------------------
\* Once the timers and goroutines of an open document are done and the loop
\* waits, what was published and what hover, completion and definition read
\* (documentStore's analysis) belong to the current text, however stale
\* goroutines of earlier versions were interleaved. The client opens a document
\* once and sends only changes for it.
THEOREM EditsSettle ==
  ASSUME EditsOnly, WindowPrompt
  PROVE  Spec => []SettledFresh
<1>1. Init => EditsInv
  <2> SUFFICES ASSUME Init PROVE EditsInv
    OBVIOUS
  <2>1. \A u \in Uris : /\ debounceTimers[u] = NoTask /\ diagCancels[u] = NoTask
                        /\ docs[u] = Closed /\ ~IsOpen(u)
    BY DEF Init, IsOpen, Closed
  <2>2. \A t \in TaskIds : tasks[t].at = "unused"
    BY DEF Init
  <2>3. \A u \in Uris : NewestKnown(u) /\ Captured(u)
    BY <2>1, <2>2 DEF NewestKnown, Captured, Used, Holds
  <2> QED BY <2>1, <2>3 DEF Init, EditsInv, DocInv
<1>2. IInv /\ EditsInv /\ [Next]_vars => EditsInv'
  <2> SUFFICES ASSUME TypeOK, Counters, Debounce, EditsInv, [Next]_vars PROVE EditsInv'
    BY DEF IInv
  <2>1. CASE CloseCleanup \/ CloseClear
    BY <2>1 DEF EditsInv, CloseCleanup, CloseClear
  <2> QED
    BY <2>1, LoopEdits, EndEdits, MessageEdits, ScheduleEdits, TaskEdits DEF Next, Client, Main
<1>3. IInv /\ EditsInv => SettledFresh
  <2> SUFFICES ASSUME IInv, EditsInv, NEW u \in Uris, IsOpen(u), phase \in {"top", "reading"},
                      ~ctxDone, \A t \in TaskIds : tasks[t].uri = u => ~Unfinished(t)
               PROVE  shown[u] = docs[u].text /\ docs[u].analysis = docs[u].text
    BY DEF SettledFresh
  <2>1. NewestKnown(u) /\ Newest(u)
    BY DEF EditsInv, Serving, DocInv, Armed
  <2>2. PICK n \in TaskIds : n = diagCancels[u]
    BY <2>1 DEF Newest, NoTask, IInv, TypeOK, TaskIds
  <2>3. tasks[n].uri = u /\ Used(n) /\ ~Unfinished(n) /\ tasks[n].at \in TaskStates
    BY <2>1, <2>2 DEF NewestKnown, NoTask, TaskIds, IInv, TypeOK, Task
  <2>4. tasks[n].at = "done"
    BY <2>3 DEF Unfinished, Running, Used, TaskStates
  <2> QED BY <2>1, <2>2, <2>4 DEF Newest
<1>4. Spec => []IInv
  BY Inductive
<1> QED BY <1>1, <1>2, <1>3, <1>4, PTL DEF Spec

=============================================================================
