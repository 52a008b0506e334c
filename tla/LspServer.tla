----------------------------- MODULE LspServer -----------------------------
(***************************************************************************)
(* The language server of internal/lsp: the message loop of Server.Run     *)
(* with its lifecycle flags, the document store, and the diagnose          *)
(* goroutines that a per-document debounce timer starts.                   *)
(*                                                                         *)
(* Three kinds of actor interleave: the main goroutine (the loop and the   *)
(* notification handlers), the timers, and one goroutine per fired timer.  *)
(* A step of the model is one critical section (Server.mu, the store's     *)
(* RWMutex or the transport's write lock) or one read of a context; a      *)
(* handler with several of them is several steps chained by "phase".       *)
(*                                                                         *)
(* A text is a number that a message introduces, and the analysis of a     *)
(* text is that text: the model tells apart which text a published or      *)
(* stored result was computed from, never what the result says.            *)
(***************************************************************************)
EXTENDS Integers, FiniteSets

CONSTANTS
  Uris,          \* documents the client talks about
  MaxTasks,      \* bound: calls of scheduleDiagnose
  MaxTexts,      \* bound: texts the client sends
  Messages,      \* the text synchronisation messages the client uses
  WindowPrompt,  \* timing: check-to-publish is shorter than the debounce delay
  CancelPrompt   \* timing: a cancelled analysis stops within the debounce delay

ASSUME BoundsAssumption == MaxTasks \in Nat /\ MaxTexts \in Nat
ASSUME MessagesAssumption == 
  Messages \subseteq {"open", "reopen", "change", "close", "save"}
ASSUME TimingAssumption == WindowPrompt \in BOOLEAN /\ CancelPrompt \in BOOLEAN

TaskIds == 1..MaxTasks
Texts   == 1..MaxTexts

NoTask == 0                  \* no entry in a map of timers or cancel functions
NoText == 0                  \* no analysis stored; an empty list of diagnostics
Closed == [text |-> NoText, version |-> 0, analysis |-> NoText]

VARIABLES
  initialized, shutdownRequested, exitCode,
  exitClosed,      \* exitCh is closed
  ctxDone,         \* the context given to Run is cancelled
  phase,           \* where the main goroutine is
  current,         \* the document its handler is working on
  docs,            \* documentStore.docs; Closed when the key is absent
  debounceTimers,  \* debounceTimers[u]: the task whose timer is in the map
  diagCancels,     \* diagCancels[u]: the task whose cancel function is in the map
  tasks,           \* every timer armed so far and the goroutine it started
  nextTask, nextText,
  shown            \* diagnostics last published per document, seen by the client

loopVars == <<initialized, shutdownRequested, exitCode, exitClosed>>
schedVars == <<debounceTimers, diagCancels, tasks, nextTask>>
vars == <<loopVars, ctxDone, phase, current, docs, schedVars, nextText, shown>>

Phases == {"top", "reading", "schedule", "cleanup", "clear", "cancelling",
           "draining", "returned"}

\* unused: not created; armed: timer pending; fired: goroutine started;
\* checked/fresh/stored: the points of diagnose between its shared accesses.
TaskStates == {"unused", "armed", "fired", "ctxChecked", "analyzing", "fresh",
               "stored", "done"}

Documents == [text : 0..MaxTexts, version : 0..MaxTexts, analysis : 0..MaxTexts]

Task == [uri : Uris, at : TaskStates, cancelled : BOOLEAN,
         version : 0..MaxTexts, text : 0..MaxTexts]

TypeOK ==
  /\ initialized \in BOOLEAN /\ shutdownRequested \in BOOLEAN
  /\ exitCode \in {0, 1} /\ exitClosed \in BOOLEAN /\ ctxDone \in BOOLEAN
  /\ phase \in Phases /\ current \in Uris
  /\ docs \in [Uris -> Documents]
  /\ debounceTimers \in [Uris -> 0..MaxTasks]
  /\ diagCancels \in [Uris -> 0..MaxTasks]
  /\ tasks \in [TaskIds -> Task]
  /\ nextTask \in 1..(MaxTasks + 1)
  /\ nextText \in 1..(MaxTexts + 1)
  /\ shown \in [Uris -> 0..MaxTexts]

Init ==
  /\ initialized = FALSE /\ shutdownRequested = FALSE /\ exitCode = 1
  /\ exitClosed = FALSE /\ ctxDone = FALSE
  /\ phase = "top" /\ current \in Uris
  /\ docs = [u \in Uris |-> Closed]
  /\ debounceTimers = [u \in Uris |-> NoTask]
  /\ diagCancels = [u \in Uris |-> NoTask]
  /\ tasks = [t \in TaskIds |-> [uri |-> current, at |-> "unused",
                                 cancelled |-> FALSE, version |-> 0, text |-> NoText]]
  /\ nextTask = 1 /\ nextText = 1
  /\ shown = [u \in Uris |-> NoText]

IsOpen(u) == docs[u].text # NoText

-----------------------------------------------------------------------------
(* The document store (document.go) as functions of the store's map.       *)

open(d, u, text, version) ==
  [d EXCEPT ![u] = [text |-> text, version |-> version, analysis |-> NoText]]

\* Variant: the version is always written.
updateAlways(d, u, text, version) ==
  IF d[u].text = NoText THEN d
  ELSE [d EXCEPT ![u].text = text, ![u].version = version]

\* didSave passes version -1: the text changes and the version does not.
update(d, u, text, version) ==
  IF d[u].text = NoText THEN d
  ELSE [d EXCEPT ![u] = [text |-> text, analysis |-> d[u].analysis,
                         version |-> IF version >= 0 THEN version ELSE d[u].version]]

close(d, u) == [d EXCEPT ![u] = Closed]

setAnalysis(d, u, text) ==
  IF d[u].text = NoText THEN d ELSE [d EXCEPT ![u].analysis = text]

-----------------------------------------------------------------------------
(* The loop of Run and the lifecycle messages.                             *)

\* The select at the top of the loop, before blocking in transport.Read.
LoopTop ==
  /\ phase = "top"
  /\ phase' = IF ctxDone \/ exitClosed THEN "cancelling" ELSE "reading"
  /\ UNCHANGED <<loopVars, ctxDone, current, docs, schedVars, nextText, shown>>

\* A malformed message is logged and skipped.
SkipMalformed ==
  /\ phase = "reading" /\ phase' = "top"
  /\ UNCHANGED <<loopVars, ctxDone, current, docs, schedVars, nextText, shown>>

\* Any other read error (the client closed its end) ends Run.
ReadError ==
  /\ phase = "reading" /\ phase' = "cancelling"
  /\ UNCHANGED <<loopVars, ctxDone, current, docs, schedVars, nextText, shown>>

\* The request "initialize": refused after shutdown or when already initialized.
HandleInitialize ==
  /\ phase = "reading"
  /\ initialized' = (initialized \/ ~shutdownRequested)
  /\ phase' = "top"
  /\ UNCHANGED <<shutdownRequested, exitCode, exitClosed, ctxDone, current,
                 docs, schedVars, nextText, shown>>

\* The request "shutdown": refused before initialize and after a shutdown.
HandleShutdown ==
  /\ phase = "reading"
  /\ IF initialized /\ ~shutdownRequested
     THEN shutdownRequested' = TRUE /\ exitCode' = 0
     ELSE UNCHANGED <<shutdownRequested, exitCode>>
  /\ phase' = "top"
  /\ UNCHANGED <<initialized, exitClosed, ctxDone, current, docs, schedVars,
                 nextText, shown>>

HandleExit ==
  /\ phase = "reading"
  /\ exitClosed' = TRUE
  /\ phase' = "top"
  /\ UNCHANGED <<initialized, shutdownRequested, exitCode, ctxDone, current,
                 docs, schedVars, nextText, shown>>

\* Whoever started Run cancels its context; every diagnose context descends
\* from it.
CancelContext ==
  /\ ~ctxDone /\ phase # "returned"
  /\ ctxDone' = TRUE
  /\ UNCHANGED <<loopVars, phase, current, docs, schedVars, nextText, shown>>

-----------------------------------------------------------------------------
(* Text synchronisation. The store changes first, under its own lock; the  *)
(* handler then enters Server.mu ("schedule", "cleanup"). None of these     *)
(* notifications looks at initialized or shutdownRequested.                *)

StartHandler(u, next) ==
  /\ phase = "reading" /\ phase' = next /\ current' = u
  /\ UNCHANGED <<loopVars, ctxDone, schedVars, shown>>

NewText == nextText <= MaxTexts /\ nextText' = nextText + 1

\* Each didOpen starts the client's version count again at 1. A client that
\* keeps to the protocol closes a document before it opens it again; the
\* handler also accepts the others ("reopen").
HandleDidOpen(u) ==
  /\ "open" \in Messages /\ nextTask <= MaxTasks
  /\ IsOpen(u) => "reopen" \in Messages
  /\ NewText
  /\ docs' = open(docs, u, nextText, 1)
  /\ StartHandler(u, "schedule")

HandleDidChange(u) ==
  /\ "change" \in Messages /\ nextTask <= MaxTasks
  /\ NewText
  /\ docs' = update(docs, u, nextText, docs[u].version + 1)
  /\ StartHandler(u, "schedule")

\* didChange without content changes leaves the store alone and still diagnoses.
HandleEmptyChange(u) ==
  /\ "change" \in Messages /\ nextTask <= MaxTasks
  /\ UNCHANGED <<docs, nextText>>
  /\ StartHandler(u, "schedule")

\* didSave carries the text: the one the server has, or one it has not seen.
HandleDidSave(u) ==
  /\ "save" \in Messages /\ nextTask <= MaxTasks
  /\ \/ UNCHANGED <<docs, nextText>>
     \/ NewText /\ docs' = update(docs, u, nextText, -1)
  /\ StartHandler(u, "schedule")

HandleDidClose(u) ==
  /\ "close" \in Messages
  /\ docs' = close(docs, u)
  /\ StartHandler(u, "cleanup")
  /\ UNCHANGED nextText

-----------------------------------------------------------------------------
(* Debounce state. Stop ends a pending timer and has no effect on one that *)
(* fired; a cancel function marks its task's context.                      *)

Stopped(ts, S) ==
  [t \in TaskIds |-> IF t \in S /\ ts[t].at = "armed"
                     THEN [ts[t] EXCEPT !.at = "done"] ELSE ts[t]]

Cancelled(ts, S) ==
  [t \in TaskIds |-> IF t \in S THEN [ts[t] EXCEPT !.cancelled = TRUE] ELSE ts[t]]

\* Variant: the in-flight goroutine is not cancelled.
scheduleWithoutCancel ==
  /\ phase = "schedule"
  /\ tasks' = [Stopped(tasks, {debounceTimers[current]})
                EXCEPT ![nextTask] = [uri |-> current, at |-> "armed",
                                      cancelled |-> FALSE, version |-> 0,
                                      text |-> NoText]]
  /\ debounceTimers' = [debounceTimers EXCEPT ![current] = nextTask]
  /\ diagCancels' = [diagCancels EXCEPT ![current] = nextTask]
  /\ nextTask' = nextTask + 1
  /\ phase' = "top"
  /\ UNCHANGED <<loopVars, ctxDone, current, docs, nextText, shown>>

\* Variant: the new entries are written first, so that Stop and cancel hit the
\* new task instead of the old one.
scheduleCancelLast ==
  /\ phase = "schedule"
  /\ tasks' = [tasks EXCEPT ![nextTask] = [uri |-> current, at |-> "armed",
                                      cancelled |-> TRUE, version |-> 0,
                                      text |-> NoText]]
  /\ debounceTimers' = [debounceTimers EXCEPT ![current] = nextTask]
  /\ diagCancels' = [diagCancels EXCEPT ![current] = nextTask]
  /\ nextTask' = nextTask + 1
  /\ phase' = "top"
  /\ UNCHANGED <<loopVars, ctxDone, current, docs, nextText, shown>>

scheduleDiagnose ==
  /\ phase = "schedule"
  /\ tasks' = [Cancelled(Stopped(tasks, {debounceTimers[current]}),
                         {diagCancels[current]})
                EXCEPT ![nextTask] = [uri |-> current, at |-> "armed",
                                      cancelled |-> FALSE, version |-> 0,
                                      text |-> NoText]]
  /\ debounceTimers' = [debounceTimers EXCEPT ![current] = nextTask]
  /\ diagCancels' = [diagCancels EXCEPT ![current] = nextTask]
  /\ nextTask' = nextTask + 1
  /\ phase' = "top"
  /\ UNCHANGED <<loopVars, ctxDone, current, docs, nextText, shown>>

\* The section of handleDidClose under Server.mu.
CloseCleanup ==
  /\ phase = "cleanup"
  /\ tasks' = Cancelled(Stopped(tasks, {debounceTimers[current]}),
                        {diagCancels[current]})
  /\ debounceTimers' = [debounceTimers EXCEPT ![current] = NoTask]
  /\ diagCancels' = [diagCancels EXCEPT ![current] = NoTask]
  /\ phase' = "clear"
  /\ UNCHANGED <<loopVars, ctxDone, current, docs, nextTask, nextText, shown>>

\* The last step of handleDidClose: an empty list of diagnostics is published.
CloseClear ==
  /\ phase = "clear"
  /\ shown' = [shown EXCEPT ![current] = NoText]
  /\ phase' = "top"
  /\ UNCHANGED <<loopVars, ctxDone, current, docs, schedVars, nextText>>

\* The deferred calls of Run: first diagnoseCancel, then drainTimers.
DiagnoseCancel ==
  /\ phase = "cancelling"
  /\ tasks' = Cancelled(tasks, {t \in TaskIds : tasks[t].at # "unused"})
  /\ phase' = "draining"
  /\ UNCHANGED <<loopVars, ctxDone, current, docs, debounceTimers, diagCancels,
                 nextTask, nextText, shown>>

\* Variant: the maps are emptied and the timers keep running.
drainWithoutStop ==
  /\ phase = "draining"
  /\ debounceTimers' = [u \in Uris |-> NoTask]
  /\ diagCancels' = [u \in Uris |-> NoTask]
  /\ phase' = "returned"
  /\ UNCHANGED <<loopVars, ctxDone, current, docs, tasks, nextTask, nextText, shown>>

drainTimers ==
  /\ phase = "draining"
  /\ tasks' = Cancelled(Stopped(tasks, {debounceTimers[u] : u \in Uris}),
                        {diagCancels[u] : u \in Uris})
  /\ debounceTimers' = [u \in Uris |-> NoTask]
  /\ diagCancels' = [u \in Uris |-> NoTask]
  /\ phase' = "returned"
  /\ UNCHANGED <<loopVars, ctxDone, current, docs, nextTask, nextText, shown>>

-----------------------------------------------------------------------------
(* Timers and diagnose.                                                    *)

Running(t) == tasks[t].at \in {"fired", "ctxChecked", "analyzing", "fresh", "stored"}
Unfinished(t) == tasks[t].at = "armed" \/ Running(t)

\* What the 300 ms between arming and firing lets an older goroutine finish,
\* under each timing assumption.
OlderDone(t) ==
  \A o \in TaskIds : tasks[o].uri = tasks[t].uri /\ o < t =>
    /\ WindowPrompt => tasks[o].at \notin {"fresh", "stored"}
    /\ CancelPrompt => ~(Running(o) /\ tasks[o].cancelled)

GoTo(t, at) == tasks' = [tasks EXCEPT ![t].at = at]

TaskOnly == UNCHANGED <<loopVars, ctxDone, phase, current, debounceTimers,
                        diagCancels, nextTask, nextText>>

FireTimer(t) ==
  /\ tasks[t].at = "armed" /\ OlderDone(t)
  /\ GoTo(t, "fired")
  /\ TaskOnly /\ UNCHANGED <<docs, shown>>

\* The only look diagnose takes at its context.
CheckContext(t) ==
  /\ tasks[t].at = "fired"
  /\ GoTo(t, IF tasks[t].cancelled \/ ctxDone THEN "done" ELSE "ctxChecked")
  /\ TaskOnly /\ UNCHANGED <<docs, shown>>

\* docs.get: the snapshot the analysis works on, and its version.
CaptureDocument(t) ==
  /\ tasks[t].at = "ctxChecked"
  /\ LET d == docs[tasks[t].uri] IN
     tasks' = [tasks EXCEPT ![t].at = IF d = Closed THEN "done" ELSE "analyzing",
                            ![t].version = d.version, ![t].text = d.text]
  /\ TaskOnly /\ UNCHANGED <<docs, shown>>

\* Variant: the version is not compared.
CheckStaleIgnored(t) ==
  /\ tasks[t].at = "analyzing"
  /\ GoTo(t, "fresh")
  /\ TaskOnly /\ UNCHANGED <<docs, shown>>

\* Analyze has returned; the result is stale only if the document is still
\* open at another version.
CheckStale(t) ==
  /\ tasks[t].at = "analyzing"
  /\ LET d == docs[tasks[t].uri] IN
     GoTo(t, IF d # Closed /\ d.version # tasks[t].version THEN "done" ELSE "fresh")
  /\ TaskOnly /\ UNCHANGED <<docs, shown>>

StoreAnalysis(t) ==
  /\ tasks[t].at = "fresh"
  /\ docs' = setAnalysis(docs, tasks[t].uri, tasks[t].text)
  /\ GoTo(t, "stored")
  /\ TaskOnly /\ UNCHANGED shown

Publish(t) ==
  /\ tasks[t].at = "stored"
  /\ shown' = [shown EXCEPT ![tasks[t].uri] = tasks[t].text]
  /\ GoTo(t, "done")
  /\ TaskOnly /\ UNCHANGED docs

Diagnose(t) ==
  \/ CheckContext(t) \/ CaptureDocument(t) \/ CheckStale(t)
  \/ StoreAnalysis(t) \/ Publish(t)

-----------------------------------------------------------------------------
Client ==
  \/ SkipMalformed \/ ReadError
  \/ HandleInitialize \/ HandleShutdown \/ HandleExit \/ CancelContext
  \/ \E u \in Uris : \/ HandleDidOpen(u) \/ HandleDidChange(u)
                     \/ HandleEmptyChange(u) \/ HandleDidSave(u)
                     \/ HandleDidClose(u)

Main ==
  \/ LoopTop \/ scheduleDiagnose \/ CloseCleanup \/ CloseClear
  \/ DiagnoseCancel \/ drainTimers

Next ==
  \/ Client
  \/ Main
  \/ \E t \in TaskIds : FireTimer(t) \/ Diagnose(t)

Spec == Init /\ [][Next]_vars

(* The Go scheduler runs every runnable goroutine, the timer heap fires     *)
(* every timer that is not stopped, and Analyze returns (it has a timeout   *)
(* of 10 seconds). The client owes nothing.                                 *)
Fairness ==
  /\ WF_vars(Main)
  /\ \A t \in TaskIds : WF_vars(FireTimer(t)) /\ WF_vars(Diagnose(t))

FairSpec == Spec /\ Fairness

-----------------------------------------------------------------------------
(* Properties.                                                             *)

\* Of the goroutines and timers of a document that are not finished, only the
\* one whose cancel function the map holds can have a live context: a handler
\* that arms a new timer, closes the document or ends Run reaches all others.
OneLiveDiagnose ==
  \A t \in TaskIds :
    Unfinished(t) /\ ~tasks[t].cancelled => diagCancels[tasks[t].uri] = t

\* No timer is pending that debounceTimers does not hold: scheduleDiagnose,
\* didClose and drainTimers never lose one they could no longer stop.
NoLostTimer ==
  \A t \in TaskIds : tasks[t].at = "armed" => debounceTimers[tasks[t].uri] = t

\* "Pending diagnose goroutines are cancelled when Run returns": no timer is
\* left, and a goroutine that still runs has a cancelled context.
ReturnDrains ==
  phase = "returned" =>
    \A t \in TaskIds : /\ tasks[t].at # "armed"
                       /\ Unfinished(t) => tasks[t].cancelled

\* Once nothing is pending or running for an open document and the loop waits
\* for the client, the published diagnostics and the stored analysis (what
\* hover, completion and definition read) are those of its current text.
SettledFresh ==
  \A u \in Uris :
    (/\ IsOpen(u) /\ phase \in {"top", "reading"} /\ ~ctxDone
     /\ \A t \in TaskIds : tasks[t].uri = u => ~Unfinished(t))
    => shown[u] = docs[u].text /\ docs[u].analysis = docs[u].text

\* Every text of an open document is diagnosed and published unless a newer
\* text, a close or the end of the server overtakes it, whatever schedules,
\* saves and cancelled goroutines interleave.
DiagnosticsArrive ==
  \A u \in Uris, x \in Texts :
    docs[u].text = x ~>
      (shown[u] = x \/ docs[u].text # x \/ ctxDone
       \/ phase \in {"cancelling", "draining", "returned"})
=============================================================================
