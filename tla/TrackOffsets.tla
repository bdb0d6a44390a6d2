------------------------------ MODULE TrackOffsets ------------------------------
(***************************************************************************)
(* The service that owns the timing corrections of lyrics                  *)
(* (src/kotonoha/app/track_offset_service.py) with its worker, its store   *)
(* and the process that owns it.  A correction is set in memory at once    *)
(* and kept pending until the save task has written it; the task writes    *)
(* one entry after the other and stops at the first failure.               *)
(*                                                                         *)
(* An offset is the number of the edit that set it, so that two edits      *)
(* never look the same, as two entry objects never are.                    *)
(***************************************************************************)
EXTENDS BlockingWorker, Integers

CONSTANTS
    Keys,           \* the lyric timelines that may be corrected
    MaxEdits        \* bound on the corrections made

ASSUME MaxEditsAssumption == MaxEdits \in Nat

VARIABLES
    offsets,        \* _snapshot: what the display uses
    pending,        \* _pending_entries: the entry not yet saved, 0 for none
    since,          \* the place of an entry among the pending ones
    status,         \* _persistence_status
    task,           \* _save_task: none, due (not run yet) or saving
    store,          \* the rows of the database
    life,           \* the service and its process
    made,           \* history: the last edit of each key that was not lost
    edits           \* the edits made so far

workerVars == <<call, late>>
pendingVars == <<pending, since>>
historyVars == <<made, edits>>
vars == <<offsets, pendingVars, status, task, store, life, historyVars, workerVars>>

Edits == 1 .. MaxEdits
Offsets == [Keys -> 0 .. MaxEdits]
NoOffsets == [k \in Keys |-> 0]
Entries == [key : Keys, edit : Edits]

Init ==
    /\ offsets = NoOffsets /\ store = NoOffsets /\ made = NoOffsets
    /\ pending = NoOffsets /\ since = NoOffsets
    /\ status = "idle" /\ task = "none" /\ life = "open"
    /\ edits = 0
    /\ call = NoCall /\ late = NoCall

NothingPending(entries) == \A k \in Keys : entries[k] = 0

\* The entry that has been pending for longest, the first of the dictionary.
FirstPending(entries, places, k) ==
    /\ entries[k] # 0
    /\ \A j \in Keys : entries[j] # 0 => places[k] <= places[j]

-------------------------------------------------------------------------------
(* The service.                                                            *)

\* The status turns pending and the task runs unless it already does.
SchedulePersist ==
    /\ status' = "pending"
    /\ task' = IF task = "none" THEN "due" ELSE task

SetOffset(k) ==
    /\ life = "open" /\ edits < MaxEdits
    /\ edits' = edits + 1
    /\ offsets' = [offsets EXCEPT ![k] = edits + 1]
    /\ made' = [made EXCEPT ![k] = edits + 1]
    /\ pending' = [pending EXCEPT ![k] = edits + 1]
    /\ since' = IF pending[k] = 0 THEN [since EXCEPT ![k] = edits + 1] ELSE since
    /\ SchedulePersist
    /\ UNCHANGED <<store, life, workerVars>>

RetryPersistence ==
    /\ life = "open" /\ status = "failed" /\ ~NothingPending(pending)
    /\ SchedulePersist
    /\ UNCHANGED <<offsets, pendingVars, store, life, historyVars, workerVars>>

\* One turn of the save loop: the first pending entry goes to the worker, or
\* there is none, everything is saved and the task ends.
DrainTurn(entries, places) ==
    IF NothingPending(entries)
    THEN status' = "idle" /\ task' = "none" /\ call' = NoCall
    ELSE /\ \E k \in Keys :
              /\ FirstPending(entries, places, k)
              /\ call' = Queued([key |-> k, edit |-> entries[k]])
         /\ task' = "saving"
         /\ UNCHANGED status

TaskRuns ==
    /\ task = "due"
    /\ DrainTurn(pending, since)
    /\ UNCHANGED <<offsets, pendingVars, store, life, historyVars, late>>

\* Mutant: whatever is pending under the key is taken as written.
RemainingUnlessKey(entry) == [pending EXCEPT ![entry.key] = 0]

\* The entry still pending under the key, unless it is the one just written.
Remaining(entry) ==
    IF pending[entry.key] = entry.edit THEN [pending EXCEPT ![entry.key] = 0] ELSE pending

\* The places of the entries that remain.
RemainingPlaces(entry) ==
    IF pending[entry.key] = entry.edit THEN [since EXCEPT ![entry.key] = 0] ELSE since

Answered ==
    /\ call.state = "returned"
    /\ pending' = Remaining(call.job)
    /\ since' = RemainingPlaces(call.job)
    /\ DrainTurn(pending', since')
    /\ UNCHANGED <<offsets, store, life, historyVars, late>>

\* Mutant: a failure leaves the task.
GiveUpKeepsTask == status' = "failed" /\ UNCHANGED task

\* A failed write ends the task; its entry and the others stay pending.
GiveUp == status' = "failed" /\ task' = "none"

WriteFailed ==
    /\ call.state = "raised"
    /\ call' = NoCall
    /\ GiveUp
    /\ UNCHANGED <<offsets, pendingVars, store, life, historyVars, late>>

WriteTimedOut ==
    /\ DeadlinePasses
    /\ GiveUp
    /\ UNCHANGED <<offsets, pendingVars, store, life, historyVars>>

-------------------------------------------------------------------------------
(* The worker's thread and the store.                                      *)

Upserted(entry) == [store EXCEPT ![entry.key] = entry.edit]

WriteStarts ==
    /\ CallStarts
    /\ UNCHANGED <<offsets, pendingVars, status, task, store, life, historyVars>>

WriteReturns ==
    /\ CallReturns
    /\ store' = Upserted(call.job)
    /\ UNCHANGED <<offsets, pendingVars, status, task, life, historyVars>>

WriteRaises ==
    /\ CallRaises
    /\ UNCHANGED <<offsets, pendingVars, status, task, store, life, historyVars>>

LateWriteEnds ==
    /\ LateEnds
    /\ store' \in {store, Upserted(late.job)}
    /\ UNCHANGED <<offsets, pendingVars, status, task, life, historyVars>>

-------------------------------------------------------------------------------
(* The end of the service and of the process.                              *)

\* Nobody accepts corrections any more; the task is awaited.
Close ==
    /\ life = "open"
    /\ life' = "closing"
    /\ UNCHANGED <<offsets, pendingVars, status, task, store, historyVars, workerVars>>

Closed ==
    /\ life = "closing" /\ task = "none"
    /\ life' = "closed"
    /\ UNCHANGED <<offsets, pendingVars, status, task, store, historyVars, workerVars>>

\* The application quits: the Qt loop has ended, every pending task is
\* cancelled, the save task among them, and the stop that follows closes the
\* service and finds nothing to wait for.  A task just created takes its first
\* turn before that.
Quit ==
    /\ life \in {"open", "closing"} /\ task # "due"
    /\ life' = "closing"
    /\ task' = "none"
    /\ CallerCancelled
    /\ UNCHANGED <<offsets, pendingVars, status, store, historyVars>>

\* The process ends, in order or not, and with it the thread.
ProcessEnds ==
    /\ life # "down"
    /\ life' = "down"
    /\ offsets' = NoOffsets /\ pending' = NoOffsets /\ since' = NoOffsets
    /\ status' = "idle" /\ task' = "none"
    /\ call' = NoCall /\ late' = NoCall
    /\ made' = store
    /\ UNCHANGED <<store, edits>>

\* A new process loads the rows; when it cannot, it starts without them.
Start ==
    /\ life = "down"
    /\ life' = "open"
    /\ offsets' \in {store, NoOffsets}
    /\ UNCHANGED <<pendingVars, status, task, store, historyVars, workerVars>>

-------------------------------------------------------------------------------
User == RetryPersistence \/ \E k \in Keys : SetOffset(k)
Loop == TaskRuns \/ Answered \/ WriteFailed \/ WriteTimedOut
Thread == WriteStarts \/ WriteReturns \/ WriteRaises \/ LateWriteEnds
Process == Close \/ Closed \/ Quit \/ ProcessEnds \/ Start

Next == User \/ Loop \/ Thread \/ Process

Spec == Init /\ [][Next]_vars

\* The event loop runs; the thread may hang for ever, as may the file system
\* under it.
FairSpec == Spec /\ WF_vars(Loop) /\ WF_vars(Closed)

-------------------------------------------------------------------------------
(* Properties.                                                             *)

\* Every variable has its type, the task saves exactly while a call is
\* awaited, and the service is idle only with no task.
TypeOK ==
    /\ offsets \in Offsets /\ store \in Offsets /\ made \in Offsets
    /\ pending \in Offsets /\ since \in Offsets
    /\ edits \in 0 .. MaxEdits
    /\ status \in {"idle", "pending", "failed"}
    /\ task \in {"none", "due", "saving"}
    /\ life \in {"open", "closing", "closed", "down"}
    /\ call \in [state : CallStates \ {"none"}, job : Entries] \cup {NoCall}
    /\ late \in [state : {"running"}, job : Entries] \cup {NoCall}
    /\ task = "saving" <=> call # NoCall
    /\ status = "idle" => task = "none"

\* A correction is either in the database or still pending in its last
\* version: neither the completion of an older write nor a failure, a
\* deadline or a retry makes the service forget it.
NothingForgotten ==
    life # "down" =>
        \A k \in Keys : IF pending[k] = 0 THEN store[k] = made[k] ELSE pending[k] = made[k]

\* While the service reports idle, everything the user set is in the database.
SavedWhenIdle == status = "idle" => store = made

\* The service keeps edits durably: the database never returns to an older
\* correction, not even when a write its caller gave up ends after a later
\* one was asked for.
Durable == INSTANCE DurableEdits WITH
               Fragile <- FALSE, saved <- store, settled <- status = "idle"
EditsAreDurable == Durable!Spec

\* Every wait ends, whatever the thread does: a pending write is saved or
\* failed unless the process leaves first, and closing the service ends
\* although a write hangs.
EveryWaitEnds ==
    /\ status = "pending" ~> status # "pending" \/ life # "open"
    /\ life = "closing" ~> life # "closing"
===============================================================================
