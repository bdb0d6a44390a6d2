--------------------------- MODULE TrackOffsetsProofs ---------------------------
(***************************************************************************)
(* Proofs about TrackOffsets, for every set of keys and number of edits:   *)
(* nothing set is forgotten, idle means saved, and the service implements  *)
(* DurableEdits.                                                           *)
(***************************************************************************)
EXTENDS TrackOffsets, TLAPS

\* The status is idle only when there is nothing to do, and a task that runs
\* is reported as pending.
StatusInv ==
    /\ status = "idle" => NothingPending(pending)
    /\ task # "none" => status = "pending"

\* After a process has ended its memory is empty, and what was made is what
\* was saved.
DownInv ==
    life = "down" =>
        /\ pending = NoOffsets /\ made = store
        /\ status = "idle" /\ task = "none" /\ late = NoCall

\* The awaited call writes an entry that is still pending, perhaps in a newer
\* version, and nothing newer than it is in the store.
CallInv ==
    call # NoCall =>
        LET k == call.job.key IN
        /\ pending[k] # 0
        /\ store[k] <= call.job.edit /\ call.job.edit <= made[k]
        /\ call.state = "returned" => store[k] = call.job.edit

\* The call nobody awaits is older than any other: the awaited one has not
\* started, and nothing newer is in the store.
LateInv ==
    late # NoCall =>
        LET k == late.job.key IN
        /\ store[k] <= late.job.edit /\ late.job.edit <= made[k]
        /\ call # NoCall =>
             /\ call.state = "queued"
             /\ call.job.key = k => late.job.edit <= call.job.edit

\* The store is never ahead of what was made, nor that of the last edit.
OrderInv == \A k \in Keys : store[k] <= made[k] /\ made[k] <= edits

IInv == TypeOK /\ NothingForgotten /\ StatusInv /\ DownInv /\ CallInv /\ LateInv /\ OrderInv

-------------------------------------------------------------------------------
(* Facts about calls.                                                      *)

Calls == [state : CallStates \ {"none"}, job : Entries]

\* A call is told from no call by its state; a queued call is a call.
LEMMA CallFacts ==
    /\ NoCall.state = "none"
    /\ \A c \in Calls : /\ c # NoCall /\ c.state # "none"
                        /\ c.job.key \in Keys /\ c.job.edit \in Edits
    /\ \A e \in Entries : /\ Queued(e) \in Calls /\ Queued(e).state = "queued"
                          /\ Queued(e).job = e
BY DEF Calls, NoCall, CallStates, Entries, Queued

\* An entry made of a key and the edit pending under it is an entry.
LEMMA PendingEntry ==
    ASSUME NEW entries \in Offsets, NEW k \in Keys, entries[k] # 0
    PROVE  [key |-> k, edit |-> entries[k]] \in Entries
BY MaxEditsAssumption DEF Offsets, Entries, Edits

-------------------------------------------------------------------------------
(* The invariant is inductive: one lemma per group of actions.             *)

LEMMA InitIInv == Init => IInv
BY MaxEditsAssumption
   DEF Init, IInv, TypeOK, NothingForgotten, StatusInv, DownInv, CallInv, LateInv, OrderInv,
       NoOffsets, Offsets, NothingPending

\* Setting a correction.
LEMMA SetOffsetKeeps == ASSUME IInv, NEW k \in Keys, SetOffset(k) PROVE IInv'
<1> USE MaxEditsAssumption DEF IInv, SetOffset, workerVars
<1>1. TypeOK'
  BY CallFacts DEF TypeOK, Offsets, SchedulePersist
<1>2. NothingForgotten'
  BY DEF TypeOK, Offsets, NothingForgotten
<1>3. StatusInv'
  BY DEF StatusInv, SchedulePersist
<1>4. DownInv'
  BY DEF DownInv
<1>5. CallInv'
  <2>1. ASSUME call # NoCall PROVE call.job.key \in Keys /\ call.job.edit \in Edits
    BY <2>1, CallFacts DEF TypeOK, Calls
  <2>2. QED BY <2>1 DEF TypeOK, Offsets, Edits, CallInv, OrderInv
<1>6. LateInv'
  <2>1. ASSUME late # NoCall PROVE late.job.key \in Keys /\ late.job.edit \in Edits
    BY <2>1 DEF TypeOK, Entries
  <2>2. QED BY <2>1 DEF TypeOK, Offsets, Edits, LateInv, OrderInv
<1>7. OrderInv'
  BY DEF TypeOK, Offsets, OrderInv
<1>8. QED BY <1>1, <1>2, <1>3, <1>4, <1>5, <1>6, <1>7

\* Asking for a retry, closing, and the steps of a call that leave no trace.
LEMMA RetryKeeps == ASSUME IInv, RetryPersistence PROVE IInv'
BY DEF IInv, RetryPersistence, SchedulePersist, pendingVars, workerVars, historyVars, TypeOK,
       NothingForgotten, StatusInv, DownInv, CallInv, LateInv, OrderInv

\* A turn of the save loop over entries that satisfy the invariant.
LEMMA DrainTurnKeeps ==
    ASSUME TypeOK, pending' \in Offsets, since' \in Offsets, store \in Offsets, made \in Offsets,
           \A k \in Keys : IF pending'[k] = 0 THEN store[k] = made[k] ELSE pending'[k] = made[k],
           \A k \in Keys : store[k] <= made[k],
           late # NoCall => /\ late.job.key \in Keys
                            /\ late.job.edit <= made[late.job.key],
           status = "pending",
           DrainTurn(pending', since')
    PROVE  /\ status' \in {"idle", "pending"} /\ task' \in {"none", "saving"}
           /\ call' \in Calls \cup {NoCall}
           /\ task' = "saving" <=> call' # NoCall
           /\ status' = "idle" => NothingPending(pending')
           /\ task' # "none" => status' = "pending"
           /\ call' # NoCall =>
                LET k == call'.job.key IN
                /\ k \in Keys /\ pending'[k] # 0 /\ call'.state = "queued"
                /\ store[k] <= call'.job.edit /\ call'.job.edit = made[k]
<1>1. CASE NothingPending(pending')
  BY <1>1 DEF DrainTurn
<1>2. CASE ~NothingPending(pending')
  <2>1. PICK k \in Keys : /\ FirstPending(pending', since', k)
                          /\ call' = Queued([key |-> k, edit |-> pending'[k]])
    BY <1>2 DEF DrainTurn
  <2>2. pending'[k] # 0 /\ pending'[k] = made[k]
    BY <2>1 DEF FirstPending
  <2>3. [key |-> k, edit |-> pending'[k]] \in Entries
    BY <2>2, PendingEntry
  <2>4. /\ call' \in Calls /\ call' # NoCall /\ call'.state = "queued"
        /\ call'.job.key = k /\ call'.job.edit = pending'[k]
    BY <2>1, <2>3, CallFacts
  <2>5. task' = "saving" /\ status' = status
    BY <1>2 DEF DrainTurn
  <2>6. QED BY <2>2, <2>4, <2>5, <1>2 DEF Offsets
<1>3. QED BY <1>1, <1>2

\* The save task takes its first turn.
LEMMA TaskRunsKeeps == ASSUME IInv, TaskRuns PROVE IInv'
<1> USE DEF IInv, TaskRuns, pendingVars, historyVars
<1>1. status = "pending" /\ call = NoCall
  BY DEF StatusInv, TypeOK
<1>2. late # NoCall => late.job.key \in Keys /\ late.job.edit <= made[late.job.key]
  BY DEF TypeOK, Entries, LateInv
<1>3. life # "down" => \A k \in Keys : IF pending'[k] = 0 THEN store[k] = made[k]
                                                         ELSE pending'[k] = made[k]
  BY DEF NothingForgotten
<1>4. life # "down"
  BY DEF DownInv
<1>5. /\ status' \in {"idle", "pending"} /\ task' \in {"none", "saving"}
      /\ call' \in Calls \cup {NoCall}
      /\ task' = "saving" <=> call' # NoCall
      /\ status' = "idle" => NothingPending(pending')
      /\ task' # "none" => status' = "pending"
      /\ call' # NoCall =>
           LET k == call'.job.key IN
           /\ k \in Keys /\ pending'[k] # 0 /\ call'.state = "queued"
           /\ store[k] <= call'.job.edit /\ call'.job.edit = made[k]
  <2>1. DrainTurn(pending', since')
    BY DEF DrainTurn
  <2>2. pending' \in Offsets /\ since' \in Offsets /\ store \in Offsets /\ made \in Offsets
    BY DEF TypeOK
  <2>3. \A k \in Keys : store[k] <= made[k]
    BY DEF OrderInv
  <2>4. QED BY <1>1, <1>2, <1>3, <1>4, <2>1, <2>2, <2>3, DrainTurnKeeps
<1>6. TypeOK'
  BY <1>5 DEF TypeOK, Calls
<1>7. NothingForgotten' /\ OrderInv'
  BY DEF NothingForgotten, OrderInv
<1>8. StatusInv' /\ DownInv'
  BY <1>4, <1>5 DEF StatusInv, DownInv
<1>9. CallInv'
  BY <1>5, <1>6 DEF CallInv, TypeOK, Offsets
<1>10. LateInv'
  BY <1>2, <1>5 DEF LateInv
<1>11. QED BY <1>6, <1>7, <1>8, <1>9, <1>10

\* The worker has answered, and the save loop takes its next turn.
LEMMA AnsweredKeeps == ASSUME IInv, Answered PROVE IInv'
<1> USE DEF IInv, Answered, historyVars
<1> DEFINE entry == call.job
<1>1. /\ call \in Calls /\ call # NoCall /\ entry.key \in Keys /\ entry.edit \in Edits
      /\ pending[entry.key] # 0 /\ store[entry.key] = entry.edit
  BY CallFacts DEF TypeOK, Calls, CallInv
<1>2. status = "pending" /\ life # "down" /\ late = NoCall
  BY <1>1 DEF StatusInv, TypeOK, DownInv, LateInv
<1>3. pending' \in Offsets /\ since' \in Offsets
  BY <1>1, MaxEditsAssumption DEF TypeOK, Offsets, Remaining, RemainingPlaces
<1>4. \A k \in Keys : IF pending'[k] = 0 THEN store[k] = made[k] ELSE pending'[k] = made[k]
  <2>1. TAKE k \in Keys
  <2>2. CASE k = entry.key /\ pending[k] = entry.edit
    BY <1>1, <1>2, <2>2 DEF TypeOK, Offsets, Remaining, NothingForgotten
  <2>3. CASE ~(k = entry.key /\ pending[k] = entry.edit)
    BY <1>1, <1>2, <2>3 DEF TypeOK, Offsets, Remaining, NothingForgotten
  <2>4. QED BY <2>2, <2>3
<1>5. /\ status' \in {"idle", "pending"} /\ task' \in {"none", "saving"}
      /\ call' \in Calls \cup {NoCall}
      /\ task' = "saving" <=> call' # NoCall
      /\ status' = "idle" => NothingPending(pending')
      /\ task' # "none" => status' = "pending"
      /\ call' # NoCall =>
           LET k == call'.job.key IN
           /\ k \in Keys /\ pending'[k] # 0 /\ call'.state = "queued"
           /\ store[k] <= call'.job.edit /\ call'.job.edit = made[k]
  <2>1. store \in Offsets /\ made \in Offsets
    BY DEF TypeOK
  <2>2. \A k \in Keys : store[k] <= made[k]
    BY DEF OrderInv
  <2>3. QED BY <1>2, <1>3, <1>4, <2>1, <2>2, DrainTurnKeeps
<1>6. TypeOK'
  BY <1>3, <1>5 DEF TypeOK, Calls
<1>7. NothingForgotten' /\ OrderInv'
  BY <1>4 DEF NothingForgotten, OrderInv
<1>8. StatusInv' /\ DownInv'
  BY <1>2, <1>5 DEF StatusInv, DownInv
<1>9. CallInv'
  BY <1>5, <1>6 DEF CallInv, TypeOK, Offsets
<1>10. LateInv'
  BY <1>2 DEF LateInv
<1>11. QED BY <1>6, <1>7, <1>8, <1>9, <1>10

\* The task ends with a failure; the running call of a deadline goes on.
LEMMA FailureKeeps == ASSUME IInv, WriteFailed \/ WriteTimedOut PROVE IInv'
<1> USE DEF IInv, pendingVars, historyVars, GiveUp
<1>1. CASE WriteFailed
  <2> USE <1>1 DEF WriteFailed
  <2>1. call # NoCall /\ life # "down" /\ status = "pending"
    BY CallFacts DEF DownInv, TypeOK, StatusInv
  <2>2. TypeOK'
    BY DEF TypeOK
  <2>3. NothingForgotten' /\ OrderInv' /\ StatusInv' /\ DownInv' /\ CallInv'
    BY <2>1 DEF NothingForgotten, OrderInv, StatusInv, DownInv, CallInv
  <2>4. LateInv'
    BY DEF LateInv
  <2>5. QED BY <2>2, <2>3, <2>4
<1>2. CASE WriteTimedOut
  <2> USE <1>2 DEF WriteTimedOut, DeadlinePasses, Abandon
  <2>1. call # NoCall /\ life # "down" /\ status = "pending" /\ call \in Calls
    BY CallFacts DEF DownInv, TypeOK, StatusInv, Calls
  <2>2. TypeOK'
    BY <2>1 DEF TypeOK, Calls
  <2>3. NothingForgotten' /\ OrderInv' /\ StatusInv' /\ DownInv' /\ CallInv'
    BY <2>1 DEF NothingForgotten, OrderInv, StatusInv, DownInv, CallInv
  <2>4. LateInv'
    BY <2>1 DEF LateInv, CallInv
  <2>5. QED BY <2>2, <2>3, <2>4
<1>3. QED BY <1>1, <1>2

\* The thread takes the call, and the call raises: nothing else changes.
LEMMA ThreadOnlyKeeps == ASSUME IInv, WriteStarts \/ WriteRaises PROVE IInv'
<1> USE DEF IInv, pendingVars, historyVars
<1>1. /\ call \in Calls /\ call # NoCall /\ late = NoCall /\ late' = NoCall
      /\ call' \in Calls /\ call' # NoCall /\ call'.job = call.job
      /\ call'.state \in {"running", "raised"}
  BY CallFacts DEF WriteStarts, WriteRaises, CallStarts, CallRaises, TypeOK, Calls, LateInv, CallStates
<1>2. UNCHANGED <<offsets, pending, since, status, task, store, life, made, edits>>
  BY DEF WriteStarts, WriteRaises
<1>3. TypeOK'
  BY <1>1, <1>2 DEF TypeOK, Calls
<1>4. NothingForgotten' /\ OrderInv' /\ StatusInv' /\ DownInv'
  BY <1>1, <1>2 DEF NothingForgotten, OrderInv, StatusInv, DownInv
<1>5. CallInv' /\ LateInv'
  BY <1>1, <1>2 DEF CallInv, LateInv
<1>6. QED BY <1>3, <1>4, <1>5

\* The awaited write reaches the store.
LEMMA WriteReturnsKeeps == ASSUME IInv, WriteReturns PROVE IInv'
<1> USE DEF IInv, WriteReturns, CallReturns, pendingVars, historyVars
<1> DEFINE entry == call.job
<1>1. /\ call \in Calls /\ call # NoCall /\ late = NoCall /\ late' = NoCall
      /\ call' \in Calls /\ call' # NoCall /\ call'.job = call.job
      /\ entry.key \in Keys /\ entry.edit \in Edits
  BY CallFacts DEF TypeOK, Calls, LateInv, CallStates
<1>2. /\ pending[entry.key] # 0 /\ pending[entry.key] = made[entry.key]
      /\ store[entry.key] <= entry.edit /\ entry.edit <= made[entry.key]
      /\ life # "down"
  BY <1>1 DEF CallInv, NothingForgotten, DownInv, TypeOK
<1>3. store' \in Offsets
  BY <1>1, MaxEditsAssumption DEF TypeOK, Offsets, Upserted, Edits
<1>4. store'[entry.key] = entry.edit /\ \A k \in Keys : k # entry.key => store'[k] = store[k]
  BY <1>1 DEF TypeOK, Offsets, Upserted
<1>5. TypeOK'
  BY <1>1, <1>3 DEF TypeOK, Calls
<1>6. NothingForgotten' /\ OrderInv'
  BY <1>2, <1>4 DEF NothingForgotten, OrderInv
<1>7. StatusInv' /\ DownInv'
  BY <1>2 DEF StatusInv, DownInv
<1>8. CallInv' /\ LateInv'
  BY <1>1, <1>2, <1>4 DEF CallInv, LateInv, TypeOK, Offsets, Edits
<1>9. QED BY <1>5, <1>6, <1>7, <1>8

\* A write that nobody awaits ends, and may reach the store.
LEMMA LateWriteKeeps == ASSUME IInv, LateWriteEnds PROVE IInv'
<1> USE DEF IInv, LateWriteEnds, LateEnds, pendingVars, historyVars
<1> DEFINE entry == late.job
<1>1. /\ late # NoCall /\ entry.key \in Keys /\ entry.edit \in Edits /\ life # "down"
  BY DEF TypeOK, Entries, DownInv
<1>2. store[entry.key] <= entry.edit /\ entry.edit <= made[entry.key]
  BY <1>1 DEF LateInv
<1>3. CASE store' = store
  BY <1>1, <1>3 DEF TypeOK, NothingForgotten, StatusInv, DownInv, CallInv, LateInv, OrderInv
<1>4. CASE store' = Upserted(entry)
  <2>1. store' \in Offsets
    BY <1>1, <1>4, MaxEditsAssumption DEF TypeOK, Offsets, Upserted, Edits
  <2>2. store'[entry.key] = entry.edit /\ \A k \in Keys : k # entry.key => store'[k] = store[k]
    BY <1>1, <1>4 DEF TypeOK, Offsets, Upserted
  <2>3. TypeOK'
    BY <2>1 DEF TypeOK
  <2>4. NothingForgotten'
    <3>1. pending[entry.key] = 0 => entry.edit = made[entry.key]
      BY <1>1, <1>2 DEF NothingForgotten, TypeOK, Offsets, Edits
    <3>2. QED BY <1>1, <2>2, <3>1 DEF NothingForgotten
  <2>5. OrderInv'
    BY <1>2, <2>2 DEF OrderInv
  <2>6. StatusInv' /\ DownInv' /\ LateInv'
    BY <1>1 DEF StatusInv, DownInv, LateInv
  <2>7. CallInv'
    <3>1. SUFFICES ASSUME call # NoCall PROVE CallInv'
      BY DEF CallInv
    <3>2. call.state = "queued" /\ (call.job.key = entry.key => entry.edit <= call.job.edit)
      BY <1>1, <3>1 DEF LateInv
    <3>3. call.job.key \in Keys
      BY <3>1, CallFacts DEF TypeOK, Calls
    <3>4. QED BY <2>2, <3>1, <3>2, <3>3 DEF CallInv
  <2>8. QED BY <2>3, <2>4, <2>5, <2>6, <2>7
<1>5. QED BY <1>3, <1>4

\* The service closes, the application quits.
LEMMA CloseKeeps == ASSUME IInv, Close \/ Closed \/ Quit PROVE IInv'
<1> USE DEF IInv, pendingVars, historyVars, workerVars
<1>1. CASE Close \/ Closed
  BY <1>1 DEF Close, Closed, TypeOK, NothingForgotten, StatusInv, DownInv, CallInv, LateInv, OrderInv
<1>2. CASE Quit
  <2> USE <1>2 DEF Quit
  <2>1. call' = NoCall /\ UNCHANGED <<offsets, pending, since, status, store, made, edits>>
        /\ task' = "none" /\ life' = "closing" /\ life # "down"
    BY DEF CallerCancelled, Abandon
  <2>2. \/ late' = late
        \/ /\ call \in Calls /\ late' = [call EXCEPT !.state = "running"]
    BY CallFacts DEF CallerCancelled, Abandon, TypeOK, Calls
  <2>3. TypeOK'
    BY <2>1, <2>2 DEF TypeOK, Calls
  <2>4. NothingForgotten' /\ OrderInv' /\ StatusInv' /\ DownInv' /\ CallInv'
    BY <2>1 DEF NothingForgotten, OrderInv, StatusInv, DownInv, CallInv
  <2>5. LateInv'
    BY <2>1, <2>2, CallFacts DEF LateInv, CallInv, Calls
  <2>6. QED BY <2>3, <2>4, <2>5
<1>3. QED BY <1>1, <1>2

\* The process ends and another starts.
LEMMA ProcessKeeps == ASSUME IInv, ProcessEnds \/ Start PROVE IInv'
<1> USE MaxEditsAssumption DEF IInv, historyVars, pendingVars, workerVars
<1>1. CASE ProcessEnds
  <2>1. TypeOK'
    BY <1>1 DEF ProcessEnds, TypeOK, Offsets, NoOffsets
  <2>2. NothingForgotten' /\ StatusInv' /\ DownInv' /\ CallInv' /\ LateInv'
    BY <1>1 DEF ProcessEnds, NothingForgotten, StatusInv, DownInv, CallInv, LateInv, NoOffsets,
                NothingPending
  <2>3. OrderInv'
    BY <1>1 DEF ProcessEnds, OrderInv, TypeOK, Offsets
  <2>4. QED BY <2>1, <2>2, <2>3
<1>2. CASE Start
  <2>1. NoOffsets \in Offsets
    BY DEF NoOffsets, Offsets
  <2>2. NothingForgotten'
    BY <1>2 DEF Start, NothingForgotten, DownInv, NoOffsets
  <2>3. QED
    BY <1>2, <2>1, <2>2 DEF Start, TypeOK, StatusInv, DownInv, CallInv, LateInv, OrderInv
<1>3. QED BY <1>1, <1>2

\* The inductive invariant holds in every reachable state.
THEOREM Invariance == Spec => []IInv
<1>1. IInv /\ [Next]_vars => IInv'
  <2> SUFFICES ASSUME IInv, [Next]_vars PROVE IInv'
    OBVIOUS
  <2>1. CASE User
    BY <2>1, SetOffsetKeeps, RetryKeeps DEF User
  <2>2. CASE Loop
    BY <2>2, TaskRunsKeeps, AnsweredKeeps, FailureKeeps DEF Loop
  <2>3. CASE Thread
    BY <2>3, ThreadOnlyKeeps, WriteReturnsKeeps, LateWriteKeeps DEF Thread
  <2>4. CASE Process
    BY <2>4, CloseKeeps, ProcessKeeps DEF Process
  <2>5. CASE UNCHANGED vars
    BY <2>5 DEF vars, pendingVars, historyVars, workerVars, IInv, TypeOK, NothingForgotten,
                StatusInv, DownInv, CallInv, LateInv, OrderInv, NothingPending
  <2>6. QED BY <2>1, <2>2, <2>3, <2>4, <2>5 DEF Next
<1>2. QED BY InitIInv, <1>1, PTL DEF Spec

-------------------------------------------------------------------------------
(* What follows from the invariant.                                        *)

\* The state of the service, its worker and its store always has its type.
THEOREM TypeCorrect == Spec => []TypeOK
<1>1. IInv => TypeOK
  BY DEF IInv
<1>2. QED BY <1>1, Invariance, PTL

\* Every correction is saved, or still pending in its last version.
THEOREM NothingIsForgotten == Spec => []NothingForgotten
<1>1. IInv => NothingForgotten
  BY DEF IInv
<1>2. QED BY <1>1, Invariance, PTL

\* Nothing pending means that the store holds what was made.
LEMMA IdleStore == IInv => SavedWhenIdle
<1> SUFFICES ASSUME IInv, status = "idle" PROVE store = made
  BY DEF SavedWhenIdle
<1>1. CASE life = "down"
  BY <1>1 DEF IInv, DownInv
<1>2. CASE life # "down"
  <2>1. \A k \in Keys : store[k] = made[k]
    BY <1>2 DEF IInv, NothingForgotten, StatusInv, NothingPending
  <2>2. QED BY <2>1 DEF IInv, TypeOK, Offsets
<1>3. QED BY <1>1, <1>2

\* While the service reports idle, everything the user set is in the database.
THEOREM IdleIsSaved == Spec => []SavedWhenIdle
BY IdleStore, Invariance, PTL

-------------------------------------------------------------------------------
(* The service implements DurableEdits.                                    *)

\* The values of the model are naturals, as those of the abstraction are.
LEMMA Abstract == ASSUME TypeOK PROVE store \in [Keys -> Nat] /\ made \in [Keys -> Nat]
BY MaxEditsAssumption DEF TypeOK, Offsets

\* Setting a correction is an edit.
LEMMA SetOffsetIsEdit == ASSUME IInv, IInv', NEW k \in Keys, SetOffset(k) PROVE Durable!Edit
<1>1. made' \in [Keys -> Nat] /\ made \in [Keys -> Nat]
  BY Abstract DEF IInv, TypeOK, Offsets
<1>2. made[k] < made'[k] /\ \A j \in Keys : j # k => made'[j] = made[j]
  BY <1>1 DEF SetOffset, IInv, OrderInv, TypeOK
<1>3. \A j \in Keys : made'[j] >= made[j]
  BY <1>1, <1>2
<1>4. QED
  BY <1>1, <1>2, <1>3 DEF Durable!Edit, SetOffset, SchedulePersist

\* A step that leaves what was made alone and does not take the store back is
\* a save, since idle means saved.
LEMMA OthersSave ==
    ASSUME IInv, IInv', made' = made, \A k \in Keys : store[k] <= store'[k]
    PROVE  Durable!Save
<1>1. store' \in [Keys -> Nat] /\ made \in [Keys -> Nat]
  BY MaxEditsAssumption DEF IInv, TypeOK, Offsets
<1>2. \A k \in Keys : store[k] <= store'[k] /\ store'[k] <= made[k]
  BY DEF IInv, OrderInv
<1>3. status' = "idle" => store' = made
  <2>1. IInv' => SavedWhenIdle'
    BY IdleStore, PTL
  <2>2. QED BY <2>1 DEF SavedWhenIdle
<1>4. QED BY <1>1, <1>2, <1>3 DEF Durable!Save

\* Every step is a step of the abstraction.
LEMMA StepImplements == ASSUME IInv, IInv', [Next]_vars PROVE [Durable!Next]_(Durable!vars)
<1>1. store \in [Keys -> Nat]
  BY Abstract DEF IInv
<1>2. CASE \E k \in Keys : SetOffset(k)
  BY <1>2, SetOffsetIsEdit DEF Durable!Next
<1>3. CASE ProcessEnds
  BY <1>3 DEF ProcessEnds, Durable!Next, Durable!End
<1>4. CASE WriteReturns
  <2>1. \A k \in Keys : store[k] <= store'[k]
    <3>1. call \in Calls /\ call # NoCall /\ call.job.key \in Keys /\ call.job.edit \in Edits
      BY <1>4, CallFacts DEF IInv, TypeOK, WriteReturns, CallReturns, Calls
    <3>2. store[call.job.key] <= call.job.edit
      BY <3>1 DEF IInv, CallInv
    <3>3. QED BY <1>1, <1>4, <3>1, <3>2 DEF WriteReturns, Upserted
  <2>2. QED BY <1>4, <2>1, OthersSave DEF WriteReturns, historyVars, Durable!Next
<1>5. CASE LateWriteEnds
  <2>1. \A k \in Keys : store[k] <= store'[k]
    <3>1. late # NoCall /\ late.job.key \in Keys /\ late.job.edit \in Edits
      BY <1>5 DEF IInv, TypeOK, LateWriteEnds, LateEnds, Entries
    <3>2. store[late.job.key] <= late.job.edit
      BY <3>1 DEF IInv, LateInv
    <3>3. QED BY <1>1, <1>5, <3>1, <3>2 DEF LateWriteEnds, Upserted
  <2>2. QED BY <1>5, <2>1, OthersSave DEF LateWriteEnds, historyVars, Durable!Next
<1>6. CASE store' = store /\ made' = made
  BY <1>1, <1>6, OthersSave DEF Durable!Next
<1>7. \/ \E k \in Keys : SetOffset(k)
      \/ ProcessEnds \/ WriteReturns \/ LateWriteEnds
      \/ store' = store /\ made' = made
  BY DEF Next, User, Loop, Thread, Process, RetryPersistence, TaskRuns, Answered, WriteFailed,
         WriteTimedOut, WriteStarts, WriteRaises, Close, Closed, Quit, Start, historyVars,
         vars
<1>8. QED BY <1>2, <1>3, <1>4, <1>5, <1>6, <1>7

\* The service keeps edits durably: the database never goes back, nothing it
\* holds is lost, and idle means saved.
THEOREM Implements == Spec => EditsAreDurable
<1>1. Init => Durable!Init
  BY DEF Init, NoOffsets, Durable!Init
<1>2. QED
  BY <1>1, StepImplements, Invariance, PTL DEF Spec, EditsAreDurable, Durable!Spec
===============================================================================
