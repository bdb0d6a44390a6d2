------------------------ MODULE ConfigPersistenceProofs ------------------------
(***************************************************************************)
(* Proofs about ConfigPersistence, for every set of fields and number of   *)
(* edits: idle means saved, what waits is always the newest configuration, *)
(* and the service implements DurableEdits.                                *)
(***************************************************************************)
EXTENDS ConfigPersistence, TLAPS

\* The older configuration has nothing that the newer one has not.
Precedes(older, newer) == \A f \in Fields : older[f] <= newer[f]

Calls == [state : CallStates \ {"none"}, job : Configs]

\* Every variable has its type, and the task saves exactly while a call is awaited.
TypeOK ==
    /\ config \in Configs /\ form \in Configs /\ file \in Configs /\ aside \in Configs
    /\ pending \in Configs \cup {NoJob} /\ fresh \in BOOLEAN /\ dialog \in BOOLEAN
    /\ status \in {"idle", "pending", "failed"}
    /\ task \in {"none", "due", "saving"}
    /\ fileState \in {"good", "unreadable", "corrupt"}
    /\ life \in {"open", "closing", "closed", "down"}
    /\ edits \in 0 .. MaxEdits
    /\ call \in Calls \cup {NoCall}
    /\ late \in [state : {"running"}, job : Configs] \cup {NoCall}
    /\ task = "saving" <=> call # NoCall

\* What waits is the newest configuration, whatever was written or failed
\* meanwhile, and a task that runs is reported as pending.
NewestWaits ==
    /\ status # "idle" => pending = config
    /\ task # "none" => status = "pending"

\* While the service reports idle the file holds the configuration.
IdleIsSaved == status = "idle" /\ fileState = "good" => file = config

\* After a process has ended nothing of it is left.
DownInv == life = "down" => status = "idle" /\ task = "none" /\ late = NoCall

\* The awaited call writes the configuration, unless a newer copy waits; the file
\* is not newer than what the call writes.
CallInv ==
    call # NoCall =>
        /\ Precedes(Readable, call.job) /\ Precedes(call.job, config)
        /\ ~fresh => call.job = config
        /\ call.state = "returned" /\ fileState = "good" => file = call.job

\* The call nobody awaits is older than any other: the awaited one has not
\* started, and the file is not newer than what the late one writes.
LateInv ==
    late # NoCall =>
        /\ status # "idle"
        /\ Precedes(Readable, late.job) /\ Precedes(late.job, config)
        /\ call # NoCall => call.state = "queued" /\ Precedes(late.job, call.job)

\* The file is never ahead of the configuration, nor that of the last edit.
OrderInv == Precedes(Readable, config) /\ \A f \in Fields : config[f] <= edits

IInv == TypeOK /\ NewestWaits /\ IdleIsSaved /\ DownInv /\ CallInv /\ LateInv /\ OrderInv

-------------------------------------------------------------------------------
(* Facts about calls and configurations.                                   *)

\* A call is told from no call by its state; a queued call is a call.
LEMMA CallFacts ==
    /\ NoCall.state = "none"
    /\ \A c \in Calls : c # NoCall /\ c.state # "none" /\ c.job \in Configs
    /\ \A job \in Configs : /\ Queued(job) \in Calls /\ Queued(job).state = "queued"
                            /\ Queued(job).job = job
BY DEF Calls, NoCall, CallStates, Queued

\* The order of configurations.
LEMMA Order ==
    /\ \A a \in Configs : Precedes(a, a) /\ Precedes(Defaults, a)
    /\ \A a, b, c \in Configs : Precedes(a, b) /\ Precedes(b, c) => Precedes(a, c)
    /\ Defaults \in Configs
    /\ file \in Configs => Readable \in Configs
BY ConfigAssumption DEF Configs, Defaults, Precedes, Readable

-------------------------------------------------------------------------------
(* The invariant is inductive: one lemma per group of actions.             *)

LEMMA InitIInv == Init => IInv
<1> SUFFICES ASSUME Init PROVE IInv
  OBVIOUS
<1>1. TypeOK
  <2>1. fresh \in BOOLEAN /\ dialog \in BOOLEAN
    BY Zenon DEF Init
  <2>2. QED BY <2>1, Order, ConfigAssumption DEF Init, TypeOK
<1>2. NewestWaits /\ IdleIsSaved /\ DownInv /\ CallInv /\ LateInv
  BY DEF Init, NewestWaits, IdleIsSaved, DownInv, CallInv, LateInv
<1>3. OrderInv
  BY Order DEF Init, OrderInv, Readable, Defaults
<1>4. QED BY <1>1, <1>2, <1>3 DEF IInv

\* A newer configuration takes the place of the one that waits.
LEMMA NewerKeeps ==
    ASSUME IInv, life = "open", life' = "open",
           config' \in Configs, form' \in Configs, dialog' \in BOOLEAN,
           edits' \in 0 .. MaxEdits, edits <= edits',
           Precedes(config, config'), \A f \in Fields : config'[f] <= edits',
           SchedulePersist(config'), UNCHANGED <<fileVars, workerVars>>
    PROVE  IInv'
<1> USE DEF IInv, SchedulePersist, fileVars, workerVars
<1>1. TypeOK'
  BY DEF TypeOK
<1>2. NewestWaits' /\ IdleIsSaved' /\ DownInv'
  BY DEF NewestWaits, IdleIsSaved, DownInv
<1>3. Readable' = Readable /\ Readable \in Configs
  BY Order DEF Readable, TypeOK
<1>4. CallInv'
  BY <1>3, CallFacts, Order DEF CallInv, TypeOK
<1>5. LateInv'
  BY <1>3, Order DEF LateInv, TypeOK
<1>6. OrderInv'
  BY <1>3, Order DEF OrderInv, TypeOK
<1>7. QED BY <1>1, <1>2, <1>4, <1>5, <1>6

\* What an edit makes of the configuration.
LEMMA EditFacts ==
    ASSUME IInv, edits < MaxEdits, edits' = edits + 1,
           NEW changed \in SUBSET Fields,
           config' = [f \in Fields |-> IF f \in changed THEN edits + 1 ELSE config[f]]
    PROVE  /\ config' \in Configs /\ edits' \in 0 .. MaxEdits /\ edits <= edits'
           /\ Precedes(config, config') /\ \A f \in Fields : config'[f] <= edits'
           /\ changed # {} => config' # config
<1>1. edits \in Nat /\ config \in Configs /\ \A f \in Fields : config[f] <= edits
  BY ConfigAssumption DEF IInv, TypeOK, OrderInv
<1>2. config' \in Configs /\ edits' \in 0 .. MaxEdits
  BY <1>1, ConfigAssumption DEF Configs
<1>3. \A f \in Fields : config[f] <= config'[f] /\ config'[f] <= edits'
  BY <1>1 DEF Configs
<1>4. changed # {} => config' # config
  <2>1. SUFFICES ASSUME NEW f \in changed PROVE config'[f] # config[f]
    OBVIOUS
  <2>2. config[f] \in Nat /\ config[f] <= edits
    BY <1>1 DEF Configs
  <2>3. QED BY <1>1, <2>2
<1>5. QED BY <1>1, <1>2, <1>3, <1>4 DEF Precedes

\* A setting is changed outside the dialog.
LEMMA SetRuntimeKeeps == ASSUME IInv, NEW f \in RuntimeFields, SetRuntime(f) PROVE IInv'
<1> USE DEF SetRuntime
<1>1. config' = [g \in Fields |-> IF g \in {f} THEN edits + 1 ELSE config[g]] /\ {f} \in SUBSET Fields
  BY ConfigAssumption DEF IInv, TypeOK, Configs
<1>2. form' \in Configs /\ dialog' \in BOOLEAN
  BY DEF dialogVars, IInv, TypeOK
<1>3. QED BY <1>1, <1>2, EditFacts, NewerKeeps

\* Apply, a retry, and the dialog that opens and closes.
LEMMA ApplyKeeps == ASSUME IInv, NEW changed \in SUBSET Fields, ApplySettings(changed) PROVE IInv'
<1> USE DEF ApplySettings
<1>1. config' = [f \in Fields |-> IF f \in changed THEN edits + 1 ELSE config[f]]
  BY DEF Merged
<1>2. form' \in Configs /\ dialog' \in BOOLEAN
  BY ConfigAssumption DEF Submitted, IInv, TypeOK, Configs
<1>3. QED BY <1>1, <1>2, EditFacts, NewerKeeps

LEMMA RetryKeeps == ASSUME IInv, RetryPersistence PROVE IInv'
<1>1. /\ config' \in Configs /\ form' \in Configs /\ dialog' \in BOOLEAN /\ edits' \in 0 .. MaxEdits
      /\ edits <= edits' /\ SchedulePersist(config')
  BY DEF RetryPersistence, dialogVars, SchedulePersist, IInv, TypeOK
<1>2. Precedes(config, config') /\ \A f \in Fields : config'[f] <= edits'
  BY Order DEF RetryPersistence, IInv, TypeOK, OrderInv
<1>3. QED BY <1>1, <1>2, NewerKeeps DEF RetryPersistence

LEMMA DialogKeeps == ASSUME IInv, OpenSettings \/ CloseSettings PROVE IInv'
<1> USE DEF OpenSettings, CloseSettings, saveVars, fileVars, workerVars, IInv
<1>1. dialog' \in BOOLEAN
  BY Zenon
<1>2. TypeOK'
  BY <1>1, Order DEF TypeOK
<1>3. NewestWaits' /\ IdleIsSaved' /\ DownInv' /\ CallInv' /\ LateInv' /\ OrderInv'
  BY DEF NewestWaits, IdleIsSaved, DownInv, CallInv, LateInv, OrderInv, Readable
<1>4. QED BY <1>2, <1>3

\* The save task takes its first turn: the configuration goes to the worker.
LEMMA TaskRunsKeeps == ASSUME IInv, TaskRuns PROVE IInv'
<1> USE DEF IInv, TaskRuns, dialogVars, fileVars
<1>1. call = NoCall /\ status = "pending" /\ pending = config /\ config \in Configs
  BY DEF TypeOK, NewestWaits
<1>2. call' \in Calls /\ call' # NoCall /\ call'.state = "queued" /\ call'.job = config
  BY <1>1, CallFacts
<1>3. Readable' = Readable /\ Readable \in Configs
  BY Order DEF Readable, TypeOK
<1>4. TypeOK'
  <2>1. fresh' \in BOOLEAN
    BY Zenon
  <2>2. QED BY <1>1, <1>2, <2>1 DEF TypeOK
<1>5. NewestWaits' /\ IdleIsSaved' /\ DownInv' /\ OrderInv'
  BY <1>1, <1>3 DEF NewestWaits, IdleIsSaved, DownInv, OrderInv
<1>6. CallInv'
  BY <1>1, <1>2, <1>3, Order DEF CallInv, OrderInv
<1>7. LateInv'
  BY <1>1, <1>2, <1>3 DEF LateInv
<1>8. QED BY <1>4, <1>5, <1>6, <1>7

\* The worker has answered: a newer copy goes next, or everything is saved.
LEMMA AnsweredKeeps == ASSUME IInv, Answered PROVE IInv'
<1> USE DEF IInv, Answered, dialogVars, fileVars
<1>1. /\ call # NoCall /\ call \in Calls /\ late = NoCall /\ life # "down"
      /\ status = "pending" /\ pending = config /\ config \in Configs /\ fresh \in BOOLEAN
  BY CallFacts DEF TypeOK, NewestWaits, LateInv, DownInv
<1>2. Readable' = Readable
  BY DEF Readable
<1>3. CASE fresh
  <2>1. /\ call' \in Calls /\ call' # NoCall /\ call'.state = "queued" /\ call'.job = config
        /\ UNCHANGED <<pending, status, task>>
    BY <1>1, <1>3, CallFacts
  <2>2. TypeOK'
    <3>1. fresh' \in BOOLEAN
      BY <1>3, Zenon
    <3>2. QED BY <1>1, <2>1, <3>1 DEF TypeOK
  <2>3. NewestWaits' /\ IdleIsSaved' /\ DownInv' /\ OrderInv' /\ LateInv'
    BY <1>1, <1>2, <2>1 DEF NewestWaits, IdleIsSaved, DownInv, OrderInv, LateInv
  <2>4. CallInv'
    BY <1>1, <1>2, <2>1, Order DEF CallInv, OrderInv
  <2>5. QED BY <2>2, <2>3, <2>4
<1>4. CASE ~fresh
  <2>1. /\ pending' = NoJob /\ status' = "idle" /\ task' = "none" /\ call' = NoCall
        /\ UNCHANGED fresh
    BY <1>4
  <2>2. fileState = "good" => file = config
    BY <1>1, <1>4 DEF CallInv
  <2>3. TypeOK'
    BY <1>1, <2>1 DEF TypeOK
  <2>4. QED
    BY <1>1, <1>2, <2>1, <2>2, <2>3 DEF NewestWaits, IdleIsSaved, DownInv, OrderInv, LateInv, CallInv
<1>5. QED BY <1>1, <1>3, <1>4

\* The task ends with a failure; the running call of a deadline goes on.
LEMMA FailureKeeps == ASSUME IInv, WriteFailed \/ WriteTimedOut PROVE IInv'
<1> USE DEF IInv, GiveUp, WriteFailed, WriteTimedOut, DeadlinePasses, Abandon, dialogVars, fileVars
<1>1. /\ call # NoCall /\ call \in Calls /\ life # "down" /\ status = "pending"
      /\ pending = config /\ call' = NoCall /\ task' = "none" /\ status' = "failed"
      /\ UNCHANGED <<config, pending, fresh, dialog, form, file, fileState, aside, life, edits>>
  BY CallFacts DEF TypeOK, NewestWaits, DownInv
<1>2. \/ late' = late
      \/ late' = call /\ call.state = "running"
  OBVIOUS
<1>3. TypeOK'
  BY <1>1, <1>2 DEF TypeOK, Calls
<1>4. NewestWaits' /\ IdleIsSaved' /\ DownInv' /\ OrderInv' /\ CallInv'
  BY <1>1 DEF NewestWaits, IdleIsSaved, DownInv, OrderInv, CallInv, Readable
<1>5. LateInv'
  BY <1>1, <1>2 DEF LateInv, CallInv, Readable
<1>6. QED BY <1>3, <1>4, <1>5

\* The thread takes the call, and the call raises: nothing else changes.
LEMMA ThreadOnlyKeeps == ASSUME IInv, WriteStarts \/ WriteRaises PROVE IInv'
<1> USE DEF IInv
<1>1. /\ call \in Calls /\ call # NoCall /\ late = NoCall /\ late' = NoCall
      /\ call' \in Calls /\ call' # NoCall /\ call'.job = call.job
      /\ call'.state \in {"running", "raised"}
  BY CallFacts DEF WriteStarts, WriteRaises, CallStarts, CallRaises, TypeOK, Calls, LateInv, CallStates
<1>2. UNCHANGED <<config, pending, fresh, status, task, form, dialog, file, fileState, aside, life, edits>>
  BY DEF WriteStarts, WriteRaises, saveVars, dialogVars, fileVars
<1>3. TypeOK'
  BY <1>1, <1>2 DEF TypeOK
<1>4. NewestWaits' /\ IdleIsSaved' /\ DownInv' /\ OrderInv'
  BY <1>1, <1>2 DEF NewestWaits, IdleIsSaved, DownInv, OrderInv, Readable
<1>5. CallInv' /\ LateInv'
  BY <1>1, <1>2 DEF CallInv, LateInv, Readable
<1>6. QED BY <1>3, <1>4, <1>5

\* The awaited write reaches the file.
LEMMA WriteReturnsKeeps == ASSUME IInv, WriteReturns PROVE IInv'
<1> USE DEF IInv, WriteReturns, CallReturns, Saved, saveVars, dialogVars
<1>1. /\ call \in Calls /\ call # NoCall /\ late = NoCall /\ late' = NoCall
      /\ call' \in Calls /\ call' # NoCall /\ call'.job = call.job /\ call.job \in Configs
      /\ status = "pending" /\ life # "down"
  BY CallFacts DEF TypeOK, Calls, LateInv, CallStates, NewestWaits, DownInv
<1>2. Readable' = call.job /\ file' = call.job
  BY DEF Readable
<1>3. TypeOK'
  BY <1>1, <1>2 DEF TypeOK
<1>4. NewestWaits' /\ IdleIsSaved' /\ DownInv' /\ LateInv'
  BY <1>1 DEF NewestWaits, IdleIsSaved, DownInv, LateInv
<1>5. OrderInv' /\ CallInv'
  BY <1>1, <1>2, Order DEF OrderInv, CallInv
<1>6. QED BY <1>3, <1>4, <1>5

\* A write that nobody awaits ends, and may reach the file.
LEMMA LateWriteKeeps == ASSUME IInv, LateWriteEnds PROVE IInv'
<1> USE DEF IInv, LateWriteEnds, LateEnds, Saved, saveVars, dialogVars
<1>1. late # NoCall /\ late' = NoCall /\ late.job \in Configs /\ status # "idle" /\ life # "down"
  BY DEF TypeOK, LateInv, DownInv
<1>2. \/ Readable' = Readable /\ UNCHANGED <<file, fileState>>
      \/ Readable' = late.job /\ file' = late.job /\ fileState' = "good"
  BY DEF Readable
<1>3. call # NoCall => call.state = "queued" /\ Precedes(late.job, call.job)
  BY <1>1 DEF LateInv
<1>4. TypeOK'
  BY <1>1, <1>2 DEF TypeOK
<1>5. NewestWaits' /\ IdleIsSaved' /\ DownInv' /\ LateInv'
  BY <1>1 DEF NewestWaits, IdleIsSaved, DownInv, LateInv
<1>6. OrderInv'
  BY <1>1, <1>2 DEF OrderInv, LateInv
<1>7. CallInv'
  BY <1>2, <1>3 DEF CallInv
<1>8. QED BY <1>4, <1>5, <1>6, <1>7

\* The file is damaged: what it held is lost, and the service does not know.
LEMMA DamageKeeps == ASSUME IInv, FileDamaged PROVE IInv'
<1> USE DEF IInv, FileDamaged, saveVars, dialogVars, workerVars
<1>1. Readable' = Defaults
  BY DEF Readable
<1>2. TypeOK' /\ NewestWaits' /\ IdleIsSaved' /\ DownInv'
  BY DEF TypeOK, NewestWaits, IdleIsSaved, DownInv
<1>3. OrderInv'
  BY <1>1, Order DEF OrderInv, TypeOK
<1>4. CallInv'
  BY <1>1, Order, CallFacts DEF CallInv, TypeOK
<1>5. LateInv'
  BY <1>1, Order DEF LateInv, TypeOK
<1>6. QED BY <1>2, <1>3, <1>4, <1>5

\* The service closes, the application quits.
LEMMA CloseKeeps == ASSUME IInv, Close \/ Closed \/ Quit PROVE IInv'
<1> USE DEF IInv, saveVars, dialogVars, fileVars, workerVars
<1>1. CASE Close \/ Closed
  BY <1>1 DEF Close, Closed, TypeOK, NewestWaits, IdleIsSaved, DownInv, CallInv, LateInv, OrderInv, Readable
<1>2. CASE Quit
  <2> USE <1>2 DEF Quit
  <2>1. /\ call' = NoCall /\ task' = "none" /\ life' = "closing" /\ life # "down"
        /\ UNCHANGED <<config, pending, fresh, status, dialog, form, file, fileState, aside, edits>>
    BY DEF CallerCancelled, Abandon
  <2>2. \/ late' = late
        \/ /\ call \in Calls /\ call # NoCall /\ late' = [call EXCEPT !.state = "running"]
    BY CallFacts DEF CallerCancelled, Abandon, TypeOK, Calls
  <2>3. TypeOK'
    BY <2>1, <2>2 DEF TypeOK, Calls
  <2>4. NewestWaits' /\ IdleIsSaved' /\ DownInv' /\ OrderInv' /\ CallInv'
    BY <2>1 DEF NewestWaits, IdleIsSaved, DownInv, OrderInv, CallInv, Readable
  <2>5. LateInv'
    BY <2>1, <2>2, CallFacts DEF LateInv, CallInv, Calls, NewestWaits, TypeOK, Readable
  <2>6. QED BY <2>3, <2>4, <2>5
<1>3. QED BY <1>1, <1>2

\* The process ends and another starts, with what it can read of the file.
LEMMA ProcessKeeps ==
    ASSUME IInv, ProcessEnds \/ Start \/ StartUnreadable \/ StartCorrupt PROVE IInv'
<1> USE DEF IInv
<1>1. CASE ProcessEnds
  <2> USE <1>1 DEF ProcessEnds, fileVars
  <2>1. Readable' = Readable /\ config' = Readable /\ Readable \in Configs
    BY Order DEF Readable, TypeOK
  <2>2. TypeOK'
    <3>1. fresh' \in BOOLEAN /\ dialog' \in BOOLEAN
      BY Zenon
    <3>2. QED BY <2>1, <3>1, Order DEF TypeOK
  <2>3. NewestWaits' /\ IdleIsSaved' /\ DownInv' /\ CallInv' /\ LateInv'
    BY DEF NewestWaits, IdleIsSaved, DownInv, CallInv, LateInv, Readable
  <2>4. OrderInv'
    <3>1. \A f \in Fields : Readable[f] <= edits
      BY <2>1 DEF OrderInv, Precedes, TypeOK, Configs
    <3>2. QED BY <2>1, <3>1, Order DEF OrderInv
  <2>5. QED BY <2>2, <2>3, <2>4
<1>2. CASE Start \/ StartUnreadable \/ StartCorrupt
  <2> USE <1>2 DEF Start, StartUnreadable, StartCorrupt, saveVars, dialogVars, fileVars, workerVars
  <2>1. life = "down" /\ status = "idle" /\ task = "none" /\ late = NoCall /\ call = NoCall
    BY DEF DownInv, TypeOK
  <2>2. config' = Readable' /\ Readable' = Readable /\ Readable \in Configs
    BY Order DEF Readable, TypeOK
  <2>3. TypeOK'
    BY <2>1, <2>2, Order DEF TypeOK
  <2>4. NewestWaits' /\ IdleIsSaved' /\ DownInv' /\ CallInv' /\ LateInv'
    BY <2>1, <2>2 DEF NewestWaits, IdleIsSaved, DownInv, CallInv, LateInv, Readable
  <2>5. OrderInv'
    <3>1. \A f \in Fields : Readable[f] <= edits
      BY <2>2 DEF OrderInv, Precedes, TypeOK, Configs
    <3>2. QED BY <2>2, <3>1, Order DEF OrderInv
  <2>6. QED BY <2>3, <2>4, <2>5
<1>3. QED BY <1>1, <1>2

\* The inductive invariant holds in every reachable state.
THEOREM Invariance == Spec => []IInv
<1>1. IInv /\ [Next]_vars => IInv'
  <2> SUFFICES ASSUME IInv, [Next]_vars PROVE IInv'
    OBVIOUS
  <2>1. CASE User
    BY <2>1, SetRuntimeKeeps, ApplyKeeps, RetryKeeps, DialogKeeps DEF User
  <2>2. CASE Loop
    BY <2>2, TaskRunsKeeps, AnsweredKeeps, FailureKeeps DEF Loop
  <2>3. CASE Thread
    BY <2>3, ThreadOnlyKeeps, WriteReturnsKeeps, LateWriteKeeps, DamageKeeps DEF Thread
  <2>4. CASE Process
    BY <2>4, CloseKeeps, ProcessKeeps DEF Process
  <2>5. CASE UNCHANGED vars
    BY <2>5 DEF vars, saveVars, dialogVars, fileVars, workerVars, IInv, TypeOK, NewestWaits,
                IdleIsSaved, DownInv, CallInv, LateInv, OrderInv, Readable
  <2>6. QED BY <2>1, <2>2, <2>3, <2>4, <2>5 DEF Next
<1>2. QED BY InitIInv, <1>1, PTL DEF Spec

-------------------------------------------------------------------------------
(* What follows from the invariant.                                        *)

\* The state of the service, the dialog and the file always has its type.
THEOREM TypeCorrect == Spec => []TypeOK
<1>1. IInv => TypeOK
  BY DEF IInv
<1>2. QED BY <1>1, Invariance, PTL

\* Whatever was written, failed or was given up meanwhile, the configuration that
\* waits to be written is the one in force: no change is forgotten by the save task.
THEOREM NewestAlwaysWaits == Spec => []NewestWaits
<1>1. IInv => NewestWaits
  BY DEF IInv
<1>2. QED BY <1>1, Invariance, PTL

\* While the service reports idle, the file holds the configuration in force, unless
\* it was damaged.
THEOREM IdleIsAlwaysSaved == Spec => []IdleIsSaved
<1>1. IInv => IdleIsSaved
  BY DEF IInv
<1>2. QED BY <1>1, Invariance, PTL

-------------------------------------------------------------------------------
(* The service implements DurableEdits.                                    *)

\* The values of the model are naturals, as those of the abstraction are.
LEMMA Abstract == ASSUME TypeOK PROVE config \in [Fields -> Nat] /\ Readable \in [Fields -> Nat]
<1>1. Readable \in Configs /\ config \in Configs
  BY Order DEF TypeOK
<1>2. QED BY <1>1, ConfigAssumption DEF Configs

\* A change from outside the dialog, or of some fields in it, is an edit: it sets what
\* it changes and reverts nothing else.
LEMMA ChangeIsEdit ==
    ASSUME IInv, IInv', edits < MaxEdits, edits' = edits + 1,
           NEW changed \in SUBSET Fields, changed # {},
           config' = [f \in Fields |-> IF f \in changed THEN edits + 1 ELSE config[f]],
           status' = "pending", UNCHANGED fileVars
    PROVE  Durable!Edit
<1>1. config' # config /\ Precedes(config, config')
  BY EditFacts
<1>2. config' \in [Fields -> Nat] /\ config \in [Fields -> Nat]
  BY Abstract, ConfigAssumption DEF IInv, TypeOK, Configs
<1>3. \A f \in Fields : config'[f] >= config[f]
  BY <1>1, <1>2 DEF Precedes
<1>4. (status' = "idle" /\ fileState' = "good") = FALSE /\ Readable' = Readable
  BY DEF fileVars, Readable
<1>5. QED BY <1>1, <1>2, <1>3, <1>4 DEF Durable!Edit

\* A step that leaves the configuration alone and does not take the file back is a
\* save, since idle means saved.
LEMMA OthersSave ==
    ASSUME IInv, IInv', config' = config, Precedes(Readable, Readable')
    PROVE  Durable!Save
<1>1. Readable' \in [Fields -> Nat]
  BY Order, ConfigAssumption DEF IInv, TypeOK, Configs, Readable, Defaults
<1>2. \A f \in Fields : Readable[f] <= Readable'[f] /\ Readable'[f] <= config[f]
  BY DEF IInv, OrderInv, Precedes
<1>3. status' = "idle" /\ fileState' = "good" => Readable' = config
  BY DEF IInv, IdleIsSaved, Readable
<1>4. (status' = "idle" /\ fileState' = "good") \in BOOLEAN
  OBVIOUS
<1>5. QED BY <1>1, <1>2, <1>3, <1>4 DEF Durable!Save

\* Every step is a step of the abstraction.
LEMMA StepImplements == ASSUME IInv, IInv', [Next]_vars PROVE [Durable!Next]_(Durable!vars)
<1>1. Readable \in Configs /\ config \in Configs /\ Precedes(Readable, Readable)
  BY Order DEF IInv, TypeOK
<1>2. ASSUME NEW f \in RuntimeFields, SetRuntime(f) PROVE Durable!Next
  <2>1. config' = [g \in Fields |-> IF g \in {f} THEN edits + 1 ELSE config[g]]
    BY <1>1, <1>2, ConfigAssumption DEF SetRuntime, Configs
  <2>2. {f} \in SUBSET Fields /\ {f} # {}
    BY ConfigAssumption
  <2>3. Durable!Edit
    BY <1>2, <2>1, <2>2, ChangeIsEdit DEF SetRuntime, SchedulePersist
  <2>4. QED BY <2>3 DEF Durable!Next
<1>3. ASSUME NEW changed \in SUBSET Fields, ApplySettings(changed) PROVE Durable!Next
  <2>1. Durable!Edit
    BY <1>3, ChangeIsEdit DEF ApplySettings, Merged, SchedulePersist
  <2>2. QED BY <2>1 DEF Durable!Next
<1>4. CASE WriteReturns
  <2>1. Precedes(Readable, Readable')
    BY <1>4, CallFacts DEF WriteReturns, CallReturns, Saved, Readable, IInv, CallInv, TypeOK
  <2>2. QED BY <1>4, <2>1, OthersSave DEF WriteReturns, Durable!Next
<1>5. CASE LateWriteEnds
  <2>1. Precedes(Readable, Readable')
    BY <1>1, <1>5 DEF LateWriteEnds, LateEnds, Saved, Readable, IInv, LateInv
  <2>2. QED BY <1>5, <2>1, OthersSave DEF LateWriteEnds, Durable!Next
<1>6. CASE FileDamaged
  <2>1. Readable' = [f \in Fields |-> 0] /\ config' = config
    BY <1>6 DEF FileDamaged, Readable, Defaults
  <2>2. (status' = "idle" /\ fileState' = "good") = FALSE
    BY <1>6 DEF FileDamaged
  <2>3. QED BY <2>1, <2>2 DEF Durable!Next, Durable!Lose
<1>7. CASE ProcessEnds \/ Start \/ StartUnreadable \/ StartCorrupt
  <2>1. config' = Readable /\ Readable' = Readable
    BY <1>7 DEF ProcessEnds, Start, StartUnreadable, StartCorrupt, Readable, fileVars
  <2>2. (status' = "idle" /\ fileState' = "good") \in BOOLEAN
    OBVIOUS
  <2>3. QED BY <2>1, <2>2 DEF Durable!Next, Durable!End
<1>8. CASE config' = config /\ Readable' = Readable
  BY <1>1, <1>8, OthersSave DEF Durable!Next
<1>9. \/ \E f \in RuntimeFields : SetRuntime(f)
      \/ \E changed \in SUBSET Fields : ApplySettings(changed)
      \/ WriteReturns \/ LateWriteEnds \/ FileDamaged
      \/ ProcessEnds \/ Start \/ StartUnreadable \/ StartCorrupt
      \/ config' = config /\ Readable' = Readable
  BY DEF Next, User, Loop, Thread, Process, RetryPersistence, OpenSettings, CloseSettings, TaskRuns,
         Answered, WriteFailed, WriteTimedOut, WriteStarts, WriteRaises, Close, Closed, Quit, vars,
         fileVars, Readable
<1>10. QED BY <1>2, <1>3, <1>4, <1>5, <1>6, <1>7, <1>8, <1>9

\* The service keeps edits durably: an Apply reverts nothing, the file never goes back,
\* nothing it holds is lost until it is damaged, and idle means saved.
THEOREM Implements == Spec => EditsAreDurable
<1>1. Init => Durable!Init
  <2> SUFFICES ASSUME Init PROVE Durable!Init
    OBVIOUS
  <2>1. config = [f \in Fields |-> 0] /\ Readable = [f \in Fields |-> 0]
    BY DEF Init, Defaults, Readable
  <2>2. (status = "idle" /\ fileState = "good") = TRUE
    BY DEF Init
  <2>3. QED BY <2>1, <2>2 DEF Durable!Init
<1>2. QED
  BY <1>1, StepImplements, Invariance, PTL DEF Spec, EditsAreDurable, Durable!Spec
===============================================================================
