---------------------------- MODULE ConfigPersistence ----------------------------
(***************************************************************************)
(* The owner of the configuration (src/kotonoha/app/config_service.py)     *)
(* with the Settings dialog that edits a copy of it, its worker, and the   *)
(* file (src/kotonoha/config/store.py).  Every save writes the whole       *)
(* configuration; a newer copy replaces the one that waits.                *)
(*                                                                         *)
(* The value of a field is the number of the edit that set it, 0 being the *)
(* default: two edits never look the same, as two copies never are one     *)
(* object.                                                                 *)
(***************************************************************************)
EXTENDS BlockingWorker, Integers

CONSTANTS
    Fields,         \* the settings
    RuntimeFields,  \* those also changed outside the dialog: passthrough, position
    MaxEdits        \* bound on the edits made

ASSUME ConfigAssumption == MaxEdits \in Nat /\ RuntimeFields \subseteq Fields

VARIABLES
    config,         \* _config
    pending,        \* _pending_config, NoJob for none
    fresh,          \* it is a newer copy than the one being written
    status,         \* _persistence_status
    task,           \* _save_task: none, due (not run yet) or saving
    form,           \* the values the dialog last applied or was opened with
    dialog,         \* the dialog is open
    file,           \* the settings in the file
    fileState,      \* whether the file can be read, and is JSON
    aside,          \* the settings in the file set aside as corrupt
    life,           \* the service and its process
    edits           \* the edits made so far

workerVars == <<call, late>>
saveVars == <<pending, fresh, status, task>>
dialogVars == <<form, dialog>>
fileVars == <<file, fileState, aside>>
vars == <<config, saveVars, dialogVars, fileVars, life, edits, workerVars>>

Configs == [Fields -> 0 .. MaxEdits]
Defaults == [f \in Fields |-> 0]

\* What the file holds of the user's settings.
Readable == IF fileState = "good" THEN file ELSE Defaults

Init ==
    /\ config = Defaults /\ form = Defaults /\ file = Defaults /\ aside = Defaults
    /\ pending = NoJob /\ fresh = FALSE /\ status = "idle" /\ task = "none"
    /\ dialog = FALSE /\ fileState = "good" /\ life = "open" /\ edits = 0
    /\ call = NoCall /\ late = NoCall

-------------------------------------------------------------------------------
(* The service.                                                            *)

\* A copy of the configuration waits to be written, and the task runs.
SchedulePersist(current) ==
    /\ pending' = current /\ fresh' = TRUE
    /\ status' = "pending"
    /\ task' = IF task = "none" THEN "due" ELSE task

\* A drag or the tray changes a setting outside the dialog.
SetRuntime(f) ==
    /\ life = "open" /\ edits < MaxEdits
    /\ edits' = edits + 1
    /\ config' = [config EXCEPT ![f] = edits + 1]
    /\ SchedulePersist(config')
    /\ UNCHANGED <<dialogVars, fileVars, life, workerVars>>

\* Mutant: the dialog's values replace all settings.
MergedWithForm(changed, value) == [f \in Fields |-> IF f \in changed THEN value ELSE form[f]]

\* Only the fields changed in the dialog are taken from it.
Merged(changed, value) == [f \in Fields |-> IF f \in changed THEN value ELSE config[f]]

\* What the dialog takes as applied.
Submitted(changed, value) == [f \in Fields |-> IF f \in changed THEN value ELSE form[f]]

\* Apply with some fields changed since the dialog was opened or last applied,
\* by hand or by resetting a page; with none nothing happens.
ApplySettings(changed) ==
    /\ life = "open" /\ dialog /\ edits < MaxEdits /\ changed # {}
    /\ edits' = edits + 1
    /\ config' = Merged(changed, edits + 1)
    /\ form' = Submitted(changed, edits + 1)
    /\ SchedulePersist(config')
    /\ UNCHANGED <<dialog, fileVars, life, workerVars>>

RetryPersistence ==
    /\ life = "open"
    /\ SchedulePersist(config)
    /\ UNCHANGED <<config, dialogVars, fileVars, life, edits, workerVars>>

OpenSettings ==
    /\ life = "open" /\ ~dialog
    /\ dialog' = TRUE /\ form' = config
    /\ UNCHANGED <<config, saveVars, fileVars, life, edits, workerVars>>

CloseSettings ==
    /\ dialog
    /\ dialog' = FALSE /\ form' = Defaults
    /\ UNCHANGED <<config, saveVars, fileVars, life, edits, workerVars>>

-------------------------------------------------------------------------------
(* The save task.                                                          *)

TaskRuns ==
    /\ task = "due"
    /\ call' = Queued(pending) /\ fresh' = FALSE /\ task' = "saving"
    /\ UNCHANGED <<config, pending, status, dialogVars, fileVars, life, edits, late>>

\* A copy was written: it was the latest, or the latest goes next.
Answered ==
    /\ call.state = "returned"
    /\ IF fresh
       THEN /\ call' = Queued(pending) /\ fresh' = FALSE
            /\ UNCHANGED <<pending, status, task>>
       ELSE /\ pending' = NoJob /\ status' = "idle" /\ task' = "none" /\ call' = NoCall
            /\ UNCHANGED fresh
    /\ UNCHANGED <<config, dialogVars, fileVars, life, edits, late>>

\* A failed write ends the task; the copy that waits stays.
GiveUp == status' = "failed" /\ task' = "none"

WriteFailed ==
    /\ call.state = "raised"
    /\ call' = NoCall
    /\ GiveUp
    /\ UNCHANGED <<config, pending, fresh, dialogVars, fileVars, life, edits, late>>

WriteTimedOut ==
    /\ DeadlinePasses
    /\ GiveUp
    /\ UNCHANGED <<config, pending, fresh, dialogVars, fileVars, life, edits>>

-------------------------------------------------------------------------------
(* The worker's thread and the file, which a save replaces as a whole.     *)

Saved(copy) == file' = copy /\ fileState' = "good"

WriteStarts ==
    /\ CallStarts
    /\ UNCHANGED <<config, saveVars, dialogVars, fileVars, life, edits>>

WriteReturns ==
    /\ CallReturns
    /\ Saved(call.job)
    /\ UNCHANGED <<config, saveVars, dialogVars, aside, life, edits>>

WriteRaises ==
    /\ CallRaises
    /\ UNCHANGED <<config, saveVars, dialogVars, fileVars, life, edits>>

LateWriteEnds ==
    /\ LateEnds
    /\ Saved(late.job) \/ UNCHANGED <<file, fileState>>
    /\ UNCHANGED <<config, saveVars, dialogVars, aside, life, edits>>

\* The file becomes unreadable, or its text something else than JSON.
FileDamaged ==
    /\ fileState = "good"
    /\ fileState' \in {"unreadable", "corrupt"}
    /\ UNCHANGED <<config, saveVars, dialogVars, file, aside, life, edits, workerVars>>

-------------------------------------------------------------------------------
(* The end of the service and of the process.                              *)

Close ==
    /\ life = "open"
    /\ life' = "closing"
    /\ UNCHANGED <<config, saveVars, dialogVars, fileVars, edits, workerVars>>

Closed ==
    /\ life = "closing" /\ task = "none"
    /\ life' = "closed"
    /\ UNCHANGED <<config, saveVars, dialogVars, fileVars, edits, workerVars>>

\* The application quits, by the user or for a restart: every pending task is
\* cancelled before the service is closed.  A task just created takes its
\* first turn before that.
Quit ==
    /\ life \in {"open", "closing"} /\ task # "due"
    /\ life' = "closing"
    /\ task' = "none"
    /\ CallerCancelled
    /\ UNCHANGED <<config, pending, fresh, status, dialogVars, fileVars, edits>>

\* The process ends, in order or not, and with it the thread.
ProcessEnds ==
    /\ life # "down"
    /\ life' = "down"
    /\ config' = Readable /\ form' = Defaults
    /\ pending' = NoJob /\ fresh' = FALSE /\ status' = "idle" /\ task' = "none"
    /\ dialog' = FALSE
    /\ call' = NoCall /\ late' = NoCall
    /\ UNCHANGED <<fileVars, edits>>

\* A new process loads the file.
Start ==
    /\ life = "down" /\ fileState = "good"
    /\ life' = "open"
    /\ config' = file
    /\ UNCHANGED <<saveVars, dialogVars, fileVars, edits, workerVars>>

\* It cannot read the file and starts with the defaults.
StartUnreadable ==
    /\ life = "down" /\ fileState = "unreadable"
    /\ life' = "open"
    /\ config' = Defaults
    /\ UNCHANGED <<saveVars, dialogVars, fileVars, edits, workerVars>>

\* The file is not JSON: it is set aside if it can be, and the defaults serve.
StartCorrupt ==
    /\ life = "down" /\ fileState = "corrupt"
    /\ life' = "open"
    /\ config' = Defaults
    /\ \/ aside' = file /\ file' = Defaults /\ fileState' = "good"
       \/ UNCHANGED fileVars
    /\ UNCHANGED <<saveVars, dialogVars, edits, workerVars>>

-------------------------------------------------------------------------------
User ==
    \/ RetryPersistence \/ OpenSettings \/ CloseSettings
    \/ \E f \in RuntimeFields : SetRuntime(f)
    \/ \E changed \in SUBSET Fields : ApplySettings(changed)
Loop == TaskRuns \/ Answered \/ WriteFailed \/ WriteTimedOut
Thread == WriteStarts \/ WriteReturns \/ WriteRaises \/ LateWriteEnds \/ FileDamaged
Process == Close \/ Closed \/ Quit \/ ProcessEnds \/ Start \/ StartUnreadable \/ StartCorrupt

Next == User \/ Loop \/ Thread \/ Process

Spec == Init /\ [][Next]_vars

-------------------------------------------------------------------------------
(* Properties.                                                             *)

\* The service keeps edits durably: an Apply reverts no change made outside
\* the dialog, the file never returns to an older setting, not even when a
\* write its caller gave up ends late, and idle means saved, until the file is
\* damaged from outside.
Durable == INSTANCE DurableEdits WITH
               Keys <- Fields, Fragile <- TRUE, made <- config, saved <- Readable,
               settled <- status = "idle" /\ fileState = "good"
EditsAreDurable == Durable!Spec

===============================================================================
