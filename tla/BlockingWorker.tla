----------------------------- MODULE BlockingWorker -----------------------------
(***************************************************************************)
(* The one-thread worker of src/kotonoha/async_worker.py, as its owner     *)
(* sees it.  An owner awaits one call at a time.  A call is queued until   *)
(* the thread takes it, then runs until it returns or raises; its caller   *)
(* polls the result.  A caller whose deadline passes, or that is           *)
(* cancelled, stops waiting: a queued call is withdrawn, a running one     *)
(* keeps the thread until it ends, and nobody learns how it ended.         *)
(*                                                                         *)
(* What a call does to the world is for the module that extends this one.  *)
(***************************************************************************)

CONSTANT NoJob      \* the job of no call

VARIABLES
    call,           \* the awaited call: its state and its job
    late            \* the call that still runs although nobody awaits it

CallStates == {"none", "queued", "running", "returned", "raised"}

NoCall == [state |-> "none", job |-> NoJob]

Queued(job) == [state |-> "queued", job |-> job]

\* Mutant: a worker with more than one thread.
CallStartsBesideLate ==
    /\ call.state = "queued"
    /\ call' = [call EXCEPT !.state = "running"]
    /\ UNCHANGED late

\* The thread takes the queued call when no earlier one occupies it.
CallStarts ==
    /\ call.state = "queued" /\ late = NoCall
    /\ call' = [call EXCEPT !.state = "running"]
    /\ UNCHANGED late

CallReturns ==
    /\ call.state = "running"
    /\ call' = [call EXCEPT !.state = "returned"]
    /\ UNCHANGED late

CallRaises ==
    /\ call.state = "running"
    /\ call' = [call EXCEPT !.state = "raised"]
    /\ UNCHANGED late

\* The abandoned call ends, in either way.
LateEnds ==
    /\ late # NoCall
    /\ late' = NoCall
    /\ UNCHANGED call

\* The caller stops waiting: a queued call is withdrawn, a running one stays.
Abandon ==
    /\ call' = NoCall
    /\ late' = IF call.state = "running" THEN call ELSE late

\* Mutant: only a queued call has a deadline.
DeadlinePassesInQueue == call.state = "queued" /\ Abandon

\* The deadline is looked at only while the call is not done.
DeadlinePasses == call.state \in {"queued", "running"} /\ Abandon

\* Cancelling the caller withdraws nothing: the call runs on unless the
\* worker is closed before the thread takes it.
CallerCancelled ==
    \/ Abandon
    \/ /\ call.state = "queued" /\ late = NoCall
       /\ call' = NoCall
       /\ late' = [call EXCEPT !.state = "running"]
===============================================================================
