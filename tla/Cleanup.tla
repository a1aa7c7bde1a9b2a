------------------------------- MODULE Cleanup -------------------------------
(***************************************************************************)
(* What happens to the checkpoint thread of a chat session that is deleted. *)
(*                                                                         *)
(* The API deletes the session in one transaction, publishes a CANCEL_RUN  *)
(* control for its active run and enqueues a cleanup task (chat.service.ts, *)
(* agent-runtime-cleanup-tasks.service.ts).  A timer claims tasks that are *)
(* due, or whose lease has expired, and publishes a                        *)
(* DELETE_CHECKPOINT_THREAD control.  The agent handles controls one at a  *)
(* time, deletes the thread under the lock its runs hold, and publishes a  *)
(* result, which a consumer in the API applies to the task.  Independently, *)
(* the agent's sweep deletes threads nobody wrote to for days              *)
(* (checkpoint-retention.ts).                                              *)
(*                                                                         *)
(* There is one session, with one thread and at most one run at a time.    *)
(* Dates are abstracted to whether they have passed.  A call to Redis or to *)
(* the checkpoint store may fail, a publication also after it was made.    *)
(***************************************************************************)
EXTENDS Integers, Sequences

CONSTANTS MaxAttempts,   \* MAX_CLEANUP_TASK_ATTEMPTS
          MaxErrors,     \* bound on failing calls
          MaxCrashes     \* bound on crashes of the API and of the agent

ASSUME CleanupAssumption ==
    /\ MaxAttempts \in Nat \ {0}
    /\ MaxErrors \in Nat /\ MaxCrashes \in Nat

VARIABLES session,    \* "live" or "deleted"
          request,    \* the request that deletes it: its next step
          task,       \* the row of the session in AgentRuntimeCleanupTask
          dispatcher, \* the task dispatchTask has claimed: its next step
          controls,   \* the control stream, from its first unacknowledged entry
          agent,      \* the next step of the handler of Head(controls)
          results,    \* the result stream, from its first unacknowledged entry
          consumer,   \* whether consumeControlResults is still in its loop
          checkpoint, \* the thread's last checkpoint: "none", "fresh" or "old"
          run,        \* the run of the session
          aborted,    \* whether that run's AbortController was signalled
          lock,       \* the holder of the thread's lock
          sweep,      \* whether the sweep has listed the thread as expired
          cancelLost, \* auxiliary: the CANCEL_RUN control was not published
          late,       \* auxiliary: a run entered the thread of the deleted session
          overran,    \* auxiliary: a lock expired under its holder
          errors, crashes

apiVars == <<request, dispatcher, consumer>>
agentVars == <<agent, run, aborted, sweep>>
auxVars == <<cancelLost, late, overran>>
cleanupVars == <<session, task, controls, results, checkpoint, lock,
                 apiVars, agentVars, auxVars, errors, crashes>>

Cancel == 0
Controls == Cancel .. MaxAttempts   \* a delete control is named by its attempt

CleanupTypeOK ==
    /\ session \in {"live", "deleted"}
    /\ request \in {"none", "cancel", "enqueue", "done"}
    /\ task \in [status : {"none", "PENDING", "DISPATCHED", "FAILED", "COMPLETED"},
                 attempts : 0 .. MaxAttempts,
                 elapsed : BOOLEAN]  \* nextAttemptAt, or the lease, has passed
    /\ dispatcher \in [step : {"idle", "publish", "fail"}, control : Controls]
    /\ controls \in Seq(Controls)
    /\ agent \in {"idle", "delete", "completed", "unlock", "abandon", "failed", "ack"}
    /\ results \in Seq([control : Controls, ok : BOOLEAN])
    /\ consumer \in {"waiting", "applied", "dead"}
    /\ checkpoint \in {"none", "fresh", "old"}
    /\ run \in {"idle", "bootstrapped", "running"}
    /\ lock \in {"free", "run", "cleanup", "orphan"}
    /\ sweep \in {"idle", "listed"}
    /\ {aborted, cancelLost, late, overran} \subseteq BOOLEAN
    /\ errors \in 0 .. MaxErrors /\ crashes \in 0 .. MaxCrashes

Idle == [step |-> "idle", control |-> Cancel]

CleanupInit ==
    /\ session = "live" /\ request = "none"
    /\ task = [status |-> "none", attempts |-> 0, elapsed |-> FALSE]
    /\ dispatcher = Idle
    /\ controls = <<>> /\ agent = "idle"
    /\ results = <<>> /\ consumer = "waiting"
    /\ checkpoint = "none"
    /\ run = "idle" /\ aborted = FALSE
    /\ lock = "free" /\ sweep = "idle"
    /\ cancelLost = FALSE /\ late = FALSE /\ overran = FALSE
    /\ errors = 0 /\ crashes = 0

\* A call fails.
Fails == errors < MaxErrors /\ errors' = errors + 1

\* XADD to a stream: made, reported as failed after it was made, or not made.
\* The outcome is what the caller sees.
Published(stream, entry, outcome) ==
    \/ outcome = "made" /\ stream' = Append(stream, entry) /\ UNCHANGED errors
    \/ outcome = "failed" /\ stream' \in {stream, Append(stream, entry)} /\ Fails

Free(holder) == lock' = IF lock = holder THEN "free" ELSE lock

-----------------------------------------------------------------------------
(* The request that deletes the session.                                   *)

\* Mutant: the number of deleted rows is not looked at.
DeleteSessionUnchecked ==
    /\ session = "live" /\ request = "none"
    /\ session' \in {"live", "deleted"}
    /\ request' = IF run # "idle" THEN "cancel" ELSE "enqueue"
    /\ UNCHANGED <<task, dispatcher, controls, agent, results, consumer, checkpoint,
                   run, aborted, lock, sweep, auxVars, errors, crashes>>

\* The transaction of deleteSession, which finds the session only once.
DeleteSession ==
    /\ session = "live"
    /\ session' = "deleted"
    /\ request' = IF run # "idle" THEN "cancel" ELSE "enqueue"
    /\ UNCHANGED <<task, dispatcher, controls, agent, results, consumer, checkpoint,
                   run, aborted, lock, sweep, auxVars, errors, crashes>>

\* The error of the CANCEL_RUN publication is only logged.
CancelDeletedRun ==
    /\ request = "cancel"
    /\ request' = "enqueue"
    /\ \E outcome \in {"made", "failed"} : Published(controls, Cancel, outcome)
    /\ cancelLost' = (controls' = controls)
    /\ UNCHANGED <<session, task, dispatcher, agent, results, consumer, checkpoint,
                   run, aborted, lock, sweep, late, overran, crashes>>

EnqueuedTask == [status |-> "PENDING", attempts |-> 0, elapsed |-> TRUE]

EnqueueChatSessionCheckpointCleanup ==
    /\ request = "enqueue"
    /\ request' = "done"
    /\ \/ task' = EnqueuedTask /\ UNCHANGED errors
       \/ Fails /\ UNCHANGED task
    /\ UNCHANGED <<session, dispatcher, controls, agent, results, consumer,
                   checkpoint, run, aborted, lock, sweep, auxVars, crashes>>

-----------------------------------------------------------------------------
(* dispatchPendingTasks, which the flag `dispatching` keeps from running   *)
(* twice.                                                                  *)

\* Mutant: a lease is never looked at.
DispatchableUnclaimed ==
    task.status \in {"PENDING", "FAILED"} /\ task.elapsed /\ task.attempts < MaxAttempts

Dispatchable ==
    /\ task.status \in {"PENDING", "FAILED", "DISPATCHED"}
    /\ task.elapsed
    /\ task.attempts < MaxAttempts

\* The updateMany of dispatchTask and its fresh control id.
ClaimTask ==
    /\ dispatcher.step = "idle" /\ Dispatchable
    /\ task' = [status |-> "DISPATCHED", attempts |-> task.attempts + 1, elapsed |-> FALSE]
    /\ dispatcher' = [step |-> "publish", control |-> task.attempts + 1]
    /\ UNCHANGED <<session, request, controls, agent, results, consumer, checkpoint,
                   run, aborted, lock, sweep, auxVars, errors, crashes>>

PublishDeleteControl ==
    /\ dispatcher.step = "publish"
    /\ \E outcome \in {"made", "failed"} :
          /\ Published(controls, dispatcher.control, outcome)
          /\ dispatcher' = IF outcome = "made" THEN Idle
                           ELSE [dispatcher EXCEPT !.step = "fail"]
    /\ UNCHANGED <<session, request, task, agent, results, consumer, checkpoint,
                   run, aborted, lock, sweep, auxVars, crashes>>

\* Mutant: the status of the row is not compared.
AwaitsAnyStatus(control) == task.attempts = control

\* The controlId of the row is that of the last claim.
Awaits(control) == task.status = "DISPATCHED" /\ task.attempts = control

\* markTaskFailed: the next attempt is put off.
TaskFailed(control) ==
    IF Awaits(control) THEN [task EXCEPT !.status = "FAILED", !.elapsed = FALSE] ELSE task

MarkPublicationFailed ==
    /\ dispatcher.step = "fail"
    /\ dispatcher' = Idle
    /\ \/ task' = TaskFailed(dispatcher.control) /\ UNCHANGED errors
       \/ Fails /\ UNCHANGED task
    /\ UNCHANGED <<session, request, controls, agent, results, consumer, checkpoint,
                   run, aborted, lock, sweep, auxVars, crashes>>

\* The backoff of a failed task, or the lease of a dispatched one, runs out.
TaskTimePasses ==
    /\ task.status \in {"FAILED", "DISPATCHED"} /\ ~task.elapsed
    /\ task' = [task EXCEPT !.elapsed = TRUE]
    /\ UNCHANGED <<session, controls, results, checkpoint, lock, apiVars, agentVars,
                   auxVars, errors, crashes>>

-----------------------------------------------------------------------------
(* consumeControlResults.  Only its reads are caught: an error while a     *)
(* result is applied or acknowledged ends the loop.                        *)

TaskCompleted(control) ==
    IF Awaits(control) THEN [task EXCEPT !.status = "COMPLETED", !.elapsed = FALSE] ELSE task

\* The failed result is looked up before the row is updated, on the condition
\* that the update repeats: one step.
ApplyControlResult ==
    /\ consumer = "waiting" /\ results # <<>>
    /\ \/ /\ consumer' = "applied"
          /\ task' = IF Head(results).ok THEN TaskCompleted(Head(results).control)
                     ELSE TaskFailed(Head(results).control)
          /\ UNCHANGED errors
       \/ consumer' = "dead" /\ Fails /\ UNCHANGED task
    /\ UNCHANGED <<session, request, dispatcher, controls, agent, results,
                   checkpoint, run, aborted, lock, sweep, auxVars, crashes>>

AckControlResult ==
    /\ consumer = "applied"
    /\ \/ consumer' = "waiting" /\ results' = Tail(results) /\ UNCHANGED errors
       \/ consumer' = "dead" /\ Fails /\ UNCHANGED results
    /\ UNCHANGED <<session, request, task, dispatcher, controls, agent, checkpoint,
                   run, aborted, lock, sweep, auxVars, crashes>>

-----------------------------------------------------------------------------
(* The agent's control loop.  What a handler leaves unacknowledged is read *)
(* again, before anything new.                                             *)

HandleCancel ==
    /\ agent = "idle" /\ controls # <<>> /\ Head(controls) = Cancel
    /\ aborted' = (run # "idle")
    /\ agent' = "ack"
    /\ UNCHANGED <<session, request, task, dispatcher, controls, results, consumer,
                   checkpoint, run, lock, sweep, auxVars, errors, crashes>>

\* Mutant: the thread is deleted without its lock.
TryDeleteUnlocked ==
    /\ agent = "idle" /\ controls # <<>> /\ Head(controls) # Cancel
    /\ agent' = "delete"
    /\ UNCHANGED <<session, request, task, dispatcher, controls, results, consumer, lock,
                   checkpoint, run, aborted, sweep, auxVars, errors, crashes>>

\* handleControl asks for the lock of the thread once.
TryDelete ==
    /\ agent = "idle" /\ controls # <<>> /\ Head(controls) # Cancel
    /\ \/ lock = "free" /\ lock' = "cleanup" /\ agent' = "delete" /\ UNCHANGED errors
       \/ lock # "free" /\ agent' = "failed" /\ UNCHANGED <<lock, errors>>
       \/ /\ Fails /\ agent' = "failed"
          /\ lock' \in {lock} \cup IF lock = "free" THEN {"orphan"} ELSE {}
    /\ UNCHANGED <<session, request, task, dispatcher, controls, results, consumer,
                   checkpoint, run, aborted, sweep, auxVars, crashes>>

DeleteThread ==
    /\ agent = "delete"
    /\ \/ checkpoint' = "none" /\ agent' = "completed" /\ UNCHANGED errors
       \/ Fails /\ agent' = "abandon" /\ UNCHANGED checkpoint
    /\ UNCHANGED <<session, request, task, dispatcher, controls, results, consumer,
                   run, aborted, lock, sweep, auxVars, crashes>>

PublishCheckpointDeleteCompleted ==
    /\ agent = "completed"
    /\ \E outcome \in {"made", "failed"} :
          /\ Published(results, [control |-> Head(controls), ok |-> TRUE], outcome)
          /\ agent' = IF outcome = "made" THEN "unlock" ELSE "abandon"
    /\ UNCHANGED <<session, request, task, dispatcher, controls, consumer,
                   checkpoint, run, aborted, lock, sweep, auxVars, crashes>>

\* The release of tryRunExclusive: its own error counts when the task had none.
ReleaseLock ==
    /\ agent \in {"unlock", "abandon"}
    /\ \/ /\ Free("cleanup")
          /\ agent' = IF agent = "unlock" THEN "ack" ELSE "failed"
          /\ UNCHANGED errors
       \/ Fails /\ agent' = "failed" /\ lock' = IF lock = "cleanup" THEN "orphan" ELSE lock
    /\ UNCHANGED <<session, request, task, dispatcher, controls, results, consumer,
                   checkpoint, run, aborted, sweep, auxVars, crashes>>

\* When this fails too, the handler throws and the control is delivered again.
PublishCheckpointDeleteFailed ==
    /\ agent = "failed"
    /\ \E outcome \in {"made", "failed"} :
          /\ Published(results, [control |-> Head(controls), ok |-> FALSE], outcome)
          /\ agent' = IF outcome = "made" THEN "ack" ELSE "idle"
    /\ UNCHANGED <<session, request, task, dispatcher, controls, consumer,
                   checkpoint, run, aborted, lock, sweep, auxVars, crashes>>

AckControl ==
    /\ agent = "ack"
    /\ agent' = "idle"
    /\ \/ controls' = Tail(controls) /\ UNCHANGED errors
       \/ Fails /\ UNCHANGED controls
    /\ UNCHANGED <<session, request, task, dispatcher, results, consumer,
                   checkpoint, run, aborted, lock, sweep, auxVars, crashes>>

-----------------------------------------------------------------------------
(* The run.  It gets its bootstrap from the API, which refuses one for a   *)
(* session that is gone, and then the thread's lock; a signal raised before *)
(* stops it from writing.                                                  *)

BootstrapRun ==
    /\ session = "live" /\ run = "idle"
    /\ run' = "bootstrapped" /\ aborted' = FALSE
    /\ UNCHANGED <<session, request, task, dispatcher, controls, agent, results,
                   consumer, checkpoint, lock, sweep, auxVars, errors, crashes>>

LockThread ==
    /\ run = "bootstrapped"
    /\ IF lock = "free" THEN lock' = "run" /\ run' = "running"
       ELSE run' = "idle" /\ UNCHANGED lock
    /\ late' = (late \/ (lock = "free" /\ session = "deleted"))
    /\ UNCHANGED <<session, request, task, dispatcher, controls, agent, results,
                   consumer, checkpoint, aborted, sweep, cancelLost, overran,
                   errors, crashes>>

WriteCheckpoint ==
    /\ run = "running" /\ ~aborted
    /\ checkpoint' = "fresh"
    /\ UNCHANGED <<session, request, task, dispatcher, controls, agent, results,
                   consumer, run, aborted, lock, sweep, auxVars, errors, crashes>>

EndRun ==
    /\ run = "running"
    /\ run' = "idle" /\ Free("run")
    /\ UNCHANGED <<session, request, task, dispatcher, controls, agent, results,
                   consumer, checkpoint, aborted, sweep, auxVars, errors, crashes>>

\* The lock is never renewed: it lives for its TTL.
LockExpires ==
    /\ lock # "free"
    /\ lock' = "free"
    /\ overran' = (overran \/ lock # "orphan")
    /\ UNCHANGED <<session, task, controls, results, checkpoint, apiVars, agentVars,
                   cancelLost, late, errors, crashes>>

-----------------------------------------------------------------------------
(* sweepExpiredCheckpointThreads, which does not ask for the thread's lock. *)

\* The retention period passes for a thread no run is writing to.
CheckpointAges ==
    /\ checkpoint = "fresh" /\ run # "running" /\ sweep = "idle"
    /\ checkpoint' = "old"
    /\ UNCHANGED <<session, task, controls, results, lock, apiVars, agentVars,
                   auxVars, errors, crashes>>

\* Mutant: the comparison with the cutoff is the wrong way round.
ListRecentThread ==
    /\ sweep = "idle" /\ checkpoint = "fresh"
    /\ sweep' = "listed"
    /\ UNCHANGED <<session, task, controls, results, checkpoint, lock, apiVars, agent,
                   run, aborted, auxVars, errors, crashes>>

ListExpiredThread ==
    /\ sweep = "idle" /\ checkpoint = "old"
    /\ sweep' = "listed"
    /\ UNCHANGED <<session, task, controls, results, checkpoint, lock, apiVars,
                   agent, run, aborted, auxVars, errors, crashes>>

DeleteExpiredThread ==
    /\ sweep = "listed"
    /\ sweep' = "idle"
    /\ \/ checkpoint' = "none" /\ UNCHANGED errors
       \/ Fails /\ UNCHANGED checkpoint
    /\ UNCHANGED <<session, task, controls, results, lock, apiVars, agent, run,
                   aborted, auxVars, crashes>>

-----------------------------------------------------------------------------
Crash == crashes < MaxCrashes /\ crashes' = crashes + 1

ApiRestarts ==
    /\ Crash
    /\ request' = IF request = "none" THEN "none" ELSE "done"
    /\ cancelLost' = (cancelLost \/ request = "cancel")
    /\ dispatcher' = Idle /\ consumer' = "waiting"
    /\ UNCHANGED <<session, task, controls, results, checkpoint, lock, agentVars,
                   late, overran, errors>>

\* The run's command is delivered again, and bootstrapped anew; the locks stay.
AgentRestarts ==
    /\ Crash
    /\ agent' = "idle" /\ run' = "idle" /\ aborted' = FALSE /\ sweep' = "idle"
    /\ lock' = IF lock = "free" THEN "free" ELSE "orphan"
    /\ UNCHANGED <<session, task, controls, results, checkpoint, apiVars, auxVars,
                   errors>>

DispatcherStep == ClaimTask \/ PublishDeleteControl \/ MarkPublicationFailed
ConsumerStep == ApplyControlResult \/ AckControlResult
ControlStep ==
    \/ HandleCancel \/ TryDelete \/ DeleteThread \/ PublishCheckpointDeleteCompleted
    \/ ReleaseLock \/ PublishCheckpointDeleteFailed \/ AckControl
SweepStep == ListExpiredThread \/ DeleteExpiredThread

CleanupNext ==
    \/ DeleteSession \/ CancelDeletedRun \/ EnqueueChatSessionCheckpointCleanup
    \/ DispatcherStep \/ TaskTimePasses \/ ConsumerStep \/ ControlStep
    \/ BootstrapRun \/ LockThread \/ WriteCheckpoint \/ EndRun \/ LockExpires
    \/ CheckpointAges \/ SweepStep
    \/ ApiRestarts \/ AgentRestarts

\* The timers of the API and of the agent fire, their loops go on, a run ends
\* and time passes.  Nothing makes a process crash or restart.
Fairness ==
    /\ WF_cleanupVars(DispatcherStep) /\ WF_cleanupVars(TaskTimePasses)
    /\ WF_cleanupVars(ConsumerStep) /\ WF_cleanupVars(ControlStep)
    /\ WF_cleanupVars(LockThread) /\ WF_cleanupVars(EndRun)
    /\ WF_cleanupVars(LockExpires) /\ WF_cleanupVars(CheckpointAges)
    /\ WF_cleanupVars(SweepStep)

CleanupSpec == CleanupInit /\ [][CleanupNext]_cleanupVars /\ Fairness

-----------------------------------------------------------------------------
(* Properties.                                                             *)

\* A task is COMPLETED only when nothing is left of the thread, whatever was
\* delivered twice, failed or crashed on the way.  The exceptions are a run that
\* was not told to stop and entered the thread afterwards, and an expired lock.
CompletedMeansGone ==
    /\ CleanupTypeOK
    /\ task.status = "COMPLETED" /\ checkpoint # "none" => (cancelLost /\ late) \/ overran

\* Nothing is undone and nothing too much is done: a completed task stays
\* completed, whatever late results of earlier attempts and failures reported for
\* the control that completed it say, and the context of a live session is
\* deleted only by a sweep that had listed it as expired, never by a cleanup.
KeepsWhatCounts ==
    [][/\ task.status = "COMPLETED" => task'.status = "COMPLETED"
       /\ session = "live" /\ checkpoint # "none" /\ checkpoint' = "none"
             => sweep = "listed"]_cleanupVars

\* Every enqueued task is completed or has used up its attempts, although
\* publications fail, results are lost with their consumer and processes crash.
Settles == task.status # "none" ~> task.status = "COMPLETED" \/ task.attempts = MaxAttempts

\* In the end nothing is left of a deleted session, even if its cleanup task was
\* never enqueued, was given up or came too early: the sweep sees to it.
Forgotten == session = "deleted" ~> [](checkpoint = "none")
=============================================================================
