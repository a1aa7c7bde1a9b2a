----------------------------- MODULE AgentWorker -----------------------------
(***************************************************************************)
(* The agent service from the command stream to the event stream: the      *)
(* consumer-group queue (integrations/redis-streams.ts), the command worker *)
(* with its idempotency store (runtime/command.ts), the thread lock        *)
(* (integrations/redis-lock.ts) and the runner (core/runner.ts).           *)
(*                                                                         *)
(* A message of the command stream is handled by one task; each await of   *)
(* the code is a point where the tasks and the control stream interleave.  *)
(* Every call to Redis may fail, and when LostReplies holds, it may fail   *)
(* after Redis has executed it.  There is one agent process, as deployed.  *)
(* When it dies, it restarts under the same consumer name (the process id  *)
(* of the container's only process) and finds its unacknowledged messages  *)
(* again.                                                                  *)
(***************************************************************************)
EXTENDS Integers, Sequences, FiniteSets

CONSTANTS Runs, MaxAttempts, MaxDeltas, MaxEvents, LostReplies,
          Thread,             \* the checkpoint thread of each run
          MaxConcurrentRuns,  \* AGENT_MAX_CONCURRENT_RUNS
          MaxMessages,        \* bound on the command stream
          MaxErrors,          \* bound on failing Redis calls
          MaxCrashes          \* bound on agent crashes

ASSUME WorkerAssumption ==
    /\ MaxConcurrentRuns \in Nat \ {0}
    /\ MaxMessages \in Nat /\ MaxErrors \in Nat /\ MaxCrashes \in Nat

VARIABLES queue,    \* the command stream: the run and key of each message
          task,     \* task[i]: how far message i has been handled, and by whom
          started,  \* keys held by the idempotency store
          active,   \* active[r]: the task activeRuns holds for the run, or None
          lock,     \* lock[t]: the task whose token the lock of the thread holds
          expired,  \* auxiliary: tasks whose lock expired while they held it
          controls, \* runs with an undelivered CANCEL_RUN control
          stopped,  \* runs that had such a control
          events,   \* the event stream of each run
          errors, crashes

vars == <<queue, task, started, active, lock, expired, controls, stopped, events,
          errors, crashes>>

Keys == 0 .. MaxAttempts
Threads == {Thread[r] : r \in Runs}
Messages == 1 .. MaxMessages
None == 0
ReadCount == 10

Waiting == {"none", "new", "pending", "acked"}
Registered == {"start", "bootstrap", "lock", "run", "unlock", "report", "catch",
               "finish"}
Successes == {"completed", "action", "cancelled"}
Results == {"none", "error"} \cup Successes
Tasks == [pc : Waiting \cup Registered \cup {"mark", "held", "submit", "clear", "dead",
                                            "ack"},
          result : Results,        \* what submit returns or throws
          said : {"nothing", "outcome", "failure"},  \* what reached the stream
          aborted : BOOLEAN]       \* the AbortController of the task

WorkerTypeOK ==
    /\ queue \in Seq([run : Runs, key : Keys]) /\ Len(queue) <= MaxMessages
    /\ task \in [Messages -> Tasks]
    /\ started \in [Runs -> SUBSET Keys]
    /\ active \in [Runs -> Messages \cup {None}]
    /\ lock \in [Threads -> Messages \cup {None}]
    /\ expired \subseteq Messages
    /\ controls \subseteq Runs
    /\ stopped \in [Runs -> BOOLEAN]
    /\ events \in [Runs -> Seq({"delta", "completed", "action", "failed", "cancelled"})]
    /\ errors \in 0 .. MaxErrors /\ crashes \in 0 .. MaxCrashes

NoTask == [pc |-> "none", result |-> "none", said |-> "nothing", aborted |-> FALSE]

Init ==
    /\ queue = <<>>
    /\ task = [i \in Messages |-> NoTask]
    /\ started = [r \in Runs |-> {}]
    /\ active = [r \in Runs |-> None]
    /\ lock = [t \in Threads |-> None]
    /\ expired = {}
    /\ controls = {}
    /\ stopped = [r \in Runs |-> FALSE]
    /\ events = [r \in Runs |-> <<>>]
    /\ errors = 0 /\ crashes = 0

RunOf(i) == queue[i].run
KeyOf(i) == queue[i].key
ThreadOf(i) == Thread[RunOf(i)]

Goto(i, pc) == task' = [task EXCEPT ![i].pc = pc]
Set(i, pc, result, said) ==
    task' = [task EXCEPT ![i] = [@ EXCEPT !.pc = pc, !.result = result, !.said = said]]

\* A call to Redis fails.
Fails == errors < MaxErrors /\ errors' = errors + 1

\* XADD to the event stream.
Emit(i, kind) == events' = [events EXCEPT ![RunOf(i)] = Append(@, kind)]

-----------------------------------------------------------------------------
(* The API.                                                                *)

PublishCommand(r, k) ==
    /\ Len(queue) < MaxMessages
    /\ queue' = Append(queue, [run |-> r, key |-> k])
    /\ task' = [task EXCEPT ![Len(queue) + 1].pc = "new"]
    /\ UNCHANGED <<started, active, lock, expired, controls, stopped, events, errors,
                   crashes>>

PublishCancel(r) ==
    /\ controls' = controls \cup {r}
    /\ stopped' = [stopped EXCEPT ![r] = TRUE]
    /\ UNCHANGED <<queue, task, started, active, lock, expired, events, errors, crashes>>

-----------------------------------------------------------------------------
(* The queue: consumeLoop reads the consumer's pending messages first, and *)
(* as many as there are free slots.                                        *)

InFlight == {i \in Messages : task[i].pc \notin Waiting}
Slots == MaxConcurrentRuns - Cardinality(InFlight)
PendingEntries == {i \in Messages : task[i].pc \notin {"none", "new", "acked"}}

\* Mutant: the loop reads new messages only.
RedeliverableNever == {}

\* XREADGROUP with id 0 returns the oldest pending messages, at most one for
\* each slot, those in flight included; the reader skips the latter.
Redeliverable ==
    {i \in PendingEntries :
        /\ task[i].pc = "pending"
        /\ LET older == {j \in PendingEntries : j < i} IN
           Cardinality(older) < (IF Slots < ReadCount THEN Slots ELSE ReadCount)}

Redeliver(i) ==
    /\ Slots > 0 /\ i \in Redeliverable
    /\ task' = [task EXCEPT ![i] = [@ EXCEPT !.pc = "mark", !.aborted = FALSE]]
    /\ UNCHANGED <<queue, started, active, lock, expired, controls, stopped, events,
                   errors, crashes>>

\* New messages are read in stream order, after a read of the pending ones found
\* nothing to do (another may be pending by the time the read returns).
Deliver(i) ==
    /\ Slots > 0
    /\ task[i].pc = "new" /\ \A j \in Messages : j < i => task[j].pc # "new"
    /\ Goto(i, "mark")
    /\ UNCHANGED <<queue, started, active, lock, expired, controls, stopped, events,
                   errors, crashes>>

-----------------------------------------------------------------------------
(* The worker and the runner, for message i.                               *)

Hold(i) == started' = [started EXCEPT ![RunOf(i)] = @ \cup {KeyOf(i)}]
Release(i) == started' = [started EXCEPT ![RunOf(i)] = @ \ {KeyOf(i)}]

\* Mutant: the answer of SET NX is ignored.
MarkStartedUnchecked(i) ==
    /\ task[i].pc = "mark"
    /\ Hold(i)
    /\ Set(i, "submit", "none", "nothing")
    /\ UNCHANGED <<queue, active, lock, expired, controls, stopped, events, errors,
                   crashes>>

\* markStarted: SET NX of the idempotency key.
MarkStarted(i) ==
    /\ task[i].pc = "mark"
    /\ \/ /\ KeyOf(i) \notin started[RunOf(i)]
          /\ Hold(i)
          /\ Set(i, "submit", "none", "nothing")
          /\ UNCHANGED errors
       \/ /\ KeyOf(i) \in started[RunOf(i)]
          /\ Goto(i, "ack")
          /\ UNCHANGED <<started, errors>>
       \/ /\ Fails
          /\ \/ /\ LostReplies /\ KeyOf(i) \notin started[RunOf(i)]
                /\ Hold(i)
                /\ Set(i, "held", "none", "nothing")
             \/ /\ UNCHANGED started
                /\ Goto(i, "dead")
    /\ UNCHANGED <<queue, active, lock, expired, controls, stopped, events, crashes>>

\* Mutant: submit does not look at activeRuns.
SubmitUnchecked(i) ==
    /\ task[i].pc = "submit"
    /\ Goto(i, "start")
    /\ active' = [active EXCEPT ![RunOf(i)] = i]
    /\ UNCHANGED <<queue, started, lock, expired, controls, stopped, events, errors,
                   crashes>>

\* submit refuses a generation that is active, and registers it otherwise.
Submit(i) ==
    /\ task[i].pc = "submit"
    /\ IF active[RunOf(i)] # None
       THEN Set(i, "clear", "error", "nothing") /\ UNCHANGED active
       ELSE Goto(i, "start") /\ active' = [active EXCEPT ![RunOf(i)] = i]
    /\ UNCHANGED <<queue, started, lock, expired, controls, stopped, events, errors,
                   crashes>>

\* The generation.started event, which the API ignores.  It is published before
\* the try block: when that fails, the run stays in activeRuns.
Start(i) ==
    /\ task[i].pc = "start"
    /\ \/ Goto(i, "bootstrap") /\ UNCHANGED errors
       \/ Fails /\ Set(i, "clear", "error", "nothing")
    /\ UNCHANGED <<queue, started, active, lock, expired, controls, stopped, events,
                   crashes>>

\* getGenerationBootstrap: the API answers, or refuses or fails.
Bootstrap(i) ==
    /\ task[i].pc = "bootstrap"
    /\ Goto(i, "lock") \/ Goto(i, "catch")
    /\ UNCHANGED <<queue, started, active, lock, expired, controls, stopped, events,
                   errors, crashes>>

\* tryRunExclusive: SET NX of a fresh token.
AcquireLock(i) ==
    LET t == ThreadOf(i) IN
    /\ task[i].pc = "lock"
    /\ \/ /\ lock[t] = None
          /\ lock' = [lock EXCEPT ![t] = i]
          /\ expired' = expired \ {i}
          /\ Goto(i, "run")
          /\ UNCHANGED errors
       \/ /\ lock[t] # None
          /\ Goto(i, "catch")
          /\ UNCHANGED <<lock, expired, errors>>
       \/ /\ Fails
          /\ \/ UNCHANGED lock
             \/ LostReplies /\ lock[t] = None /\ lock' = [lock EXCEPT ![t] = i]
          /\ Goto(i, "catch")
          /\ UNCHANGED expired
    /\ UNCHANGED <<queue, started, active, controls, stopped, events, crashes>>

\* graph.invoke streams deltas ...
StreamPart(i) ==
    /\ task[i].pc = "run" /\ Len(events[RunOf(i)]) < MaxDeltas
    /\ \/ Emit(i, "delta") /\ UNCHANGED <<task, errors>>
       \/ /\ Fails
          /\ (LostReplies /\ Emit(i, "delta")) \/ UNCHANGED events
          /\ Set(i, "unlock", "error", task[i].said)
    /\ UNCHANGED <<queue, started, active, lock, expired, controls, stopped, crashes>>

\* ... and returns an answer or an interrupt, or throws, an abort included.
Invoke(i) ==
    /\ task[i].pc = "run"
    /\ \E result \in {"completed", "action", "error"} :
          Set(i, "unlock", result, task[i].said)
    /\ UNCHANGED <<queue, started, active, lock, expired, controls, stopped, events,
                   errors, crashes>>

\* Mutant: the lock is deleted whatever token it holds.
ReleaseAnyLock(i) == lock' = [lock EXCEPT ![ThreadOf(i)] = None]

\* RELEASE_LOCK_SCRIPT: the lock is deleted if it still holds the task's token.
ReleaseLock(i) ==
    lock' = IF lock[ThreadOf(i)] = i THEN [lock EXCEPT ![ThreadOf(i)] = None] ELSE lock

\* The end of tryRunExclusive: an error of the task is thrown again, and one of
\* the release when there is none.
Unlock(i) ==
    /\ task[i].pc = "unlock"
    /\ \/ /\ ReleaseLock(i)
          /\ Goto(i, IF task[i].result = "error" THEN "catch" ELSE "report")
          /\ UNCHANGED errors
       \/ /\ Fails
          /\ (LostReplies /\ ReleaseLock(i)) \/ UNCHANGED lock
          /\ Set(i, "catch", "error", task[i].said)
    /\ UNCHANGED <<queue, started, active, expired, controls, stopped, events, crashes>>

\* The completed or client_action.required event.
Report(i) ==
    /\ task[i].pc = "report" /\ Len(events[RunOf(i)]) < MaxEvents
    /\ \/ /\ Emit(i, task[i].result)
          /\ Set(i, "finish", task[i].result, "outcome")
          /\ UNCHANGED errors
       \/ /\ Fails /\ LostReplies
          /\ Emit(i, task[i].result)
          /\ Set(i, "catch", "error", "outcome")
       \/ /\ Fails
          /\ Set(i, "catch", "error", task[i].said)
          /\ UNCHANGED events
    /\ UNCHANGED <<queue, started, active, lock, expired, controls, stopped, crashes>>

\* Mutant: an aborted generation returns without an event.
CatchSilentWhenAborted(i) ==
    /\ task[i].pc = "catch" /\ Len(events[RunOf(i)]) < MaxEvents
    /\ IF task[i].aborted
       THEN Set(i, "finish", "cancelled", "nothing") /\ UNCHANGED events
       ELSE Set(i, "finish", "error", "failure") /\ Emit(i, "failed")
    /\ UNCHANGED <<queue, started, active, lock, expired, controls, stopped, errors,
                   crashes>>

\* The catch block: an aborted generation is cancelled and submit returns, any
\* other fails and submit throws, as it does when the event is not published.
Catch(i) ==
    LET kind == IF task[i].aborted THEN "cancelled" ELSE "failed" IN
    /\ task[i].pc = "catch" /\ Len(events[RunOf(i)]) < MaxEvents
    /\ \/ /\ Emit(i, kind)
          /\ Set(i, "finish", IF task[i].aborted THEN "cancelled" ELSE "error", "failure")
          /\ UNCHANGED errors
       \/ /\ Fails /\ LostReplies
          /\ Emit(i, kind)
          /\ Set(i, "finish", "error", "failure")
       \/ /\ Fails
          /\ Set(i, "finish", "error", task[i].said)
          /\ UNCHANGED events
    /\ UNCHANGED <<queue, started, active, lock, expired, controls, stopped, crashes>>

\* Mutant: the key is released whether submit failed or not.
FinishAlwaysClears(i) ==
    /\ task[i].pc = "finish"
    /\ active' = [active EXCEPT ![RunOf(i)] = None]
    /\ Goto(i, "clear")
    /\ UNCHANGED <<queue, started, lock, expired, controls, stopped, events, errors,
                   crashes>>

\* The finally block, after the reply to the last event.
Finish(i) ==
    /\ task[i].pc = "finish"
    /\ active' = [active EXCEPT ![RunOf(i)] = None]
    /\ Goto(i, IF task[i].result = "error" THEN "clear" ELSE "ack")
    /\ UNCHANGED <<queue, started, lock, expired, controls, stopped, events, errors,
                   crashes>>

\* The worker releases the key of a generation that failed, for a later copy.
Clear(i) ==
    /\ task[i].pc = "clear"
    /\ \/ Release(i) /\ UNCHANGED errors
       \/ Fails /\ ((LostReplies /\ Release(i)) \/ UNCHANGED started)
    /\ Goto(i, "dead")
    /\ UNCHANGED <<queue, active, lock, expired, controls, stopped, events, crashes>>

\* DEFAULT_MAX_ATTEMPTS is 1: the first failure goes to the dead-letter stream.
\* A message whose handling rejects stays pending.
DeadLetter(i) ==
    /\ task[i].pc \in {"dead", "held"}
    /\ \/ Goto(i, "ack") /\ UNCHANGED errors
       \/ Fails /\ Goto(i, "pending")
    /\ UNCHANGED <<queue, started, active, lock, expired, controls, stopped, events,
                   crashes>>

Ack(i) ==
    /\ task[i].pc = "ack"
    /\ \/ Goto(i, "acked") /\ UNCHANGED errors
       \/ Fails /\ (Goto(i, "pending") \/ (LostReplies /\ Goto(i, "acked")))
    /\ UNCHANGED <<queue, started, active, lock, expired, controls, stopped, events,
                   crashes>>

-----------------------------------------------------------------------------
(* Controls, and the environment.                                          *)

\* A control aborts the run if it is active, and has no effect otherwise.  When
\* XACK fails the control is delivered again.
Control(r) ==
    /\ r \in controls
    /\ \/ controls' = controls \ {r} /\ UNCHANGED errors
       \/ Fails /\ UNCHANGED controls
    /\ task' = IF active[r] = None THEN task
               ELSE [task EXCEPT ![active[r]].aborted = TRUE]
    /\ UNCHANGED <<queue, started, active, lock, expired, stopped, events, crashes>>

\* The lock's time to live passes.
LockExpire(t) ==
    /\ lock[t] # None
    /\ lock' = [lock EXCEPT ![t] = None]
    /\ expired' = IF task[lock[t]].pc \in {"run", "unlock"}
                  THEN expired \cup {lock[t]} ELSE expired
    /\ UNCHANGED <<queue, task, started, active, controls, stopped, events, errors,
                   crashes>>

Crash ==
    /\ crashes < MaxCrashes /\ crashes' = crashes + 1
    /\ task' = [i \in Messages |-> IF i \in InFlight
                                   THEN [task[i] EXCEPT !.pc = "pending"] ELSE task[i]]
    /\ active' = [r \in Runs |-> None]
    /\ UNCHANGED <<queue, started, lock, expired, controls, stopped, events, errors>>

-----------------------------------------------------------------------------

Handle(i) ==
    \/ MarkStarted(i) \/ Submit(i) \/ Start(i) \/ Bootstrap(i) \/ AcquireLock(i)
    \/ StreamPart(i) \/ Invoke(i) \/ Unlock(i) \/ Report(i) \/ Catch(i)
    \/ Finish(i) \/ Clear(i) \/ DeadLetter(i) \/ Ack(i)

Consume == \E i \in Messages : Redeliver(i) \/ Deliver(i)

Next ==
    \/ \E r \in Runs, k \in Keys : PublishCommand(r, k)
    \/ \E r \in Runs : PublishCancel(r) \/ Control(r)
    \/ Consume
    \/ \E i \in Messages : Handle(i)
    \/ \E t \in Threads : LockExpire(t)
    \/ Crash

Spec == Init /\ [][Next]_vars

\* The read loop and the started tasks go on, and a model call returns.
Fairness == WF_vars(Consume) /\ \A i \in Messages : WF_vars(Handle(i))

FairSpec == Spec /\ Fairness

-----------------------------------------------------------------------------
(* Properties.                                                             *)

\* The task executes its command: it holds the key, or will not know it does.
Executing(i) == task[i].pc \in Registered \cup {"held", "submit", "clear"}

Stage(r, k) ==
    LET busy == {i \in DOMAIN queue : Executing(i) /\ RunOf(i) = r /\ KeyOf(i) = k}
        said == {task[i].said : i \in busy}
    IN  CASE busy = {}        -> "idle"
          [] "outcome" \in said -> "reported"
          [] "failure" \in said -> "failing"
          [] OTHER              -> "running"

Service == INSTANCE AgentService WITH
    commands <- [r \in Runs |-> {KeyOf(i) : i \in {j \in DOMAIN queue : RunOf(j) = r}}],
    executing <- [r \in Runs |-> [k \in Keys |-> Stage(r, k)]]

\* The worker does what the API relies on: with the idempotency key taken before
\* and released after a failed submit, every interleaving of deliveries,
\* redeliveries, lost replies and crashes looks from the streams like a service
\* that executes a command when its key is not held.
ImplementsService == Service!ServiceSpec

\* Whoever runs the graph on a checkpoint thread holds its lock, unless the
\* lock's time to live has passed: no release by another task, late or failed,
\* takes it away, so two runs never write one thread's checkpoint at a time.
LockHeld ==
    \A i \in DOMAIN queue :
        task[i].pc \in {"run", "unlock"} /\ i \notin expired => lock[ThreadOf(i)] = i

\* A run in progress can be cancelled: activeRuns holds the controller of the
\* task that executes it, which no other command of the run has replaced or
\* removed.
Cancellable ==
    \A i \in DOMAIN queue : task[i].pc \in Registered => active[RunOf(i)] = i

\* A command whose execution has succeeded is not executed again, whatever
\* copies of it the API publishes or Redis delivers again.
AtMostOnce ==
    [][\A i, j \in DOMAIN queue :
          queue[i] = queue[j] /\ task[i].result \in Successes /\ ~Executing(i)
              => ~Executing(j)']_vars

\* Every message of the command stream is acknowledged in the end, and with that
\* its slot is free again, whatever fails on the way a bounded number of times.
Handled == \A i \in Messages : task[i].pc = "new" ~> task[i].pc = "acked"

\* A command that reaches a healthy agent is answered: while no Redis call fails
\* and no agent dies, an outcome of its run appears on the event stream.
Answered ==
    \A r \in Runs :
        (\E i \in DOMAIN queue : RunOf(i) = r /\ task[i].pc = "new") ~>
            \/ errors > 0 \/ crashes > 0
            \/ \E n \in DOMAIN events[r] : events[r][n] # "delta"

\* Whoever executes a command can be cancelled and is alone on its thread.
WorkerInv == WorkerTypeOK /\ Cancellable /\ LockHeld
=============================================================================
