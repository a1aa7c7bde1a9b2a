------------------------- MODULE RuntimeSupervisor -------------------------
(***************************************************************************)
(* The desktop application's supervisor of the local runtime process       *)
(* (electron/main/runtime/RuntimeSupervisor.ts).                           *)
(*                                                                         *)
(* The code runs on one event loop: a step is a call, an event, a timer or *)
(* the part of a lifecycle operation between two awaits.  A queued         *)
(* lifecycle operation starts as a microtask, before any other event.      *)
(* Generation and intent numbers are compared for equality only: the       *)
(* process of the current generation is `current' (0 after a bump) and an  *)
(* operation of a superseded intent is not live.  A process's exit is the  *)
(* delivery of its event.  Requests waiting for a ready client are left    *)
(* out: they follow the status and have a timeout of their own.            *)
(***************************************************************************)
EXTENDS Naturals, Sequences

CONSTANTS Processes,     \* process handles, taken again once nobody knows them
          MaxAttempts,   \* the restart delays there are
          MaxCalls       \* bound on calls of start, stop and restart

ASSUME SupervisorAssumption ==
    /\ Processes \subseteq Nat \ {0}
    /\ {MaxAttempts, MaxCalls} \subseteq Nat

VARIABLES sup,       \* the supervisor's fields
          process,   \* what has become of each process
          ops,       \* lifecycleTail: the head is running
          calls

supervisorVars == <<sup, process, ops, calls>>

-----------------------------------------------------------------------------
NoProcess == 0
Statuses == {"stopped", "starting", "ready", "restarting", "offline", "stopping"}

\* up: spawned; ready: has announced itself; failing: without a pid, its error
\* event still to come; errored: after that; exited: after its exit event.
ProcessStates == {"unused", "up", "ready", "failing", "errored", "exited"}

ProcessAlive(p) == process[p] \in {"up", "ready"}
exitedProcesses == {p \in Processes : process[p] \in {"exited", "errored"}}

NewOp(kind, p) ==
    [kind |-> kind, process |-> p, live |-> TRUE, phase |-> "queued", already |-> FALSE]

ClearTimers(s) ==
    [s EXCEPT !.restartTimer = FALSE, !.readinessTimer = NoProcess, !.stableTimer = NoProcess]

\* The generation number moves on: events of its process are ignored from now.
Bump(s) == [s EXCEPT !.current = NoProcess, !.readinessTimer = NoProcess, !.stableTimer = NoProcess]

SetStopped(s) == [s EXCEPT !.status = "stopped", !.attempt = 0]
SetTerminationFailure(s) == [s EXCEPT !.status = "offline"]

ScheduleRestart(s) ==
    IF ~s.desired THEN s
    ELSE IF s.attempt = MaxAttempts THEN [s EXCEPT !.status = "offline"]
    ELSE [s EXCEPT !.status = "restarting", !.attempt = @ + 1, !.restartTimer = TRUE]

\* Handles that nothing refers to any more.
Free == {p \in Processes : /\ ~ProcessAlive(p) /\ process[p] # "failing" /\ sup.proc # p
                           /\ \A i \in DOMAIN ops : ops[i].process # p}

\* spawnGeneration from the fields s: it may throw, or the process may turn out
\* not to exist.
SpawnGeneration(s) ==
    \/ /\ ~s.desired
       /\ sup' = s
       /\ UNCHANGED process
    \/ /\ s.desired
       /\ sup' = ScheduleRestart([s EXCEPT !.current = NoProcess])
       /\ UNCHANGED process
    \/ /\ s.desired
       /\ \E p \in Free, state \in {"up", "failing"} :
             /\ process' = [process EXCEPT ![p] = state]
             /\ sup' = [s EXCEPT !.status = "starting", !.proc = p, !.client = TRUE,
                                 !.current = p, !.readinessTimer = p]

-----------------------------------------------------------------------------
(* Calls.                                                                  *)

\* No microtask is due.
Drained == \A i \in DOMAIN ops : i = 1 => ops[i].phase # "queued"

CallAllowed == Drained /\ calls < MaxCalls /\ calls' = calls + 1

\* A call has an intent of its own and outdates the operations there are.
Enqueue(op) == ops' = Append([i \in DOMAIN ops |-> [ops[i] EXCEPT !.live = FALSE]], op)

Outdate == ops' = [i \in DOMAIN ops |-> [ops[i] EXCEPT !.live = FALSE]]

StartRuntime ==
    LET s == [ClearTimers(sup) EXCEPT !.desired = TRUE, !.status = "starting", !.attempt = 0]
    IN  /\ CallAllowed
        /\ ~(sup.desired /\ sup.status # "offline")
        /\ \/ /\ sup.proc = NoProcess
              /\ Outdate
              /\ SpawnGeneration(s)
           \/ /\ sup.proc # NoProcess
              /\ Enqueue(NewOp("start", NoProcess))
              /\ sup' = s
              /\ UNCHANGED process

StopRuntimeTimersKept ==
    /\ CallAllowed
    /\ ~(~sup.desired /\ sup.status = "stopped")
    /\ sup' = [sup EXCEPT !.desired = FALSE, !.status = "stopping"]
    /\ Enqueue(NewOp("stop", NoProcess))
    /\ UNCHANGED process

StopRuntime ==
    /\ CallAllowed
    /\ ~(~sup.desired /\ sup.status = "stopped")
    /\ sup' = [ClearTimers(sup) EXCEPT !.desired = FALSE, !.status = "stopping"]
    /\ Enqueue(NewOp("stop", NoProcess))
    /\ UNCHANGED process

RestartRuntime ==
    /\ CallAllowed
    /\ sup' = [ClearTimers(sup) EXCEPT !.desired = TRUE, !.status = "restarting"]
    /\ Enqueue(NewOp("restart", NoProcess))
    /\ UNCHANGED process

-----------------------------------------------------------------------------
(* Events of a process and its connection.                                 *)

FailGenerationAtOnce(p) ==
    IF p # sup.current \/ ~sup.desired THEN UNCHANGED <<sup, ops>>
    ELSE /\ sup' = ScheduleRestart([Bump(sup) EXCEPT !.proc = NoProcess, !.client = FALSE])
         /\ UNCHANGED ops

\* failGeneration: the process is terminated by an operation of its own, and
\* restarted afterwards.
FailGeneration(p) ==
    IF p # sup.current \/ ~sup.desired THEN UNCHANGED <<sup, ops>>
    ELSE /\ sup' = [Bump(sup) EXCEPT !.status = "restarting",
                                     !.client = @ /\ sup.proc # p]
         /\ ops' = Append(ops, NewOp("fail", p))

\* handleExit.
HandleExit(p) ==
    LET held == sup.proc = p
        s == [Bump(sup) EXCEPT !.proc = IF held THEN NoProcess ELSE @, !.client = @ /\ ~held]
    IN  sup' = IF p # sup.current THEN sup
               ELSE IF s.desired THEN ScheduleRestart(s) ELSE SetStopped(s)

ProcessExit(p) ==
    /\ Drained
    /\ ProcessAlive(p)
    /\ process' = [process EXCEPT ![p] = "exited"]
    /\ HandleExit(p)
    /\ UNCHANGED <<ops, calls>>

\* The error event of a process that could not be spawned.
ProcessError(p) ==
    /\ Drained
    /\ process[p] = "failing"
    /\ process' = [process EXCEPT ![p] = "errored"]
    /\ FailGeneration(p)
    /\ UNCHANGED calls

ReadyAnyGeneration(p) ==
    /\ Drained
    /\ process[p] = "up"
    /\ process' = [process EXCEPT ![p] = "ready"]
    /\ sup' = [sup EXCEPT !.status = "ready", !.readinessTimer = NoProcess]
    /\ UNCHANGED <<ops, calls>>

\* runtime.ready with the protocol version the supervisor speaks.
Ready(p) ==
    /\ Drained
    /\ process[p] = "up"
    /\ process' = [process EXCEPT ![p] = "ready"]
    /\ sup' = IF p # sup.current THEN sup
              ELSE [sup EXCEPT !.status = "ready", !.readinessTimer = NoProcess, !.stableTimer = p]
    /\ UNCHANGED <<ops, calls>>

\* runtime.ready with another version, a malformed line, a broken stream.
FatalError(p) ==
    /\ Drained
    /\ ProcessAlive(p)
    /\ p = sup.current
    /\ FailGeneration(p)
    /\ UNCHANGED <<process, calls>>

-----------------------------------------------------------------------------
(* Timers.                                                                 *)

RestartTimer ==
    /\ Drained
    /\ sup.restartTimer
    /\ SpawnGeneration([sup EXCEPT !.restartTimer = FALSE])
    /\ UNCHANGED <<ops, calls>>

ReadinessTimeoutIgnored ==
    /\ Drained
    /\ sup.readinessTimer # NoProcess
    /\ sup' = [sup EXCEPT !.readinessTimer = NoProcess]
    /\ UNCHANGED <<process, ops, calls>>

ReadinessTimeout ==
    /\ Drained
    /\ sup.readinessTimer # NoProcess
    /\ FailGeneration(sup.readinessTimer)
    /\ UNCHANGED <<process, calls>>

StableReset ==
    /\ Drained
    /\ sup.stableTimer # NoProcess
    /\ sup' = [sup EXCEPT !.stableTimer = NoProcess,
                          !.attempt = IF sup.stableTimer = sup.current /\ sup.status = "ready"
                                      THEN 0 ELSE @]
    /\ UNCHANGED <<process, ops, calls>>

-----------------------------------------------------------------------------
(* Lifecycle operations.                                                   *)

\* What follows stopCurrentProcess or terminateProcess in each operation.
Continue(op, s, terminated) ==
    LET current == op.live /\ s.desired
        nothing == sup' = s /\ UNCHANGED process
    IN  CASE op.kind = "start" ->
               IF current /\ ~terminated
               THEN sup' = SetTerminationFailure(s) /\ UNCHANGED process
               ELSE IF current /\ s.proc = NoProcess THEN SpawnGeneration(s) ELSE nothing
          [] op.kind = "stop" ->
               IF ~op.live \/ s.desired THEN nothing
               ELSE /\ sup' = IF terminated THEN SetStopped(s) ELSE SetTerminationFailure(s)
                    /\ UNCHANGED process
          [] op.kind = "restart" ->
               IF ~current THEN nothing
               ELSE IF terminated
               THEN SpawnGeneration([s EXCEPT !.status = "starting", !.attempt = 0])
               ELSE sup' = SetTerminationFailure(s) /\ UNCHANGED process
          [] op.kind = "fail" ->
               IF ~current THEN nothing
               ELSE /\ sup' = IF terminated THEN ScheduleRestart(s) ELSE SetTerminationFailure(s)
                    /\ UNCHANGED process

\* The head operation ends its wait; a process that is gone is let go of.
EndWait(terminated) ==
    LET op == Head(ops)
        held == terminated /\ sup.proc = op.process
        s == [sup EXCEPT !.proc = IF held THEN NoProcess ELSE @, !.client = @ /\ ~held]
    IN  Continue(op, s, terminated) /\ ops' = Tail(ops)

\* The first part of an operation: stopCurrentProcess asks the process to shut
\* down, or goes on to SIGTERM without a client; terminateProcess begins there.
BeginOperation ==
    LET op == Head(ops)
        p == IF op.kind = "fail" THEN op.process ELSE sup.proc
        begun(phase) ==
            ops' = [ops EXCEPT ![1] = [@ EXCEPT !.process = p, !.phase = phase,
                                                !.already = p \in exitedProcesses]]
    IN  /\ ~Drained
        /\ \/ /\ op.kind # "fail" /\ p = NoProcess
              /\ Continue(op, sup, TRUE)
              /\ ops' = Tail(ops)
           \/ /\ op.kind # "fail" /\ p # NoProcess
              /\ sup' = Bump(sup)
              /\ begun(IF sup.client THEN "shutdown" ELSE "SIGTERM")
              /\ UNCHANGED process
           \/ /\ op.kind = "fail" /\ p \in exitedProcesses
              /\ EndWait(TRUE)
           \/ /\ op.kind = "fail" /\ p \notin exitedProcesses
              /\ begun("SIGTERM")
              /\ UNCHANGED <<sup, process>>
        /\ UNCHANGED calls

\* The promise of waitForProcessExit: resolved from the start, or by the exit event.
Resolved(op) == op.already \/ process[op.process] = "exited"

OperationEnds ==
    /\ ops # <<>> /\ Drained
    /\ Resolved(Head(ops))
    /\ EndWait(TRUE)
    /\ UNCHANGED calls

\* A wait times out: the next signal, and after SIGKILL the failure.
OperationTimeout ==
    /\ ops # <<>> /\ Drained
    /\ ~Resolved(Head(ops))
    /\ \/ /\ Head(ops).phase # "SIGKILL"
          /\ ops' = [ops EXCEPT ![1].phase = IF @ = "shutdown" THEN "SIGTERM" ELSE "SIGKILL"]
          /\ UNCHANGED <<sup, process>>
       \/ /\ Head(ops).phase = "SIGKILL"
          /\ EndWait(FALSE)
    /\ UNCHANGED calls

-----------------------------------------------------------------------------
SupervisorInit ==
    /\ sup = [status |-> "stopped", attempt |-> 0, desired |-> FALSE, proc |-> NoProcess,
              client |-> FALSE, current |-> NoProcess, restartTimer |-> FALSE,
              readinessTimer |-> NoProcess, stableTimer |-> NoProcess]
    /\ process = [p \in Processes |-> "unused"]
    /\ ops = <<>>
    /\ calls = 0

SupervisorNext ==
    \/ StartRuntime \/ StopRuntime \/ RestartRuntime
    \/ RestartTimer \/ ReadinessTimeout \/ StableReset
    \/ BeginOperation \/ OperationEnds \/ OperationTimeout
    \/ \E p \in Processes : ProcessExit(p) \/ ProcessError(p) \/ Ready(p) \/ FatalError(p)

\* Microtasks, timers and the error events of failed spawns come; nothing is
\* assumed of the process, which may hang, or of the callers.
SupervisorFairness ==
    /\ WF_supervisorVars(BeginOperation) /\ WF_supervisorVars(OperationEnds \/ OperationTimeout)
    /\ WF_supervisorVars(RestartTimer) /\ WF_supervisorVars(ReadinessTimeout)
    /\ \A p \in Processes : WF_supervisorVars(ProcessError(p))

SupervisorSpec == SupervisorInit /\ [][SupervisorNext]_supervisorVars /\ SupervisorFairness

-----------------------------------------------------------------------------
\* Every variable has its type, and a timer belongs to the current generation.
SupervisorTypeOK ==
    /\ sup \in [status : Statuses, attempt : 0..MaxAttempts, desired : BOOLEAN,
                proc : Processes \cup {NoProcess}, client : BOOLEAN,
                current : Processes \cup {NoProcess}, restartTimer : BOOLEAN,
                readinessTimer : Processes \cup {NoProcess},
                stableTimer : Processes \cup {NoProcess}]
    /\ process \in [Processes -> ProcessStates]
    /\ {sup.readinessTimer, sup.stableTimer} \subseteq {sup.current, NoProcess}

\* A runtime that lives is the one the supervisor holds: there are never two,
\* and none is out of its reach.
RuntimeOwned == \A p \in Processes : ProcessAlive(p) => p = sup.proc

\* What is shown as ready can be talked to.
ReadyIsReal ==
    sup.status = "ready" =>
        sup.desired /\ sup.client /\ sup.current # NoProcess /\ process[sup.proc] = "ready"

\* Stopped means that nothing runs and nothing will be started.
StoppedIsQuiet ==
    sup.status = "stopped" =>
        ~sup.desired /\ ~sup.restartTimer /\ \A p \in Processes : ~ProcessAlive(p)

\* The supervisor's status is true of the processes there are.
StatusTrue == SupervisorTypeOK /\ RuntimeOwned /\ ReadyIsReal /\ StoppedIsQuiet

Settled == sup.status \in {"ready", "offline", "stopped"}

\* Starting, restarting and stopping come to an end: the runtime is ready, or
\* given up, or stopped, however it behaves.
Settles == ~Settled ~> Settled
=============================================================================
