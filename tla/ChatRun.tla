------------------------------- MODULE ChatRun -------------------------------
(***************************************************************************)
(* The API's half of a chat run, from the request that creates it to its   *)
(* terminal status: the dispatcher (chat-run-dispatcher.service.ts), the   *)
(* projector (chat-run-projector.service.ts) and the user's cancel and     *)
(* resume requests (chat-sessions.service.ts), over the three rows that    *)
(* hold a run's state - ChatSessionRun, ChatMessageGeneration and the      *)
(* assistant ChatSessionMessage - and the run's part of the session event  *)
(* log.  The agent is module AgentService.                                 *)
(*                                                                         *)
(* Granularity.  Every await is a point where other steps interleave.  A   *)
(* database transaction runs at PostgreSQL's default isolation, READ       *)
(* COMMITTED: its writes take row locks and commit together, so they are   *)
(* one step, but a plain SELECT that precedes them, even inside the        *)
(* transaction, is a step of its own.  Conditional UPDATEs re-check their  *)
(* WHERE clause on the locked row and are part of the write step.          *)
(***************************************************************************)
EXTENDS AgentService, Integers

CONSTANTS Apis,         \* API processes
          Dispatchers,  \* concurrent dispatchRun calls (timer and requests)
          Home,         \* the process each of them runs in
          LeaseTicks,   \* DISPATCH_LEASE_MS, in clock ticks
          MaxClock,     \* bound on the clock
          MaxCrashes    \* bound on API process crashes

ASSUME ChatRunAssumption ==
    /\ Home \in [Dispatchers -> Apis]
    /\ LeaseTicks \in Nat /\ MaxClock \in Nat /\ MaxCrashes \in Nat

VARIABLES clock,
          run,        \* ChatSessionRun
          gen,        \* ChatMessageGeneration
          msg,        \* status of the assistant ChatSessionMessage
          log,        \* the run's ChatSessionEvents, in sequence order
          disp,       \* the dispatchRun calls in progress
          proj,       \* the projectRun calls in progress
          recovering, \* processes whose recoverRunningRuns has selected the run
          cancelling, \* processes whose cancelRun has passed its status check
          resuming,   \* processes whose prepareResumeRun has passed its checks
          crashes,
          phase,      \* auxiliary: the key of the command the run waits for
          overran     \* auxiliary: a call outlived its lease, or its phase

rowVars == <<run, gen, msg, log>>
taskVars == <<disp, proj, recovering, cancelling, resuming>>
vars == <<serviceVars, clock, rowVars, taskVars, crashes, phase, overran>>

Null == "null"
Active == {"pending", "running", "requires_action"}
Terminal == {"completed", "failed", "cancelled"}
Statuses == {Null} \cup Active \cup Terminal
MessageStatuses == {Null, "pending", "streaming"} \cup Terminal
NoLease == -1
Leases == Nat \cup {NoLease}

LifecycleTypes == {"started", "action"} \cup Terminal
LogTypes == {"delta", "tool"} \cup LifecycleTypes
LogEntries == [type : LogTypes, src : Nat]

RunRows == [status : Statuses, published : BOOLEAN, lease : Leases,
            pending : BOOLEAN,  \* commandContext.pendingClientAction
            resume : Keys]      \* the key of resumeClientActionResult, or 0
GenerationRows == [status : Statuses, published : BOOLEAN, lease : Leases,
                   attempt : Keys]
DispatchCalls == [pc : {"idle", "claim", "publish", "mark", "fail", "project"},
                  run : Runs \cup {Null}, now : Nat, status : Statuses,
                  resume : Keys, pending : BOOLEAN, after : Nat]
Projections == [pc : {"idle", "consume", "require", "commit", "catch"},
                cursor : Nat, kind : {"delta", "tool"} \cup Outcomes, src : Nat]

TypeOK ==
    /\ ServiceTypeOK
    /\ clock \in Nat
    /\ run \in [Runs -> RunRows]
    /\ gen \in [Runs -> GenerationRows]
    /\ msg \in [Runs -> MessageStatuses]
    /\ log \in [Runs -> Seq(LogEntries)]
    /\ disp \in [Dispatchers -> DispatchCalls]
    /\ proj \in [Apis -> [Runs -> Projections]]
    /\ recovering \in [Runs -> SUBSET Apis]
    /\ cancelling \in [Runs -> SUBSET Apis]
    /\ resuming \in [Runs -> SUBSET Apis]
    /\ crashes \in Nat
    /\ phase \in [Runs -> Keys]
    /\ overran \in [Runs -> BOOLEAN]

IdleDispatch == [pc |-> "idle", run |-> Null, now |-> 0, status |-> Null,
                 resume |-> 0, pending |-> FALSE, after |-> 0]
IdleProjection == [pc |-> "idle", cursor |-> 0, kind |-> "delta", src |-> 0]

Init ==
    /\ ServiceInit
    /\ clock = 1
    /\ run = [r \in Runs |-> [status |-> Null, published |-> FALSE,
                              lease |-> NoLease, pending |-> FALSE, resume |-> 0]]
    /\ gen = [r \in Runs |-> [status |-> Null, published |-> FALSE,
                              lease |-> NoLease, attempt |-> 0]]
    /\ msg = [r \in Runs |-> Null]
    /\ log = [r \in Runs |-> <<>>]
    /\ disp = [d \in Dispatchers |-> IdleDispatch]
    /\ proj = [a \in Apis |-> [r \in Runs |-> IdleProjection]]
    /\ recovering = [r \in Runs |-> {}]
    /\ cancelling = [r \in Runs |-> {}]
    /\ resuming = [r \in Runs |-> {}]
    /\ crashes = 0
    /\ phase = [r \in Runs |-> 0]
    /\ overran = [r \in Runs |-> FALSE]

-----------------------------------------------------------------------------
(* The session event log.                                                  *)

\* appendEvents, inside the transaction that changes the rows.  The MESSAGE_*
\* event that accompanies each RUN_* event is not recorded separately.
AppendEvent(r, type, src) ==
    log' = [log EXCEPT ![r] = Append(@, [type |-> type, src |-> src])]

\* Mutant: the duplicate check never finds anything.
HasSourceEventNever(r, type, src) == FALSE

\* hasSourceEvent, and the unique index on (runId, sourceEventId).  The entry
\* type stands for the suffix of the source id (":tool", ":message", ...).
HasSourceEvent(r, type, src) ==
    \E i \in DOMAIN log[r] : log[r][i] = [type |-> type, src |-> src]

\* Mutant: a run without recorded events resumes at the end of the stream.
LatestSourceEventOrEnd(r) ==
    LET sources == {log[r][i].src : i \in DOMAIN log[r]} \ {0}
    IN  IF sources = {} THEN Len(events[r])
        ELSE CHOOSE src \in sources : \A other \in sources : other <= src

\* getLatestSourceEventStreamId: the source of the last entry that has one,
\* without its suffix, or the start of the stream.
LatestSourceEvent(r) ==
    LET sourced == {i \in DOMAIN log[r] : log[r][i].src # 0}
        latest == {i \in sourced : \A j \in sourced : j <= i}
    IN  IF latest = {} THEN 0 ELSE log[r][CHOOSE i \in latest : TRUE].src

-----------------------------------------------------------------------------
(* Creating a run (sendMessage, editAndSendMessage, retryAssistantMessage). *)

CreateRun(r) ==
    /\ run[r].status = Null
    /\ run' = [run EXCEPT ![r].status = "pending"]
    /\ gen' = [gen EXCEPT ![r].status = "pending"]
    /\ msg' = [msg EXCEPT ![r] = "pending"]
    /\ UNCHANGED <<serviceVars, clock, log, taskVars, crashes, phase, overran>>

-----------------------------------------------------------------------------
(* The dispatcher: dispatchRun, one step per await.                        *)

Expired(lease, now) == lease # NoLease /\ lease < now

Claimable(g, now) == g.status = "running" /\ ~g.published /\ Expired(g.lease, now)

\* Mutant: a claim whose holder died is never taken over.
DispatchableOnce(g, now) == g.status = "pending"

\* The WHERE clause of dispatchPendingRuns and getDispatchableRun.
Dispatchable(g, now) == g.status = "pending" \/ Claimable(g, now)

\* getDispatchableRun and getProjectionAfterId.  They are one step: a claim
\* between the two reads makes the claim of this call fail.
DispatchRead(d, r) ==
    /\ disp[d].pc = "idle"
    /\ Dispatchable(gen[r], clock)
    /\ disp' = [disp EXCEPT ![d] =
          [pc |-> "claim", run |-> r, now |-> clock, status |-> gen[r].status,
           resume |-> run[r].resume, pending |-> run[r].pending,
           after |-> IF gen[r].status = "running" THEN LatestSourceEvent(r)
                     ELSE Len(events[r])]]
    /\ UNCHANGED <<serviceVars, clock, rowVars, proj, recovering, cancelling, resuming,
                   crashes, phase, overran>>

\* Mutant: the message row gets the status of the run row.
ClaimPendingMessageRunning(r, now) ==
    /\ gen[r].status = "pending" /\ gen[r].attempt < MaxAttempts
    /\ gen' = [gen EXCEPT ![r].status = "running", ![r].lease = now + LeaseTicks,
                          ![r].attempt = @ + 1]
    /\ msg' = [msg EXCEPT ![r] = "running"]
    /\ run' = [run EXCEPT ![r].status = "running", ![r].lease = now + LeaseTicks]
    /\ AppendEvent(r, "started", 0)

\* claimRun of a pending run.
ClaimPending(r, now) ==
    /\ gen[r].status = "pending"
    /\ gen[r].attempt < MaxAttempts
    /\ gen' = [gen EXCEPT ![r].status = "running", ![r].lease = now + LeaseTicks,
                          ![r].attempt = @ + 1]
    /\ msg' = [msg EXCEPT ![r] = "streaming"]
    /\ run' = IF run[r].status = "pending"
              THEN [run EXCEPT ![r].status = "running",
                               ![r].lease = now + LeaseTicks]
              ELSE run
    /\ AppendEvent(r, "started", 0)

\* claimResumeRun and reclaimRun: a compare-and-set on the lease.  Only the
\* latter counts an attempt.
ClaimRunning(r, now, isResume) ==
    /\ Claimable(gen[r], now)
    /\ isResume \/ gen[r].attempt < MaxAttempts
    /\ gen' = [gen EXCEPT ![r].lease = now + LeaseTicks,
                          ![r].attempt = IF isResume THEN @ ELSE @ + 1]
    /\ run' = IF Claimable(run[r], now)
              THEN [run EXCEPT ![r].lease = now + LeaseTicks] ELSE run
    /\ UNCHANGED <<msg, log>>

Claim(d) ==
    LET t == disp[d] IN
    IF t.status = "pending" THEN ClaimPending(t.run, t.now)
                            ELSE ClaimRunning(t.run, t.now, t.resume # 0)

DispatchClaim(d) ==
    /\ disp[d].pc = "claim"
    /\ Claim(d)
    /\ disp' = [disp EXCEPT ![d].pc = "publish"]
    /\ UNCHANGED <<serviceVars, clock, proj, recovering, cancelling, resuming, crashes,
                   phase, overran>>

\* The conditional update matched no row: someone else claimed the run.
DispatchLoseClaim(d) ==
    /\ disp[d].pc = "claim"
    /\ IF disp[d].status = "pending"
       THEN gen[disp[d].run].status # "pending"
       ELSE ~Claimable(gen[disp[d].run], disp[d].now)
    /\ disp' = [disp EXCEPT ![d] = IdleDispatch]
    /\ UNCHANGED <<serviceVars, clock, rowVars, proj, recovering, cancelling, resuming,
                   crashes, phase, overran>>

\* Mutant: a resume is published under the key of the start command.
DispatchPublishStartKey(d) ==
    /\ disp[d].pc = "publish"
    /\ PublishCommand(disp[d].run, 0)
    /\ disp' = [disp EXCEPT ![d].pc = "mark"]
    /\ UNCHANGED <<started, executing, stopped, events, clock, rowVars,
                   proj, recovering, cancelling, resuming, crashes, phase, overran>>

\* buildGenerationCommand: the idempotency key does not depend on the attempt
\* of a start command, and is fixed by prepareResumeRun for a resume.
DispatchPublish(d) ==
    /\ disp[d].pc = "publish"
    /\ PublishCommand(disp[d].run, disp[d].resume)
    /\ disp' = [disp EXCEPT ![d].pc = "mark"]
    /\ UNCHANGED <<started, executing, stopped, events, clock, rowVars,
                   proj, recovering, cancelling, resuming, crashes, phase, overran>>

\* XADD rejects.  The command may have reached the stream nevertheless: the
\* connection can be lost after the write and before the reply.
DispatchPublishError(d) ==
    /\ disp[d].pc = "publish"
    /\ \/ LostReplies /\ PublishCommand(disp[d].run, disp[d].resume)
       \/ UNCHANGED commands
    /\ disp' = [disp EXCEPT ![d].pc = "fail"]
    /\ UNCHANGED <<started, executing, stopped, events, clock, rowVars,
                   proj, recovering, cancelling, resuming, crashes, phase, overran>>

Overran(d) == clock > disp[d].now + LeaseTicks

\* Mutant: the lease outlives the publication.
MarkPublishedKeepsLease(r) ==
    /\ run' = [run EXCEPT ![r].published = TRUE, ![r].pending = FALSE, ![r].resume = 0]
    /\ gen' = [gen EXCEPT ![r].published = TRUE]

\* markCommandPublished: guarded by commandPublishedAt alone.
MarkPublished(r) ==
    /\ run' = [run EXCEPT ![r].published = TRUE, ![r].lease = NoLease,
                          ![r].pending = FALSE, ![r].resume = 0]
    /\ gen' = IF gen[r].published THEN gen
              ELSE [gen EXCEPT ![r].published = TRUE, ![r].lease = NoLease]

DispatchMark(d) ==
    LET r == disp[d].run IN
    /\ disp[d].pc = "mark"
    /\ IF run[r].published
       THEN /\ disp' = [disp EXCEPT ![d] = IdleDispatch]
            /\ UNCHANGED <<run, gen>>
       ELSE /\ disp' = [disp EXCEPT ![d].pc = "project"]
            /\ MarkPublished(r)
    /\ overran' = [overran EXCEPT ![r] = @ \/ Overran(d)]
    /\ UNCHANGED <<serviceVars, clock, msg, log, proj, recovering, cancelling, resuming,
                   crashes, phase>>

\* Mutant: the generation row is forgotten.
SetTerminalWithoutGeneration(r, status) ==
    /\ run' = [run EXCEPT ![r].status = status, ![r].lease = NoLease]
    /\ msg' = [msg EXCEPT ![r] = status]
    /\ UNCHANGED gen

\* Every terminal write sets the same status in the three rows.
SetTerminal(r, status) ==
    /\ run' = [run EXCEPT ![r].status = status, ![r].lease = NoLease]
    /\ gen' = [gen EXCEPT ![r].status = status, ![r].lease = NoLease]
    /\ msg' = [msg EXCEPT ![r] = status]

\* Mutant: the failure is not announced.
MarkRunFailedSilently(r) == SetTerminal(r, "failed") /\ UNCHANGED log

\* markRunFailed: no condition on the current status.
MarkRunFailed(r) ==
    /\ SetTerminal(r, "failed")
    /\ AppendEvent(r, "failed", 0)

\* markResumeCommandPublishFailed: back to waiting for the client's action,
\* with the context read before the claim.
ReturnToClientAction(d) ==
    LET r == disp[d].run
        matches(row) == row.status = "running" /\ ~row.published
    IN  IF matches(run[r])
        THEN /\ run' = [run EXCEPT ![r].status = "requires_action",
                                   ![r].lease = NoLease, ![r].resume = 0,
                                   ![r].pending = disp[d].pending]
             /\ gen' = IF matches(gen[r])
                       THEN [gen EXCEPT ![r].status = "requires_action",
                                        ![r].lease = NoLease]
                       ELSE gen
             /\ AppendEvent(r, "action", 0)
             /\ UNCHANGED msg
        ELSE UNCHANGED rowVars

DispatchFail(d) ==
    /\ disp[d].pc = "fail"
    /\ IF disp[d].resume # 0 /\ disp[d].pending
       THEN ReturnToClientAction(d)
       ELSE MarkRunFailed(disp[d].run)
    /\ disp' = [disp EXCEPT ![d] = IdleDispatch]
    /\ overran' = [overran EXCEPT ![disp[d].run] = @ \/ Overran(d)]
    /\ UNCHANGED <<serviceVars, clock, proj, recovering, cancelling, resuming, crashes, phase>>

-----------------------------------------------------------------------------
(* The projector: projectRun.  A process projects a run at most once at a  *)
(* time (projectingRunIds).                                                *)

StartProjection(a, r, after) ==
    proj' = IF proj[a][r].pc = "idle" /\ run[r].status = "running"
            THEN [proj EXCEPT ![a][r] = [IdleProjection EXCEPT !.pc = "consume",
                                                               !.cursor = after]]
            ELSE proj

\* The projection dispatchRun starts once its command is published.
DispatchProject(d) ==
    /\ disp[d].pc = "project"
    /\ StartProjection(Home[d], disp[d].run, disp[d].after)
    /\ disp' = [disp EXCEPT ![d] = IdleDispatch]
    /\ UNCHANGED <<serviceVars, clock, rowVars, recovering, cancelling, resuming, crashes,
                   phase, overran>>

\* recoverRunningRuns, the timer that picks up runs nobody projects, selects.  The
\* list it has read is not read again before the projections start.  (Its flag
\* recovering only makes a selection wait for the projections of the last one.)
RecoverSelect(a, r) ==
    /\ run[r].status = "running" /\ run[r].published
    /\ recovering' = [recovering EXCEPT ![r] = @ \cup {a}]
    /\ UNCHANGED <<serviceVars, clock, rowVars, disp, proj, cancelling, resuming,
                   crashes, phase, overran>>

\* recoverRun reads the cursor, and projectRun the status.  They are one step: an
\* older cursor only reads events again that the log rejects.
RecoverRun(a, r) ==
    /\ a \in recovering[r]
    /\ StartProjection(a, r, LatestSourceEvent(r))
    /\ recovering' = [recovering EXCEPT ![r] = @ \ {a}]
    /\ UNCHANGED <<serviceVars, clock, rowVars, disp, cancelling, resuming,
                   crashes, phase, overran>>

Goto(a, r, pc) == proj' = [proj EXCEPT ![a][r].pc = pc]
Advance(a, r) ==
    proj' = [proj EXCEPT ![a][r] = [IdleProjection EXCEPT !.pc = "consume",
                                                          !.cursor = proj[a][r].cursor + 1]]
EndProjection(a, r) == proj' = [proj EXCEPT ![a][r] = IdleProjection]

\* A transaction that has read the status it requires, before its writes.
Prepare(a, r, kind, src) ==
    proj' = [proj EXCEPT ![a][r] = [@ EXCEPT !.pc = "commit", !.kind = kind,
                                             !.src = src]]

\* On to the catch block of projectRun, which fails or cancels the run.
Throw(a, r, kind) ==
    proj' = [proj EXCEPT ![a][r] = [@ EXCEPT !.pc = "catch", !.kind = kind]]

\* An event of the run is read from the stream: the duplicate check and the
\* status check of its handler.  A failed or cancelled generation makes
\* consumeGenerationEvents throw after the handler.
ProjectEvent(a, r) ==
    LET src  == proj[a][r].cursor + 1
        kind == events[r][src]
        running == run[r].status = "running"
    IN  /\ proj[a][r].pc = "consume"
        /\ src <= Len(events[r])
        /\ \/ /\ kind = "delta"
              /\ IF running /\ ~HasSourceEvent(r, "delta", src)
                 THEN Prepare(a, r, "delta", src) ELSE Advance(a, r)
           \/ /\ kind = "action"
              /\ IF HasSourceEvent(r, "action", src) THEN EndProjection(a, r)
                 ELSE IF running THEN Prepare(a, r, "tool", src)
                 ELSE proj' = [proj EXCEPT ![a][r] =
                                              [@ EXCEPT !.pc = "require", !.src = src]]
           \/ /\ kind = "completed"
              /\ IF running /\ ~HasSourceEvent(r, "completed", src)
                 THEN Prepare(a, r, "completed", src) ELSE EndProjection(a, r)
           \/ /\ kind \in {"failed", "cancelled"}
              /\ IF running /\ ~HasSourceEvent(r, kind, src)
                 THEN Prepare(a, r, kind, src)
                 ELSE Throw(a, r, kind)
        /\ UNCHANGED <<serviceVars, clock, rowVars, disp, recovering, cancelling, resuming,
                       crashes, phase, overran>>

\* requireClientActionRun, after the tool part has been saved.
ProjectRequire(a, r) ==
    /\ proj[a][r].pc = "require"
    /\ IF run[r].status = "running" /\ ~HasSourceEvent(r, "action", proj[a][r].src)
       THEN Prepare(a, r, "action", proj[a][r].src)
       ELSE EndProjection(a, r)
    /\ UNCHANGED <<serviceVars, clock, rowVars, disp, recovering, cancelling, resuming,
                   crashes, phase, overran>>

\* The deadline of consumeGenerationEvents passes.
ProjectTimeout(a, r) ==
    /\ proj[a][r].pc = "consume"
    /\ Throw(a, r, "failed")
    /\ UNCHANGED <<serviceVars, clock, rowVars, disp, recovering, cancelling, resuming,
                   crashes, phase, overran>>

\* Mutant: isTerminalRun and the status check are dropped.
ProjectCatchUnchecked(a, r) ==
    /\ proj[a][r].pc = "catch"
    /\ Prepare(a, r, proj[a][r].kind, 0)
    /\ UNCHANGED <<serviceVars, clock, rowVars, disp, recovering, cancelling, resuming,
                   crashes, phase, overran>>

\* The catch block of projectRun: isTerminalRun, then failRun or cancelRun
\* without a source event.
ProjectCatch(a, r) ==
    /\ proj[a][r].pc = "catch"
    /\ IF run[r].status = "running" THEN Prepare(a, r, proj[a][r].kind, 0)
                                    ELSE EndProjection(a, r)
    /\ UNCHANGED <<serviceVars, clock, rowVars, disp, recovering, cancelling, resuming,
                   crashes, phase, overran>>

\* Mutant: commandPublishedAt is not reset.
RequireClientActionPublished(r, src) ==
    /\ run' = [run EXCEPT ![r].status = "requires_action", ![r].lease = NoLease,
                          ![r].pending = TRUE]
    /\ gen' = [gen EXCEPT ![r].status = "requires_action", ![r].lease = NoLease]
    /\ AppendEvent(r, "action", src)
    /\ UNCHANGED msg

\* The writes of requireClientActionRun.
RequireClientAction(r, src) ==
    /\ run' = [run EXCEPT ![r].status = "requires_action", ![r].published = FALSE,
                          ![r].lease = NoLease, ![r].pending = TRUE]
    /\ gen' = [gen EXCEPT ![r].status = "requires_action", ![r].published = FALSE,
                          ![r].lease = NoLease]
    /\ AppendEvent(r, "action", src)
    /\ UNCHANGED msg

\* The writes of appendPartDelta and upsertToolPartSnapshot.
AppendPart(r, kind, src) ==
    /\ AppendEvent(r, kind, src)
    /\ UNCHANGED <<run, gen, msg>>

\* The writes of completeRun, failRun and cancelRun.
EndRun(r, kind, src) ==
    /\ SetTerminal(r, kind)
    /\ AppendEvent(r, kind, src)

\* The writes of the transaction prepared before.  None of them re-checks the
\* status of the run; the unique index rejects an event already recorded
\* (ignoreUniqueConstraint).
ProjectCommit(a, r) ==
    LET kind == proj[a][r].kind
        src  == proj[a][r].src
        duplicate == src # 0 /\ HasSourceEvent(r, kind, src)
    IN  /\ proj[a][r].pc = "commit"
        /\ \/ /\ duplicate
              /\ UNCHANGED rowVars
           \/ /\ ~duplicate /\ kind \in {"delta", "tool"}
              /\ AppendPart(r, kind, src)
           \/ /\ ~duplicate /\ kind = "action"
              /\ RequireClientAction(r, src)
           \/ /\ ~duplicate /\ kind \in Terminal
              /\ EndRun(r, kind, src)
        /\ \/ kind = "delta" /\ Advance(a, r)
           \/ kind = "tool" /\ Goto(a, r, "require")
           \/ kind \in {"action", "completed"} /\ EndProjection(a, r)
           \/ kind \in {"failed", "cancelled"} /\ src # 0 /\ Goto(a, r, "catch")
           \/ kind \in {"failed", "cancelled"} /\ src = 0 /\ EndProjection(a, r)
        /\ UNCHANGED <<serviceVars, clock, disp, recovering, cancelling, resuming, crashes,
                       phase, overran>>

\* completeRun finds another historyVersion than the run was created with: the
\* transaction throws, and the catch block fails the run.
ProjectHistoryConflict(a, r) ==
    /\ proj[a][r].pc = "commit" /\ proj[a][r].kind = "completed"
    /\ Throw(a, r, "failed")
    /\ UNCHANGED <<serviceVars, clock, rowVars, disp, recovering, cancelling, resuming,
                   crashes, phase, overran>>

-----------------------------------------------------------------------------
(* The user: cancelRun and resumeRun.                                      *)

\* cancelRun reads the status outside of its transaction.
CancelRead(a, r) ==
    /\ run[r].status \in Active
    /\ cancelling' = [cancelling EXCEPT ![r] = @ \cup {a}]
    /\ UNCHANGED <<serviceVars, clock, rowVars, disp, proj, recovering, resuming, crashes,
                   phase, overran>>

\* The run has ended already: only the control is published.
CancelEnded(r) ==
    /\ run[r].status \in Terminal
    /\ PublishCancel(r)
    /\ UNCHANGED <<commands, started, executing, events, clock, rowVars,
                   taskVars, crashes, phase, overran>>

\* The transaction of cancelRun, then the control, whose failure is swallowed.
CancelCommit(a, r) ==
    /\ a \in cancelling[r]
    /\ SetTerminal(r, "cancelled")
    /\ AppendEvent(r, "cancelled", 0)
    /\ cancelling' = [cancelling EXCEPT ![r] = @ \ {a}]
    /\ PublishCancel(r) \/ UNCHANGED stopped
    /\ UNCHANGED <<commands, started, executing, events, clock, disp,
                   proj, recovering, resuming, crashes, phase, overran>>

\* prepareResumeRun reads the status and the pending action.
ResumeRead(a, r) ==
    /\ run[r].status = "requires_action" /\ run[r].pending
    /\ resuming' = [resuming EXCEPT ![r] = @ \cup {a}]
    /\ UNCHANGED <<serviceVars, clock, rowVars, disp, proj, recovering, cancelling, crashes,
                   phase, overran>>

\* A projection at this cursor ends at a question that has been asked already.
EndsAtQuestion(r, cursor) ==
    \E src \in cursor + 1 .. Len(events[r]) :
        /\ HasSourceEvent(r, "action", src)
        /\ \A i \in cursor + 1 .. src - 1 : events[r][i] = "delta"

\* A projection, or one about to start, goes on past the question just answered.
Outlived(r) ==
    \/ recovering[r] # {}
    \/ \E a \in Apis : proj[a][r].pc # "idle" /\ ~EndsAtQuestion(r, proj[a][r].cursor)
    \/ \E d \in Dispatchers : /\ disp[d].run = r /\ disp[d].pc = "project"
                              /\ ~EndsAtQuestion(r, disp[d].after)

\* Its transaction: a compare-and-set on the status, with a lease that has
\* expired already (now - 1 ms) so that the dispatcher picks the run up.  The
\* user's answer comes at a later reading of the clock than any dispatcher's
\* that preceded the question, hence the tick.
ResumeCommit(a, r) ==
    /\ a \in resuming[r]
    /\ resuming' = [resuming EXCEPT ![r] = @ \ {a}]
    /\ IF run[r].status = "requires_action"
       THEN /\ gen[r].attempt < MaxAttempts /\ clock < MaxClock
            /\ clock' = clock + 1
            /\ run' = [run EXCEPT ![r] = [status |-> "running", published |-> FALSE,
                                          lease |-> clock, pending |-> TRUE,
                                          resume |-> gen[r].attempt + 1]]
            /\ gen' = [gen EXCEPT ![r] = [status |-> "running", published |-> FALSE,
                                          lease |-> clock, attempt |-> @.attempt + 1]]
            /\ AppendEvent(r, "started", 0)
            /\ phase' = [phase EXCEPT ![r] = gen[r].attempt + 1]
            /\ overran' = [overran EXCEPT ![r] = @ \/ Outlived(r)]
       ELSE UNCHANGED <<clock, run, gen, log, phase, overran>>
    /\ UNCHANGED <<serviceVars, msg, disp, proj, recovering, cancelling, crashes>>

-----------------------------------------------------------------------------
(* The environment.                                                        *)

\* An API process dies with everything it had in progress.
ApiCrash(a) ==
    /\ crashes < MaxCrashes
    /\ crashes' = crashes + 1
    /\ disp' = [d \in Dispatchers |-> IF Home[d] = a THEN IdleDispatch ELSE disp[d]]
    /\ proj' = [proj EXCEPT ![a] = [r \in Runs |-> IdleProjection]]
    /\ recovering' = [r \in Runs |-> recovering[r] \ {a}]
    /\ cancelling' = [r \in Runs |-> cancelling[r] \ {a}]
    /\ resuming' = [r \in Runs |-> resuming[r] \ {a}]
    /\ UNCHANGED <<serviceVars, clock, rowVars, phase, overran>>

\* Time passes.  It is only observable while a lease has still to expire or a
\* dispatcher has just read the clock.
Tick ==
    /\ clock < MaxClock
    /\ \/ \E r \in Runs : gen[r].lease # NoLease /\ gen[r].lease >= clock
       \/ \E d \in Dispatchers : disp[d].pc # "idle" /\ disp[d].now = clock
    /\ clock' = clock + 1
    /\ UNCHANGED <<serviceVars, rowVars, taskVars, crashes, phase, overran>>

AgentAction ==
    /\ AgentCrash \/ \E r \in Runs : AgentStep(r)
    /\ UNCHANGED <<clock, rowVars, taskVars, crashes, phase, overran>>

Dispatch(d) ==
    \/ \E r \in Runs : DispatchRead(d, r)
    \/ DispatchClaim(d)
    \/ DispatchLoseClaim(d)
    \/ DispatchPublish(d)
    \/ DispatchPublishError(d)
    \/ DispatchMark(d)
    \/ DispatchFail(d)
    \/ DispatchProject(d)

Project(a, r) ==
    \/ ProjectEvent(a, r)
    \/ ProjectRequire(a, r)
    \/ ProjectTimeout(a, r)
    \/ ProjectCatch(a, r)
    \/ ProjectCommit(a, r)
    \/ ProjectHistoryConflict(a, r)

Recover(a, r) == RecoverSelect(a, r) \/ RecoverRun(a, r)

Request(a, r) ==
    \/ CancelRead(a, r)
    \/ CancelCommit(a, r)
    \/ ResumeRead(a, r)
    \/ ResumeCommit(a, r)

Next ==
    \/ \E r \in Runs : CreateRun(r) \/ CancelEnded(r)
    \/ \E d \in Dispatchers : Dispatch(d)
    \/ \E a \in Apis, r \in Runs : Project(a, r) \/ Recover(a, r) \/ Request(a, r)
    \/ \E a \in Apis : ApiCrash(a)
    \/ AgentAction
    \/ Tick

Spec == Init /\ [][Next]_vars

\* What the code's scheduling guarantees: the dispatch timer and the recover
\* timer run for ever, started calls proceed, and time passes.
Fairness ==
    /\ \A d \in Dispatchers : WF_vars(Dispatch(d))
    /\ \A a \in Apis, r \in Runs : WF_vars(Project(a, r)) /\ WF_vars(Recover(a, r))
    /\ WF_vars(Tick)

FairSpec == Spec /\ Fairness

-----------------------------------------------------------------------------
(* Properties.                                                             *)

MessageStatusOf(status) ==
    IF status \in {"running", "requires_action"} THEN "streaming" ELSE status

\* The rows of a run tell the same story.  The dispatcher selects on the
\* generation row, the projector and the user's requests on the run row, and
\* the session view shows the message row; nothing but the discipline of nine
\* separate transactions keeps them equal.  The message of an ended run shows
\* how it ended, and no message streams for a run that has ended.  (A client
\* action that overwrites a cancel leaves the message cancelled.)
RowsAgree ==
    \A r \in Runs :
        /\ run[r].status = gen[r].status
        /\ run[r].published = gen[r].published
        /\ run[r].lease = gen[r].lease
        /\ run[r].status \in Terminal => msg[r] = run[r].status
        /\ msg[r] \notin Terminal => msg[r] = MessageStatusOf(run[r].status)

\* A running run always belongs to one of the two timers: it is published, and
\* recoverRunningRuns finds it, or it is not and carries a lease after whose
\* expiry dispatchPendingRuns claims it.  No crash, lost claim, cancel or
\* resume leaves it invisible to both.  An ended run holds no lease.
NoOrphan ==
    \A r \in Runs :
        /\ run[r].status = "running" => (run[r].published <=> run[r].lease = NoLease)
        /\ run[r].status \in Terminal => run[r].lease = NoLease

\* Replaying the run's lifecycle events gives the status in its row: whoever
\* writes a status appends the matching event in the same transaction, so a
\* client that follows the log ends with what a fresh read returns.
LogReplay ==
    \A r \in Runs :
        LET lifecycle == {i \in DOMAIN log[r] : log[r][i].type \in LifecycleTypes}
            statusOf(type) == CASE type = "started" -> "running"
                                [] type = "action" -> "requires_action"
                                [] OTHER -> type
        IN  IF run[r].status \in {Null, "pending"} THEN lifecycle = {}
            ELSE \E i \in lifecycle : /\ \A j \in lifecycle : j <= i
                                     /\ statusOf(log[r][i].type) = run[r].status

\* Someone read the run as active, or claimed it, and has yet to write.
StaleWriter(r) ==
    \/ cancelling[r] # {}
    \/ \E d \in Dispatchers : disp[d].run = r /\ disp[d].pc \in {"publish", "fail"}
    \/ \E a \in Apis : proj[a][r].pc = "commit"

KeepsEnded(r) ==
    run[r].status \in Terminal /\ ~StaleWriter(r)
        => run'[r].status = run[r].status /\ ~StaleWriter(r)'

\* An ended run stays ended: once the transactions that had seen it active are
\* drained, no late event, expired lease, recovered projection, duplicate
\* command, cancel or resume changes its status again or prepares to.
TerminalFinal == [][\A r \in Runs : KeepsEnded(r)]_vars

\* While no dispatcher has outlived its lease, and no projection the question the
\* user has answered, a run that waits for the client keeps the action it waits
\* for and is not marked as published: the user can always answer it
\* (prepareResumeRun rejects a run without pending action).
PendingActionKept ==
    \A r \in Runs : run[r].status = "requires_action" /\ ~overran[r]
                       => run[r].pending /\ ~run[r].published

\* While no call has outlived its lease or its phase in that sense, a running run
\* marked as published has the command it waits for in the stream, the resume of
\* its latest attempt included: its projection does not wait for an answer
\* nobody was asked for.
PublishedMeansSent ==
    \A r \in Runs :
        run[r].status = "running" /\ run[r].published /\ ~overran[r]
            => phase[r] \in commands[r]

\* Recovery does not jump over the end of a generation: every outcome at or
\* before the point where recoverRun resumes has been applied - or is a client
\* action whose tool part was saved and whose status change was not.
RecoveryKeepsOutcomes ==
    \A r \in Runs : \A i \in 1 .. LatestSourceEvent(r) :
        LET kind == events[r][i]
            recorded(type) == \E j \in DOMAIN log[r] :
                                  log[r][j] = [type |-> type, src |-> i]
        IN  kind \in Outcomes => recorded(kind) \/ recorded("tool")

SourcesInOrder(r) ==
    \A i, j \in DOMAIN log[r] :
        i < j /\ log[r][i].src # 0 /\ log[r][j].src # 0 =>
            \/ log[r][i].src < log[r][j].src
            \/ log[r][i].src = log[r][j].src /\ log[r][i].type # log[r][j].type

\* One process that projects a run records every source event once and in stream
\* order, also when it starts again after a crash and whatever the agent reports.
\* Several processes do so only under the condition in ChatRunHistory.
SourceOrder == \A r \in Runs : SourcesInOrder(r)

\* A created run does not stay pending or running for ever: it ends or waits
\* for the user, whatever crashes and whatever the agent does.
RunsSettle ==
    \A r \in Runs : run[r].status \in {"pending", "running"}
                       ~> run[r].status \notin {"pending", "running"}

\* The rows have their types, tell the same story and are seen by a timer.
RowInv == TypeOK /\ RowsAgree /\ NoOrphan

\* The log can be followed: it tells the status, and no outcome is missing where
\* recovery goes on.
LogInv == LogReplay /\ RecoveryKeepsOutcomes

\* A run that waits, for the user or for the agent, waits for something that can
\* come: the user's answer is accepted, the agent's command was sent.
CommandInv == PendingActionKept /\ PublishedMeansSent

\* What a crash leaves is picked up: no run is lost between the timers, and no
\* outcome is skipped.
RecoveryInv == NoOrphan /\ RecoveryKeepsOutcomes
=============================================================================
