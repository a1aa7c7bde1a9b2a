--------------------------- MODULE ChatRunProofs ---------------------------
(***************************************************************************)
(* Proofs about ChatRun for every set of runs, processes and dispatch      *)
(* calls, and every value of the bounds.                                   *)
(***************************************************************************)
EXTENDS ChatRun, TLAPS

\* A call that has chosen a run holds one of the runs, and a run that nobody has
\* claimed yet has no lease, is not published and has neither a dispatcher past
\* its claim nor a projection.
TasksOfClaimedRuns ==
    /\ \A d \in Dispatchers : disp[d].pc # "idle" => disp[d].run \in Runs
    /\ \A r \in Runs : run[r].status \in {Null, "pending"} =>
          /\ ~run[r].published
          /\ run[r].lease = NoLease
          /\ \A d \in Dispatchers :
                disp[d].run = r => disp[d].pc \in {"idle", "claim"}
          /\ \A a \in Apis : proj[a][r].pc = "idle"

IInv == TypeOK /\ RowsAgree /\ NoOrphan /\ TasksOfClaimedRuns

-----------------------------------------------------------------------------
(* Type correctness.                                                       *)

\* The position recovery resumes from is a position of the stream.
LEMMA LatestSourceEventType ==
    ASSUME TypeOK, NEW r \in Runs
    PROVE  LatestSourceEvent(r) \in Nat
<1> DEFINE sourced == {i \in DOMAIN log[r] : log[r][i].src # 0}
           latest == {i \in sourced : \A j \in sourced : j <= i}
<1>1. log[r] \in Seq(LogEntries)
  BY DEF TypeOK
<1>2. ASSUME NEW i \in latest PROVE log[r][i].src \in Nat
  <2>1. i \in DOMAIN log[r]
    OBVIOUS
  <2>2. log[r][i] \in LogEntries
    BY <1>1, <2>1
  <2> QED
    BY <2>2 DEF LogEntries
<1>3. latest # {} => (CHOOSE i \in latest : TRUE) \in latest
  OBVIOUS
<1>4. LatestSourceEvent(r) = IF latest = {} THEN 0
                             ELSE log[r][CHOOSE i \in latest : TRUE].src
  BY DEF LatestSourceEvent
<1> QED
  BY <1>2, <1>3, <1>4

\* A step of the agent keeps the types of the streams.
LEMMA AgentTypes ==
    ASSUME ServiceTypeOK, AgentCrash \/ \E r \in Runs : AgentStep(r)
    PROVE  ServiceTypeOK'
<1> USE DEF ServiceTypeOK
<1>1. CASE AgentCrash
  <2>1. executing' \in [Runs -> [Keys -> Stages]]
    BY <1>1 DEF AgentCrash, Stages
  <2> QED
    BY <1>1, <2>1 DEF AgentCrash
<1>2. ASSUME NEW r \in Runs, NEW k \in Keys, Begin(r, k) PROVE ServiceTypeOK'
  BY <1>2 DEF Begin, Stages
<1>3. ASSUME NEW r \in Runs, NEW k \in Keys, Delta(r, k) PROVE ServiceTypeOK'
  BY <1>3 DEF Delta, EventKinds
<1>4. ASSUME NEW r \in Runs, NEW k \in Keys, NEW kind \in Outcomes, Report(r, k, kind)
      PROVE  ServiceTypeOK'
  <2>1. events' \in [Runs -> Seq(EventKinds)]
    BY <1>4 DEF Report, EventKinds
  <2>2. executing' \in [Runs -> [Keys -> Stages]]
    BY <1>4 DEF Report, Stages
  <2> QED
    BY <1>4, <2>1, <2>2 DEF Report
<1>5. ASSUME NEW r \in Runs, NEW k \in Keys, NEW keep \in BOOLEAN, End(r, k, keep)
      PROVE  ServiceTypeOK'
  BY <1>5 DEF End, Stages
<1> QED
  BY <1>1, <1>2, <1>3, <1>4, <1>5 DEF AgentStep

\* Appending an event keeps the type of the log.
LEMMA AppendEventType ==
    ASSUME TypeOK, NEW r \in Runs, NEW type \in LogTypes, NEW src \in Nat,
           AppendEvent(r, type, src)
    PROVE  log' \in [Runs -> Seq(LogEntries)]
<1>1. [type |-> type, src |-> src] \in LogEntries
  BY DEF LogEntries
<1> QED
  BY <1>1 DEF AppendEvent, TypeOK

\* So does a terminal status for the types of the rows.
LEMMA SetTerminalType ==
    ASSUME TypeOK, NEW r \in Runs, NEW status \in Terminal, SetTerminal(r, status)
    PROVE  /\ run' \in [Runs -> RunRows]
           /\ gen' \in [Runs -> GenerationRows]
           /\ msg' \in [Runs -> MessageStatuses]
<1>1. status \in Statuses /\ status \in MessageStatuses /\ NoLease \in Leases
  BY DEF Statuses, MessageStatuses, Leases
<1>2. run' \in [Runs -> RunRows]
  <2>1. run \in [Runs -> RunRows]
    BY DEF TypeOK
  <2>2. run' = [run EXCEPT ![r].status = status, ![r].lease = NoLease]
    BY DEF SetTerminal
  <2> QED
    BY <1>1, <2>1, <2>2 DEF RunRows
<1>3. gen' \in [Runs -> GenerationRows]
  <2>1. gen \in [Runs -> GenerationRows]
    BY DEF TypeOK
  <2>2. gen' = [gen EXCEPT ![r].status = status, ![r].lease = NoLease]
    BY DEF SetTerminal
  <2> QED
    BY <1>1, <2>1, <2>2 DEF GenerationRows
<1>4. msg' \in [Runs -> MessageStatuses]
  BY <1>1 DEF SetTerminal, TypeOK
<1> QED
  BY <1>2, <1>3, <1>4

\* Each step of a dispatchRun call keeps the types.
LEMMA DispatchTypes ==
    ASSUME TypeOK, TasksOfClaimedRuns, NEW d \in Dispatchers, Dispatch(d)
    PROVE  TypeOK'
<1>disp. disp \in [Dispatchers -> DispatchCalls]
  BY DEF TypeOK
<1>run. run \in [Runs -> RunRows]
  BY DEF TypeOK
<1>gen. gen \in [Runs -> GenerationRows]
  BY DEF TypeOK
<1>task. disp[d] \in DispatchCalls
  BY <1>disp
<1>lease. NoLease \in Leases /\ disp[d].now + LeaseTicks \in Leases
  BY <1>task, ChatRunAssumption DEF DispatchCalls, Leases
<1>key. /\ 0 \in Keys
        /\ \A r \in Runs : gen[r].attempt < MaxAttempts => gen[r].attempt + 1 \in Keys
  BY <1>gen, ServiceAssumption DEF GenerationRows, Keys
<1>goto. ASSUME NEW pc \in {"publish", "mark", "fail", "project"},
                disp' = [disp EXCEPT ![d].pc = pc]
         PROVE  disp' \in [Dispatchers -> DispatchCalls]
  BY <1>disp, <1>goto DEF DispatchCalls
<1>idle. ASSUME disp' = [disp EXCEPT ![d] = IdleDispatch]
         PROVE  disp' \in [Dispatchers -> DispatchCalls]
  BY <1>disp, <1>key, <1>idle DEF IdleDispatch, DispatchCalls, Statuses
<1>late. ASSUME overran' = [overran EXCEPT ![disp[d].run] = @ \/ Overran(d)]
         PROVE  overran' \in [Runs -> BOOLEAN]
  BY <1>late DEF Overran, TypeOK
<1>1. ASSUME NEW r \in Runs, DispatchRead(d, r) PROVE TypeOK'
  <2>1. LatestSourceEvent(r) \in Nat /\ Len(events[r]) \in Nat /\ clock \in Nat
    BY LatestSourceEventType DEF TypeOK, ServiceTypeOK
  <2>2. disp' \in [Dispatchers -> DispatchCalls]
    BY <1>1, <1>disp, <1>run, <1>gen, <2>1
       DEF DispatchRead, DispatchCalls, RunRows, GenerationRows
  <2> QED
    BY <1>1, <2>2 DEF DispatchRead, TypeOK, ServiceTypeOK, serviceVars, rowVars
<1>2. CASE DispatchClaim(d)
  <2>1. disp[d].run \in Runs
    BY <1>2 DEF DispatchClaim, TasksOfClaimedRuns
  <2>2. disp' \in [Dispatchers -> DispatchCalls]
    BY <1>2, <1>goto DEF DispatchClaim
  <2>3. CASE ClaimPending(disp[d].run, disp[d].now)
    <3>1. log' \in [Runs -> Seq(LogEntries)]
      BY <2>1, <2>3, AppendEventType DEF ClaimPending, LogTypes, LifecycleTypes
    <3>2. run' \in [Runs -> RunRows]
      BY <1>run, <1>lease, <2>1, <2>3, SMTT(60) DEF ClaimPending, RunRows, Statuses, Active
    <3>3. gen' \in [Runs -> GenerationRows]
      BY <1>gen, <1>lease, <1>key, <2>1, <2>3
         DEF ClaimPending, GenerationRows, Statuses, Active
    <3>4. msg' \in [Runs -> MessageStatuses]
      BY <2>1, <2>3 DEF ClaimPending, MessageStatuses, TypeOK
    <3> QED
      BY <1>2, <2>2, <3>1, <3>2, <3>3, <3>4
         DEF DispatchClaim, TypeOK, ServiceTypeOK, serviceVars
  <2>4. CASE ClaimRunning(disp[d].run, disp[d].now, disp[d].resume # 0)
    <3>1. run' \in [Runs -> RunRows]
      BY <1>run, <1>lease, <2>1, <2>4 DEF ClaimRunning, RunRows
    <3>2. gen' \in [Runs -> GenerationRows]
      BY <1>gen, <1>lease, <1>key, <2>1, <2>4 DEF ClaimRunning, GenerationRows
    <3> QED
      BY <1>2, <2>2, <2>4, <3>1, <3>2
         DEF DispatchClaim, ClaimRunning, TypeOK, ServiceTypeOK, serviceVars
  <2> QED
    BY <1>2, <2>3, <2>4 DEF DispatchClaim, Claim
<1>3. CASE DispatchLoseClaim(d)
  BY <1>3, <1>idle DEF DispatchLoseClaim, TypeOK, ServiceTypeOK, serviceVars, rowVars
<1>4. ASSUME disp[d].pc = "publish", PublishCommand(disp[d].run, disp[d].resume)
      PROVE  commands' \in [Runs -> SUBSET Keys]
  <2>1. disp[d].run \in Runs /\ disp[d].resume \in Keys
    BY <1>4, <1>task DEF TasksOfClaimedRuns, DispatchCalls
  <2> QED
    BY <1>4, <2>1 DEF PublishCommand, TypeOK, ServiceTypeOK
<1>5. CASE DispatchPublish(d)
  <2>1. disp' \in [Dispatchers -> DispatchCalls]
    BY <1>5, <1>goto DEF DispatchPublish
  <2>2. commands' \in [Runs -> SUBSET Keys]
    BY <1>4, <1>5 DEF DispatchPublish
  <2> QED
    BY <1>5, <2>1, <2>2 DEF DispatchPublish, TypeOK, ServiceTypeOK, rowVars
<1>6. CASE DispatchPublishError(d)
  <2>1. disp' \in [Dispatchers -> DispatchCalls]
    BY <1>6, <1>goto DEF DispatchPublishError
  <2>2. commands' \in [Runs -> SUBSET Keys]
    BY <1>4, <1>6 DEF DispatchPublishError, TypeOK, ServiceTypeOK
  <2> QED
    BY <1>6, <2>1, <2>2 DEF DispatchPublishError, TypeOK, ServiceTypeOK, rowVars
<1>7. CASE DispatchMark(d)
  <2>1. disp' \in [Dispatchers -> DispatchCalls]
    BY <1>7, <1>goto, <1>idle DEF DispatchMark
  <2>2. disp[d].run \in Runs
    BY <1>7 DEF DispatchMark, TasksOfClaimedRuns
  <2>3. (run' = run /\ gen' = gen) \/ MarkPublished(disp[d].run)
    BY <1>7 DEF DispatchMark
  <2>4. run' \in [Runs -> RunRows]
    <3>1. run[disp[d].run] \in RunRows
      BY <1>run, <2>2
    <3> DEFINE row == [run[disp[d].run] EXCEPT !.published = TRUE, !.lease = NoLease,
                                               !.pending = FALSE, !.resume = 0]
    <3>2. row \in RunRows
      BY <1>lease, <1>key, <3>1 DEF RunRows
    <3>3. MarkPublished(disp[d].run) => run' = [run EXCEPT ![disp[d].run] = row]
      BY DEF MarkPublished
    <3> HIDE DEF row
    <3> QED
      BY <1>run, <2>2, <2>3, <3>2, <3>3
  <2>5. gen' \in [Runs -> GenerationRows]
    <3>1. gen[disp[d].run] \in GenerationRows
      BY <1>gen, <2>2
    <3> DEFINE row == [gen[disp[d].run] EXCEPT !.published = TRUE, !.lease = NoLease]
    <3>2. row \in GenerationRows
      BY <1>lease, <3>1 DEF GenerationRows
    <3>3. gen' = gen \/ gen' = [gen EXCEPT ![disp[d].run] = row]
      BY <2>3 DEF MarkPublished
    <3> HIDE DEF row
    <3> QED
      BY <1>gen, <2>2, <3>2, <3>3
  <2>6. overran' \in [Runs -> BOOLEAN]
    BY <1>7, <1>late DEF DispatchMark
  <2> QED
    BY <1>7, <2>1, <2>4, <2>5, <2>6 DEF DispatchMark, TypeOK, ServiceTypeOK, serviceVars
<1>8. CASE DispatchFail(d)
  <2>1. disp[d].run \in Runs
    BY <1>8 DEF DispatchFail, TasksOfClaimedRuns
  <2>2. disp' \in [Dispatchers -> DispatchCalls]
    BY <1>8, <1>idle DEF DispatchFail
  <2>3. overran' \in [Runs -> BOOLEAN]
    BY <1>8, <1>late DEF DispatchFail
  <2>4. /\ run' \in [Runs -> RunRows]
        /\ gen' \in [Runs -> GenerationRows]
        /\ msg' \in [Runs -> MessageStatuses]
        /\ log' \in [Runs -> Seq(LogEntries)]
    <3>1. CASE MarkRunFailed(disp[d].run)
      BY <2>1, <3>1, AppendEventType, SetTerminalType
         DEF MarkRunFailed, LogTypes, LifecycleTypes, Terminal
    <3>2. CASE ReturnToClientAction(d)
      <4>1. log' \in [Runs -> Seq(LogEntries)]
        BY <2>1, <3>2, AppendEventType
           DEF ReturnToClientAction, LogTypes, LifecycleTypes, rowVars, TypeOK
      <4>2. run' \in [Runs -> RunRows]
        BY <1>run, <1>lease, <1>key, <1>task, <2>1, <3>2
           DEF ReturnToClientAction, RunRows, DispatchCalls, Statuses, Active, rowVars
      <4>3. gen' \in [Runs -> GenerationRows]
        BY <1>gen, <1>lease, <2>1, <3>2
           DEF ReturnToClientAction, GenerationRows, Statuses, Active, rowVars
      <4>4. msg' \in [Runs -> MessageStatuses]
        BY <3>2 DEF ReturnToClientAction, rowVars, TypeOK
      <4> QED
        BY <4>1, <4>2, <4>3, <4>4
    <3> QED
      BY <1>8, <3>1, <3>2 DEF DispatchFail
  <2> QED
    BY <1>8, <2>2, <2>3, <2>4 DEF DispatchFail, TypeOK, ServiceTypeOK, serviceVars
<1>9. CASE DispatchProject(d)
  <2>1. disp[d].run \in Runs /\ Home[d] \in Apis /\ disp[d].after \in Nat
    BY <1>9, <1>task, ChatRunAssumption DEF DispatchProject, TasksOfClaimedRuns, DispatchCalls
  <2>2. [IdleProjection EXCEPT !.pc = "consume", !.cursor = disp[d].after] \in Projections
    BY <2>1 DEF IdleProjection, Projections
  <2>3. proj' \in [Apis -> [Runs -> Projections]]
    BY <1>9, <2>1, <2>2 DEF DispatchProject, StartProjection, TypeOK
  <2> QED
    BY <1>9, <1>idle, <2>3 DEF DispatchProject, TypeOK, ServiceTypeOK, serviceVars, rowVars
<1> QED
  BY <1>1, <1>2, <1>3, <1>5, <1>6, <1>7, <1>8, <1>9 DEF Dispatch

\* Changing the program counter, event or cursor of a projection keeps its type.
LEMMA ProjectionMoves ==
    ASSUME TypeOK, NEW a \in Apis, NEW r \in Runs
    PROVE  \/ EndProjection(a, r)
           \/ Advance(a, r)
           \/ \E pc \in {"require", "catch"} : Goto(a, r, pc)
           \/ \E kind \in {"delta", "tool"} \cup Outcomes, src \in Nat :
                 Prepare(a, r, kind, src)
           \/ \E src \in Nat : proj' = [proj EXCEPT ![a][r] =
                                          [@ EXCEPT !.pc = "require", !.src = src]]
           \/ \E kind \in {"failed", "cancelled"} : Throw(a, r, kind)
           => proj' \in [Apis -> [Runs -> Projections]]
<1>1. proj \in [Apis -> [Runs -> Projections]]
  BY DEF TypeOK
<1>2. proj[a][r] \in Projections
  BY <1>1
<1>3. ASSUME NEW row \in Projections, proj' = [proj EXCEPT ![a][r] = row]
      PROVE  proj' \in [Apis -> [Runs -> Projections]]
  BY <1>1, <1>3
<1>4. CASE EndProjection(a, r)
  <2>1. IdleProjection \in Projections
    BY DEF IdleProjection, Projections
  <2> QED
    BY <1>3, <1>4, <2>1 DEF EndProjection
<1>5. CASE Advance(a, r)
  <2> DEFINE next == proj[a][r].cursor + 1
             row == [IdleProjection EXCEPT !.pc = "consume", !.cursor = next]
  <2>1. row \in Projections
    <3>1. proj[a][r].cursor \in Nat
      BY <1>2 DEF Projections
    <3>2. next \in Nat
      BY <3>1
    <3> HIDE DEF next
    <3> QED
      BY <3>2 DEF IdleProjection, Projections
  <2>2. proj' = [proj EXCEPT ![a][r] = row]
    BY <1>5 DEF Advance
  <2> QED
    BY <1>3, <2>1, <2>2
<1>6. ASSUME NEW pc \in {"require", "catch"}, Goto(a, r, pc)
      PROVE  proj' \in [Apis -> [Runs -> Projections]]
  <2> DEFINE row == [proj[a][r] EXCEPT !.pc = pc]
  <2>1. row \in Projections
    BY <1>2 DEF Projections
  <2>2. proj' = [proj EXCEPT ![a][r] = row]
    BY <1>6 DEF Goto
  <2> QED
    BY <1>3, <2>1, <2>2
<1>7. ASSUME NEW kind \in {"delta", "tool"} \cup Outcomes, NEW src \in Nat,
             Prepare(a, r, kind, src)
      PROVE  proj' \in [Apis -> [Runs -> Projections]]
  <2> DEFINE row == [proj[a][r] EXCEPT !.pc = "commit", !.kind = kind, !.src = src]
  <2>1. row \in Projections
    BY <1>2 DEF Projections
  <2>2. proj' = [proj EXCEPT ![a][r] = row]
    BY <1>7 DEF Prepare
  <2> QED
    BY <1>3, <2>1, <2>2
<1>8. ASSUME NEW src \in Nat,
             proj' = [proj EXCEPT ![a][r] = [@ EXCEPT !.pc = "require", !.src = src]]
      PROVE  proj' \in [Apis -> [Runs -> Projections]]
  <2> DEFINE row == [proj[a][r] EXCEPT !.pc = "require", !.src = src]
  <2>1. row \in Projections
    BY <1>2 DEF Projections
  <2>2. proj' = [proj EXCEPT ![a][r] = row]
    BY <1>8
  <2> QED
    BY <1>3, <2>1, <2>2
<1>9. ASSUME NEW kind \in {"failed", "cancelled"}, Throw(a, r, kind)
      PROVE  proj' \in [Apis -> [Runs -> Projections]]
  <2> DEFINE row == [proj[a][r] EXCEPT !.pc = "catch", !.kind = kind]
  <2>1. row \in Projections
    BY <1>2 DEF Projections, Outcomes
  <2>2. proj' = [proj EXCEPT ![a][r] = row]
    BY <1>9 DEF Throw
  <2> QED
    BY <1>3, <2>1, <2>2
<1> QED
  BY <1>4, <1>5, <1>6, <1>7, <1>8, <1>9

\* The writes of requireClientActionRun keep the types of the rows.
LEMMA RequireClientActionType ==
    ASSUME TypeOK, NEW r \in Runs, NEW src \in Nat, RequireClientAction(r, src)
    PROVE  /\ run' \in [Runs -> RunRows]
           /\ gen' \in [Runs -> GenerationRows]
           /\ msg' \in [Runs -> MessageStatuses]
           /\ log' \in [Runs -> Seq(LogEntries)]
<1> DEFINE runRow == [run[r] EXCEPT !.status = "requires_action", !.published = FALSE,
                                    !.lease = NoLease, !.pending = TRUE]
           genRow == [gen[r] EXCEPT !.status = "requires_action", !.published = FALSE,
                                    !.lease = NoLease]
<1>1. /\ run \in [Runs -> RunRows]
      /\ gen \in [Runs -> GenerationRows]
  BY DEF TypeOK
<1>2. run[r] \in RunRows /\ gen[r] \in GenerationRows
  BY <1>1
<1>3. "requires_action" \in Statuses /\ NoLease \in Leases
  BY DEF Statuses, Active, Leases
<1>4. runRow \in RunRows
  BY <1>2, <1>3 DEF RunRows
<1>5. genRow \in GenerationRows
  BY <1>2, <1>3 DEF GenerationRows
<1>6. run' = [run EXCEPT ![r] = runRow] /\ gen' = [gen EXCEPT ![r] = genRow]
  BY DEF RequireClientAction
<1>7. msg' \in [Runs -> MessageStatuses]
  BY DEF RequireClientAction, TypeOK
<1>8. log' \in [Runs -> Seq(LogEntries)]
  BY AppendEventType DEF RequireClientAction, LogTypes, LifecycleTypes
<1> HIDE DEF runRow, genRow
<1> QED
  BY <1>1, <1>4, <1>5, <1>6, <1>7, <1>8

\* Each step of a projectRun call keeps the types.
LEMMA ProjectTypes ==
    ASSUME TypeOK, NEW a \in Apis, NEW r \in Runs, Project(a, r)
    PROVE  TypeOK'
<1>1. /\ proj \in [Apis -> [Runs -> Projections]]
      /\ proj[a][r] \in Projections
  BY DEF TypeOK
<1>2. /\ proj[a][r].src \in Nat
      /\ proj[a][r].cursor + 1 \in Nat
      /\ proj[a][r].kind \in {"delta", "tool"} \cup Outcomes
  BY <1>1 DEF Projections
<1>3. ASSUME proj' \in [Apis -> [Runs -> Projections]],
             UNCHANGED <<serviceVars, clock, rowVars, disp, recovering, cancelling,
                         resuming, crashes, phase, overran>>
      PROVE  TypeOK'
  BY <1>3 DEF TypeOK, ServiceTypeOK, serviceVars, rowVars
<1>5. CASE ProjectEvent(a, r)
  <2> DEFINE src == proj[a][r].cursor + 1
             kind == events[r][src]
  <2>1. src \in Nat
    BY <1>2
  <2>2. \/ EndProjection(a, r)
        \/ Advance(a, r)
        \/ \E k \in {"delta", "tool"} \cup Outcomes : Prepare(a, r, k, src)
        \/ proj' = [proj EXCEPT ![a][r] = [@ EXCEPT !.pc = "require", !.src = src]]
        \/ \E k \in {"failed", "cancelled"} : Throw(a, r, k)
    <3>1. CASE kind = "delta"
      BY <1>5, <3>1 DEF ProjectEvent
    <3>2. CASE kind = "action"
      BY <1>5, <3>2 DEF ProjectEvent
    <3>3. CASE kind = "completed"
      BY <1>5, <3>3 DEF ProjectEvent, Outcomes
    <3>4. CASE kind \in {"failed", "cancelled"}
      BY <1>5, <3>4 DEF ProjectEvent, Outcomes
    <3> QED
      BY <1>5, <3>1, <3>2, <3>3, <3>4 DEF ProjectEvent
  <2> HIDE DEF src, kind
  <2>3. proj' \in [Apis -> [Runs -> Projections]]
    BY <2>1, <2>2, ProjectionMoves
  <2> QED
    BY <1>3, <1>5, <2>3 DEF ProjectEvent
<1>6. CASE ProjectRequire(a, r)
  <2>1. \/ EndProjection(a, r)
        \/ Prepare(a, r, "action", proj[a][r].src)
    BY <1>6 DEF ProjectRequire
  <2>2. proj' \in [Apis -> [Runs -> Projections]]
    BY <1>2, <2>1, ProjectionMoves DEF Outcomes
  <2> QED
    BY <1>3, <1>6, <2>2 DEF ProjectRequire
<1>7. CASE ProjectTimeout(a, r)
  BY <1>3, <1>7, ProjectionMoves DEF ProjectTimeout
<1>8. CASE ProjectCatch(a, r)
  <2>1. \/ EndProjection(a, r)
        \/ Prepare(a, r, proj[a][r].kind, 0)
    BY <1>8 DEF ProjectCatch
  <2>2. proj' \in [Apis -> [Runs -> Projections]]
    BY <1>2, <2>1, ProjectionMoves
  <2> QED
    BY <1>3, <1>8, <2>2 DEF ProjectCatch
<1>9. CASE ProjectCommit(a, r)
  <2> DEFINE kind == proj[a][r].kind
             src == proj[a][r].src
  <2>1. proj' \in [Apis -> [Runs -> Projections]]
    BY <1>9, ProjectionMoves DEF ProjectCommit
  <2>2. \/ UNCHANGED rowVars
        \/ /\ kind \in {"delta", "tool"}
           /\ AppendEvent(r, kind, src)
           /\ UNCHANGED <<run, gen, msg>>
        \/ RequireClientAction(r, src)
        \/ /\ kind \in Terminal
           /\ SetTerminal(r, kind)
           /\ AppendEvent(r, kind, src)
    BY <1>9 DEF ProjectCommit, AppendPart, EndRun
  <2>3. src \in Nat
    BY <1>2
  <2> HIDE DEF kind, src
  <2>4. /\ run' \in [Runs -> RunRows]
        /\ gen' \in [Runs -> GenerationRows]
        /\ msg' \in [Runs -> MessageStatuses]
        /\ log' \in [Runs -> Seq(LogEntries)]
    <3>1. CASE UNCHANGED rowVars
      BY <3>1 DEF rowVars, TypeOK
    <3>2. CASE /\ kind \in {"delta", "tool"}
               /\ AppendEvent(r, kind, src)
               /\ UNCHANGED <<run, gen, msg>>
      BY <2>3, <3>2, AppendEventType DEF LogTypes, TypeOK
    <3>3. CASE RequireClientAction(r, src)
      BY <2>3, <3>3, RequireClientActionType
    <3>4. CASE /\ kind \in Terminal
               /\ SetTerminal(r, kind)
               /\ AppendEvent(r, kind, src)
      BY <2>3, <3>4, AppendEventType, SetTerminalType DEF LogTypes, LifecycleTypes
    <3> QED
      BY <2>2, <3>1, <3>2, <3>3, <3>4
  <2> QED
    BY <1>9, <2>1, <2>4
       DEF ProjectCommit, AppendPart, EndRun, TypeOK, ServiceTypeOK, serviceVars
<1>10. CASE ProjectHistoryConflict(a, r)
  BY <1>3, <1>10, ProjectionMoves DEF ProjectHistoryConflict
<1> QED
  BY <1>5, <1>6, <1>7, <1>8, <1>9, <1>10 DEF Project

\* So does each step of the recovery timer.
LEMMA RecoverTypes ==
    ASSUME TypeOK, NEW a \in Apis, NEW r \in Runs, Recover(a, r)
    PROVE  TypeOK'
<1>1. CASE RecoverSelect(a, r)
  BY <1>1 DEF RecoverSelect, TypeOK, ServiceTypeOK, serviceVars, rowVars
<1>2. CASE RecoverRun(a, r)
  <2>1. LatestSourceEvent(r) \in Nat
    BY LatestSourceEventType
  <2>2. [IdleProjection EXCEPT !.pc = "consume", !.cursor = LatestSourceEvent(r)]
          \in Projections
    BY <2>1 DEF IdleProjection, Projections
  <2>3. proj' \in [Apis -> [Runs -> Projections]]
    BY <1>2, <2>2 DEF RecoverRun, StartProjection, TypeOK
  <2>4. recovering' \in [Runs -> SUBSET Apis]
    BY <1>2 DEF RecoverRun, TypeOK
  <2> QED
    BY <1>2, <2>3, <2>4 DEF RecoverRun, TypeOK, ServiceTypeOK, serviceVars, rowVars
<1> QED
  BY <1>1, <1>2 DEF Recover

\* Each step of the user's requests keeps the types.
LEMMA RequestTypes ==
    ASSUME TypeOK, NEW a \in Apis, NEW r \in Runs, Request(a, r)
    PROVE  TypeOK'
<1>1. CASE CancelRead(a, r)
  BY <1>1 DEF CancelRead, TypeOK, ServiceTypeOK, serviceVars, rowVars
<1>2. CASE CancelCommit(a, r)
  <2>1. /\ run' \in [Runs -> RunRows]
        /\ gen' \in [Runs -> GenerationRows]
        /\ msg' \in [Runs -> MessageStatuses]
    BY <1>2, SetTerminalType DEF CancelCommit, Terminal
  <2>2. log' \in [Runs -> Seq(LogEntries)]
    BY <1>2, AppendEventType DEF CancelCommit, LogTypes, LifecycleTypes, Terminal
  <2>3. cancelling' \in [Runs -> SUBSET Apis] /\ stopped' \in [Runs -> BOOLEAN]
    BY <1>2 DEF CancelCommit, PublishCancel, TypeOK, ServiceTypeOK
  <2> QED
    BY <1>2, <2>1, <2>2, <2>3 DEF CancelCommit, TypeOK, ServiceTypeOK
<1>3. CASE ResumeRead(a, r)
  BY <1>3 DEF ResumeRead, TypeOK, ServiceTypeOK, serviceVars, rowVars
<1>4. CASE ResumeCommit(a, r)
  <2>1. resuming' \in [Runs -> SUBSET Apis]
    BY <1>4 DEF ResumeCommit, TypeOK
  <2>2. CASE run[r].status = "requires_action"
    <3>1. clock \in Nat /\ clock + 1 \in Nat /\ gen[r] \in GenerationRows
      BY DEF TypeOK
    <3>2. gen[r].attempt + 1 \in Keys
      BY <1>4, <2>2, <3>1, ServiceAssumption DEF ResumeCommit, GenerationRows, Keys
    <3>3. [status |-> "running", published |-> FALSE, lease |-> clock,
           pending |-> TRUE, resume |-> gen[r].attempt + 1] \in RunRows
      BY <3>1, <3>2 DEF RunRows, Statuses, Active, Leases
    <3>4. [status |-> "running", published |-> FALSE, lease |-> clock,
           attempt |-> gen[r].attempt + 1] \in GenerationRows
      BY <3>1, <3>2 DEF GenerationRows, Statuses, Active, Leases
    <3>5. log' \in [Runs -> Seq(LogEntries)]
      BY <1>4, <2>2, AppendEventType DEF ResumeCommit, LogTypes, LifecycleTypes
    <3>6. run' \in [Runs -> RunRows]
      BY <1>4, <2>2, <3>3, ZenonT(60) DEF ResumeCommit, TypeOK
    <3>7. gen' \in [Runs -> GenerationRows]
      BY <1>4, <2>2, <3>4, ZenonT(60) DEF ResumeCommit, TypeOK
    <3>8. phase' \in [Runs -> Keys]
      BY <1>4, <2>2, <3>2, ZenonT(60) DEF ResumeCommit, TypeOK
    <3>9. clock' \in Nat
      BY <1>4, <2>2, <3>1 DEF ResumeCommit
    <3>10. overran' \in [Runs -> BOOLEAN]
      <4>1. PICK late \in BOOLEAN : late <=> Outlived(r)
        OBVIOUS
      <4>2. overran' = [overran EXCEPT ![r] = @ \/ late]
        BY <1>4, <2>2, <4>1 DEF ResumeCommit
      <4> QED
        BY <4>2 DEF TypeOK
    <3> QED
      BY <1>4, <2>1, <3>5, <3>6, <3>7, <3>8, <3>9, <3>10
         DEF ResumeCommit, TypeOK, ServiceTypeOK, serviceVars
  <2>3. CASE run[r].status # "requires_action"
    BY <1>4, <2>1, <2>3 DEF ResumeCommit, TypeOK, ServiceTypeOK, serviceVars
  <2> QED
    BY <2>2, <2>3
<1> QED
  BY <1>1, <1>2, <1>3, <1>4 DEF Request

\* The initial state has the declared types.
LEMMA InitTypes == Init => TypeOK
<1> SUFFICES ASSUME Init PROVE TypeOK
  OBVIOUS
<1>1. 0 \in Keys
  BY ServiceAssumption DEF Keys
<1>2. ServiceTypeOK
  BY <1>1 DEF Init, ServiceInit, ServiceTypeOK, Stages
<1>3. [status |-> Null, published |-> FALSE, lease |-> NoLease, pending |-> FALSE,
       resume |-> 0] \in RunRows
  BY <1>1 DEF RunRows, Statuses, Leases
<1>4. [status |-> Null, published |-> FALSE, lease |-> NoLease, attempt |-> 0]
        \in GenerationRows
  BY <1>1 DEF GenerationRows, Statuses, Leases
<1>5. IdleDispatch \in DispatchCalls
  BY <1>1 DEF IdleDispatch, DispatchCalls, Statuses
<1>6. IdleProjection \in Projections
  BY DEF IdleProjection, Projections
<1>7. Null \in MessageStatuses
  BY DEF MessageStatuses
<1> QED
  BY <1>1, <1>2, <1>3, <1>4, <1>5, <1>6, <1>7 DEF Init, TypeOK

\* Every step keeps the types.
LEMMA TypeStep ==
    ASSUME TypeOK, TasksOfClaimedRuns, [Next]_vars
    PROVE  TypeOK'
<1>1. ASSUME NEW r \in Runs, CreateRun(r) PROVE TypeOK'
  <2>1. run \in [Runs -> RunRows] /\ gen \in [Runs -> GenerationRows]
    BY DEF TypeOK
  <2>2. run' \in [Runs -> RunRows]
    BY <1>1, <2>1 DEF CreateRun, RunRows, Statuses, Active
  <2>3. gen' \in [Runs -> GenerationRows]
    BY <1>1, <2>1 DEF CreateRun, GenerationRows, Statuses, Active
  <2>4. msg' \in [Runs -> MessageStatuses]
    BY <1>1 DEF CreateRun, MessageStatuses, TypeOK
  <2> QED
    BY <1>1, <2>2, <2>3, <2>4
       DEF CreateRun, TypeOK, ServiceTypeOK, serviceVars, taskVars
<1>2. ASSUME NEW r \in Runs, CancelEnded(r) PROVE TypeOK'
  BY <1>2 DEF CancelEnded, PublishCancel, TypeOK, ServiceTypeOK, rowVars, taskVars
<1>3. CASE AgentAction
  <2>1. ServiceTypeOK'
    BY <1>3, AgentTypes DEF AgentAction, TypeOK
  <2> QED
    BY <1>3, <2>1 DEF AgentAction, TypeOK, rowVars, taskVars
<1>4. ASSUME NEW a \in Apis, ApiCrash(a) PROVE TypeOK'
  <2>1. 0 \in Keys
    BY ServiceAssumption DEF Keys
  <2>2. IdleDispatch \in DispatchCalls
    BY <2>1 DEF IdleDispatch, DispatchCalls, Statuses
  <2>3. IdleProjection \in Projections
    BY DEF IdleProjection, Projections
  <2>4. disp' \in [Dispatchers -> DispatchCalls]
    BY <1>4, <2>2 DEF ApiCrash, TypeOK
  <2>5. proj' \in [Apis -> [Runs -> Projections]]
    BY <1>4, <2>3 DEF ApiCrash, TypeOK
  <2>6. /\ recovering' \in [Runs -> SUBSET Apis]
        /\ cancelling' \in [Runs -> SUBSET Apis]
        /\ resuming' \in [Runs -> SUBSET Apis]
        /\ crashes' \in Nat
    BY <1>4 DEF ApiCrash, TypeOK
  <2> QED
    BY <1>4, <2>4, <2>5, <2>6 DEF ApiCrash, TypeOK, ServiceTypeOK, serviceVars, rowVars
<1>5. CASE Tick
  BY <1>5 DEF Tick, TypeOK, ServiceTypeOK, serviceVars, rowVars, taskVars
<1>6. CASE UNCHANGED vars
  BY <1>6 DEF vars, TypeOK, ServiceTypeOK, serviceVars, rowVars, taskVars
<1> QED
  BY <1>1, <1>2, <1>3, <1>4, <1>5, <1>6, DispatchTypes, ProjectTypes, RecoverTypes,
     RequestTypes DEF Next

-----------------------------------------------------------------------------
(* The rows of a run.                                                      *)

\* What RowsAgree and NoOrphan say of one run.
RowOK(r) ==
    /\ run[r].status = gen[r].status
    /\ run[r].published = gen[r].published
    /\ run[r].lease = gen[r].lease
    /\ run[r].status \in Terminal => msg[r] = run[r].status
    /\ msg[r] \notin Terminal => msg[r] = MessageStatusOf(run[r].status)
    /\ run[r].status = "running" => (run[r].published <=> run[r].lease = NoLease)
    /\ run[r].status \in Terminal => run[r].lease = NoLease

\* A step that writes the rows of one run and leaves them in order keeps the
\* rows of all runs in order.
LEMMA OneRow ==
    ASSUME RowsAgree, NoOrphan, NEW r \in Runs, RowOK(r)',
           \A q \in Runs \ {r} : run'[q] = run[q] /\ gen'[q] = gen[q] /\ msg'[q] = msg[q]
    PROVE  RowsAgree' /\ NoOrphan'
  BY DEF RowOK, RowsAgree, NoOrphan, MessageStatusOf

\* A step that leaves the rows alone does so trivially.
LEMMA SameRows ==
    ASSUME RowsAgree, NoOrphan, UNCHANGED <<run, gen, msg>>
    PROVE  RowsAgree' /\ NoOrphan'
  BY DEF RowsAgree, NoOrphan, MessageStatusOf

\* A terminal write leaves the rows in order.
LEMMA SetTerminalRows ==
    ASSUME TypeOK, RowsAgree, NoOrphan, NEW r \in Runs, NEW status \in Terminal,
           SetTerminal(r, status)
    PROVE  RowsAgree' /\ NoOrphan'
<1>1. /\ run \in [Runs -> RunRows]
      /\ gen \in [Runs -> GenerationRows]
      /\ msg \in [Runs -> MessageStatuses]
  BY DEF TypeOK
<1>2. /\ run'[r].status = status /\ run'[r].lease = NoLease
      /\ run'[r].published = run[r].published
  BY <1>1 DEF SetTerminal, RunRows
<1>3. /\ gen'[r].status = status /\ gen'[r].lease = NoLease
      /\ gen'[r].published = gen[r].published
  BY <1>1 DEF SetTerminal, GenerationRows
<1>4. msg'[r] = status
  BY <1>1 DEF SetTerminal
<1>5. \A q \in Runs \ {r} : run'[q] = run[q] /\ gen'[q] = gen[q] /\ msg'[q] = msg[q]
  BY <1>1 DEF SetTerminal
<1>6. RowOK(r)'
  BY <1>2, <1>3, <1>4 DEF RowOK, RowsAgree, Terminal
<1> QED
  BY <1>5, <1>6, OneRow

\* A claim writes the two rows it selects on together.
LEMMA ClaimRows ==
    ASSUME IInv, NEW d \in Dispatchers, DispatchClaim(d)
    PROVE  RowsAgree' /\ NoOrphan'
<1> DEFINE lease == disp[d].now + LeaseTicks
<1>1. /\ run \in [Runs -> RunRows]
      /\ gen \in [Runs -> GenerationRows]
      /\ msg \in [Runs -> MessageStatuses]
      /\ disp[d] \in DispatchCalls
  BY DEF IInv, TypeOK
<1>2. PICK r \in Runs : r = disp[d].run
  BY DEF IInv, TasksOfClaimedRuns, DispatchClaim
<1>3. lease # NoLease
  BY <1>1, ChatRunAssumption DEF DispatchCalls, NoLease
<1>4. /\ run[r].status = gen[r].status
      /\ run[r].published = gen[r].published
      /\ run[r].lease = gen[r].lease
  BY <1>2 DEF IInv, RowsAgree
<1>5. CASE ClaimPending(r, disp[d].now)
  <2>1. /\ run' = [run EXCEPT ![r].status = "running", ![r].lease = lease]
        /\ gen' = [gen EXCEPT ![r].status = "running", ![r].lease = lease,
                              ![r].attempt = @ + 1]
        /\ msg' = [msg EXCEPT ![r] = "streaming"]
    BY <1>4, <1>5 DEF ClaimPending
  <2>2. run'[r].status = "running" /\ run'[r].lease = lease
        /\ run'[r].published = run[r].published
    BY <1>1, <1>2, <2>1 DEF RunRows
  <2>3. gen'[r].status = "running" /\ gen'[r].lease = lease
        /\ gen'[r].published = gen[r].published
    BY <1>1, <1>2, <2>1 DEF GenerationRows
  <2>4. msg'[r] = "streaming"
    BY <1>1, <1>2, <2>1
  <2>5. ~run[r].published
    BY <1>2, <1>4, <1>5 DEF IInv, TasksOfClaimedRuns, ClaimPending
  <2>6. RowOK(r)'
    BY <1>3, <1>4, <2>2, <2>3, <2>4, <2>5 DEF RowOK, Terminal, MessageStatusOf
  <2>7. \A q \in Runs \ {r} : run'[q] = run[q] /\ gen'[q] = gen[q] /\ msg'[q] = msg[q]
    BY <1>1, <2>1
  <2> QED
    BY <1>2, <2>6, <2>7, OneRow DEF IInv
<1>6. CASE ClaimRunning(r, disp[d].now, disp[d].resume # 0)
  <2>1. run[r].status = "running" /\ ~run[r].published
    BY <1>4, <1>6 DEF ClaimRunning, Claimable
  <2>2. run' = [run EXCEPT ![r].lease = lease]
    BY <1>4, <1>6 DEF ClaimRunning, Claimable
  <2>3. /\ gen' = [gen EXCEPT ![r].lease = lease,
                        ![r].attempt = IF disp[d].resume # 0 THEN @ ELSE @ + 1]
        /\ msg' = msg
    BY <1>6 DEF ClaimRunning
  <2>4. run'[r].status = run[r].status /\ run'[r].lease = lease
        /\ run'[r].published = run[r].published
    BY <1>1, <1>2, <2>2 DEF RunRows
  <2>5. gen'[r].status = gen[r].status /\ gen'[r].lease = lease
        /\ gen'[r].published = gen[r].published
    BY <1>1, <1>2, <2>3 DEF GenerationRows
  <2>6. RowOK(r)'
    BY <1>2, <1>3, <1>4, <2>1, <2>3, <2>4, <2>5
       DEF RowOK, Terminal, MessageStatusOf, IInv, RowsAgree
  <2>7. \A q \in Runs \ {r} : run'[q] = run[q] /\ gen'[q] = gen[q] /\ msg'[q] = msg[q]
    BY <1>1, <2>2, <2>3
  <2> QED
    BY <1>2, <2>6, <2>7, OneRow DEF IInv
<1> QED
  BY <1>2, <1>5, <1>6 DEF DispatchClaim, Claim

\* So does the mark that the command has been published.
LEMMA MarkRows ==
    ASSUME IInv, NEW d \in Dispatchers, DispatchMark(d)
    PROVE  RowsAgree' /\ NoOrphan'
<1>1. /\ run \in [Runs -> RunRows]
      /\ gen \in [Runs -> GenerationRows]
      /\ msg' = msg
  BY DEF IInv, TypeOK, DispatchMark
<1>2. PICK r \in Runs : r = disp[d].run
  BY DEF IInv, TasksOfClaimedRuns, DispatchMark
<1>3. CASE run[r].published
  BY <1>1, <1>2, <1>3, SameRows DEF IInv, DispatchMark
<1>4. CASE ~run[r].published
  <2>1. ~gen[r].published
    BY <1>2, <1>4 DEF IInv, RowsAgree
  <2>2. /\ run' = [run EXCEPT ![r].published = TRUE, ![r].lease = NoLease,
                              ![r].pending = FALSE, ![r].resume = 0]
        /\ gen' = [gen EXCEPT ![r].published = TRUE, ![r].lease = NoLease]
    BY <1>2, <1>4, <2>1 DEF DispatchMark, MarkPublished
  <2>3. /\ run'[r].status = run[r].status /\ run'[r].lease = NoLease
        /\ run'[r].published = TRUE
    BY <1>1, <1>2, <2>2 DEF RunRows
  <2>4. /\ gen'[r].status = gen[r].status /\ gen'[r].lease = NoLease
        /\ gen'[r].published = TRUE
    BY <1>1, <1>2, <2>2 DEF GenerationRows
  <2>5. run'[r].published = gen'[r].published
    BY <2>3, <2>4
  <2>6. RowOK(r)'
    BY <1>1, <1>2, <2>3, <2>4, <2>5
       DEF RowOK, MessageStatusOf, IInv, RowsAgree
  <2>7. \A q \in Runs \ {r} : run'[q] = run[q] /\ gen'[q] = gen[q] /\ msg'[q] = msg[q]
    BY <1>1, <2>2
  <2> QED
    BY <1>2, <2>6, <2>7, OneRow DEF IInv
<1> QED
  BY <1>3, <1>4

\* And the two ways a failed publication is undone.
LEMMA FailRows ==
    ASSUME IInv, NEW d \in Dispatchers, DispatchFail(d)
    PROVE  RowsAgree' /\ NoOrphan'
<1>1. /\ run \in [Runs -> RunRows]
      /\ gen \in [Runs -> GenerationRows]
  BY DEF IInv, TypeOK
<1>2. PICK r \in Runs : r = disp[d].run
  BY DEF IInv, TasksOfClaimedRuns, DispatchFail
<1>3. CASE MarkRunFailed(r)
  <2>1. SetTerminal(r, "failed") /\ "failed" \in Terminal
    BY <1>3 DEF MarkRunFailed, Terminal
  <2> QED
    BY <1>2, <2>1, SetTerminalRows DEF IInv
<1>4. CASE ReturnToClientAction(d)
  <2>1. CASE run[r].status = "running" /\ ~run[r].published
    <3>1. /\ run[r].status = gen[r].status
          /\ run[r].published = gen[r].published
      BY <1>2, SMTT(60) DEF IInv, RowsAgree
    <3>2. /\ run' = [run EXCEPT ![r].status = "requires_action",
                                ![r].lease = NoLease, ![r].resume = 0,
                                ![r].pending = disp[d].pending]
          /\ gen' = [gen EXCEPT ![r].status = "requires_action", ![r].lease = NoLease]
          /\ msg' = msg
      BY <1>2, <1>4, <2>1, <3>1 DEF ReturnToClientAction
    <3>3. /\ run'[r].status = "requires_action" /\ run'[r].lease = NoLease
          /\ run'[r].published = run[r].published
      BY <1>1, <1>2, <3>2 DEF RunRows
    <3>4. /\ gen'[r].status = "requires_action" /\ gen'[r].lease = NoLease
          /\ gen'[r].published = gen[r].published
      BY <1>1, <1>2, <3>2, SMTT(60) DEF GenerationRows
    <3>5. RowOK(r)'
      BY <1>2, <2>1, <3>1, <3>2, <3>3, <3>4
         DEF RowOK, Terminal, MessageStatusOf, IInv, RowsAgree
    <3>6. \A q \in Runs \ {r} : run'[q] = run[q] /\ gen'[q] = gen[q] /\ msg'[q] = msg[q]
      BY <1>1, <3>2, SMTT(60)
    <3> QED
      BY <1>2, <3>5, <3>6, OneRow DEF IInv
  <2>2. CASE ~(run[r].status = "running" /\ ~run[r].published)
    BY <1>2, <1>4, <2>2, SameRows DEF IInv, ReturnToClientAction, rowVars
  <2> QED
    BY <2>1, <2>2
<1> QED
  BY <1>2, <1>3, <1>4 DEF DispatchFail

\* And a client action, which only a claimed run can have caused.
LEMMA RequireRows ==
    ASSUME IInv, NEW r \in Runs, NEW src, RequireClientAction(r, src),
           run[r].status \notin {Null, "pending"}
    PROVE  RowsAgree' /\ NoOrphan'
<1>1. /\ run \in [Runs -> RunRows]
      /\ gen \in [Runs -> GenerationRows]
      /\ msg' = msg
  BY DEF IInv, TypeOK, RequireClientAction
<1>2. /\ run'[r].status = "requires_action" /\ run'[r].lease = NoLease
      /\ run'[r].published = FALSE
  BY <1>1 DEF RequireClientAction, RunRows
<1>3. /\ gen'[r].status = "requires_action" /\ gen'[r].lease = NoLease
      /\ gen'[r].published = FALSE
  BY <1>1 DEF RequireClientAction, GenerationRows
<1>4. run[r].status \in Statuses
  BY <1>1 DEF RunRows
<1>5. msg[r] \notin Terminal => msg[r] = "streaming"
  BY <1>4 DEF IInv, RowsAgree, MessageStatusOf, Statuses, Active, Terminal
<1>6. RowOK(r)'
  BY <1>1, <1>2, <1>3, <1>5 DEF RowOK, MessageStatusOf, Terminal
<1>7. \A q \in Runs \ {r} : run'[q] = run[q] /\ gen'[q] = gen[q] /\ msg'[q] = msg[q]
  BY <1>1 DEF RequireClientAction
<1> QED
  BY <1>6, <1>7, OneRow DEF IInv

\* And the user's answer to it.
LEMMA ResumeRows ==
    ASSUME IInv, NEW a \in Apis, NEW r \in Runs, ResumeCommit(a, r)
    PROVE  RowsAgree' /\ NoOrphan'
<1>1. /\ run \in [Runs -> RunRows]
      /\ gen \in [Runs -> GenerationRows]
      /\ msg' = msg
      /\ clock \in Nat
  BY DEF IInv, TypeOK, ResumeCommit
<1>2. CASE run[r].status # "requires_action"
  BY <1>1, <1>2, SameRows DEF IInv, ResumeCommit
<1>3. CASE run[r].status = "requires_action"
  <2>1. /\ run'[r].status = "running" /\ run'[r].lease = clock
        /\ run'[r].published = FALSE
    BY <1>1, <1>3 DEF ResumeCommit
  <2>2. /\ gen'[r].status = "running" /\ gen'[r].lease = clock
        /\ gen'[r].published = FALSE
    BY <1>1, <1>3 DEF ResumeCommit
  <2>3. clock # NoLease
    BY <1>1 DEF NoLease
  <2>4. msg[r] \notin Terminal => msg[r] = "streaming"
    BY <1>3 DEF IInv, RowsAgree, MessageStatusOf
  <2>5. RowOK(r)'
    BY <1>1, <2>1, <2>2, <2>3, <2>4 DEF RowOK, MessageStatusOf, Terminal
  <2>6. \A q \in Runs \ {r} : run'[q] = run[q] /\ gen'[q] = gen[q] /\ msg'[q] = msg[q]
    BY <1>1, <1>3 DEF ResumeCommit
  <2> QED
    BY <2>5, <2>6, OneRow DEF IInv
<1> QED
  BY <1>2, <1>3

\* No step leaves the rows of a run in disagreement or the run without an owner.
LEMMA RowStep ==
    ASSUME IInv, [Next]_vars
    PROVE  RowsAgree' /\ NoOrphan'
<1>1. ASSUME NEW r \in Runs, CreateRun(r) PROVE RowsAgree' /\ NoOrphan'
  <2>1. /\ run \in [Runs -> RunRows]
        /\ gen \in [Runs -> GenerationRows]
        /\ msg \in [Runs -> MessageStatuses]
    BY DEF IInv, TypeOK
  <2>2. /\ run[r].published = gen[r].published /\ run[r].lease = gen[r].lease
        /\ ~run[r].published /\ run[r].lease = NoLease
    BY <1>1 DEF CreateRun, IInv, RowsAgree, TasksOfClaimedRuns
  <2>3. /\ run'[r].status = "pending" /\ run'[r].published = run[r].published
        /\ run'[r].lease = run[r].lease
    BY <1>1, <2>1 DEF CreateRun, RunRows
  <2>4. /\ gen'[r].status = "pending" /\ gen'[r].published = gen[r].published
        /\ gen'[r].lease = gen[r].lease
    BY <1>1, <2>1 DEF CreateRun, GenerationRows
  <2>5. msg'[r] = "pending"
    BY <1>1, <2>1 DEF CreateRun
  <2>6. RowOK(r)'
    BY <2>2, <2>3, <2>4, <2>5 DEF RowOK, MessageStatusOf, Terminal
  <2>7. \A q \in Runs \ {r} : run'[q] = run[q] /\ gen'[q] = gen[q] /\ msg'[q] = msg[q]
    BY <1>1, <2>1 DEF CreateRun
  <2> QED
    BY <2>6, <2>7, OneRow DEF IInv
<1>2. ASSUME NEW d \in Dispatchers, Dispatch(d) PROVE RowsAgree' /\ NoOrphan'
  <2>1. CASE UNCHANGED <<run, gen, msg>>
    BY <2>1, SameRows DEF IInv
  <2>2. CASE DispatchClaim(d) \/ DispatchMark(d) \/ DispatchFail(d)
    BY <2>2, ClaimRows, MarkRows, FailRows
  <2> QED
    BY <1>2, <2>1, <2>2 DEF Dispatch, DispatchRead, DispatchLoseClaim, DispatchPublish,
       DispatchPublishError, DispatchProject, rowVars
<1>3. ASSUME NEW a \in Apis, NEW r \in Runs, ProjectCommit(a, r)
      PROVE  RowsAgree' /\ NoOrphan'
  <2>1. run[r].status \notin {Null, "pending"}
    BY <1>3 DEF IInv, TasksOfClaimedRuns, ProjectCommit
  <2>2. \/ UNCHANGED <<run, gen, msg>>
        \/ RequireClientAction(r, proj[a][r].src)
        \/ \E kind \in Terminal : SetTerminal(r, kind)
    BY <1>3 DEF ProjectCommit, AppendPart, EndRun, rowVars
  <2> QED
    BY <2>1, <2>2, SameRows, RequireRows, SetTerminalRows DEF IInv
<1>4. ASSUME NEW a \in Apis, NEW r \in Runs, Project(a, r) PROVE RowsAgree' /\ NoOrphan'
  <2>1. CASE UNCHANGED <<run, gen, msg>>
    BY <2>1, SameRows DEF IInv
  <2> QED
    BY <1>3, <1>4, <2>1 DEF Project, ProjectEvent, ProjectRequire,
       ProjectTimeout, ProjectCatch, ProjectHistoryConflict, rowVars
<1>5. ASSUME NEW a \in Apis, NEW r \in Runs, Request(a, r) PROVE RowsAgree' /\ NoOrphan'
  <2>1. CASE UNCHANGED <<run, gen, msg>>
    BY <2>1, SameRows DEF IInv
  <2>2. CASE CancelCommit(a, r)
    BY <2>2, SetTerminalRows DEF CancelCommit, IInv, Terminal
  <2>3. CASE ResumeCommit(a, r)
    BY <2>3, ResumeRows
  <2> QED
    BY <1>5, <2>1, <2>2, <2>3 DEF Request, CancelRead, ResumeRead, rowVars
<1>6. CASE UNCHANGED <<run, gen, msg>>
  BY <1>6, SameRows DEF IInv
<1> QED
  BY <1>1, <1>2, <1>4, <1>5, <1>6 DEF Next, Recover, RecoverSelect, RecoverRun,
     CancelEnded, AgentAction, ApiCrash, Tick, vars, rowVars

-----------------------------------------------------------------------------
(* Calls in progress.                                                      *)

Unclaimed == {Null, "pending"}

\* A step keeps TasksOfClaimedRuns if it gives no run back to the unclaimed ones
\* and moves no call beyond the claim of an unclaimed run.
LEMMA TaskFrame ==
    ASSUME TasksOfClaimedRuns,
           \A d \in Dispatchers : disp'[d].pc # "idle" => disp'[d].run \in Runs,
           \A r \in Runs : run'[r].status \in Unclaimed =>
               /\ run[r].status \in Unclaimed
               /\ run'[r].published = run[r].published
               /\ run'[r].lease = run[r].lease
               /\ \A d \in Dispatchers :
                     \/ disp'[d] = disp[d]
                     \/ disp'[d].run # r
                     \/ disp'[d].pc \in {"idle", "claim"}
               /\ \A a \in Apis : proj'[a][r].pc \in {"idle", proj[a][r].pc}
    PROVE  TasksOfClaimedRuns'
  BY DEF TasksOfClaimedRuns, Unclaimed

\* A terminal write or a client action leaves no run unclaimed that was not.
LEMMA OnlyClaims ==
    ASSUME TypeOK, NEW r \in Runs,
           \/ \E status \in Terminal : SetTerminal(r, status)
           \/ \E src : RequireClientAction(r, src)
    PROVE  \A q \in Runs : run'[q].status \in Unclaimed => run'[q] = run[q]
<1>1. run \in [Runs -> RunRows]
  BY DEF TypeOK
<1>2. \A q \in Runs \ {r} : run'[q] = run[q]
  BY <1>1 DEF SetTerminal, RequireClientAction
<1>3. CASE \E src : RequireClientAction(r, src)
  <2>1. run'[r].status = "requires_action"
    BY <1>1, <1>3 DEF RequireClientAction, RunRows
  <2> QED
    BY <1>2, <2>1 DEF Unclaimed, Null
<1>4. ASSUME NEW status \in Terminal, SetTerminal(r, status)
      PROVE  \A q \in Runs : run'[q].status \in Unclaimed => run'[q] = run[q]
  <2>1. run'[r].status = status
    BY <1>1, <1>4 DEF SetTerminal, RunRows
  <2> QED
    BY <1>2, <2>1 DEF Unclaimed, Null, Terminal
<1> QED
  BY <1>3, <1>4

\* The dispatcher goes past the claim only with the run it has claimed.
LEMMA DispatchTasks ==
    ASSUME IInv, NEW d \in Dispatchers, Dispatch(d)
    PROVE  TasksOfClaimedRuns'
<1>1. /\ disp \in [Dispatchers -> DispatchCalls]
      /\ run \in [Runs -> RunRows]
      /\ gen \in [Runs -> GenerationRows]
      /\ proj \in [Apis -> [Runs -> Projections]]
  BY DEF IInv, TypeOK
<1>2. TasksOfClaimedRuns
  BY DEF IInv
<1>3. IdleDispatch.pc = "idle"
  BY DEF IdleDispatch
<1>idle. ASSUME disp' = [disp EXCEPT ![d] = IdleDispatch], proj' = proj,
                \A q \in Runs : run'[q].status \in Unclaimed => run'[q] = run[q]
         PROVE  TasksOfClaimedRuns'
  BY <1>1, <1>2, <1>3, <1>idle, TaskFrame DEF TasksOfClaimedRuns
<1>goto. ASSUME NEW pc \in {"mark", "fail", "project"}, disp[d].pc \in {"publish", "mark"},
                disp' = [disp EXCEPT ![d].pc = pc], proj' = proj,
                \A q \in Runs : run'[q].status \in Unclaimed => run'[q] = run[q]
         PROVE  TasksOfClaimedRuns'
  <2>1. disp[d].run \in Runs /\ run[disp[d].run].status \notin Unclaimed
    BY <1>2, <1>goto DEF TasksOfClaimedRuns, Unclaimed
  <2>2. disp'[d].run = disp[d].run
    BY <1>1, <1>goto DEF DispatchCalls
  <2>3. \A e \in Dispatchers \ {d} : disp'[e] = disp[e]
    BY <1>1, <1>goto
  <2> QED
    BY <1>2, <1>goto, <2>1, <2>2, <2>3, TaskFrame DEF TasksOfClaimedRuns
<1>4. ASSUME NEW r \in Runs, DispatchRead(d, r) PROVE TasksOfClaimedRuns'
  <2>1. /\ disp'[d].pc = "claim" /\ disp'[d].run = r
        /\ \A e \in Dispatchers \ {d} : disp'[e] = disp[e]
        /\ run' = run /\ proj' = proj
    BY <1>1, <1>4 DEF DispatchRead, rowVars
  <2> QED
    BY <1>2, <2>1, TaskFrame DEF TasksOfClaimedRuns
<1>5. CASE DispatchClaim(d)
  <2>1. PICK r \in Runs : r = disp[d].run
    BY <1>5 DEF IInv, TasksOfClaimedRuns, DispatchClaim
  <2>2. run[r].status = gen[r].status
    BY DEF IInv, RowsAgree
  <2>3. run'[r].status = "running" /\ \A q \in Runs \ {r} : run'[q] = run[q]
    <3>1. CASE ClaimPending(r, disp[d].now)
      <4>1. run' = [run EXCEPT ![r].status = "running",
                               ![r].lease = disp[d].now + LeaseTicks]
        BY <2>2, <3>1 DEF ClaimPending
      <4> QED
        BY <1>1, <4>1 DEF RunRows
    <3>2. CASE ClaimRunning(r, disp[d].now, disp[d].resume # 0)
      <4>1. run[r].status = "running"
        BY <2>2, <3>2 DEF ClaimRunning, Claimable
      <4>2. run' = run \/ run' = [run EXCEPT ![r].lease = disp[d].now + LeaseTicks]
        BY <3>2 DEF ClaimRunning
      <4> QED
        BY <1>1, <4>1, <4>2 DEF RunRows
    <3> QED
      BY <1>5, <2>1, <3>1, <3>2 DEF DispatchClaim, Claim
  <2>4. /\ disp'[d].run = r
        /\ \A e \in Dispatchers \ {d} : disp'[e] = disp[e]
        /\ proj' = proj
    BY <1>1, <1>5, <2>1 DEF DispatchClaim, DispatchCalls
  <2>5. "running" \notin Unclaimed
    BY DEF Unclaimed, Null
  <2> QED
    BY <1>2, <2>3, <2>4, <2>5, TaskFrame DEF TasksOfClaimedRuns
<1>6. CASE DispatchLoseClaim(d)
  BY <1>6, <1>idle DEF DispatchLoseClaim, rowVars
<1>7. CASE DispatchPublish(d)
  BY <1>7, <1>goto DEF DispatchPublish, rowVars
<1>8. CASE DispatchPublishError(d)
  BY <1>8, <1>goto DEF DispatchPublishError, rowVars
<1>9. CASE DispatchMark(d)
  <2>1. PICK r \in Runs : r = disp[d].run
    BY <1>9 DEF IInv, TasksOfClaimedRuns, DispatchMark
  <2>2. run[r].status \notin Unclaimed
    BY <1>9, <2>1 DEF IInv, TasksOfClaimedRuns, DispatchMark, Unclaimed
  <2>3. \A q \in Runs : run'[q].status \in Unclaimed => run'[q] = run[q]
    <3>1. CASE run' = run
      BY <3>1
    <3>2. CASE MarkPublished(r)
      <4>1. run' = [run EXCEPT ![r].published = TRUE, ![r].lease = NoLease,
                               ![r].pending = FALSE, ![r].resume = 0]
        BY <3>2 DEF MarkPublished
      <4>2. run'[r].status = run[r].status
        BY <1>1, <4>1 DEF RunRows
      <4>3. \A q \in Runs \ {r} : run'[q] = run[q]
        BY <1>1, <4>1
      <4> QED
        BY <2>2, <4>2, <4>3
    <3> QED
      BY <1>9, <2>1, <3>1, <3>2 DEF DispatchMark
  <2> QED
    BY <1>9, <1>idle, <1>goto, <2>3 DEF DispatchMark
<1>10. CASE DispatchFail(d)
  <2>1. PICK r \in Runs : r = disp[d].run
    BY <1>10, SMTT(60) DEF IInv, TasksOfClaimedRuns, DispatchFail
  <2>2. \A q \in Runs : run'[q].status \in Unclaimed => run'[q] = run[q]
    <3>1. CASE MarkRunFailed(r)
      BY <3>1, OnlyClaims DEF MarkRunFailed, IInv, Terminal
    <3>2. CASE run' = run
      BY <3>2
    <3>3. CASE run' = [run EXCEPT ![r].status = "requires_action",
                                  ![r].lease = NoLease, ![r].resume = 0,
                                  ![r].pending = disp[d].pending]
      <4>1. run'[r].status = "requires_action"
        BY <1>1, <3>3 DEF RunRows
      <4>2. \A q \in Runs \ {r} : run'[q] = run[q]
        BY <1>1, <3>3
      <4> QED
        BY <4>1, <4>2 DEF Unclaimed, Null
    <3> QED
      BY <1>10, <2>1, <3>1, <3>2, <3>3 DEF DispatchFail, ReturnToClientAction, rowVars
  <2> QED
    BY <1>10, <1>idle, <2>2 DEF DispatchFail
<1>11. CASE DispatchProject(d)
  <2>1. /\ run' = run
        /\ disp' = [disp EXCEPT ![d] = IdleDispatch]
        /\ StartProjection(Home[d], disp[d].run, disp[d].after)
    BY <1>11 DEF DispatchProject, rowVars
  <2>2. PICK r \in Runs : r = disp[d].run
    BY <1>11 DEF IInv, TasksOfClaimedRuns, DispatchProject
  <2>3. run[r].status \notin Unclaimed
    BY <1>11, <2>2 DEF IInv, TasksOfClaimedRuns, DispatchProject, Unclaimed
  <2>4. \A a \in Apis, q \in Runs \ {r} : proj'[a][q] = proj[a][q]
    BY <1>1, <2>1, <2>2 DEF StartProjection
  <2>5. \A e \in Dispatchers : disp'[e] = disp[e] \/ disp'[e].pc = "idle"
    BY <1>1, <1>3, <2>1
  <2> QED
    BY <1>2, <2>1, <2>3, <2>4, <2>5, TaskFrame DEF TasksOfClaimedRuns
<1> QED
  BY <1>4, <1>5, <1>6, <1>7, <1>8, <1>9, <1>10, <1>11 DEF Dispatch

\* The other steps neither give runs back nor start projections of unclaimed runs.
LEMMA TaskStep ==
    ASSUME IInv, [Next]_vars
    PROVE  TasksOfClaimedRuns'
<1>1. /\ run \in [Runs -> RunRows]
      /\ proj \in [Apis -> [Runs -> Projections]]
      /\ TasksOfClaimedRuns
  BY DEF IInv, TypeOK
<1>same. ASSUME run' = run, disp' = disp, proj' = proj PROVE TasksOfClaimedRuns'
  BY <1>1, <1>same, TaskFrame DEF TasksOfClaimedRuns
<1>2. ASSUME NEW r \in Runs, CreateRun(r) PROVE TasksOfClaimedRuns'
  <2>1. /\ run'[r].published = run[r].published /\ run'[r].lease = run[r].lease
        /\ \A q \in Runs \ {r} : run'[q] = run[q]
    BY <1>1, <1>2 DEF CreateRun, RunRows
  <2>2. run[r].status \in Unclaimed
    BY <1>2 DEF CreateRun, Unclaimed
  <2> QED
    BY <1>1, <1>2, <2>1, <2>2, TaskFrame DEF CreateRun, taskVars, TasksOfClaimedRuns
<1>3. ASSUME NEW a \in Apis, NEW r \in Runs, Project(a, r) PROVE TasksOfClaimedRuns'
  <2>1. disp' = disp
    BY <1>3 DEF Project, ProjectEvent, ProjectRequire, ProjectTimeout,
       ProjectCatch, ProjectCommit, ProjectHistoryConflict
  <2>2. run[r].status \notin Unclaimed
    BY <1>1, <1>3 DEF Project, ProjectEvent, ProjectRequire, ProjectTimeout,
       ProjectCatch, ProjectCommit, ProjectHistoryConflict, TasksOfClaimedRuns,
       Unclaimed, Null
  <2>3. \A q \in Runs : run'[q].status \in Unclaimed => run'[q] = run[q]
    <3>1. CASE run' = run
      BY <3>1
    <3>2. CASE ProjectCommit(a, r)
      <4>1. \/ run' = run
            \/ RequireClientAction(r, proj[a][r].src)
            \/ \E kind \in Terminal : SetTerminal(r, kind)
        BY <3>2 DEF ProjectCommit, AppendPart, EndRun, rowVars
      <4> QED
        BY <4>1, OnlyClaims DEF IInv
    <3> QED
      BY <1>3, <3>1, <3>2 DEF Project, ProjectEvent, ProjectRequire,
         ProjectTimeout, ProjectCatch, ProjectHistoryConflict, rowVars
  <2>4. \A b \in Apis, q \in Runs \ {r} : proj'[b][q] = proj[b][q]
    <3>1. \/ proj' = proj
          \/ \E row : proj' = [proj EXCEPT ![a][r] = row]
      <4>2. CASE ProjectEvent(a, r)
        BY <4>2 DEF ProjectEvent, EndProjection, Advance, Prepare, Throw
      <4>3. CASE ProjectRequire(a, r)
        BY <4>3 DEF ProjectRequire, EndProjection, Prepare
      <4>4. CASE ProjectTimeout(a, r) \/ ProjectHistoryConflict(a, r)
        BY <4>4 DEF ProjectTimeout, ProjectHistoryConflict, Throw
      <4>5. CASE ProjectCatch(a, r)
        BY <4>5 DEF ProjectCatch, EndProjection, Prepare
      <4>6. CASE ProjectCommit(a, r)
        <5>1. \/ Advance(a, r)
              \/ EndProjection(a, r)
              \/ \E pc \in {"require", "catch"} : Goto(a, r, pc)
          BY <4>6 DEF ProjectCommit, AppendPart, EndRun
        <5>2. ASSUME NEW pc, Goto(a, r, pc)
              PROVE  proj' = [proj EXCEPT ![a][r] = [proj[a][r] EXCEPT !.pc = pc]]
          BY <5>2 DEF Goto
        <5> QED
          BY <5>1, <5>2 DEF Advance, EndProjection
      <4> QED
        BY <1>3, <4>2, <4>3, <4>4, <4>5, <4>6 DEF Project
    <3> QED
      BY <1>1, <3>1
  <2> QED
    BY <1>1, <2>1, <2>2, <2>3, <2>4, TaskFrame DEF TasksOfClaimedRuns
<1>4. ASSUME NEW a \in Apis, NEW r \in Runs, Request(a, r) PROVE TasksOfClaimedRuns'
  <2>1. disp' = disp /\ proj' = proj
    BY <1>4 DEF Request, CancelRead, CancelCommit, ResumeRead, ResumeCommit
  <2>2. \A q \in Runs : run'[q].status \in Unclaimed => run'[q] = run[q]
    <3>1. CASE run' = run
      BY <3>1
    <3>2. CASE CancelCommit(a, r)
      BY <3>2, OnlyClaims DEF CancelCommit, IInv, Terminal
    <3>3. CASE ResumeCommit(a, r) /\ run[r].status = "requires_action"
      <4>1. /\ run'[r].status = "running"
            /\ \A q \in Runs \ {r} : run'[q] = run[q]
        BY <1>1, <3>3 DEF ResumeCommit
      <4> QED
        BY <4>1 DEF Unclaimed, Null
    <3> QED
      BY <1>4, <3>1, <3>2, <3>3 DEF Request, CancelRead, ResumeRead, ResumeCommit, rowVars
  <2> QED
    BY <1>1, <2>1, <2>2, TaskFrame DEF TasksOfClaimedRuns
<1>5. ASSUME NEW a \in Apis, ApiCrash(a) PROVE TasksOfClaimedRuns'
  <2>1. /\ \A d \in Dispatchers : disp'[d] = disp[d] \/ disp'[d] = IdleDispatch
        /\ run' = run
    BY <1>5 DEF ApiCrash, rowVars
  <2>2. \A b \in Apis, r \in Runs : proj'[b][r] = proj[b][r] \/ proj'[b][r] = IdleProjection
    BY <1>1, <1>5 DEF ApiCrash
  <2>3. IdleDispatch.pc = "idle" /\ IdleProjection.pc = "idle"
    BY DEF IdleDispatch, IdleProjection
  <2> QED
    BY <1>1, <2>1, <2>2, <2>3, TaskFrame DEF TasksOfClaimedRuns
<1>6. ASSUME NEW a \in Apis, NEW r \in Runs, RecoverRun(a, r) PROVE TasksOfClaimedRuns'
  <2>1. run' = run /\ disp' = disp /\ StartProjection(a, r, LatestSourceEvent(r))
    BY <1>6 DEF RecoverRun, rowVars
  <2>2. \A b \in Apis, q \in Runs : proj'[b][q] = proj[b][q] \/ run[q].status = "running"
    BY <1>1, <2>1 DEF StartProjection
  <2>3. "running" \notin Unclaimed
    BY DEF Unclaimed, Null
  <2> QED
    BY <1>1, <2>1, <2>2, <2>3, TaskFrame DEF TasksOfClaimedRuns
<1> QED
  BY <1>2, <1>3, <1>4, <1>5, <1>6, <1>same, DispatchTasks
     DEF Next, Recover, RecoverSelect, CancelEnded, AgentAction, Tick, vars, rowVars, taskVars

-----------------------------------------------------------------------------
(* The theorems.                                                           *)

\* The invariant the others follow from holds initially ...
LEMMA InitInvariant == Init => IInv
<1> SUFFICES ASSUME Init PROVE IInv
  OBVIOUS
<1>1. TypeOK
  BY InitTypes
<1>2. RowsAgree /\ NoOrphan
  BY DEF Init, RowsAgree, NoOrphan, MessageStatusOf, Terminal, Null
<1>3. TasksOfClaimedRuns
  BY DEF Init, TasksOfClaimedRuns, IdleDispatch, IdleProjection
<1> QED
  BY <1>1, <1>2, <1>3 DEF IInv

\* ... and is inductive.
LEMMA StepInvariant == IInv /\ [Next]_vars => IInv'
<1> SUFFICES ASSUME IInv, [Next]_vars PROVE IInv'
  OBVIOUS
<1>1. TypeOK'
  BY TypeStep DEF IInv
<1>2. RowsAgree' /\ NoOrphan'
  BY RowStep
<1>3. TasksOfClaimedRuns'
  BY TaskStep
<1> QED
  BY <1>1, <1>2, <1>3 DEF IInv

\* The inductive invariant holds in every reachable state: types, the agreement
\* of the three rows, the visibility of running runs, and what a call in progress
\* implies for the run it works on.
THEOREM Invariant == Spec => []IInv
  BY InitInvariant, StepInvariant, PTL DEF Spec

\* Every variable keeps its type, whatever the number of runs, processes and
\* dispatch calls and whatever the bounds.
THEOREM TypeCorrect == Spec => []TypeOK
<1>1. IInv => TypeOK
  BY DEF IInv
<1> QED
  BY <1>1, Invariant, PTL

\* The run, generation and message rows never tell different stories, although
\* nine transactions of three services write them.
THEOREM RowsAlwaysAgree == Spec => []RowsAgree
<1>1. IInv => RowsAgree
  BY DEF IInv
<1> QED
  BY <1>1, Invariant, PTL

\* A running run is always visible to the dispatch timer or to the recovery
\* timer, and an ended run to neither.
THEOREM NeverOrphaned == Spec => []NoOrphan
<1>1. IInv => NoOrphan
  BY DEF IInv
<1> QED
  BY <1>1, Invariant, PTL

\* What the runs check of the rows: their types, their agreement and their
\* visibility to a timer.
THEOREM RowsAlwaysTrue == Spec => []RowInv
<1>1. IInv => RowInv
  BY DEF IInv, RowInv
<1> QED
  BY <1>1, Invariant, PTL

-----------------------------------------------------------------------------
(* Ended runs.                                                             *)

\* The dispatcher neither writes nor claims an ended run.
LEMMA DispatchKeepsEnded ==
    ASSUME IInv, NEW d \in Dispatchers, Dispatch(d), NEW r \in Runs,
           run[r].status \in Terminal, ~StaleWriter(r)
    PROVE  run'[r].status = run[r].status /\ ~StaleWriter(r)'
<1>1. /\ disp \in [Dispatchers -> DispatchCalls]
      /\ run \in [Runs -> RunRows]
      /\ proj \in [Apis -> [Runs -> Projections]]
  BY DEF IInv, TypeOK
<1>2. /\ cancelling[r] = {}
      /\ \A e \in Dispatchers : disp[e].run = r => disp[e].pc \notin {"publish", "fail"}
      /\ \A a \in Apis : proj[a][r].pc # "commit"
  BY DEF StaleWriter
<1>3. run[r].status \notin {Null, "pending", "running"} /\ run[r].status = gen[r].status
  BY DEF IInv, RowsAgree, Terminal, Null
<1>4. cancelling' = cancelling
  BY DEF Dispatch, DispatchRead, DispatchClaim, DispatchLoseClaim, DispatchPublish,
     DispatchPublishError, DispatchMark, DispatchFail, DispatchProject
<1>5. ASSUME run'[r].status = run[r].status,
             \A e \in Dispatchers : disp'[e].run = r => disp'[e].pc \notin {"publish", "fail"},
             \A a \in Apis : proj'[a][r].pc # "commit"
      PROVE  run'[r].status = run[r].status /\ ~StaleWriter(r)'
  BY <1>2, <1>4, <1>5 DEF StaleWriter
<1>6. IdleDispatch.pc = "idle"
  BY DEF IdleDispatch
<1>7. ASSUME NEW q \in Runs, DispatchRead(d, q)
      PROVE  run'[r].status = run[r].status /\ ~StaleWriter(r)'
  <2>1. /\ run' = run /\ proj' = proj /\ disp'[d].pc = "claim"
        /\ \A e \in Dispatchers \ {d} : disp'[e] = disp[e]
    BY <1>1, <1>7 DEF DispatchRead, rowVars
  <2> QED
    BY <1>2, <1>5, <2>1
<1>8. CASE DispatchLoseClaim(d)
  <2>1. /\ run' = run /\ proj' = proj
        /\ \A e \in Dispatchers : disp'[e] = disp[e] \/ disp'[e] = IdleDispatch
    BY <1>1, <1>8 DEF DispatchLoseClaim, rowVars
  <2> QED
    BY <1>2, <1>5, <1>6, <2>1
<1>9. CASE DispatchProject(d)
  <2>1. /\ run' = run
        /\ \A e \in Dispatchers : disp'[e] = disp[e] \/ disp'[e] = IdleDispatch
        /\ StartProjection(Home[d], disp[d].run, disp[d].after)
    BY <1>1, <1>9 DEF DispatchProject, rowVars
  <2>2. disp[d].run \in Runs /\ Home[d] \in Apis
    BY <1>9, ChatRunAssumption DEF IInv, TasksOfClaimedRuns, DispatchProject
  <2>3. \A a \in Apis : proj'[a][r] = proj[a][r]
    <3>1. CASE disp[d].run = r
      BY <1>3, <2>1, <3>1 DEF StartProjection
    <3>2. CASE disp[d].run # r
      BY <1>1, <2>1, <2>2, <3>2 DEF StartProjection
    <3> QED
      BY <3>1, <3>2
  <2> QED
    BY <1>2, <1>5, <1>6, <2>1, <2>3
<1>10. CASE disp[d].run # r /\ disp[d].pc # "idle"
  <2>1. PICK q \in Runs : q = disp[d].run
    BY <1>10 DEF IInv, TasksOfClaimedRuns
  <2>2. ASSUME disp' = [disp EXCEPT ![d].pc = disp'[d].pc] \/ disp' = [disp EXCEPT ![d] = IdleDispatch],
               proj' = proj, run'[r] = run[r]
        PROVE  run'[r].status = run[r].status /\ ~StaleWriter(r)'
    <3>1. \A e \in Dispatchers : \/ disp'[e] = disp[e]
                                 \/ disp'[e].run # r
                                 \/ disp'[e] = IdleDispatch
      BY <1>1, <1>10, <2>2 DEF DispatchCalls
    <3> QED
      BY <1>2, <1>5, <1>6, <2>2, <3>1
  <2>3. ASSUME NEW pc, disp' = [disp EXCEPT ![d].pc = pc]
        PROVE  disp' = [disp EXCEPT ![d].pc = disp'[d].pc]
    BY <1>1, <2>3 DEF DispatchCalls
  <2>4. CASE DispatchClaim(d)
    <3>1. run'[r] = run[r]
      BY <1>1, <1>10, <2>4 DEF DispatchClaim, Claim, ClaimPending, ClaimRunning
    <3> QED
      BY <2>2, <2>3, <2>4, <3>1 DEF DispatchClaim
  <2>5. CASE DispatchPublish(d) \/ DispatchPublishError(d)
    BY <2>2, <2>3, <2>5 DEF DispatchPublish, DispatchPublishError, rowVars
  <2>6. CASE DispatchMark(d)
    <3>1. run'[r] = run[r]
      BY <1>1, <1>10, <2>6 DEF DispatchMark, MarkPublished
    <3> QED
      BY <2>2, <2>3, <2>6, <3>1 DEF DispatchMark
  <2>7. CASE DispatchFail(d)
    <3>1. run'[r] = run[r]
      BY <1>1, <1>10, <2>7
         DEF DispatchFail, ReturnToClientAction, MarkRunFailed, SetTerminal, rowVars
    <3> QED
      BY <2>2, <2>7, <3>1 DEF DispatchFail
  <2> QED
    BY <1>7, <1>8, <1>9, <2>4, <2>5, <2>6, <2>7 DEF Dispatch
<1>11. CASE disp[d].run = r /\ disp[d].pc # "idle"
  <2>1. ~DispatchClaim(d)
    BY <1>3, <1>11 DEF DispatchClaim, Claim, ClaimPending, ClaimRunning, Claimable
  <2>2. ~DispatchPublish(d) /\ ~DispatchPublishError(d) /\ ~DispatchFail(d)
    BY <1>2, <1>11 DEF DispatchPublish, DispatchPublishError, DispatchFail
  <2>3. CASE DispatchMark(d)
    <3>1. run'[r].status = run[r].status
      <4>1. \/ run' = run
            \/ run' = [run EXCEPT ![r].published = TRUE, ![r].lease = NoLease,
                                  ![r].pending = FALSE, ![r].resume = 0]
        BY <1>11, <2>3 DEF DispatchMark, MarkPublished
      <4> QED
        BY <1>1, <4>1 DEF RunRows
    <3>2. /\ disp'[d].pc \in {"idle", "project"} /\ proj' = proj
          /\ \A e \in Dispatchers \ {d} : disp'[e] = disp[e]
      BY <1>1, <1>6, <2>3 DEF DispatchMark, DispatchCalls
    <3> QED
      BY <1>2, <1>5, <3>1, <3>2
  <2> QED
    BY <1>7, <1>8, <1>9, <2>1, <2>2, <2>3 DEF Dispatch
<1>12. CASE disp[d].pc = "idle"
  BY <1>7, <1>12 DEF Dispatch, DispatchClaim, DispatchLoseClaim, DispatchPublish,
     DispatchPublishError, DispatchMark, DispatchFail, DispatchProject
<1> QED
  BY <1>10, <1>11, <1>12

\* Neither does the projector, nor a request of the user.
LEMMA OthersKeepEnded ==
    ASSUME IInv, [Next]_vars, ~\E d \in Dispatchers : Dispatch(d), NEW r \in Runs,
           run[r].status \in Terminal, ~StaleWriter(r)
    PROVE  run'[r].status = run[r].status /\ ~StaleWriter(r)'
<1>1. /\ run \in [Runs -> RunRows]
      /\ proj \in [Apis -> [Runs -> Projections]]
      /\ cancelling \in [Runs -> SUBSET Apis]
  BY DEF IInv, TypeOK
<1>2. /\ cancelling[r] = {}
      /\ \A e \in Dispatchers : disp[e].run = r => disp[e].pc \notin {"publish", "fail"}
      /\ \A a \in Apis : proj[a][r].pc # "commit"
  BY DEF StaleWriter
<1>3. run[r].status \notin Active /\ run[r].status # Null
  BY DEF Terminal, Active, Null
<1>4. ASSUME run'[r] = run[r], cancelling'[r] = {},
             \A e \in Dispatchers : disp'[e] = disp[e] \/ disp'[e].pc = "idle",
             \A a \in Apis : proj'[a][r].pc # "commit"
      PROVE  run'[r].status = run[r].status /\ ~StaleWriter(r)'
  BY <1>2, <1>4 DEF StaleWriter
<1>same. ASSUME run' = run, disp' = disp, proj' = proj, cancelling' = cancelling
         PROVE  run'[r].status = run[r].status /\ ~StaleWriter(r)'
  BY <1>2, <1>4, <1>same
<1>5. ASSUME NEW q \in Runs, CreateRun(q)
      PROVE  run'[r].status = run[r].status /\ ~StaleWriter(r)'
  <2>1. q # r
    BY <1>3, <1>5 DEF CreateRun
  <2>2. run'[r] = run[r]
    BY <1>1, <1>5, <2>1 DEF CreateRun
  <2> QED
    BY <1>2, <1>4, <1>5, <2>2 DEF CreateRun, taskVars
<1>6. ASSUME NEW a \in Apis, NEW q \in Runs, Project(a, q)
      PROVE  run'[r].status = run[r].status /\ ~StaleWriter(r)'
  <2>1. disp' = disp /\ cancelling' = cancelling
    BY <1>6 DEF Project, ProjectEvent, ProjectRequire, ProjectTimeout,
       ProjectCatch, ProjectCommit, ProjectHistoryConflict
  <2>2. run'[r] = run[r]
    <3>1. CASE run' = run
      BY <3>1
    <3>2. CASE ProjectCommit(a, q)
      <4>1. q # r
        BY <1>2, <3>2 DEF ProjectCommit
      <4> QED
        BY <1>1, <3>2, <4>1
           DEF ProjectCommit, AppendPart, EndRun, RequireClientAction, SetTerminal, rowVars
    <3> QED
      BY <1>6, <3>1, <3>2 DEF Project, ProjectEvent, ProjectRequire,
         ProjectTimeout, ProjectCatch, ProjectHistoryConflict, rowVars
  <2>3. ASSUME NEW row, proj' = [proj EXCEPT ![a][q] = row], q = r => row.pc # "commit"
        PROVE  \A b \in Apis : proj'[b][r].pc # "commit"
    BY <1>1, <1>2, <2>3
  <2>4. \A b \in Apis : proj'[b][r].pc # "commit"
    <3>1. q = r => run[q].status # "running"
      BY <1>3 DEF Active
    <3>2. proj[a][q] \in Projections
      BY <1>1
    <3>3. IdleProjection.pc = "idle"
      BY DEF IdleProjection
    <3>4. CASE EndProjection(a, q)
      BY <2>3, <3>3, <3>4 DEF EndProjection
    <3>5. CASE Advance(a, q)
      <4>1. [IdleProjection EXCEPT !.pc = "consume", !.cursor = proj[a][q].cursor + 1].pc
              = "consume"
        BY DEF IdleProjection
      <4> QED
        BY <2>3, <3>5, <4>1 DEF Advance
    <3>6. ASSUME NEW kind, Throw(a, q, kind)
          PROVE  \A b \in Apis : proj'[b][r].pc # "commit"
      <4>1. [proj[a][q] EXCEPT !.pc = "catch", !.kind = kind].pc = "catch"
        BY <3>2 DEF Projections
      <4> QED
        BY <2>3, <3>6, <4>1 DEF Throw
    <3>7. ASSUME NEW kind, NEW src, Prepare(a, q, kind, src), q # r
          PROVE  \A b \in Apis : proj'[b][r].pc # "commit"
      BY <2>3, <3>7 DEF Prepare
    <3>8. ASSUME NEW pc \in {"require", "catch"}, Goto(a, q, pc)
          PROVE  \A b \in Apis : proj'[b][r].pc # "commit"
      <4>1. [proj[a][q] EXCEPT !.pc = pc].pc = pc
        BY <3>2 DEF Projections
      <4>2. proj' = [proj EXCEPT ![a][q] = [proj[a][q] EXCEPT !.pc = pc]]
        BY <3>8 DEF Goto
      <4> QED
        BY <2>3, <4>1, <4>2
    <3>9. ASSUME NEW src,
                 proj' = [proj EXCEPT ![a][q] = [@ EXCEPT !.pc = "require", !.src = src]]
          PROVE  \A b \in Apis : proj'[b][r].pc # "commit"
      <4>1. [proj[a][q] EXCEPT !.pc = "require", !.src = src].pc = "require"
        BY <3>2 DEF Projections
      <4> QED
        BY <2>3, <3>9, <4>1
    <3>11. CASE ProjectEvent(a, q)
      <4> DEFINE src == proj[a][q].cursor + 1
                 kind == events[q][src]
      <4>1. \/ EndProjection(a, q)
            \/ Advance(a, q)
            \/ \E k, n : Prepare(a, q, k, n) /\ q # r
            \/ \E n : proj' = [proj EXCEPT ![a][q] = [@ EXCEPT !.pc = "require", !.src = n]]
            \/ \E k : Throw(a, q, k)
        <5>1. CASE kind = "delta"
          BY <3>1, <3>11, <5>1 DEF ProjectEvent
        <5>2. CASE kind = "action"
          BY <3>1, <3>11, <5>2 DEF ProjectEvent
        <5>3. CASE kind = "completed"
          BY <3>1, <3>11, <5>3, ZenonT(60) DEF ProjectEvent
        <5>4. CASE kind \in {"failed", "cancelled"}
          BY <3>1, <3>11, <5>4 DEF ProjectEvent
        <5> QED
          BY <3>11, <5>1, <5>2, <5>3, <5>4 DEF ProjectEvent
      <4> QED
        BY <3>4, <3>5, <3>6, <3>7, <3>9, <4>1
    <3>12. CASE ProjectRequire(a, q) \/ ProjectCatch(a, q)
      BY <3>1, <3>4, <3>7, <3>12 DEF ProjectRequire, ProjectCatch
    <3>13. CASE ProjectTimeout(a, q) \/ ProjectHistoryConflict(a, q)
      BY <3>6, <3>13 DEF ProjectTimeout, ProjectHistoryConflict
    <3>14. CASE ProjectCommit(a, q)
      BY <3>4, <3>5, <3>8, <3>14 DEF ProjectCommit
    <3> QED
      BY <1>6, <3>11, <3>12, <3>13, <3>14 DEF Project
  <2> QED
    BY <1>2, <1>4, <2>1, <2>2, <2>4
<1>7. ASSUME NEW a \in Apis, NEW q \in Runs, Request(a, q)
      PROVE  run'[r].status = run[r].status /\ ~StaleWriter(r)'
  <2>1. disp' = disp /\ proj' = proj
    BY <1>7 DEF Request, CancelRead, CancelCommit, ResumeRead, ResumeCommit
  <2>2. CASE CancelRead(a, q)
    <3>1. q # r
      BY <1>3, <2>2 DEF CancelRead
    <3> QED
      BY <1>1, <1>2, <1>4, <2>1, <2>2, <3>1 DEF CancelRead, rowVars
  <2>3. CASE CancelCommit(a, q)
    <3>1. q # r
      BY <1>2, <2>3 DEF CancelCommit
    <3> QED
      BY <1>1, <1>2, <1>4, <2>1, <2>3, <3>1 DEF CancelCommit, SetTerminal
  <2>4. CASE ResumeRead(a, q)
    BY <1>same, <2>1, <2>4 DEF ResumeRead, rowVars
  <2>5. CASE ResumeCommit(a, q)
    <3>1. run'[r] = run[r]
      BY <1>1, <1>3, <2>5 DEF ResumeCommit, Active
    <3> QED
      BY <1>2, <1>4, <2>1, <2>5, <3>1 DEF ResumeCommit
  <2> QED
    BY <1>7, <2>2, <2>3, <2>4, <2>5 DEF Request
<1>8. ASSUME NEW a \in Apis, ApiCrash(a)
      PROVE  run'[r].status = run[r].status /\ ~StaleWriter(r)'
  <2>1. IdleDispatch.pc = "idle" /\ IdleProjection.pc = "idle"
    BY DEF IdleDispatch, IdleProjection
  <2>2. \A b \in Apis : proj'[b][r] = proj[b][r] \/ proj'[b][r] = IdleProjection
    BY <1>1, <1>8 DEF ApiCrash
  <2>3. /\ run' = run /\ cancelling'[r] = {}
        /\ \A e \in Dispatchers : disp'[e] = disp[e] \/ disp'[e] = IdleDispatch
    BY <1>2, <1>8 DEF ApiCrash, rowVars
  <2> QED
    BY <1>2, <1>4, <2>1, <2>2, <2>3
<1>9. ASSUME NEW a \in Apis, NEW q \in Runs, RecoverRun(a, q)
      PROVE  run'[r].status = run[r].status /\ ~StaleWriter(r)'
  <2>1. /\ run' = run /\ disp' = disp /\ cancelling' = cancelling
        /\ StartProjection(a, q, LatestSourceEvent(q))
    BY <1>9 DEF RecoverRun, rowVars
  <2>2. \A b \in Apis : proj'[b][r] = proj[b][r]
    BY <1>1, <1>3, <2>1 DEF StartProjection, Active
  <2> QED
    BY <1>2, <1>4, <2>1, <2>2
<1> QED
  BY <1>5, <1>6, <1>7, <1>8, <1>9, <1>same
     DEF Next, Recover, RecoverSelect, CancelEnded, AgentAction, Tick, vars, rowVars, taskVars

\* Once the transactions that had seen it active are drained, a run that has
\* ended keeps its status for good, and nobody prepares to change it.
THEOREM EndedStaysEnded == Spec => TerminalFinal
<1>1. IInv /\ [Next]_vars => \A r \in Runs : KeepsEnded(r)
  BY DispatchKeepsEnded, OthersKeepEnded DEF KeepsEnded
<1>2. IInv /\ [Next]_vars => [\A r \in Runs : KeepsEnded(r)]_vars
  BY <1>1
<1> QED
  BY <1>2, Invariant, PTL DEF Spec, TerminalFinal

-----------------------------------------------------------------------------
(* What a step does to the row of a run and to its log.                    *)

Logged(r, type, src) == log'[r] = Append(log[r], [type |-> type, src |-> src])

Projected(r, kind, src) ==
    \E a \in Apis : /\ proj[a][r].pc = "commit"
                    /\ proj[a][r].kind = kind /\ proj[a][r].src = src

Calls(r, pc) == {d \in Dispatchers : disp[d].run = r /\ disp[d].pc = pc}

Becomes(r, status, published, lease, pending, resume) ==
    /\ run'[r].status = status /\ run'[r].published = published
    /\ run'[r].lease = lease /\ run'[r].pending = pending /\ run'[r].resume = resume

Kept(r) == run'[r] = run[r] /\ log'[r] = log[r]

PartAdded(r) ==
    /\ run'[r] = run[r]
    /\ \E kind \in {"delta", "tool"}, src \in Nat : Projected(r, kind, src) /\ Logged(r, kind, src)

Created(r) ==
    /\ run[r].status = Null
    /\ Becomes(r, "pending", run[r].published, run[r].lease, run[r].pending, run[r].resume)
    /\ log'[r] = log[r]

FirstClaim(d, r) ==
    /\ d \in Calls(r, "claim") /\ disp[d].status = "pending" /\ run[r].status = "pending"
    /\ Becomes(r, "running", run[r].published, disp[d].now + LeaseTicks,
               run[r].pending, run[r].resume)
    /\ Logged(r, "started", 0)

LaterClaim(d, r) ==
    /\ d \in Calls(r, "claim") /\ disp[d].status # "pending"
    /\ Claimable(run[r], disp[d].now)
    /\ Becomes(r, "running", FALSE, disp[d].now + LeaseTicks,
               run[r].pending, run[r].resume)
    /\ log'[r] = log[r]

Started(r) == \E d \in Dispatchers : FirstClaim(d, r)

Reclaimed(r) == \E d \in Dispatchers : LaterClaim(d, r)

\* The call is past its command, in time or on record as late.
Left(d, r, pc) == disp'[d].pc = pc /\ (Overran(d) => overran'[r])

Marked(r) ==
    /\ ~run[r].published
    /\ \E d \in Calls(r, "mark") : Left(d, r, "project")
    /\ Becomes(r, run[r].status, TRUE, NoLease, FALSE, 0)
    /\ log'[r] = log[r]

Returned(r) ==
    /\ run[r].status = "running" /\ ~run[r].published
    /\ \E d \in Calls(r, "fail") : Left(d, r, "idle")
    /\ Becomes(r, "requires_action", FALSE, NoLease, TRUE, 0)
    /\ Logged(r, "action", 0)

Ended(r) ==
    \E status \in Terminal, src \in Nat :
        /\ src = 0 \/ Projected(r, status, src)
        /\ Becomes(r, status, run[r].published, NoLease, run[r].pending, run[r].resume)
        /\ Logged(r, status, src)

Asked(r) ==
    \E src \in Nat :
        /\ Projected(r, "action", src) /\ (src = 0 \/ ~HasSourceEvent(r, "action", src))
        /\ Becomes(r, "requires_action", FALSE, NoLease, TRUE, run[r].resume)
        /\ Logged(r, "action", src)

Resumed(r) ==
    /\ run[r].status = "requires_action"
    /\ Becomes(r, "running", FALSE, clock, TRUE, phase'[r])
    /\ Logged(r, "started", 0)
    /\ clock' = clock + 1
    /\ Outlived(r) => overran'[r]

RowChange(r) ==
    \/ Resumed(r)
    \/ /\ phase'[r] = phase[r]
       /\ \/ Kept(r) \/ PartAdded(r) \/ Created(r) \/ Started(r) \/ Reclaimed(r)
          \/ Marked(r) \/ Returned(r) \/ Ended(r) \/ Asked(r)

\* A step that writes one run.
LEMMA OneChange ==
    ASSUME NEW r \in Runs, RowChange(r),
           \A q \in Runs \ {r} : run'[q] = run[q] /\ log'[q] = log[q] /\ phase'[q] = phase[q]
    PROVE  \A q \in Runs : RowChange(q)
  BY DEF RowChange, Kept

\* A step that writes none.
LEMMA NoChange ==
    ASSUME UNCHANGED <<run, log, phase>>
    PROVE  \A q \in Runs : RowChange(q)
  BY DEF RowChange, Kept

\* Appending an entry changes the log of one run.
LEMMA AppendChange ==
    ASSUME TypeOK, NEW r \in Runs, NEW type, NEW src, AppendEvent(r, type, src)
    PROVE  /\ Logged(r, type, src)
           /\ \A q \in Runs \ {r} : log'[q] = log[q]
  BY DEF AppendEvent, Logged, TypeOK

\* A terminal write, and what it does to the row.
LEMMA TerminalChange ==
    ASSUME TypeOK, NEW r \in Runs, NEW status \in Terminal, NEW src \in Nat,
           SetTerminal(r, status), AppendEvent(r, status, src), phase' = phase,
           src = 0 \/ Projected(r, status, src)
    PROVE  \A q \in Runs : RowChange(q)
<1>1. run \in [Runs -> RunRows]
  BY DEF TypeOK
<1>2. /\ run'[r].status = status /\ run'[r].lease = NoLease
      /\ run'[r].published = run[r].published /\ run'[r].pending = run[r].pending
      /\ run'[r].resume = run[r].resume
  BY <1>1 DEF SetTerminal, RunRows
<1>3. Becomes(r, status, run[r].published, NoLease, run[r].pending, run[r].resume)
  BY <1>2 DEF Becomes
<1>4. \A q \in Runs \ {r} : run'[q] = run[q]
  BY <1>1 DEF SetTerminal
<1>5. /\ Logged(r, status, src)
      /\ \A q \in Runs \ {r} : log'[q] = log[q]
  BY AppendChange
<1>6. Ended(r)
  BY <1>3, <1>5 DEF Ended
<1> QED
  BY <1>4, <1>5, <1>6, OneChange DEF RowChange

\* The claims.
LEMMA ClaimWrites ==
    ASSUME IInv, NEW d \in Dispatchers, DispatchClaim(d)
    PROVE  /\ disp[d].run \in Runs
           /\ FirstClaim(d, disp[d].run) \/ LaterClaim(d, disp[d].run)
           /\ \A q \in Runs \ {disp[d].run} : run'[q] = run[q] /\ log'[q] = log[q]
<1>1. /\ run \in [Runs -> RunRows]
      /\ phase' = phase /\ TypeOK
      /\ disp[d] \in DispatchCalls
  BY DEF IInv, TypeOK, DispatchClaim
<1>2. PICK r \in Runs : r = disp[d].run
  BY DEF IInv, TasksOfClaimedRuns, DispatchClaim
<1>3. /\ run[r].status = gen[r].status
      /\ run[r].published = gen[r].published
      /\ run[r].lease = gen[r].lease
  BY <1>2 DEF IInv, RowsAgree
<1>4. d \in Calls(r, "claim")
  BY <1>2 DEF Calls, DispatchClaim
<1> DEFINE lease == disp[d].now + LeaseTicks
<1>5. CASE disp[d].status = "pending"
  <2>1. ClaimPending(r, disp[d].now)
    BY <1>2, <1>5 DEF DispatchClaim, Claim
  <2>2. /\ run[r].status = "pending"
        /\ run' = [run EXCEPT ![r].status = "running", ![r].lease = lease]
    BY <1>3, <2>1 DEF ClaimPending
  <2>3. Becomes(r, "running", run[r].published, lease, run[r].pending, run[r].resume)
    BY <1>1, <2>2 DEF Becomes, RunRows
  <2>4. \A q \in Runs \ {r} : run'[q] = run[q]
    BY <1>1, <2>2
  <2>5. /\ Logged(r, "started", 0)
        /\ \A q \in Runs \ {r} : log'[q] = log[q]
    BY <1>1, <2>1, AppendChange DEF ClaimPending
  <2>6. FirstClaim(d, r)
    BY <1>4, <1>5, <2>2, <2>3, <2>5 DEF FirstClaim
  <2> QED
    BY <1>2, <2>4, <2>5, <2>6
<1>6. CASE disp[d].status # "pending"
  <2>1. ClaimRunning(r, disp[d].now, disp[d].resume # 0)
    BY <1>2, <1>6 DEF DispatchClaim, Claim
  <2>2. Claimable(run[r], disp[d].now)
    BY <1>3, <2>1 DEF ClaimRunning, Claimable
  <2>3. run' = [run EXCEPT ![r].lease = lease] /\ log' = log
    BY <2>1, <2>2 DEF ClaimRunning
  <2>4. run[r].status = "running" /\ run[r].published = FALSE
    BY <1>1, <2>2 DEF Claimable, RunRows
  <2>5. Becomes(r, "running", FALSE, lease, run[r].pending, run[r].resume)
    BY <1>1, <2>3, <2>4 DEF Becomes, RunRows
  <2>6. LaterClaim(d, r)
    BY <1>4, <1>6, <2>2, <2>3, <2>5 DEF LaterClaim
  <2>7. \A q \in Runs \ {r} : run'[q] = run[q]
    BY <1>1, <2>3
  <2> QED
    BY <1>2, <2>3, <2>6, <2>7
<1> QED
  BY <1>5, <1>6

\* A claim changes the row of the run it claims and no other.
LEMMA ClaimChange ==
    ASSUME IInv, NEW d \in Dispatchers, DispatchClaim(d)
    PROVE  \A q \in Runs : RowChange(q)
<1>1. phase' = phase
  BY DEF DispatchClaim
<1>2. PICK r \in Runs : /\ FirstClaim(d, r) \/ LaterClaim(d, r)
                        /\ \A q \in Runs \ {r} : run'[q] = run[q] /\ log'[q] = log[q]
  BY ClaimWrites
<1>3. RowChange(r)
  BY <1>1, <1>2 DEF RowChange, Started, Reclaimed
<1> QED
  BY <1>1, <1>2, <1>3, OneChange

\* The mark of a published command.
LEMMA MarkChange ==
    ASSUME IInv, NEW d \in Dispatchers, DispatchMark(d)
    PROVE  \A q \in Runs : RowChange(q)
<1>1. /\ run \in [Runs -> RunRows]
      /\ log' = log /\ phase' = phase
  BY DEF IInv, TypeOK, DispatchMark
<1>2. PICK r \in Runs : r = disp[d].run
  BY DEF IInv, TasksOfClaimedRuns, DispatchMark
<1>3. CASE run[r].published
  BY <1>1, <1>2, <1>3, NoChange DEF DispatchMark
<1>4. CASE ~run[r].published
  <2>1. run' = [run EXCEPT ![r].published = TRUE, ![r].lease = NoLease,
                           ![r].pending = FALSE, ![r].resume = 0]
    BY <1>2, <1>4 DEF DispatchMark, MarkPublished
  <2>2. Becomes(r, run[r].status, TRUE, NoLease, FALSE, 0)
    BY <1>1, <2>1 DEF Becomes, RunRows
  <2>3. Left(d, r, "project")
    <3>1. overran'[r] = (overran[r] \/ Overran(d))
      BY <1>2, Zenon DEF DispatchMark, IInv, TypeOK
    <3>2. disp'[d].pc = "project"
      BY <1>2, <1>4 DEF DispatchMark, IInv, TypeOK, DispatchCalls
    <3> QED
      BY <3>1, <3>2 DEF Left
  <2>4. d \in Calls(r, "mark")
    BY <1>2 DEF Calls, DispatchMark
  <2>5. Marked(r)
    BY <1>1, <1>4, <2>2, <2>3, <2>4 DEF Marked
  <2>6. \A q \in Runs \ {r} : run'[q] = run[q]
    BY <1>1, <2>1
  <2> QED
    BY <1>1, <2>5, <2>6, OneChange DEF RowChange
<1> QED
  BY <1>3, <1>4

\* The two ways a failed publication is undone.
LEMMA FailChange ==
    ASSUME IInv, NEW d \in Dispatchers, DispatchFail(d)
    PROVE  \A q \in Runs : RowChange(q)
<1>1. /\ run \in [Runs -> RunRows]
      /\ phase' = phase /\ TypeOK
  BY DEF IInv, TypeOK, DispatchFail
<1>2. PICK r \in Runs : r = disp[d].run
  BY DEF IInv, TasksOfClaimedRuns, DispatchFail
<1>3. CASE MarkRunFailed(r)
  BY <1>1, <1>3, TerminalChange DEF MarkRunFailed, Terminal
<1>4. CASE ReturnToClientAction(d) /\ disp[d].pending
  <2>1. CASE run[r].status = "running" /\ ~run[r].published
    <3>1. /\ run' = [run EXCEPT ![r].status = "requires_action",
                                ![r].lease = NoLease, ![r].resume = 0,
                                ![r].pending = disp[d].pending]
          /\ AppendEvent(r, "action", 0)
      BY <1>2, <1>4, <2>1 DEF ReturnToClientAction
    <3>2. disp[d].pending = TRUE /\ run[r].published = FALSE
      BY <1>1, <1>4, <2>1 DEF TypeOK, DispatchCalls, RunRows
    <3>3. Becomes(r, "requires_action", FALSE, NoLease, TRUE, 0)
      BY <1>1, <3>1, <3>2 DEF Becomes, RunRows
    <3>4. /\ Logged(r, "action", 0)
          /\ \A q \in Runs \ {r} : log'[q] = log[q]
      BY <1>1, <3>1, AppendChange
    <3>5. d \in Calls(r, "fail") /\ Left(d, r, "idle")
      <4>1. overran'[r] = (overran[r] \/ Overran(d))
        BY <1>2, Zenon DEF DispatchFail, IInv, TypeOK
      <4>2. disp'[d].pc = "idle"
        BY DEF DispatchFail, IInv, TypeOK, IdleDispatch
      <4>3. d \in Calls(r, "fail")
        BY <1>2 DEF Calls, DispatchFail
      <4> QED
        BY <4>1, <4>2, <4>3 DEF Left
    <3>6. Returned(r)
      BY <2>1, <3>3, <3>4, <3>5 DEF Returned
    <3>7. \A q \in Runs \ {r} : run'[q] = run[q]
      BY <1>1, <3>1
    <3> QED
      BY <1>1, <3>4, <3>6, <3>7, OneChange DEF RowChange
  <2>2. CASE ~(run[r].status = "running" /\ ~run[r].published)
    BY <1>1, <1>2, <1>4, <2>2, NoChange DEF ReturnToClientAction, rowVars
  <2> QED
    BY <2>1, <2>2
<1> QED
  BY <1>2, <1>3, <1>4 DEF DispatchFail

\* The transactions of the projector.
LEMMA CommitChange ==
    ASSUME IInv, NEW a \in Apis, NEW r \in Runs, ProjectCommit(a, r)
    PROVE  \A q \in Runs : RowChange(q)
<1> DEFINE kind == proj[a][r].kind
           src == proj[a][r].src
<1>1. /\ run \in [Runs -> RunRows]
      /\ phase' = phase /\ TypeOK
      /\ proj[a][r] \in Projections
  BY DEF IInv, TypeOK, ProjectCommit
<1>2. src \in Nat /\ Projected(r, kind, src)
  BY <1>1 DEF Projections, Projected, ProjectCommit
<1>3. \/ UNCHANGED rowVars
      \/ kind \in {"delta", "tool"} /\ AppendPart(r, kind, src)
      \/ /\ kind = "action" /\ ~(src # 0 /\ HasSourceEvent(r, "action", src))
         /\ RequireClientAction(r, src)
      \/ kind \in Terminal /\ EndRun(r, kind, src)
  BY DEF ProjectCommit
<1> HIDE DEF kind, src
<1>4. CASE UNCHANGED rowVars
  BY <1>1, <1>4, NoChange DEF rowVars
<1>5. CASE kind \in {"delta", "tool"} /\ AppendPart(r, kind, src)
  <2>1. /\ run' = run
        /\ Logged(r, kind, src)
        /\ \A q \in Runs \ {r} : log'[q] = log[q]
    BY <1>1, <1>5, AppendChange DEF AppendPart
  <2>2. PartAdded(r)
    BY <1>2, <1>5, <2>1 DEF PartAdded
  <2> QED
    BY <1>1, <2>1, <2>2, OneChange DEF RowChange
<1>6. CASE /\ kind = "action" /\ ~(src # 0 /\ HasSourceEvent(r, "action", src))
           /\ RequireClientAction(r, src)
  <2>1. run' = [run EXCEPT ![r].status = "requires_action", ![r].published = FALSE,
                           ![r].lease = NoLease, ![r].pending = TRUE]
    BY <1>6 DEF RequireClientAction
  <2>2. Becomes(r, "requires_action", FALSE, NoLease, TRUE, run[r].resume)
    BY <1>1, <2>1 DEF Becomes, RunRows
  <2>3. /\ Logged(r, "action", src)
        /\ \A q \in Runs \ {r} : log'[q] = log[q]
    BY <1>1, <1>6, AppendChange DEF RequireClientAction
  <2>4. Asked(r)
    BY <1>2, <1>6, <2>2, <2>3 DEF Asked
  <2>5. \A q \in Runs \ {r} : run'[q] = run[q]
    BY <1>1, <2>1
  <2> QED
    BY <1>1, <2>3, <2>4, <2>5, OneChange DEF RowChange
<1>7. CASE kind \in Terminal /\ EndRun(r, kind, src)
  BY <1>1, <1>2, <1>7, TerminalChange DEF EndRun
<1> QED
  BY <1>3, <1>4, <1>5, <1>6, <1>7

\* The user's answer.
LEMMA ResumeChange ==
    ASSUME IInv, NEW a \in Apis, NEW r \in Runs, ResumeCommit(a, r)
    PROVE  \A q \in Runs : RowChange(q)
<1>1. /\ run \in [Runs -> RunRows]
      /\ phase \in [Runs -> Keys]
      /\ overran \in [Runs -> BOOLEAN]
      /\ TypeOK
  BY DEF IInv, TypeOK
<1>2. CASE run[r].status # "requires_action"
  BY <1>2, NoChange DEF ResumeCommit
<1>3. CASE run[r].status = "requires_action"
  <2>1. /\ Becomes(r, "running", FALSE, clock, TRUE, phase'[r])
        /\ \A q \in Runs \ {r} : run'[q] = run[q] /\ phase'[q] = phase[q]
    BY <1>1, <1>3 DEF ResumeCommit, Becomes
  <2>2. /\ Logged(r, "started", 0)
        /\ \A q \in Runs \ {r} : log'[q] = log[q]
    BY <1>1, <1>3, AppendChange DEF ResumeCommit
  <2>3. clock' = clock + 1
    BY <1>3 DEF ResumeCommit
  <2>4. Outlived(r) => overran'[r]
    <3>1. overran' = [overran EXCEPT ![r] = @ \/ Outlived(r)]
      BY <1>3 DEF ResumeCommit
    <3>2. overran'[r] = (overran[r] \/ Outlived(r))
      BY <1>1, <3>1, Zenon
    <3> QED
      BY <3>2
  <2>5. Resumed(r)
    BY <1>3, <2>1, <2>2, <2>3, <2>4 DEF Resumed
  <2> QED
    BY <2>1, <2>2, <2>5, OneChange DEF RowChange
<1> QED
  BY <1>2, <1>3

\* Every step changes the rows in one of these ways.
LEMMA RowChanges ==
    ASSUME IInv, [Next]_vars
    PROVE  \A q \in Runs : RowChange(q)
<1>1. ASSUME NEW r \in Runs, CreateRun(r) PROVE \A q \in Runs : RowChange(q)
  <2>1. /\ run \in [Runs -> RunRows]
        /\ log' = log /\ phase' = phase
    BY <1>1 DEF IInv, TypeOK, CreateRun
  <2>2. Becomes(r, "pending", run[r].published, run[r].lease, run[r].pending, run[r].resume)
    BY <1>1, <2>1 DEF CreateRun, Becomes, RunRows
  <2>3. \A q \in Runs \ {r} : run'[q] = run[q]
    BY <1>1, <2>1 DEF CreateRun
  <2>4. Created(r)
    BY <1>1, <2>1, <2>2 DEF Created, CreateRun
  <2> QED
    BY <2>1, <2>3, <2>4, OneChange DEF RowChange
<1>2. ASSUME NEW d \in Dispatchers, Dispatch(d) PROVE \A q \in Runs : RowChange(q)
  BY <1>2, NoChange, ClaimChange, MarkChange, FailChange
     DEF Dispatch, DispatchRead, DispatchLoseClaim, DispatchPublish,
         DispatchPublishError, DispatchProject, rowVars
<1>3. ASSUME NEW a \in Apis, NEW r \in Runs, Project(a, r) PROVE \A q \in Runs : RowChange(q)
  BY <1>3, NoChange, CommitChange DEF Project, ProjectEvent, ProjectRequire,
     ProjectTimeout, ProjectCatch, ProjectHistoryConflict, rowVars
<1>4. ASSUME NEW a \in Apis, NEW r \in Runs, Recover(a, r) PROVE \A q \in Runs : RowChange(q)
  BY <1>4, NoChange DEF Recover, RecoverSelect, RecoverRun, rowVars
<1>5. ASSUME NEW a \in Apis, NEW r \in Runs, Request(a, r) PROVE \A q \in Runs : RowChange(q)
  <2>1. CASE CancelCommit(a, r)
    BY <2>1, TerminalChange DEF CancelCommit, IInv, Terminal
  <2> QED
    BY <1>5, <2>1, NoChange, ResumeChange DEF Request, CancelRead, ResumeRead, rowVars
<1>6. CASE UNCHANGED <<run, log, phase>>
  BY <1>6, NoChange
<1> QED
  BY <1>1, <1>2, <1>3, <1>4, <1>5, <1>6
     DEF Next, CancelEnded, AgentAction, ApiCrash, Tick, vars, rowVars

-----------------------------------------------------------------------------
(* The history of a run: its stream, its log, and the positions in them.   *)

\* Nothing of an unclaimed run has reached the agent, the log or a projection.
Quiet(r) ==
    /\ commands[r] = {} /\ started[r] = {} /\ events[r] = <<>> /\ recovering[r] = {}
    /\ \A k \in Keys : executing[r][k] = "idle"

Untouched ==
    \A r \in Runs : run[r].status \in Unclaimed =>
        Quiet(r) /\ log[r] = <<>> /\ phase[r] = 0 /\ run[r].resume = 0

\* What RecoveryKeepsOutcomes says of one position.
Applied(r, position) ==
    \A i \in 1 .. position : events[r][i] \in Outcomes =>
        HasSourceEvent(r, events[r][i], i) \/ HasSourceEvent(r, "tool", i)

\* The entry that an event of the stream gives.
EntryOf(r, kind, src) ==
    /\ src \in 1 .. Len(events[r])
    /\ \/ kind = events[r][src]
       \/ kind = "tool" /\ events[r][src] = "action"

SourceTrue(r, entry) ==
    entry.src # 0 => EntryOf(r, entry.type, entry.src) /\ Applied(r, entry.src)

\* Everything before the cursor of a projection has been applied, and the event it
\* is busy with is the one after the cursor.
Placed(r, p) ==
    /\ p.cursor <= Len(events[r]) /\ Applied(r, p.cursor)
    /\ p.pc = "catch" => p.kind \in Failures
    /\ p.pc = "require" => /\ p.src = p.cursor + 1 /\ p.src <= Len(events[r])
                           /\ events[r][p.src] = "action"
    /\ p.pc = "commit" => \/ p.src = 0 /\ p.kind \in Failures
                          \/ p.src = p.cursor + 1 /\ EntryOf(r, p.kind, p.src)

PlacedCall(d) ==
    disp[d].pc # "idle" =>
        /\ disp[d].after <= Len(events[disp[d].run])
        /\ Applied(disp[d].run, disp[d].after)

Positions ==
    /\ \A r \in Runs : \A i \in DOMAIN log[r] : SourceTrue(r, log[r][i])
    /\ \A a \in Apis, r \in Runs : Placed(r, proj[a][r])
    /\ \A d \in Dispatchers : PlacedCall(d)

History == Untouched /\ Positions /\ LogReplay

Grows(r) ==
    /\ Len(events[r]) <= Len(events'[r])
    /\ \A i \in 1 .. Len(events[r]) : events'[r][i] = events[r][i]
    /\ \A i \in DOMAIN log[r] : i \in DOMAIN log'[r] /\ log'[r][i] = log[r][i]

\* The stream only grows.
LEMMA EventsGrow ==
    ASSUME IInv, [Next]_vars, NEW r \in Runs
    PROVE  /\ Len(events[r]) <= Len(events'[r])
           /\ \A i \in 1 .. Len(events[r]) : events'[r][i] = events[r][i]
<1>1. events \in [Runs -> Seq(EventKinds)]
  BY DEF IInv, TypeOK, ServiceTypeOK
<1>2. ASSUME NEW q \in Runs, NEW kind, events' = [events EXCEPT ![q] = Append(@, kind)]
      PROVE  /\ Len(events[r]) <= Len(events'[r])
             /\ \A i \in 1 .. Len(events[r]) : events'[r][i] = events[r][i]
  <2>1. events'[r] = events[r] \/ events'[r] = Append(events[r], kind)
    BY <1>1, <1>2
  <2>2. events[r] \in Seq(EventKinds)
    BY <1>1
  <2> QED
    BY <2>1, <2>2
<1>3. CASE events' = events
  <2>1. Len(events[r]) \in Nat
    BY <1>1
  <2> QED
    BY <1>3, <2>1
<1>4. CASE AgentAction
  <2>1. \/ events' = events
        \/ \E q \in Runs, kind \in EventKinds : events' = [events EXCEPT ![q] = Append(@, kind)]
    BY <1>4, ZenonT(60) DEF AgentAction, AgentCrash, AgentStep, Begin, Delta, Report, End, EventKinds
  <2> QED
    BY <1>2, <1>3, <2>1
<1>5. ASSUME NEW d \in Dispatchers, Dispatch(d) PROVE events' = events
  BY <1>5 DEF Dispatch, DispatchRead, DispatchClaim, DispatchLoseClaim, DispatchPublish,
     DispatchPublishError, DispatchMark, DispatchFail, DispatchProject, serviceVars
<1>6. ASSUME NEW a \in Apis, NEW q \in Runs, Project(a, q) PROVE events' = events
  BY <1>6 DEF Project, ProjectEvent, ProjectRequire, ProjectTimeout, ProjectCatch,
     ProjectCommit, ProjectHistoryConflict, serviceVars
<1>7. ASSUME NEW a \in Apis, NEW q \in Runs, Recover(a, q) \/ Request(a, q)
      PROVE  events' = events
  BY <1>7 DEF Recover, RecoverSelect, RecoverRun, Request, CancelRead, CancelCommit,
     ResumeRead, ResumeCommit, serviceVars
<1> QED
  BY <1>3, <1>4, <1>5, <1>6, <1>7
     DEF Next, CreateRun, CancelEnded, ApiCrash, Tick, vars, serviceVars

\* So do the log and both together.
LEMMA Growth ==
    ASSUME IInv, [Next]_vars, NEW r \in Runs
    PROVE  Grows(r)
<1>1. log[r] \in Seq(LogEntries)
  BY DEF IInv, TypeOK
<1>2. RowChange(r)
  BY RowChanges
<1>3. log'[r] = log[r] \/ \E entry : log'[r] = Append(log[r], entry)
  BY <1>2 DEF RowChange, Resumed, Kept, PartAdded, Created, Started, FirstClaim, Reclaimed,
     LaterClaim, Marked,
     Returned, Ended, Asked, Logged
<1>4. \A i \in DOMAIN log[r] : i \in DOMAIN log'[r] /\ log'[r][i] = log[r][i]
  BY <1>1, <1>3
<1> QED
  BY <1>4, EventsGrow DEF Grows

\* What has been recorded stays recorded.
LEMMA GrownSources ==
    ASSUME NEW r \in Runs, Grows(r), NEW type, NEW src, HasSourceEvent(r, type, src)
    PROVE  HasSourceEvent(r, type, src)'
  BY DEF Grows, HasSourceEvent

\* What has been applied stays applied.
LEMMA GrownApplied ==
    ASSUME NEW r \in Runs, Grows(r), NEW position \in Nat,
           Len(events[r]) \in Nat, position <= Len(events[r]), Applied(r, position)
    PROVE  Applied(r, position)'
<1> SUFFICES ASSUME NEW i \in 1 .. position, events'[r][i] \in Outcomes
             PROVE  HasSourceEvent(r, events[r][i], i)' \/ HasSourceEvent(r, "tool", i)'
  BY DEF Applied
<1>1. i \in 1 .. Len(events[r]) /\ events'[r][i] = events[r][i]
  BY DEF Grows
<1>2. PICK kind : kind = events[r][i]
  OBVIOUS
<1>3. HasSourceEvent(r, kind, i) \/ HasSourceEvent(r, "tool", i)
  BY <1>1, <1>2 DEF Applied
<1>4. HasSourceEvent(r, kind, i)' \/ HasSourceEvent(r, "tool", i)'
  BY <1>3, GrownSources
<1> QED
  BY <1>1, <1>2, <1>4

\* An event keeps its entry.
LEMMA GrownEntry ==
    ASSUME NEW r \in Runs, Grows(r), NEW kind, NEW src, Len(events[r]) \in Nat,
           Len(events'[r]) \in Nat, EntryOf(r, kind, src)
    PROVE  EntryOf(r, kind, src)'
  BY DEF Grows, EntryOf

\* What is true of an entry stays true.
LEMMA GrownSource ==
    ASSUME NEW r \in Runs, Grows(r), Len(events[r]) \in Nat, Len(events'[r]) \in Nat,
           NEW entry \in LogEntries, SourceTrue(r, entry)
    PROVE  SourceTrue(r, entry)'
<1>1. entry.src \in Nat
  BY DEF LogEntries
<1>2. CASE entry.src = 0
  BY <1>2 DEF SourceTrue
<1>3. CASE entry.src # 0
  <2>1. EntryOf(r, entry.type, entry.src) /\ Applied(r, entry.src)
    BY <1>3 DEF SourceTrue
  <2>2. entry.src <= Len(events[r])
    BY <2>1 DEF EntryOf
  <2>3. EntryOf(r, entry.type, entry.src)' /\ Applied(r, entry.src)'
    BY <1>1, <2>1, <2>2, GrownEntry, GrownApplied
  <2> QED
    BY <2>3 DEF SourceTrue
<1> QED
  BY <1>2, <1>3

\* What is true of a projection stays true.
LEMMA GrownPlaced ==
    ASSUME NEW r \in Runs, Grows(r), Len(events[r]) \in Nat, Len(events'[r]) \in Nat,
           NEW p \in Projections, Placed(r, p)
    PROVE  Placed(r, p)'
<1>1. p.cursor \in Nat /\ p.src \in Nat
  BY DEF Projections
<1>2. p.cursor <= Len(events'[r]) /\ Applied(r, p.cursor)'
  <2>1. p.cursor <= Len(events[r]) /\ Applied(r, p.cursor)
    BY DEF Placed
  <2>2. Applied(r, p.cursor)'
    BY <1>1, <2>1, GrownApplied
  <2> QED
    BY <1>1, <2>1, <2>2 DEF Grows
<1>3. p.pc = "require" => /\ p.src = p.cursor + 1 /\ p.src <= Len(events'[r])
                          /\ events'[r][p.src] = "action"
  BY <1>1 DEF Placed, Grows
<1>4. p.pc = "commit" => \/ p.src = 0 /\ p.kind \in Failures
                         \/ p.src = p.cursor + 1 /\ EntryOf(r, p.kind, p.src)'
  BY GrownEntry DEF Placed
<1> QED
  BY <1>2, <1>3, <1>4 DEF Placed

\* An entry that a projection records has all outcomes before it applied, and its own.
LEMMA NewSource ==
    ASSUME TypeOK, TypeOK', NEW r \in Runs, Grows(r), NEW kind, NEW src \in Nat, src # 0,
           Logged(r, kind, src), NEW a \in Apis, Placed(r, proj[a][r]),
           proj[a][r].pc = "commit", proj[a][r].kind = kind, proj[a][r].src = src
    PROVE  EntryOf(r, kind, src)' /\ Applied(r, src)'
<1>1. /\ Len(events[r]) \in Nat /\ Len(events'[r]) \in Nat
      /\ log[r] \in Seq(LogEntries)
      /\ proj[a][r] \in Projections
  BY DEF TypeOK, ServiceTypeOK
<1>2. PICK cursor \in Nat : cursor = proj[a][r].cursor
  BY <1>1 DEF Projections
<1>3. src = cursor + 1 /\ EntryOf(r, kind, src) /\ Applied(r, cursor)
  BY <1>2 DEF Placed
<1>4. EntryOf(r, kind, src)'
  BY <1>1, <1>3, GrownEntry
<1>5. cursor <= Len(events[r])
  BY <1>2 DEF Placed
<1>6. Applied(r, cursor)'
  BY <1>1, <1>3, <1>5, GrownApplied
<1>7. HasSourceEvent(r, kind, src)'
  <2>1. /\ Len(log[r]) + 1 \in DOMAIN log'[r]
        /\ log'[r][Len(log[r]) + 1] = [type |-> kind, src |-> src]
    BY <1>1 DEF Logged
  <2> QED
    BY <2>1 DEF HasSourceEvent
<1>8. kind = events'[r][src] \/ kind = "tool"
  BY <1>4 DEF EntryOf
<1>9. Applied(r, src)'
  <2> SUFFICES ASSUME NEW i \in 1 .. src, events'[r][i] \in Outcomes
               PROVE  HasSourceEvent(r, events[r][i], i)' \/ HasSourceEvent(r, "tool", i)'
    BY DEF Applied
  <2>1. CASE i = src
    BY <1>7, <1>8, <2>1
  <2>2. CASE i # src
    <3>1. i \in 1 .. cursor
      BY <1>3, <2>2
    <3> QED
      BY <1>6, <3>1 DEF Applied
  <2> QED
    BY <2>1, <2>2
<1> QED
  BY <1>4, <1>9

\* The entries of the log keep their sources.
LEMMA SourceStep ==
    ASSUME IInv, TypeOK', History, [Next]_vars, NEW r \in Runs
    PROVE  \A i \in DOMAIN log'[r] : SourceTrue(r, log[r][i])'
<1>1. /\ Len(events[r]) \in Nat /\ Len(events'[r]) \in Nat
      /\ log[r] \in Seq(LogEntries)
      /\ TypeOK
  BY DEF IInv, TypeOK, ServiceTypeOK
<1>2. Grows(r)
  BY Growth
<1>3. ASSUME NEW i \in DOMAIN log[r] PROVE SourceTrue(r, log[r][i])'
  <2>1. log[r][i] \in LogEntries
    BY <1>1
  <2>2. PICK entry \in LogEntries : entry = log[r][i]
    BY <2>1
  <2>3. SourceTrue(r, entry)
    BY <2>2 DEF History, Positions
  <2>4. SourceTrue(r, entry)'
    BY <1>1, <1>2, <2>3, GrownSource
  <2>5. log'[r][i] = entry
    BY <1>2, <2>2 DEF Grows
  <2> QED
    BY <2>4, <2>5
<1>4. ASSUME NEW type, NEW src \in Nat, Logged(r, type, src), src = 0 \/ Projected(r, type, src)
      PROVE  \A i \in DOMAIN log'[r] : SourceTrue(r, log[r][i])'
  <2>1. src # 0 => EntryOf(r, type, src)' /\ Applied(r, src)'
    <3> SUFFICES ASSUME src # 0 PROVE EntryOf(r, type, src)' /\ Applied(r, src)'
      OBVIOUS
    <3>1. PICK a \in Apis : /\ proj[a][r].pc = "commit"
                            /\ proj[a][r].kind = type /\ proj[a][r].src = src
      BY <1>4 DEF Projected
    <3>2. Placed(r, proj[a][r])
      BY DEF History, Positions
    <3> QED
      BY <1>1, <1>2, <1>4, <3>1, <3>2, NewSource
  <2> DEFINE entry == [type |-> type, src |-> src]
  <2>2. SourceTrue(r, entry)'
    BY <2>1 DEF SourceTrue
  <2>3. \A i \in DOMAIN log'[r] : i \in DOMAIN log[r] \/ log'[r][i] = entry
    BY <1>1, <1>4 DEF Logged
  <2> HIDE DEF entry
  <2>4. ASSUME NEW i \in DOMAIN log'[r] PROVE SourceTrue(r, log[r][i])'
    BY <1>3, <2>2, <2>3
  <2> QED
    BY <2>4
<1>5. \/ log'[r] = log[r]
      \/ \E type : \E src \in Nat : Logged(r, type, src) /\ (src = 0 \/ Projected(r, type, src))
  <2>1. RowChange(r)
    BY RowChanges
  <2>2. CASE Logged(r, "started", 0) \/ Logged(r, "action", 0)
    BY <2>2
  <2>3. CASE PartAdded(r) \/ Asked(r)
    BY <2>3 DEF PartAdded, Asked
  <2>4. CASE Ended(r)
    BY <2>4 DEF Ended
  <2> QED
    BY <2>1, <2>2, <2>3, <2>4
       DEF RowChange, Resumed, Kept, Created, Started, FirstClaim, Reclaimed,
     LaterClaim, Marked, Returned
<1>6. CASE log'[r] = log[r]
  BY <1>3, <1>6
<1> QED
  BY <1>4, <1>5, <1>6

\* Recovery resumes at a position up to which everything has been applied.
LEMMA LatestPlaced ==
    ASSUME TypeOK, Positions, NEW r \in Runs
    PROVE  /\ LatestSourceEvent(r) \in Nat /\ LatestSourceEvent(r) <= Len(events[r])
           /\ Applied(r, LatestSourceEvent(r))
<1> DEFINE sourced == {i \in DOMAIN log[r] : log[r][i].src # 0}
           latest == {i \in sourced : \A j \in sourced : j <= i}
<1>1. LatestSourceEvent(r) = IF latest = {} THEN 0
                             ELSE log[r][CHOOSE i \in latest : TRUE].src
  BY DEF LatestSourceEvent
<1>2. latest # {} => (CHOOSE i \in latest : TRUE) \in latest
  OBVIOUS
<1>3. Len(events[r]) \in Nat
  BY DEF TypeOK, ServiceTypeOK
<1>4. CASE latest = {}
  <2>1. LatestSourceEvent(r) = 0
    BY <1>1, <1>4
  <2>2. Applied(r, 0)
    BY DEF Applied
  <2> QED
    BY <1>3, <2>1, <2>2
<1>5. CASE latest # {}
  <2>1. PICK i \in DOMAIN log[r] : log[r][i].src # 0 /\ LatestSourceEvent(r) = log[r][i].src
    BY <1>1, <1>2, <1>5
  <2>2. EntryOf(r, log[r][i].type, log[r][i].src) /\ Applied(r, log[r][i].src)
    BY <2>1 DEF Positions, SourceTrue
  <2>3. log[r][i].src <= Len(events[r])
    BY <2>2 DEF EntryOf
  <2> QED
    BY <2>1, <2>2, <2>3, LatestSourceEventType
<1> QED
  BY <1>4, <1>5

-----------------------------------------------------------------------------
\* A step that moves one projection.
LEMMA MovePlaced ==
    ASSUME TypeOK, Positions, NEW b \in Apis, NEW q \in Runs, NEW row,
           proj' = [proj EXCEPT ![b][q] = row], Placed(q, row)
    PROVE  \A a \in Apis, r \in Runs : Placed(r, proj'[a][r])
<1>1. proj \in [Apis -> [Runs -> Projections]]
  BY DEF TypeOK
<1>2. \A a \in Apis, r \in Runs : \/ proj'[a][r] = proj[a][r]
                                  \/ r = q /\ proj'[a][r] = row
  BY <1>1
<1> QED
  BY <1>2 DEF Positions

\* An idle projection is at the start of the stream.
LEMMA IdlePlaced == ASSUME TypeOK, NEW r \in Runs PROVE Placed(r, IdleProjection)
<1>1. Len(events[r]) \in Nat
  BY DEF TypeOK, ServiceTypeOK
<1> QED
  BY <1>1 DEF Placed, IdleProjection, Applied

\* A projection that starts or goes on at an applied position is placed.
LEMMA ConsumePlaced ==
    ASSUME TypeOK, NEW r \in Runs, NEW position \in Nat, position <= Len(events[r]),
           Applied(r, position)
    PROVE  Placed(r, [IdleProjection EXCEPT !.pc = "consume", !.cursor = position])
<1> DEFINE row == [IdleProjection EXCEPT !.pc = "consume", !.cursor = position]
<1>1. row.pc = "consume" /\ row.cursor = position
  BY DEF IdleProjection
<1> HIDE DEF row
<1>2. Placed(r, row)
  BY <1>1 DEF Placed
<1> QED
  BY <1>2 DEF row

\* Each start of a projection is at such a position.
LEMMA StartPlaced ==
    ASSUME TypeOK, Positions, NEW b \in Apis, NEW q \in Runs, NEW after \in Nat,
           after <= Len(events[q]), Applied(q, after), StartProjection(b, q, after)
    PROVE  \A a \in Apis, r \in Runs : Placed(r, proj'[a][r])
<1>1. CASE proj' = proj
  BY <1>1 DEF Positions
<1>2. Placed(q, [IdleProjection EXCEPT !.pc = "consume", !.cursor = after])
  BY ConsumePlaced
<1>3. CASE proj' = [proj EXCEPT ![b][q] = [IdleProjection EXCEPT !.pc = "consume",
                                                                 !.cursor = after]]
  BY <1>2, <1>3, MovePlaced
<1> QED
  BY <1>1, <1>3 DEF StartProjection

\* Each move of a projection keeps it placed.
LEMMA MovesPlaced ==
    ASSUME TypeOK, Positions, NEW b \in Apis, NEW q \in Runs
    PROVE  /\ EndProjection(b, q) => \A a \in Apis, r \in Runs : Placed(r, proj'[a][r])
           /\ \A kind \in Failures : Throw(b, q, kind)
                => \A a \in Apis, r \in Runs : Placed(r, proj'[a][r])
           /\ /\ Advance(b, q) /\ proj[b][q].cursor + 1 <= Len(events[q])
              /\ events[q][proj[b][q].cursor + 1] = "delta"
              => \A a \in Apis, r \in Runs : Placed(r, proj'[a][r])
           /\ \A kind, src : /\ Prepare(b, q, kind, src)
                             /\ \/ src = 0 /\ kind \in Failures
                                \/ src = proj[b][q].cursor + 1 /\ EntryOf(q, kind, src)
                => \A a \in Apis, r \in Runs : Placed(r, proj'[a][r])
<1>1. /\ proj[b][q] \in Projections /\ Len(events[q]) \in Nat
      /\ Placed(q, proj[b][q])
  BY DEF TypeOK, ServiceTypeOK, Positions
<1>2. CASE EndProjection(b, q)
  BY <1>2, IdlePlaced, MovePlaced DEF EndProjection
<1>3. ASSUME NEW kind \in Failures, Throw(b, q, kind)
      PROVE  \A a \in Apis, r \in Runs : Placed(r, proj'[a][r])
  <2> DEFINE row == [proj[b][q] EXCEPT !.pc = "catch", !.kind = kind]
  <2>1. row.pc = "catch" /\ row.kind = kind /\ row.cursor = proj[b][q].cursor
    BY <1>1 DEF Projections
  <2>2. proj' = [proj EXCEPT ![b][q] = row]
    BY <1>3 DEF Throw
  <2> HIDE DEF row
  <2>3. Placed(q, row)
    BY <1>1, <2>1 DEF Placed
  <2> QED
    BY <2>2, <2>3, MovePlaced
<1>4. ASSUME Advance(b, q), proj[b][q].cursor + 1 <= Len(events[q]),
             events[q][proj[b][q].cursor + 1] = "delta"
      PROVE  \A a \in Apis, r \in Runs : Placed(r, proj'[a][r])
  <2>1. PICK position \in Nat : position = proj[b][q].cursor + 1
    BY <1>1 DEF Projections
  <2>2. Applied(q, position)
    <3>1. \A i \in 1 .. position : i = position \/ i \in 1 .. proj[b][q].cursor
      BY <1>1, <2>1 DEF Projections
    <3>2. events[q][position] \notin Outcomes
      BY <1>4, <2>1 DEF Outcomes
    <3> QED
      BY <1>1, <3>1, <3>2 DEF Placed, Applied
  <2>3. Placed(q, [IdleProjection EXCEPT !.pc = "consume", !.cursor = position])
    BY <1>4, <2>1, <2>2, ConsumePlaced
  <2>4. proj' = [proj EXCEPT ![b][q] = [IdleProjection EXCEPT !.pc = "consume",
                                                              !.cursor = position]]
    BY <1>4, <2>1 DEF Advance
  <2> QED
    BY <2>3, <2>4, MovePlaced
<1>5. ASSUME NEW kind, NEW src, Prepare(b, q, kind, src),
             \/ src = 0 /\ kind \in Failures
             \/ src = proj[b][q].cursor + 1 /\ EntryOf(q, kind, src)
      PROVE  \A a \in Apis, r \in Runs : Placed(r, proj'[a][r])
  <2> DEFINE row == [proj[b][q] EXCEPT !.pc = "commit", !.kind = kind, !.src = src]
  <2>1. /\ row.pc = "commit" /\ row.kind = kind /\ row.src = src
        /\ row.cursor = proj[b][q].cursor
    BY <1>1 DEF Projections
  <2>2. proj' = [proj EXCEPT ![b][q] = row]
    BY <1>5 DEF Prepare
  <2> HIDE DEF row
  <2>3. Placed(q, row)
    BY <1>1, <1>5, <2>1 DEF Placed
  <2> QED
    BY <2>2, <2>3, MovePlaced
<1> QED
  BY <1>2, <1>3, <1>4, <1>5

\* Each step of the projector keeps the projections placed.
LEMMA ProjectPlaced ==
    ASSUME TypeOK, Positions, NEW b \in Apis, NEW q \in Runs, Project(b, q)
    PROVE  \A a \in Apis, r \in Runs : Placed(r, proj'[a][r])
<1> DEFINE Goal == \A a \in Apis, r \in Runs : Placed(r, proj'[a][r])
           p == proj[b][q]
<1>1. /\ p \in Projections /\ Placed(q, p)
      /\ events[q] \in Seq(EventKinds) /\ Len(events[q]) \in Nat
  BY DEF TypeOK, ServiceTypeOK, Positions
<1>2. p.cursor \in Nat /\ p.src \in Nat
  BY <1>1 DEF Projections
<1>end. EndProjection(b, q) => Goal
  BY MovesPlaced
<1>throw. ASSUME NEW kind \in Failures, Throw(b, q, kind) PROVE Goal
  BY <1>throw, MovesPlaced
<1>advance. Advance(b, q) /\ p.cursor + 1 <= Len(events[q]) /\ events[q][p.cursor + 1] = "delta"
              => Goal
  BY MovesPlaced
<1>prepare. ASSUME NEW kind, NEW src, Prepare(b, q, kind, src),
                   \/ src = 0 /\ kind \in Failures
                   \/ src = p.cursor + 1 /\ EntryOf(q, kind, src)
            PROVE  Goal
  BY <1>prepare, MovesPlaced
<1>3. ASSUME NEW row, proj' = [proj EXCEPT ![b][q] = row], row.cursor = p.cursor,
             row.pc = "require", row.src = p.cursor + 1, p.cursor + 1 <= Len(events[q]),
             events[q][p.cursor + 1] = "action"
      PROVE  Goal
  <2>1. Placed(q, row)
    BY <1>1, <1>3 DEF Placed
  <2> QED
    BY <1>3, <2>1, MovePlaced
<1>4. CASE ProjectEvent(b, q)
  <2> DEFINE src == p.cursor + 1
             kind == events[q][src]
  <2>1. src \in 1 .. Len(events[q])
    BY <1>1, <1>2, <1>4 DEF ProjectEvent
  <2>2. EntryOf(q, kind, src) /\ (kind = "action" => EntryOf(q, "tool", src))
    BY <2>1 DEF EntryOf
  <2>3. CASE kind = "delta"
    <3>1. Prepare(b, q, "delta", src) \/ Advance(b, q)
      BY <1>4, <2>3 DEF ProjectEvent
    <3> QED
      BY <1>advance, <1>prepare, <2>1, <2>2, <2>3, <3>1
  <2>4. CASE kind = "action"
    <3>1. \/ EndProjection(b, q)
          \/ Prepare(b, q, "tool", src)
          \/ proj' = [proj EXCEPT ![b][q] = [@ EXCEPT !.pc = "require", !.src = src]]
      BY <1>4, <2>4 DEF ProjectEvent
    <3>2. CASE proj' = [proj EXCEPT ![b][q] = [@ EXCEPT !.pc = "require", !.src = src]]
      <4> DEFINE row == [p EXCEPT !.pc = "require", !.src = src]
      <4>1. row.pc = "require" /\ row.src = src /\ row.cursor = p.cursor
        BY <1>1 DEF Projections
      <4>2. proj' = [proj EXCEPT ![b][q] = row]
        BY <3>2
      <4> HIDE DEF row
      <4> QED
        <5>1. p.cursor + 1 <= Len(events[q]) /\ events[q][p.cursor + 1] = "action"
          BY <1>1, <2>1, <2>4
        <5> QED
          BY <1>3, <4>1, <4>2, <5>1
    <3>3. CASE Prepare(b, q, "tool", src)
      BY <1>prepare, <2>2, <2>4, <3>3
    <3> QED
      BY <1>end, <3>1, <3>2, <3>3
  <2>5. CASE kind = "completed"
    <3>1. Prepare(b, q, "completed", src) \/ EndProjection(b, q)
      BY <1>4, <2>5 DEF ProjectEvent
    <3> QED
      BY <1>end, <1>prepare, <2>2, <2>5, <3>1
  <2>6. CASE kind \in Failures
    <3>1. Prepare(b, q, kind, src) \/ Throw(b, q, kind)
      BY <1>4, <2>6 DEF ProjectEvent, Failures
    <3> QED
      BY <1>throw, <1>prepare, <2>2, <2>6, <3>1
  <2> QED
    BY <1>4, <2>3, <2>4, <2>5, <2>6 DEF ProjectEvent, Failures
<1>5. CASE ProjectRequire(b, q)
  <2>1. /\ p.src = p.cursor + 1 /\ p.src <= Len(events[q])
        /\ events[q][p.src] = "action"
    BY <1>1, <1>5 DEF ProjectRequire, Placed
  <2>2. EntryOf(q, "action", p.src)
    BY <1>1, <1>2, <2>1 DEF EntryOf
  <2> QED
    BY <1>end, <1>prepare, <1>5, <2>1, <2>2 DEF ProjectRequire
<1>6. CASE ProjectTimeout(b, q) \/ ProjectHistoryConflict(b, q)
  BY <1>throw, <1>6 DEF ProjectTimeout, ProjectHistoryConflict, Failures
<1>7. CASE ProjectCatch(b, q)
  <2>1. p.kind \in Failures
    BY <1>1, <1>7 DEF ProjectCatch, Placed
  <2> QED
    BY <1>end, <1>prepare, <1>7, <2>1 DEF ProjectCatch
<1>8. CASE ProjectCommit(b, q)
  <2>1. \/ p.src = 0 /\ p.kind \in Failures
        \/ p.src = p.cursor + 1 /\ EntryOf(q, p.kind, p.src)
    BY <1>1, <1>8 DEF ProjectCommit, Placed
  <2>2. \/ p.kind = "delta" /\ Advance(b, q)
        \/ p.kind = "tool" /\ Goto(b, q, "require")
        \/ EndProjection(b, q)
        \/ p.kind \in Failures /\ Goto(b, q, "catch")
    BY <1>8 DEF ProjectCommit, Failures
  <2>3. CASE p.kind = "delta" /\ Advance(b, q)
    <3>1. p.src = p.cursor + 1 /\ EntryOf(q, "delta", p.src)
      BY <2>1, <2>3 DEF Failures
    <3>2. p.cursor + 1 <= Len(events[q]) /\ events[q][p.cursor + 1] = "delta"
      BY <1>1, <3>1 DEF EntryOf
    <3> QED
      BY <1>advance, <2>3, <3>2
  <2>4. CASE p.kind = "tool" /\ Goto(b, q, "require")
    <3> DEFINE row == [p EXCEPT !.pc = "require"]
    <3>1. p.src = p.cursor + 1 /\ EntryOf(q, "tool", p.src)
      BY <2>1, <2>4 DEF Failures
    <3>2. p.src \in 1 .. Len(events[q]) /\ events[q][p.src] = "action"
      <4>1. p.src \in 1 .. Len(events[q])
        BY <3>1 DEF EntryOf
      <4>2. events[q][p.src] \in EventKinds
        BY <1>1, <4>1
      <4> QED
        BY <3>1, <4>1, <4>2 DEF EntryOf, EventKinds, Outcomes
    <3>3. row.pc = "require" /\ row.src = p.src /\ row.cursor = p.cursor
      BY <1>1 DEF Projections
    <3>4. proj' = [proj EXCEPT ![b][q] = row]
      BY <2>4 DEF Goto
    <3> HIDE DEF row
    <3> QED
      <4>1. p.cursor + 1 <= Len(events[q]) /\ events[q][p.cursor + 1] = "action"
        BY <1>1, <3>1, <3>2
      <4> QED
        BY <1>3, <3>1, <3>3, <3>4, <4>1
  <2>5. CASE p.kind \in Failures /\ Goto(b, q, "catch")
    <3> DEFINE row == [p EXCEPT !.pc = "catch"]
    <3>1. row.pc = "catch" /\ row.kind = p.kind /\ row.cursor = p.cursor
      BY <1>1 DEF Projections
    <3>2. proj' = [proj EXCEPT ![b][q] = row]
      BY <2>5 DEF Goto
    <3> HIDE DEF row
    <3>3. Placed(q, row)
      BY <1>1, <2>5, <3>1 DEF Placed
    <3> QED
      BY <3>2, <3>3, MovePlaced
  <2> QED
    BY <1>end, <2>2, <2>3, <2>4, <2>5
<1> QED
  BY <1>4, <1>5, <1>6, <1>7, <1>8 DEF Project

\* Every step does, as far as the streams and logs it finds go.
LEMMA ProjectionsStep ==
    ASSUME IInv, Positions, [Next]_vars
    PROVE  \A a \in Apis, r \in Runs : Placed(r, proj'[a][r])
<1>1. TypeOK
  BY DEF IInv
<1>2. CASE proj' = proj
  BY <1>2 DEF Positions
<1>3. ASSUME NEW d \in Dispatchers, DispatchProject(d)
      PROVE  \A a \in Apis, r \in Runs : Placed(r, proj'[a][r])
  <2>1. /\ disp[d].run \in Runs /\ Home[d] \in Apis
        /\ disp[d].after \in Nat
    BY <1>1, <1>3, ChatRunAssumption
       DEF IInv, TasksOfClaimedRuns, DispatchProject, TypeOK, DispatchCalls
  <2>2. disp[d].after <= Len(events[disp[d].run]) /\ Applied(disp[d].run, disp[d].after)
    BY <1>3 DEF DispatchProject, Positions, PlacedCall
  <2> QED
    BY <1>1, <1>3, <2>1, <2>2, StartPlaced DEF DispatchProject
<1>4. ASSUME NEW a \in Apis, NEW r \in Runs, RecoverRun(a, r)
      PROVE  \A b \in Apis, q \in Runs : Placed(q, proj'[b][q])
  BY <1>1, <1>4, LatestPlaced, StartPlaced DEF RecoverRun
<1>5. ASSUME NEW a \in Apis, ApiCrash(a)
      PROVE  \A b \in Apis, q \in Runs : Placed(q, proj'[b][q])
  <2>1. \A b \in Apis, q \in Runs : proj'[b][q] = proj[b][q] \/ proj'[b][q] = IdleProjection
    BY <1>1, <1>5 DEF ApiCrash, TypeOK
  <2> QED
    BY <1>1, <2>1, IdlePlaced DEF Positions
<1>6. ASSUME NEW d \in Dispatchers, Dispatch(d)
      PROVE  \A a \in Apis, r \in Runs : Placed(r, proj'[a][r])
  BY <1>2, <1>3, <1>6 DEF Dispatch, DispatchRead, DispatchClaim, DispatchLoseClaim,
     DispatchPublish, DispatchPublishError, DispatchMark, DispatchFail
<1>7. ASSUME NEW a \in Apis, NEW r \in Runs, Request(a, r) PROVE proj' = proj
  BY <1>7 DEF Request, CancelRead, CancelCommit, ResumeRead, ResumeCommit
<1> QED
  BY <1>1, <1>2, <1>4, <1>5, <1>6, <1>7, ProjectPlaced
     DEF Next, Recover, RecoverSelect, CreateRun, CancelEnded, AgentAction, Tick, vars, taskVars

\* A call in progress stays where it is, ends, or is one that has just read the run.
LEMMA CallStep ==
    ASSUME IInv, [Next]_vars, NEW d \in Dispatchers
    PROVE  \/ disp'[d] = disp[d]
           \/ disp'[d].pc = "idle"
           \/ Dispatch(d)
<1>1. disp \in [Dispatchers -> DispatchCalls]
  BY DEF IInv, TypeOK
<1>2. ASSUME NEW e \in Dispatchers, Dispatch(e), e # d PROVE disp'[d] = disp[d]
  BY <1>1, <1>2 DEF Dispatch, DispatchRead, DispatchClaim, DispatchLoseClaim, DispatchPublish,
     DispatchPublishError, DispatchMark, DispatchFail, DispatchProject
<1>3. ASSUME NEW a \in Apis, ApiCrash(a) PROVE disp'[d] = disp[d] \/ disp'[d].pc = "idle"
  <2>1. disp'[d] = disp[d] \/ disp'[d] = IdleDispatch
    BY <1>3 DEF ApiCrash
  <2> QED
    BY <2>1 DEF IdleDispatch
<1>4. ASSUME NEW a \in Apis, NEW r \in Runs, Request(a, r) \/ Recover(a, r) PROVE disp' = disp
  BY <1>4 DEF Request, CancelRead, CancelCommit, ResumeRead, ResumeCommit,
     Recover, RecoverSelect, RecoverRun
<1>5. ASSUME NEW a \in Apis, NEW r \in Runs, Project(a, r) PROVE disp' = disp
  BY <1>5 DEF Project, ProjectEvent, ProjectRequire, ProjectTimeout, ProjectCatch,
     ProjectCommit, ProjectHistoryConflict
<1> QED
  BY <1>2, <1>3, <1>4, <1>5
     DEF Next, CreateRun, CancelEnded, AgentAction, Tick, vars, taskVars

\* Each call keeps the position from which it will project.
LEMMA CallsPlaced ==
    ASSUME IInv, IInv', Untouched, Positions, [Next]_vars, NEW d \in Dispatchers
    PROVE  PlacedCall(d)'
<1>1. /\ TypeOK /\ disp \in [Dispatchers -> DispatchCalls] /\ TypeOK'
  BY DEF IInv, TypeOK
<1>2. ASSUME NEW r \in Runs, NEW after \in Nat, after <= Len(events[r]), Applied(r, after),
             disp'[d].run = r, disp'[d].after = after
      PROVE  PlacedCall(d)'
  <2>1. /\ Grows(r) /\ Len(events[r]) \in Nat /\ Len(events'[r]) \in Nat
    BY <1>1, Growth DEF TypeOK, ServiceTypeOK
  <2>2. Applied(r, after)'
    BY <1>2, <2>1, GrownApplied
  <2>3. after <= Len(events'[r])
    BY <1>2, <2>1 DEF Grows
  <2> QED
    BY <1>2, <2>2, <2>3 DEF PlacedCall
<1>3. CASE disp'[d].pc = "idle"
  BY <1>3 DEF PlacedCall
<1>4. CASE /\ disp'[d].pc # "idle" /\ disp[d].pc # "idle"
           /\ disp'[d].run = disp[d].run /\ disp'[d].after = disp[d].after
  <2>1. disp[d].run \in Runs /\ disp[d].after \in Nat
    BY <1>1, <1>4 DEF IInv, TasksOfClaimedRuns, DispatchCalls
  <2>2. disp[d].after <= Len(events[disp[d].run]) /\ Applied(disp[d].run, disp[d].after)
    BY <1>4 DEF Positions, PlacedCall
  <2> QED
    BY <1>2, <1>4, <2>1, <2>2
<1>5. ASSUME NEW r \in Runs, DispatchRead(d, r) PROVE PlacedCall(d)'
  <2>1. /\ disp'[d].run = r
        /\ disp'[d].after = IF gen[r].status = "running" THEN LatestSourceEvent(r)
                            ELSE Len(events[r])
    BY <1>1, <1>5 DEF DispatchRead
  <2>2. CASE gen[r].status = "running"
    BY <1>1, <1>2, <2>1, <2>2, LatestPlaced
  <2>3. CASE gen[r].status # "running"
    <3>1. gen[r].status = "pending"
      BY <1>5, <2>3 DEF DispatchRead, Dispatchable, Claimable
    <3>2. run[r].status \in Unclaimed
      BY <3>1 DEF IInv, RowsAgree, Unclaimed
    <3>3. Len(events[r]) = 0
      BY <3>2 DEF Untouched, Quiet
    <3>4. Applied(r, 0)
      BY DEF Applied
    <3> QED
      BY <1>2, <2>1, <2>3, <3>3, <3>4
  <2> QED
    BY <2>2, <2>3
<1>6. ASSUME NEW pc, disp' = [disp EXCEPT ![d].pc = pc], disp[d].pc # "idle" PROVE PlacedCall(d)'
  <2>1. disp'[d].run = disp[d].run /\ disp'[d].after = disp[d].after
    BY <1>1, <1>6 DEF DispatchCalls
  <2> QED
    BY <1>3, <1>4, <1>6, <2>1
<1>7. ASSUME disp' = [disp EXCEPT ![d] = IdleDispatch] PROVE disp'[d].pc = "idle"
  BY <1>1, <1>7 DEF IdleDispatch
<1>8. CASE Dispatch(d)
  BY <1>3, <1>5, <1>6, <1>7, <1>8 DEF Dispatch, DispatchClaim, DispatchLoseClaim,
     DispatchPublish, DispatchPublishError, DispatchMark, DispatchFail, DispatchProject
<1> QED
  BY <1>3, <1>4, <1>8, CallStep

\* Nothing reaches the agent for a run that nobody has claimed.
LEMMA QuietStep ==
    ASSUME IInv, [Next]_vars, NEW r \in Runs, run[r].status \in Unclaimed, Quiet(r)
    PROVE  Quiet(r)'
<1>1. /\ commands \in [Runs -> SUBSET Keys] /\ started \in [Runs -> SUBSET Keys]
      /\ executing \in [Runs -> [Keys -> Stages]] /\ events \in [Runs -> Seq(EventKinds)]
      /\ recovering \in [Runs -> SUBSET Apis]
  BY DEF IInv, TypeOK, ServiceTypeOK
<1>2. /\ commands[r] = {} /\ started[r] = {} /\ events[r] = <<>> /\ recovering[r] = {}
      /\ \A k \in Keys : executing[r][k] = "idle"
  BY DEF Quiet
<1>same. ASSUME commands'[r] = commands[r], started'[r] = started[r], events'[r] = events[r],
                recovering'[r] \subseteq recovering[r], executing'[r] = executing[r]
         PROVE  Quiet(r)'
  BY <1>2, <1>same DEF Quiet
<1>3. CASE AgentAction
  <2>1. recovering' = recovering
    BY <1>3 DEF AgentAction, taskVars
  <2>2. CASE AgentCrash
    <3>1. /\ commands' = commands /\ started' = started /\ events' = events
          /\ \A k \in Keys : executing'[r][k] = "idle"
      BY <1>2, <2>2 DEF AgentCrash
    <3> QED
      BY <1>2, <2>1, <3>1 DEF Quiet
  <2>3. ASSUME NEW q \in Runs, AgentStep(q) PROVE Quiet(r)'
    <3>1. q # r
      BY <1>2, <2>3 DEF AgentStep, Begin, Delta, Report, End
    <3>2. /\ commands'[r] = commands[r] /\ started'[r] = started[r] /\ events'[r] = events[r]
          /\ executing'[r] = executing[r]
      BY <1>1, <2>3, <3>1 DEF AgentStep, Begin, Delta, Report, End
    <3> QED
      BY <1>same, <2>1, <3>2
  <2> QED
    BY <1>3, <2>2, <2>3 DEF AgentAction
<1>4. ASSUME NEW d \in Dispatchers, Dispatch(d) PROVE Quiet(r)'
  <2>1. CASE commands' = commands
    BY <1>4, <1>same, <2>1 DEF Dispatch, DispatchRead, DispatchClaim, DispatchLoseClaim,
       DispatchPublish, DispatchPublishError, DispatchMark, DispatchFail, DispatchProject,
       serviceVars
  <2>2. CASE (DispatchPublish(d) \/ DispatchPublishError(d)) /\ commands' # commands
    <3>1. PublishCommand(disp[d].run, disp[d].resume) /\ disp[d].pc = "publish"
      BY <2>2 DEF DispatchPublish, DispatchPublishError
    <3>2. disp[d].run # r
      BY <3>1 DEF IInv, TasksOfClaimedRuns, Unclaimed
    <3>3. commands'[r] = commands[r]
      BY <1>1, <3>1, <3>2 DEF PublishCommand
    <3> QED
      BY <1>same, <2>2, <3>3 DEF DispatchPublish, DispatchPublishError
  <2> QED
    BY <1>4, <2>1, <2>2 DEF Dispatch, DispatchRead, DispatchClaim, DispatchLoseClaim,
       DispatchMark, DispatchFail, DispatchProject, serviceVars
<1>5. ASSUME NEW a \in Apis, NEW q \in Runs, Project(a, q) PROVE Quiet(r)'
  BY <1>5, <1>same DEF Project, ProjectEvent, ProjectRequire, ProjectTimeout, ProjectCatch,
     ProjectCommit, ProjectHistoryConflict, serviceVars
<1>6. ASSUME NEW a \in Apis, NEW q \in Runs, Request(a, q) PROVE Quiet(r)'
  BY <1>6, <1>same DEF Request, CancelRead, CancelCommit, ResumeRead, ResumeCommit, serviceVars
<1>7. ASSUME NEW a \in Apis, NEW q \in Runs, RecoverSelect(a, q) PROVE Quiet(r)'
  <2>1. q # r
    BY <1>7 DEF RecoverSelect, Unclaimed, Null
  <2>2. recovering'[r] = recovering[r]
    BY <1>1, <1>7, <2>1 DEF RecoverSelect
  <2> QED
    BY <1>7, <1>same, <2>2 DEF RecoverSelect, serviceVars
<1>8. ASSUME NEW a \in Apis, NEW q \in Runs, RecoverRun(a, q) PROVE Quiet(r)'
  <2>1. recovering'[r] \subseteq recovering[r]
    BY <1>1, <1>8 DEF RecoverRun
  <2> QED
    BY <1>8, <1>same, <2>1 DEF RecoverRun, serviceVars
<1>9. ASSUME NEW a \in Apis, ApiCrash(a) PROVE Quiet(r)'
  <2>1. recovering'[r] \subseteq recovering[r]
    BY <1>9 DEF ApiCrash
  <2> QED
    BY <1>9, <1>same, <2>1 DEF ApiCrash, serviceVars
<1>10. ASSUME NEW q \in Runs, CreateRun(q) PROVE Quiet(r)'
  BY <1>10, <1>same DEF CreateRun, serviceVars, taskVars
<1>11. ASSUME NEW q \in Runs, CancelEnded(q) PROVE Quiet(r)'
  BY <1>11, <1>same DEF CancelEnded, serviceVars, taskVars
<1>12. CASE Tick
  BY <1>12, <1>same DEF Tick, serviceVars, taskVars
<1>13. CASE UNCHANGED vars
  BY <1>13, <1>same DEF vars, serviceVars, taskVars
<1> QED
  BY <1>3, <1>4, <1>5, <1>6, <1>7, <1>8, <1>9, <1>10, <1>11, <1>12, <1>13 DEF Next, Recover

\* Unclaimed runs stay untouched.
LEMMA UntouchedStep ==
    ASSUME IInv, Untouched, [Next]_vars
    PROVE  Untouched'
<1> SUFFICES ASSUME NEW r \in Runs, run'[r].status \in Unclaimed
             PROVE  /\ Quiet(r)' /\ log'[r] = <<>> /\ phase'[r] = 0
                    /\ run'[r].resume = 0
  BY DEF Untouched
<1>1. RowChange(r)
  BY RowChanges
<1>2. /\ run[r].status \in Unclaimed /\ run'[r].resume = run[r].resume
      /\ log'[r] = log[r] /\ phase'[r] = phase[r]
  <2>1. CASE Kept(r)
    BY <1>1, <2>1 DEF RowChange, Kept, Resumed, Becomes, Unclaimed, Null
  <2>2. CASE PartAdded(r)
    BY <2>2 DEF PartAdded, Projected, IInv, TasksOfClaimedRuns, Unclaimed
  <2>3. CASE Created(r)
    BY <1>1, <2>3 DEF RowChange, Created, Becomes, Resumed, Unclaimed, Null
  <2>4. CASE Marked(r)
    BY <2>4 DEF Marked, Becomes, Calls, IInv, TasksOfClaimedRuns, Unclaimed
  <2> QED
    BY <1>1, <2>1, <2>2, <2>3, <2>4 DEF RowChange, Resumed, Started, FirstClaim, Reclaimed,
       LaterClaim, Returned,
       Ended, Asked, Becomes, Unclaimed, Null, Terminal
<1>3. Quiet(r)'
  BY <1>2, QuietStep DEF Untouched
<1> QED
  BY <1>2, <1>3 DEF Untouched

-----------------------------------------------------------------------------
(* The log tells the status.                                               *)

StatusOf(type) == CASE type = "started" -> "running"
                    [] type = "action" -> "requires_action"
                    [] OTHER -> type

Lifecycle(r) == {i \in DOMAIN log[r] : log[r][i].type \in LifecycleTypes}

Replayed(r) ==
    IF run[r].status \in {Null, "pending"} THEN Lifecycle(r) = {}
    ELSE \E i \in Lifecycle(r) : /\ \A j \in Lifecycle(r) : j <= i
                                 /\ StatusOf(log[r][i].type) = run[r].status

\* LogReplay, one run at a time.
LEMMA ReplayedRuns == LogReplay <=> \A r \in Runs : Replayed(r)
  BY DEF LogReplay, Replayed, Lifecycle, StatusOf

\* A lifecycle event is the last one, and its status the one in the row.
LEMMA LifecycleLogged ==
    ASSUME NEW r \in Runs, log[r] \in Seq(LogEntries), NEW type \in LifecycleTypes, NEW src,
           Logged(r, type, src), run'[r].status = StatusOf(type)
    PROVE  Replayed(r)'
<1> DEFINE i == Len(log[r]) + 1
<1>1. i \in DOMAIN log'[r] /\ log'[r][i] = [type |-> type, src |-> src]
  BY DEF Logged
<1>2. \A j \in DOMAIN log'[r] : j <= i
  BY DEF Logged
<1>3. run'[r].status \notin {Null, "pending"}
  BY DEF StatusOf, LifecycleTypes, Terminal, Null
<1> HIDE DEF i
<1>4. i \in Lifecycle(r)'
  BY <1>1 DEF Lifecycle
<1>5. \A j \in Lifecycle(r)' : j <= i
  BY <1>2 DEF Lifecycle
<1>6. StatusOf(log'[r][i].type) = run'[r].status
  BY <1>1
<1> QED
  BY <1>3, <1>4, <1>5, <1>6 DEF Replayed

\* A part leaves the lifecycle as it is.
LEMMA PartLogged ==
    ASSUME NEW r \in Runs, log[r] \in Seq(LogEntries), NEW type \in {"delta", "tool"}, NEW src,
           Logged(r, type, src), run'[r].status = run[r].status, Replayed(r)
    PROVE  Replayed(r)'
<1>1. /\ \A i \in DOMAIN log[r] : i \in DOMAIN log'[r] /\ log'[r][i] = log[r][i]
      /\ \A i \in DOMAIN log'[r] : i \in DOMAIN log[r] \/ log'[r][i].type = type
  BY DEF Logged
<1>2. type \notin LifecycleTypes
  BY DEF LifecycleTypes, Terminal
<1>3. Lifecycle(r)' = Lifecycle(r)
  BY <1>1, <1>2 DEF Lifecycle
<1>4. \A i \in Lifecycle(r) : log'[r][i] = log[r][i]
  BY <1>1 DEF Lifecycle
<1> QED
  BY <1>3, <1>4 DEF Replayed

\* Each step keeps the log and the status together.
LEMMA ReplayStep ==
    ASSUME IInv, LogReplay, Untouched, [Next]_vars
    PROVE  LogReplay'
<1> SUFFICES ASSUME NEW r \in Runs PROVE Replayed(r)'
  <2>1. (\A r \in Runs : Replayed(r)') => LogReplay'
    BY DEF LogReplay, Replayed, Lifecycle, StatusOf
  <2> QED
    BY <2>1
<1>1. log[r] \in Seq(LogEntries) /\ Replayed(r) /\ RowChange(r)
  BY ReplayedRuns, RowChanges DEF IInv, TypeOK
<1>2. CASE Kept(r)
  BY <1>1, <1>2 DEF Kept, Replayed, Lifecycle
<1>3. CASE PartAdded(r)
  BY <1>1, <1>3, PartLogged DEF PartAdded
<1>4. CASE Created(r)
  BY <1>1, <1>4 DEF Created, Becomes, Replayed, Lifecycle
<1>5. CASE Started(r) \/ Resumed(r)
  BY <1>1, <1>5, LifecycleLogged DEF Started, FirstClaim, Resumed, Becomes, StatusOf, LifecycleTypes
<1>6. CASE Reclaimed(r)
  BY <1>1, <1>6 DEF Reclaimed, LaterClaim, Claimable, Becomes, Replayed, Lifecycle, Null
<1>7. CASE Marked(r)
  BY <1>1, <1>7 DEF Marked, Becomes, Replayed, Lifecycle
<1>8. CASE Returned(r)
  BY <1>1, <1>8, LifecycleLogged DEF Returned, Becomes, StatusOf, LifecycleTypes
<1>9. CASE Ended(r)
  <2>1. PICK status \in Terminal : \E src : Logged(r, status, src) /\ run'[r].status = status
    BY <1>9 DEF Ended, Becomes
  <2>2. StatusOf(status) = status /\ status \in LifecycleTypes
    BY DEF StatusOf, LifecycleTypes, Terminal
  <2> QED
    BY <1>1, <2>1, <2>2, LifecycleLogged
<1>10. CASE Asked(r)
  BY <1>1, <1>10, LifecycleLogged DEF Asked, Becomes, StatusOf, LifecycleTypes
<1> QED
  BY <1>1, <1>2, <1>3, <1>4, <1>5, <1>6, <1>7, <1>8, <1>9, <1>10 DEF RowChange

-----------------------------------------------------------------------------
\* The history is true initially ...
LEMMA InitHistory == Init => History
<1> SUFFICES ASSUME Init PROVE History
  OBVIOUS
<1>1. Untouched
  BY DEF Init, ServiceInit, Untouched, Quiet
<1>2. LogReplay
  <2>1. ASSUME NEW r \in Runs PROVE run[r].status = Null /\ DOMAIN log[r] = {}
    BY DEF Init
  <2> QED
    BY <2>1 DEF LogReplay
<1>3. \A r \in Runs : \A i \in DOMAIN log[r] : SourceTrue(r, log[r][i])
  BY DEF Init
<1>4. \A a \in Apis, r \in Runs : Placed(r, proj[a][r])
  <2>1. TypeOK
    BY InitTypes
  <2> QED
    BY <2>1, IdlePlaced DEF Init
<1>5. \A d \in Dispatchers : PlacedCall(d)
  BY DEF Init, PlacedCall, IdleDispatch
<1> QED
  BY <1>1, <1>2, <1>3, <1>4, <1>5 DEF History, Positions

\* ... and stays true.
LEMMA StepHistory ==
    ASSUME IInv, IInv', History, [Next]_vars
    PROVE  History'
<1>1. Untouched' /\ LogReplay'
  BY UntouchedStep, ReplayStep DEF History
<1>2. TypeOK /\ TypeOK' /\ Positions /\ Untouched
  BY DEF IInv, History
<1>3. \A r \in Runs : \A i \in DOMAIN log'[r] : SourceTrue(r, log[r][i])'
  BY <1>2, SourceStep
<1>4. ASSUME NEW a \in Apis, NEW r \in Runs PROVE Placed(r, proj[a][r])'
  <2>1. /\ Len(events[r]) \in Nat /\ Len(events'[r]) \in Nat
        /\ proj'[a][r] \in Projections
    BY <1>2 DEF TypeOK, ServiceTypeOK
  <2>2. PICK p \in Projections : p = proj'[a][r]
    BY <2>1
  <2>3. Placed(r, p)
    BY <1>2, <2>2, ProjectionsStep
  <2>4. Placed(r, p)'
    BY <2>1, <2>3, Growth, GrownPlaced
  <2> QED
    BY <2>2, <2>4
<1>5. \A d \in Dispatchers : PlacedCall(d)'
  BY <1>2, CallsPlaced
<1> QED
  BY <1>1, <1>3, <1>4, <1>5 DEF History, Positions

\* In every reachable state the log, the cursors of the projections and the
\* positions from which they will start are true to the stream: each recorded
\* source is an event of its kind, and every outcome before a position has been
\* applied.  LogInv and RecoveryInv follow from it.
THEOREM HistoryInvariant == Spec => [](IInv /\ History)
<1>1. IInv /\ IInv' /\ History /\ [Next]_vars => History'
  BY StepHistory
<1> QED
  BY <1>1, InitHistory, Invariant, PTL DEF Spec

\* Recovery goes on at a position, and so skips no outcome.
LEMMA OutcomesKept == IInv /\ History => RecoveryKeepsOutcomes
<1> SUFFICES ASSUME IInv, History, NEW r \in Runs
             PROVE  Applied(r, LatestSourceEvent(r))
  BY DEF Applied, RecoveryKeepsOutcomes, HasSourceEvent
<1> QED
  BY LatestPlaced DEF IInv, History

\* A client that follows the log ends with what a fresh read of the row returns,
\* and recovery goes on behind every outcome that has been applied, whatever
\* crashes, however many processes project the run and however it is cancelled.
THEOREM LogAlwaysTrue == Spec => []LogInv
<1>1. IInv /\ History => LogInv
  BY OutcomesKept DEF LogInv, History
<1> QED
  BY <1>1, HistoryInvariant, PTL

\* After any crash a running run is in reach of one of the two timers, and the
\* position recoverRun starts from leaves out no outcome.
THEOREM RecoveryAlwaysKeeps == Spec => []RecoveryInv
<1>1. IInv /\ History => RecoveryInv
  BY OutcomesKept DEF RecoveryInv, IInv
<1> QED
  BY <1>1, HistoryInvariant, PTL

-----------------------------------------------------------------------------
(* The calls and the command they publish.                                 *)

\* An unpublished running run has the key of its command in its row.
Answers ==
    \A r \in Runs : run[r].status = "running" /\ ~run[r].published => run[r].resume = phase[r]

\* Nothing outlives the question before the command of its answer is published.
Fresh ==
    \A r \in Runs : run[r].status = "running" /\ ~run[r].published /\ ~overran[r] => ~Outlived(r)

Timely(d) == disp[d].pc # "idle" => disp[d].now <= clock

\* A call that will win its claim has read the key the run waits for.
Chosen(d) ==
    LET r == disp[d].run IN
    disp[d].pc = "claim" =>
        /\ disp[d].status \in {"pending", "running"}
        /\ disp[d].status = "pending" => disp[d].resume = 0
        /\ disp[d].status = "running" =>
              /\ run[r].status \notin Unclaimed
              /\ Claimable(run[r], disp[d].now) => disp[d].resume = phase[r]

Delivered(d) == disp[d].pc = "mark" => disp[d].resume \in commands[disp[d].run]

Holds(d) == disp[d].pc \in {"publish", "mark", "fail"} /\ ~Overran(d)

\* A call within its lease is the only one of its run, and finds the run as it
\* claimed it, or ended.
Held(d) ==
    LET r == disp[d].run IN
    Holds(d) /\ ~overran[r] =>
        /\ ~Outlived(r) /\ phase[r] = disp[d].resume
        /\ \/ /\ run[r].status = "running" /\ ~run[r].published
              /\ run[r].lease = disp[d].now + LeaseTicks
           \/ run[r].status \in Terminal
        /\ \A e \in Dispatchers : Holds(e) /\ disp[e].run = r => e = d

Claims ==
    /\ Answers /\ Fresh
    /\ \A d \in Dispatchers : Timely(d) /\ Chosen(d) /\ Delivered(d) /\ Held(d)

\* Time passes, commands stay in the stream, and what is late stays late.
LEMMA Monotone ==
    ASSUME IInv, [Next]_vars, NEW r \in Runs
    PROVE  /\ clock <= clock'
           /\ commands[r] \subseteq commands'[r]
           /\ overran[r] => overran'[r]
<1>1. /\ clock \in Nat /\ commands \in [Runs -> SUBSET Keys] /\ overran \in [Runs -> BOOLEAN]
      /\ \A d \in Dispatchers : disp[d].pc # "idle" => disp[d].run \in Runs
  BY DEF IInv, TypeOK, ServiceTypeOK, TasksOfClaimedRuns
<1> DEFINE Later == clock' = clock \/ clock' = clock + 1
           More == commands' = commands \/ \E q \in Runs : \E k : PublishCommand(q, k)
           Late == overran' = overran \/ \E q \in Runs : \E late : overran' = [overran EXCEPT ![q] = @ \/ late]
<1>2. Later => clock <= clock'
  BY <1>1
<1>3. More => commands[r] \subseteq commands'[r]
  BY <1>1 DEF PublishCommand
<1>4. Late => (overran[r] => overran'[r])
  BY <1>1, Zenon
<1>5. CASE UNCHANGED <<clock, commands, overran>>
  BY <1>2, <1>3, <1>4, <1>5
<1>6. ASSUME NEW d \in Dispatchers, Dispatch(d) PROVE Later /\ More /\ Late
  <2>1. CASE UNCHANGED <<clock, commands, overran>>
    BY <2>1
  <2>2. CASE DispatchPublish(d) \/ DispatchPublishError(d)
    BY <1>1, <2>2 DEF DispatchPublish, DispatchPublishError
  <2>3. CASE DispatchMark(d)
    <3>1. overran' = [overran EXCEPT ![disp[d].run] = @ \/ Overran(d)] /\ disp[d].run \in Runs
      BY <1>1, <2>3 DEF DispatchMark
    <3> QED
      BY <2>3, <3>1, Zenon DEF DispatchMark, serviceVars
  <2>4. CASE DispatchFail(d)
    <3>1. overran' = [overran EXCEPT ![disp[d].run] = @ \/ Overran(d)] /\ disp[d].run \in Runs
      BY <1>1, <2>4 DEF DispatchFail
    <3> QED
      BY <2>4, <3>1, Zenon DEF DispatchFail, serviceVars
  <2> QED
    BY <1>6, <2>1, <2>2, <2>3, <2>4 DEF Dispatch, DispatchRead, DispatchClaim, DispatchLoseClaim,
       DispatchProject, serviceVars
<1>7. ASSUME NEW a \in Apis, NEW q \in Runs, Project(a, q) PROVE UNCHANGED <<clock, commands, overran>>
  BY <1>7 DEF Project, ProjectEvent, ProjectRequire, ProjectTimeout, ProjectCatch,
     ProjectCommit, ProjectHistoryConflict, serviceVars
<1>8. ASSUME NEW a \in Apis, NEW q \in Runs, Recover(a, q) PROVE UNCHANGED <<clock, commands, overran>>
  BY <1>8 DEF Recover, RecoverSelect, RecoverRun, serviceVars
<1>9. ASSUME NEW a \in Apis, NEW q \in Runs, Request(a, q) PROVE Later /\ More /\ Late
  <2>1. CASE ResumeCommit(a, q) /\ run[q].status = "requires_action"
    <3>1. /\ overran' = [overran EXCEPT ![q] = @ \/ Outlived(q)]
          /\ clock' = clock + 1 /\ commands' = commands
      BY <2>1 DEF ResumeCommit, serviceVars
    <3> QED
      BY <3>1, Zenon
  <2> QED
    BY <1>9, <2>1 DEF Request, CancelRead, CancelCommit, ResumeRead, ResumeCommit, serviceVars
<1>10. CASE AgentAction
  BY <1>5, <1>10 DEF AgentAction, AgentCrash, AgentStep, Begin, Delta, Report, End
<1>11. CASE Tick
  BY <1>2, <1>3, <1>4, <1>11 DEF Tick, serviceVars
<1>12. (Later /\ More /\ Late) \/ UNCHANGED <<clock, commands, overran>>
         \/ AgentAction \/ Tick
  BY <1>6, <1>7, <1>8, <1>9 DEF Next, CreateRun, CancelEnded, ApiCrash, vars, serviceVars
<1> QED
  BY <1>2, <1>3, <1>4, <1>5, <1>10, <1>11, <1>12

-----------------------------------------------------------------------------
\* A projection ends at the same question after the step.
LEMMA GrownQuestion ==
    ASSUME NEW r \in Runs, Grows(r), Len(events[r]) \in Nat, Len(events'[r]) \in Nat,
           NEW cursor \in Nat, EndsAtQuestion(r, cursor)
    PROVE  EndsAtQuestion(r, cursor)'
<1>1. PICK src \in cursor + 1 .. Len(events[r]) :
         /\ HasSourceEvent(r, "action", src)
         /\ \A i \in cursor + 1 .. src - 1 : events[r][i] = "delta"
  BY DEF EndsAtQuestion
<1>2. HasSourceEvent(r, "action", src)'
  BY <1>1, GrownSources
<1>3. src \in cursor + 1 .. Len(events'[r])
  BY <1>1 DEF Grows
<1>4. \A i \in cursor + 1 .. src - 1 : events'[r][i] = "delta"
  BY <1>1 DEF Grows
<1> QED
  BY <1>2, <1>3, <1>4 DEF EndsAtQuestion

\* A projection goes on within the stream, or starts at a position it was given.
LEMMA CursorStep ==
    ASSUME IInv, Positions, [Next]_vars, NEW a \in Apis, NEW r \in Runs
    PROVE  \/ proj'[a][r].pc = "idle"
           \/ proj[a][r].pc # "idle" /\ proj'[a][r].cursor = proj[a][r].cursor
           \/ /\ proj[a][r].pc # "idle" /\ proj'[a][r].cursor = proj[a][r].cursor + 1
              /\ events[r][proj[a][r].cursor + 1] = "delta"
           \/ recovering[r] # {}
           \/ \E d \in Calls(r, "project") : proj'[a][r].cursor = disp[d].after
<1> DEFINE Goal == \/ proj'[a][r].pc = "idle"
                   \/ proj[a][r].pc # "idle" /\ proj'[a][r].cursor = proj[a][r].cursor
                   \/ /\ proj[a][r].pc # "idle" /\ proj'[a][r].cursor = proj[a][r].cursor + 1
                      /\ events[r][proj[a][r].cursor + 1] = "delta"
                   \/ recovering[r] # {}
                   \/ \E d \in Calls(r, "project") : proj'[a][r].cursor = disp[d].after
<1>1. proj \in [Apis -> [Runs -> Projections]]
  BY DEF IInv, TypeOK
<1>2. proj[a][r] \in Projections
  BY <1>1
<1>same. ASSUME proj'[a][r] = proj[a][r] PROVE Goal
  BY <1>same
<1>idle. IdleProjection.pc = "idle"
  BY DEF IdleProjection
<1>3. ASSUME NEW q \in Runs, NEW b \in Apis, NEW after, StartProjection(b, q, after)
      PROVE  \/ proj'[a][r] = proj[a][r]
             \/ q = r /\ proj'[a][r].cursor = after
  <2>1. CASE proj' = proj
    BY <2>1
  <2>2. CASE proj' = [proj EXCEPT ![b][q] = [IdleProjection EXCEPT !.pc = "consume",
                                                                   !.cursor = after]]
    <3>1. [IdleProjection EXCEPT !.pc = "consume", !.cursor = after].cursor = after
      BY DEF IdleProjection
    <3> QED
      BY <1>1, <2>2, <3>1
  <2> QED
    BY <1>3, <2>1, <2>2 DEF StartProjection
<1>4. ASSUME NEW d \in Dispatchers, Dispatch(d) PROVE Goal
  <2>1. CASE DispatchProject(d)
    <3>1. d \in Calls(disp[d].run, "project") /\ disp[d].run \in Runs /\ Home[d] \in Apis
      BY <2>1, ChatRunAssumption DEF DispatchProject, Calls, IInv, TasksOfClaimedRuns
    <3> QED
      BY <1>3, <1>same, <2>1, <3>1 DEF DispatchProject
  <2> QED
    BY <1>4, <1>same, <2>1 DEF Dispatch, DispatchRead, DispatchClaim, DispatchLoseClaim,
       DispatchPublish, DispatchPublishError, DispatchMark, DispatchFail
<1>5. ASSUME NEW b \in Apis, NEW q \in Runs, Recover(b, q) PROVE Goal
  <2>1. CASE RecoverSelect(b, q)
    BY <1>same, <2>1 DEF RecoverSelect
  <2>2. CASE RecoverRun(b, q)
    BY <1>3, <1>same, <2>2 DEF RecoverRun
  <2> QED
    BY <1>5, <2>1, <2>2 DEF Recover
<1>6. ASSUME NEW b \in Apis, NEW q \in Runs, Project(b, q) PROVE Goal
  <2> DEFINE p == proj[b][q]
  <2>1. p.pc # "idle"
    BY <1>6 DEF Project, ProjectEvent, ProjectRequire, ProjectTimeout, ProjectCatch,
       ProjectCommit, ProjectHistoryConflict
  <2>2. p \in Projections
    BY <1>1
  <2>3. ASSUME NEW row, proj' = [proj EXCEPT ![b][q] = row],
               \/ row.pc = "idle" \/ row.cursor = p.cursor
               \/ row.cursor = p.cursor + 1 /\ events[q][p.cursor + 1] = "delta"
        PROVE  Goal
    <3>1. proj'[a][r] = proj[a][r] \/ (b = a /\ q = r /\ proj'[a][r] = row)
      BY <1>1, <2>3
    <3> QED
      BY <1>same, <2>1, <2>3, <3>1
  <2>4. EndProjection(b, q) => Goal
    BY <1>idle, <2>3 DEF EndProjection
  <2>5. ASSUME Advance(b, q), events[q][p.cursor + 1] = "delta" PROVE Goal
    <3>1. [IdleProjection EXCEPT !.pc = "consume", !.cursor = p.cursor + 1].cursor = p.cursor + 1
      BY DEF IdleProjection
    <3> QED
      BY <2>3, <2>5, <3>1 DEF Advance
  <2>6. ASSUME NEW kind, Throw(b, q, kind) PROVE Goal
    <3>1. [p EXCEPT !.pc = "catch", !.kind = kind].cursor = p.cursor
      BY <2>2 DEF Projections
    <3> QED
      BY <2>3, <2>6, <3>1 DEF Throw
  <2>7. ASSUME NEW kind, NEW src, Prepare(b, q, kind, src) PROVE Goal
    <3>1. [p EXCEPT !.pc = "commit", !.kind = kind, !.src = src].cursor = p.cursor
      BY <2>2 DEF Projections
    <3> QED
      BY <2>3, <2>7, <3>1 DEF Prepare
  <2>8. ASSUME NEW pc, Goto(b, q, pc) PROVE Goal
    <3>1. [p EXCEPT !.pc = pc].cursor = p.cursor
      BY <2>2 DEF Projections
    <3>2. proj' = [proj EXCEPT ![b][q] = [p EXCEPT !.pc = pc]]
      BY <2>8 DEF Goto
    <3> QED
      BY <2>3, <3>1, <3>2
  <2>9. ASSUME NEW src, proj' = [proj EXCEPT ![b][q] = [@ EXCEPT !.pc = "require", !.src = src]]
        PROVE  Goal
    <3>1. [p EXCEPT !.pc = "require", !.src = src].cursor = p.cursor
      BY <2>2 DEF Projections
    <3> QED
      BY <2>3, <2>9, <3>1
  <2> HIDE DEF Goal
  <2>10. CASE ProjectEvent(b, q)
    <3> DEFINE kind == events[q][p.cursor + 1]
    <3>1. CASE kind = "delta"
      <4>1. Advance(b, q) \/ Prepare(b, q, "delta", p.cursor + 1)
        BY <2>10, <3>1 DEF ProjectEvent
      <4> QED
        BY <2>5, <2>7, <3>1, <4>1
    <3>2. CASE kind # "delta"
      <4>1. \/ EndProjection(b, q)
            \/ \E k, n : Prepare(b, q, k, n)
            \/ \E n : proj' = [proj EXCEPT ![b][q] = [@ EXCEPT !.pc = "require", !.src = n]]
            \/ \E k : Throw(b, q, k)
        BY <2>10, <3>2 DEF ProjectEvent
      <4> QED
        BY <2>4, <2>6, <2>7, <2>9, <4>1, ZenonT(60)
    <3> QED
      BY <3>1, <3>2
  <2>11. CASE ProjectCommit(b, q)
    <3>1. Placed(q, p)
      BY DEF Positions
    <3>2. p.kind = "delta" => events[q][p.cursor + 1] = "delta"
      BY <2>11, <3>1 DEF ProjectCommit, Placed, EntryOf, Failures
    <3> QED
      BY <2>4, <2>5, <2>8, <2>11, <3>2 DEF ProjectCommit
  <2> QED
    BY <1>6, <2>4, <2>6, <2>7, <2>10, <2>11
       DEF Project, ProjectRequire, ProjectTimeout, ProjectCatch, ProjectHistoryConflict
<1>7. ASSUME NEW b \in Apis, ApiCrash(b) PROVE Goal
  <2>1. proj'[a][r] = proj[a][r] \/ proj'[a][r] = IdleProjection
    BY <1>1, <1>7 DEF ApiCrash
  <2> QED
    BY <1>idle, <1>same, <2>1
<1>8. ASSUME NEW b \in Apis, NEW q \in Runs, Request(b, q) PROVE proj' = proj
  BY <1>8 DEF Request, CancelRead, CancelCommit, ResumeRead, ResumeCommit
<1> HIDE DEF Goal
<1>9. Goal
  BY <1>same, <1>4, <1>5, <1>6, <1>7, <1>8
     DEF Next, CreateRun, CancelEnded, AgentAction, Tick, vars, taskVars
<1> QED
  BY <1>9 DEF Goal

\* Nobody has a projection of an unclaimed run, nor is about to start one.
LEMMA UnclaimedFresh ==
    ASSUME IInv, Untouched, NEW r \in Runs, run[r].status \in Unclaimed
    PROVE  ~Outlived(r)
  BY DEF IInv, TasksOfClaimedRuns, Untouched, Quiet, Outlived, Unclaimed

\* A question that a projection asks is new to the log, so that it was not at the
\* end of the projection.
LEMMA AskedOutlives ==
    ASSUME IInv, Positions, NEW r \in Runs, Asked(r)
    PROVE  Outlived(r)
<1>1. PICK src \in Nat : /\ Projected(r, "action", src)
                         /\ src = 0 \/ ~HasSourceEvent(r, "action", src)
  BY DEF Asked
<1>2. PICK a \in Apis : /\ proj[a][r].pc = "commit"
                        /\ proj[a][r].kind = "action" /\ proj[a][r].src = src
  BY <1>1 DEF Projected
<1>3. Placed(r, proj[a][r]) /\ proj[a][r] \in Projections
  BY DEF Positions, IInv, TypeOK
<1>4. src = proj[a][r].cursor + 1 /\ EntryOf(r, "action", src)
  BY <1>2, <1>3 DEF Placed, Failures
<1>5. PICK cursor \in Nat : cursor = proj[a][r].cursor
  BY <1>3 DEF Projections
<1>6. events[r][src] = "action"
  BY <1>4 DEF EntryOf
<1>7. ~EndsAtQuestion(r, cursor)
  <2> SUFFICES ASSUME NEW s \in cursor + 1 .. Len(events[r]),
                      HasSourceEvent(r, "action", s),
                      \A i \in cursor + 1 .. s - 1 : events[r][i] = "delta"
               PROVE  FALSE
    BY DEF EndsAtQuestion
  <2>1. s # src
    BY <1>1, <1>4, <1>5
  <2>2. src \in cursor + 1 .. s - 1
    BY <1>4, <1>5, <2>1
  <2> QED
    BY <1>6, <2>2
<1> QED
  BY <1>2, <1>5, <1>7 DEF Outlived

\* The events up to the question are deltas.
LEMMA NextOfQuestion ==
    ASSUME NEW r \in Runs, NEW cursor \in Nat, EndsAtQuestion(r, cursor), TypeOK,
           events[r][cursor + 1] = "delta", Positions
    PROVE  EndsAtQuestion(r, cursor + 1)
<1>1. PICK src \in cursor + 1 .. Len(events[r]) :
         /\ HasSourceEvent(r, "action", src)
         /\ \A i \in cursor + 1 .. src - 1 : events[r][i] = "delta"
  BY DEF EndsAtQuestion
<1>2. events[r][src] = "action"
  <2>1. PICK i \in DOMAIN log[r] : log[r][i] = [type |-> "action", src |-> src]
    BY <1>1 DEF HasSourceEvent
  <2>2. SourceTrue(r, log[r][i])
    BY DEF Positions
  <2>3. EntryOf(r, "action", src)
    BY <1>1, <2>1, <2>2 DEF SourceTrue
  <2> QED
    BY <2>3 DEF EntryOf
<1>3. src # cursor + 1
  BY <1>2
<1>4. Len(events[r]) \in Nat
  BY DEF TypeOK, ServiceTypeOK
<1>5. src \in (cursor + 1) + 1 .. Len(events[r])
  BY <1>1, <1>3, <1>4
<1>6. \A i \in (cursor + 1) + 1 .. src - 1 : events[r][i] = "delta"
  BY <1>1
<1> QED
  BY <1>1, <1>5, <1>6 DEF EndsAtQuestion

\* A projection outlives its question only when recovery selects a published run,
\* or a dispatcher marks it as published.
LEMMA OutlivedStep ==
    ASSUME IInv, IInv', History, [Next]_vars, NEW r \in Runs, ~Outlived(r), RowChange(r)
    PROVE  \/ ~Outlived(r)'
           \/ run[r].status = "running" /\ run[r].published
           \/ Marked(r)
<1> SUFFICES ASSUME ~(run[r].status = "running" /\ run[r].published), ~Marked(r)
             PROVE  ~Outlived(r)'
  OBVIOUS
<1>1. /\ TypeOK /\ TypeOK' /\ Grows(r) /\ Positions
      /\ Len(events[r]) \in Nat /\ Len(events'[r]) \in Nat
      /\ recovering \in [Runs -> SUBSET Apis]
      /\ disp \in [Dispatchers -> DispatchCalls]
  BY Growth DEF IInv, History, TypeOK, ServiceTypeOK
<1>2. /\ recovering[r] = {}
      /\ \A a \in Apis : proj[a][r].pc # "idle" => EndsAtQuestion(r, proj[a][r].cursor)
      /\ \A d \in Calls(r, "project") : EndsAtQuestion(r, disp[d].after)
  BY DEF Outlived, Calls
<1>3. recovering'[r] = {}
  <2>1. CASE recovering' = recovering
    BY <1>2, <2>1
  <2>2. ASSUME NEW a \in Apis, NEW q \in Runs, RecoverSelect(a, q) PROVE recovering'[r] = {}
    BY <1>1, <1>2, <2>2 DEF RecoverSelect
  <2>3. ASSUME NEW a \in Apis, NEW q \in Runs, RecoverRun(a, q) PROVE recovering'[r] = {}
    BY <1>1, <1>2, <2>3 DEF RecoverRun
  <2>4. ASSUME NEW a \in Apis, ApiCrash(a) PROVE recovering'[r] = {}
    BY <1>2, <2>4 DEF ApiCrash
  <2>5. ASSUME NEW d \in Dispatchers, Dispatch(d) PROVE recovering' = recovering
    BY <2>5 DEF Dispatch, DispatchRead, DispatchClaim, DispatchLoseClaim, DispatchPublish,
       DispatchPublishError, DispatchMark, DispatchFail, DispatchProject
  <2>6. ASSUME NEW a \in Apis, NEW q \in Runs, Project(a, q) PROVE recovering' = recovering
    BY <2>6 DEF Project, ProjectEvent, ProjectRequire, ProjectTimeout, ProjectCatch,
       ProjectCommit, ProjectHistoryConflict
  <2>7. ASSUME NEW a \in Apis, NEW q \in Runs, Request(a, q) PROVE recovering' = recovering
    BY <2>7 DEF Request, CancelRead, CancelCommit, ResumeRead, ResumeCommit
  <2> QED
    BY <2>1, <2>2, <2>3, <2>4, <2>5, <2>6, <2>7
       DEF Next, Recover, CreateRun, CancelEnded, AgentAction, Tick, vars, taskVars
<1>4. ASSUME NEW a \in Apis, proj'[a][r].pc # "idle"
      PROVE  EndsAtQuestion(r, proj[a][r].cursor)'
  <2>1. PICK cursor \in Nat : cursor = proj'[a][r].cursor
    BY <1>1 DEF TypeOK, Projections
  <2>2. EndsAtQuestion(r, cursor)
    <3>1. CASE proj[a][r].pc # "idle" /\ cursor = proj[a][r].cursor
      BY <1>2, <3>1
    <3>2. CASE /\ proj[a][r].pc # "idle" /\ cursor = proj[a][r].cursor + 1
               /\ events[r][proj[a][r].cursor + 1] = "delta"
      <4>1. PICK before \in Nat : before = proj[a][r].cursor
        BY <1>1 DEF TypeOK, Projections
      <4> QED
        BY <1>1, <1>2, <3>2, <4>1, NextOfQuestion
    <3>3. CASE \E d \in Calls(r, "project") : cursor = disp[d].after
      BY <1>2, <3>3
    <3> QED
      BY <1>1, <1>2, <1>4, <2>1, <3>1, <3>2, <3>3, CursorStep
  <2>3. EndsAtQuestion(r, cursor)'
    BY <1>1, <2>2, GrownQuestion
  <2> QED
    BY <2>1, <2>3
<1>5. ASSUME NEW d \in Dispatchers, disp'[d].run = r, disp'[d].pc = "project"
      PROVE  EndsAtQuestion(r, disp[d].after)'
  <2>1. disp'[d] = disp[d]
    <3>1. CASE DispatchMark(d)
      <4>1. /\ disp[d].run = r /\ ~run[r].published
            /\ MarkPublished(r)
        BY <1>1, <1>5, <3>1 DEF DispatchMark, DispatchCalls, IdleDispatch
      <4>2. Marked(r)
        <5>1. d \in Calls(r, "mark")
          BY <3>1, <4>1 DEF DispatchMark, Calls
        <5>2. overran'[r] = (overran[r] \/ Overran(d))
          BY <3>1, <4>1, Zenon DEF DispatchMark, TypeOK, IInv
        <5>3. Left(d, r, "project")
          BY <1>5, <5>2 DEF Left
        <5>4. run' = [run EXCEPT ![r].published = TRUE, ![r].lease = NoLease,
                                 ![r].pending = FALSE, ![r].resume = 0]
          BY <4>1 DEF MarkPublished
        <5>5. run \in [Runs -> RunRows]
          BY <1>1 DEF TypeOK
        <5>6. Becomes(r, run[r].status, TRUE, NoLease, FALSE, 0)
          BY <5>4, <5>5 DEF Becomes, RunRows
        <5> QED
          BY <3>1, <4>1, <5>1, <5>3, <5>6 DEF Marked, DispatchMark
      <4> QED
        BY <4>2
    <3>2. Dispatch(d) => DispatchMark(d)
      BY <1>1, <1>5 DEF Dispatch, DispatchRead, DispatchClaim, DispatchLoseClaim,
         DispatchPublish, DispatchPublishError, DispatchFail, DispatchProject,
         DispatchCalls, IdleDispatch
    <3> QED
      BY <1>5, <3>1, <3>2, CallStep
  <2>2. d \in Calls(r, "project")
    BY <1>5, <2>1 DEF Calls
  <2>3. PICK after \in Nat : after = disp[d].after
    BY <1>1 DEF DispatchCalls
  <2>4. EndsAtQuestion(r, after)'
    BY <1>1, <1>2, <2>2, <2>3, GrownQuestion
  <2> QED
    BY <2>1, <2>3, <2>4
<1> QED
  BY <1>3, <1>4, <1>5 DEF Outlived

\* A call that holds its claim has just won it, or held it before.
LEMMA HoldStep ==
    ASSUME IInv, [Next]_vars, NEW d \in Dispatchers, Holds(d)'
    PROVE  \/ DispatchClaim(d)
           \/ /\ Holds(d) /\ disp'[d].run = disp[d].run
              /\ disp'[d].now = disp[d].now /\ disp'[d].resume = disp[d].resume
<1>1. /\ disp \in [Dispatchers -> DispatchCalls] /\ clock \in Nat /\ clock' \in Nat
      /\ LeaseTicks \in Nat
  <2>1. TypeOK'
    BY TypeStep DEF IInv
  <2> QED
    BY <2>1, ChatRunAssumption DEF IInv, TypeOK
<1>2. disp'[d].pc \in {"publish", "mark", "fail"} /\ ~Overran(d)'
  BY DEF Holds
<1>3. ASSUME disp'[d].now = disp[d].now PROVE ~Overran(d)
  <2>1. clock <= clock'
    <3>1. disp[d].now \in Nat
      BY <1>1 DEF DispatchCalls
    <3>2. PICK r \in Runs : TRUE
      <4>1. disp'[d].run \in Runs
        <5>1. TasksOfClaimedRuns'
          BY TaskStep
        <5> QED
          BY <1>2, <5>1 DEF TasksOfClaimedRuns
      <4> QED
        BY <4>1
    <3> QED
      BY <3>2, Monotone
  <2> QED
    BY <1>1, <1>2, <1>3, <2>1 DEF Overran, DispatchCalls
<1>4. CASE disp'[d] = disp[d]
  BY <1>2, <1>3, <1>4 DEF Holds
<1>5. CASE DispatchPublish(d) \/ DispatchPublishError(d)
  <2>1. /\ disp'[d].run = disp[d].run /\ disp'[d].now = disp[d].now
        /\ disp'[d].resume = disp[d].resume /\ disp[d].pc = "publish"
    BY <1>1, <1>5 DEF DispatchPublish, DispatchPublishError, DispatchCalls
  <2> QED
    BY <1>3, <2>1 DEF Holds
<1>6. Dispatch(d) => DispatchClaim(d) \/ DispatchPublish(d) \/ DispatchPublishError(d)
  BY <1>1, <1>2 DEF Dispatch, DispatchRead, DispatchLoseClaim, DispatchMark, DispatchFail,
     DispatchProject, DispatchCalls, IdleDispatch
<1> QED
  BY <1>2, <1>4, <1>5, <1>6, CallStep

\* A run that had been claimed has been claimed.
LEMMA StaysClaimed ==
    ASSUME NEW r \in Runs, RowChange(r), run[r].status \notin Unclaimed
    PROVE  run'[r].status \notin Unclaimed
  BY DEF RowChange, Kept, PartAdded, Created, Started, FirstClaim, Reclaimed, LaterClaim,
     Marked, Returned, Ended, Asked, Resumed, Becomes, Unclaimed, Terminal, Null

\* What makes a run running and unpublished: it was, it is claimed for the first
\* time, or the user answers.
LEMMA WaitingBefore ==
    ASSUME IInv, NEW r \in Runs, RowChange(r), run'[r].status = "running", ~run'[r].published
    PROVE  \/ /\ run[r].status = "running" /\ ~run[r].published
              /\ phase'[r] = phase[r] /\ run'[r].resume = run[r].resume
              /\ (run'[r].lease = run[r].lease \/ Reclaimed(r))
           \/ Started(r) /\ phase'[r] = phase[r]
           \/ Resumed(r)
  BY DEF RowChange, Kept, PartAdded, Created, Started, FirstClaim, Reclaimed, LaterClaim,
     Marked, Returned, Ended, Asked, Resumed, Becomes, Terminal, Claimable

\* The resume key in a row stays that of the command it waits for.
LEMMA AnswersStep ==
    ASSUME IInv, Untouched, Answers, [Next]_vars
    PROVE  Answers'
<1> SUFFICES ASSUME NEW r \in Runs, run'[r].status = "running", ~run'[r].published
             PROVE  run'[r].resume = phase'[r]
  BY DEF Answers
<1>1. RowChange(r)
  BY RowChanges
<1>2. CASE /\ run[r].status = "running" /\ ~run[r].published /\ phase'[r] = phase[r]
           /\ run'[r].resume = run[r].resume
  BY <1>2 DEF Answers
<1>3. CASE Started(r) /\ phase'[r] = phase[r]
  <2>1. run[r].status \in Unclaimed /\ run'[r].resume = run[r].resume
    BY <1>3 DEF Started, FirstClaim, Becomes, Unclaimed
  <2> QED
    BY <1>3, <2>1 DEF Untouched
<1>4. CASE Resumed(r)
  BY <1>4 DEF Resumed, Becomes
<1> QED
  BY <1>1, <1>2, <1>3, <1>4, WaitingBefore

\* Nothing comes to outlive a question that is answered in time.
LEMMA FreshStep ==
    ASSUME IInv, IInv', History, Fresh, [Next]_vars
    PROVE  Fresh'
<1> SUFFICES ASSUME NEW r \in Runs, run'[r].status = "running", ~run'[r].published,
                    ~overran'[r]
             PROVE  ~Outlived(r)'
  BY DEF Fresh
<1>1. RowChange(r)
  BY RowChanges
<1>2. ~overran[r]
  BY Monotone
<1>3. ~Outlived(r) /\ ~(run[r].status = "running" /\ run[r].published)
  <2>1. CASE run[r].status = "running" /\ ~run[r].published
    BY <1>2, <2>1 DEF Fresh
  <2>2. CASE Started(r)
    BY <2>2, UnclaimedFresh DEF Started, FirstClaim, Unclaimed, History
  <2>3. CASE Resumed(r)
    BY <2>3 DEF Resumed
  <2> QED
    BY <1>1, <2>1, <2>2, <2>3, WaitingBefore
<1>4. ~Marked(r)
  BY DEF Marked, Becomes
<1> QED
  BY <1>1, <1>3, <1>4, OutlivedStep

\* A call has read the clock before.
LEMMA TimelyStep ==
    ASSUME IInv, IInv', [Next]_vars, NEW d \in Dispatchers, Timely(d)
    PROVE  Timely(d)'
<1> SUFFICES ASSUME disp'[d].pc # "idle" PROVE disp'[d].now <= clock'
  BY DEF Timely
<1>1. /\ disp \in [Dispatchers -> DispatchCalls] /\ clock \in Nat /\ clock' \in Nat
  BY DEF IInv, TypeOK
<1>2. disp'[d].run \in Runs
  BY DEF IInv, TasksOfClaimedRuns
<1>3. clock <= clock'
  BY <1>2, Monotone
<1>4. \/ disp'[d].now = clock
      \/ disp[d].pc # "idle" /\ disp'[d].now = disp[d].now
  <2>1. ASSUME Dispatch(d) 
        PROVE  \/ disp'[d].now = clock
               \/ disp[d].pc # "idle" /\ disp'[d].now = disp[d].now
    BY <1>1, <2>1 DEF Dispatch, DispatchRead, DispatchClaim, DispatchLoseClaim, DispatchPublish,
       DispatchPublishError, DispatchMark, DispatchFail, DispatchProject, DispatchCalls,
       IdleDispatch
  <2> QED
    BY <2>1, CallStep
<1> QED
  BY <1>1, <1>3, <1>4 DEF Timely, DispatchCalls

\* The key a call has read stays that of the run it can claim.
LEMMA ChosenStep ==
    ASSUME IInv, IInv', Untouched, Answers, [Next]_vars, NEW d \in Dispatchers,
           \A e \in Dispatchers : Timely(e), Chosen(d)
    PROVE  Chosen(d)'
<1> SUFFICES ASSUME disp'[d].pc = "claim" PROVE Chosen(d)'
  BY DEF Chosen
<1>1. /\ disp \in [Dispatchers -> DispatchCalls] /\ run \in [Runs -> RunRows]
      /\ clock \in Nat /\ LeaseTicks \in Nat
  BY ChatRunAssumption DEF IInv, TypeOK
<1>2. CASE disp'[d] = disp[d]
  <2>1. PICK r \in Runs : r = disp[d].run
    BY <1>2 DEF IInv, TasksOfClaimedRuns
  <2>2. PICK now \in Nat : now = disp[d].now
    BY <1>1 DEF DispatchCalls
  <2>3. RowChange(r)
    BY RowChanges
  <2> SUFFICES ASSUME disp[d].status = "running", Claimable(run'[r], now),
                      run[r].status \notin Unclaimed
               PROVE  disp[d].resume = phase'[r]
    BY <1>2, <2>1, <2>2, <2>3, StaysClaimed DEF Chosen
  <2>4. now <= clock
    BY <1>2, <2>2 DEF Timely
  <2>5. run'[r].status = "running" /\ ~run'[r].published /\ Expired(run'[r].lease, now)
    BY DEF Claimable
  <2>6. ~Started(r)
    BY DEF Started, FirstClaim, Unclaimed
  <2>7. ~Resumed(r)
    BY <1>1, <2>2, <2>4, <2>5 DEF Resumed, Becomes, Expired
  <2>8. /\ run[r].status = "running" /\ ~run[r].published /\ phase'[r] = phase[r]
        /\ (run'[r].lease = run[r].lease \/ Reclaimed(r))
    BY <2>3, <2>5, <2>6, <2>7, WaitingBefore
  <2>9. Expired(run[r].lease, now)
    <3>1. CASE run'[r].lease = run[r].lease
      BY <2>5, <3>1
    <3>2. CASE Reclaimed(r)
      <4>1. PICK e \in Dispatchers : LaterClaim(e, r)
        BY <3>2 DEF Reclaimed
      <4>2. PICK earlier \in Nat : earlier = disp[e].now
        BY <1>1 DEF DispatchCalls
      <4>3. run'[r].lease = earlier + LeaseTicks /\ Expired(run[r].lease, earlier)
        BY <4>1, <4>2 DEF LaterClaim, Becomes, Claimable
      <4>4. run[r].lease \in Leases
        BY <1>1 DEF RunRows
      <4> QED
        BY <1>1, <2>5, <4>3, <4>4 DEF Expired, Leases, NoLease
    <3> QED
      BY <2>8, <3>1, <3>2
  <2>10. Claimable(run[r], now)
    BY <2>8, <2>9 DEF Claimable
  <2> QED
    BY <1>2, <2>1, <2>2, <2>8, <2>10 DEF Chosen
<1>3. ASSUME NEW r \in Runs, DispatchRead(d, r) PROVE Chosen(d)'
  <2>1. /\ disp'[d].run = r /\ disp'[d].status = gen[r].status
        /\ disp'[d].resume = run[r].resume
        /\ run' = run /\ phase' = phase
    BY <1>1, <1>3 DEF DispatchRead, rowVars
  <2>2. gen[r].status = run[r].status
    BY DEF IInv, RowsAgree
  <2>3. run[r].status \in {"pending", "running"}
    BY <1>3, <2>2 DEF DispatchRead, Dispatchable, Claimable
  <2>4. run[r].status = "pending" => run[r].resume = 0
    BY DEF Untouched, Unclaimed
  <2>5. run[r].status = "running" => run[r].status \notin Unclaimed
    BY DEF Unclaimed, Null
  <2>6. ASSUME NEW now, Claimable(run[r], now) PROVE run[r].resume = phase[r]
    BY <2>6 DEF Claimable, Answers
  <2> QED
    BY <2>1, <2>2, <2>3, <2>4, <2>5, <2>6 DEF Chosen
<1>4. Dispatch(d) => \E r \in Runs : DispatchRead(d, r)
  BY <1>1 DEF Dispatch, DispatchClaim, DispatchLoseClaim, DispatchPublish,
     DispatchPublishError, DispatchMark, DispatchFail, DispatchProject, DispatchCalls,
     IdleDispatch
<1> QED
  BY <1>2, <1>3, <1>4, CallStep

\* A call marks what it has published.
LEMMA DeliveredStep ==
    ASSUME IInv, [Next]_vars, NEW d \in Dispatchers, Delivered(d)
    PROVE  Delivered(d)'
<1> SUFFICES ASSUME disp'[d].pc = "mark" PROVE disp'[d].resume \in commands'[disp'[d].run]
  BY DEF Delivered
<1>1. /\ disp \in [Dispatchers -> DispatchCalls] /\ commands \in [Runs -> SUBSET Keys]
  BY DEF IInv, TypeOK, ServiceTypeOK
<1>2. CASE disp'[d] = disp[d]
  <2>1. disp[d].run \in Runs
    BY <1>2 DEF IInv, TasksOfClaimedRuns
  <2> QED
    BY <1>2, <2>1, Monotone DEF Delivered
<1>3. CASE DispatchPublish(d)
  <2>1. PICK r \in Runs : r = disp[d].run
    BY <1>3 DEF IInv, TasksOfClaimedRuns, DispatchPublish
  <2>2. /\ disp'[d].run = r /\ disp'[d].resume = disp[d].resume
    BY <1>1, <1>3, <2>1 DEF DispatchPublish, DispatchCalls
  <2>3. commands' = [commands EXCEPT ![r] = @ \cup {disp[d].resume}]
    BY <1>3, <2>1 DEF DispatchPublish, PublishCommand
  <2> QED
    BY <1>1, <2>2, <2>3
<1>4. Dispatch(d) => DispatchPublish(d)
  BY <1>1 DEF Dispatch, DispatchRead, DispatchClaim, DispatchLoseClaim,
     DispatchPublishError, DispatchMark, DispatchFail, DispatchProject, DispatchCalls,
     IdleDispatch
<1> QED
  BY <1>2, <1>3, <1>4, CallStep

\* A call that goes on in time after its command held its claim.
LEMMA LeftInTime ==
    ASSUME NEW r \in Runs, ~overran'[r], NEW pc, NEW next, pc \in {"mark", "fail"},
           NEW d \in Calls(r, pc), Left(d, r, next)
    PROVE  d \in Dispatchers /\ disp[d].run = r /\ Holds(d) /\ disp'[d].pc = next
  BY DEF Calls, Left, Holds

\* A run is not claimed from a call that holds it.
LEMMA NotReclaimed ==
    ASSUME IInv, Claims, NEW d \in Dispatchers, NEW r \in Runs, disp[d].run = r,
           Holds(d), ~overran[r]
    PROVE  ~Started(r) /\ ~Reclaimed(r)
<1>1. /\ disp \in [Dispatchers -> DispatchCalls] /\ clock \in Nat /\ LeaseTicks \in Nat
  BY ChatRunAssumption DEF IInv, TypeOK
<1>2. run[r].status = "running" => run[r].lease = disp[d].now + LeaseTicks
  BY DEF Claims, Held, Terminal
<1>3. run[r].status # "pending"
  BY DEF Claims, Held, Terminal
<1>4. ASSUME NEW e \in Dispatchers, LaterClaim(e, r) PROVE FALSE
  <2>1. disp[e].pc = "claim" /\ run[r].status = "running" /\ run[r].lease < disp[e].now
    BY <1>4 DEF LaterClaim, Calls, Claimable, Expired
  <2>2. disp[e].now <= clock
    BY <2>1 DEF Claims, Timely
  <2>3. disp[d].now + LeaseTicks < disp[e].now /\ disp[d].now \in Nat /\ disp[e].now \in Nat
    BY <1>1, <1>2, <2>1 DEF DispatchCalls
  <2>4. Overran(d)
    BY <1>1, <2>2, <2>3 DEF Overran
  <2> QED
    BY <2>4 DEF Holds
<1> QED
  BY <1>3, <1>4 DEF Started, FirstClaim, Reclaimed

\* A call that keeps its claim finds the run as it left it, or ended.
LEMMA KeptClaim ==
    ASSUME IInv, IInv', History, Claims, [Next]_vars, NEW d \in Dispatchers, NEW r \in Runs,
           disp[d].run = r, Holds(d), Holds(d)', ~overran'[r]
    PROVE  /\ ~Outlived(r)' /\ phase'[r] = phase[r]
           /\ \/ /\ run'[r].status = "running" /\ ~run'[r].published
                 /\ run'[r].lease = run[r].lease
                 /\ run[r].status = "running"
              \/ run'[r].status \in Terminal
<1>1. ~overran[r] /\ RowChange(r)
  BY Monotone, RowChanges
<1>2. /\ ~Outlived(r)
      /\ (run[r].status = "running" /\ ~run[r].published) \/ run[r].status \in Terminal
      /\ \A e \in Dispatchers : Holds(e) /\ disp[e].run = r => e = d
  BY <1>1 DEF Claims, Held
<1>3. disp'[d].pc \notin {"project", "idle"}
  BY DEF Holds
<1>4. ~Marked(r)
  <2> SUFFICES ASSUME NEW e \in Calls(r, "mark"), Left(e, r, "project") PROVE FALSE
    BY DEF Marked
  <2>1. e \in Dispatchers /\ disp[e].run = r /\ Holds(e) /\ disp'[e].pc = "project"
    BY LeftInTime
  <2> QED
    BY <1>2, <1>3, <2>1
<1>5. ~Returned(r)
  <2> SUFFICES ASSUME NEW e \in Calls(r, "fail"), Left(e, r, "idle") PROVE FALSE
    BY DEF Returned
  <2>1. e \in Dispatchers /\ disp[e].run = r /\ Holds(e) /\ disp'[e].pc = "idle"
    BY LeftInTime
  <2> QED
    BY <1>2, <1>3, <2>1
<1>6. ~Started(r) /\ ~Reclaimed(r)
  BY <1>1, NotReclaimed
<1>7. ~Asked(r)
  BY <1>2, AskedOutlives DEF History
<1>8. ~Created(r) /\ ~Resumed(r)
  BY <1>2 DEF Created, Resumed, Terminal, Null
<1>9. phase'[r] = phase[r] /\ (Kept(r) \/ PartAdded(r) \/ Ended(r))
  BY <1>1, <1>4, <1>5, <1>6, <1>7, <1>8 DEF RowChange
<1>10. ~(run[r].status = "running" /\ run[r].published)
  BY <1>2 DEF Terminal
<1>11. ~Outlived(r)'
  BY <1>1, <1>2, <1>4, <1>10, OutlivedStep
<1>12. run'[r] = run[r] \/ run'[r].status \in Terminal
  BY <1>9 DEF Kept, PartAdded, Ended, Becomes
<1> QED
  BY <1>2, <1>9, <1>11, <1>12

\* A call that wins its claim in time finds nothing left of the phase before.
LEMMA WonClaim ==
    ASSUME IInv, IInv', History, Claims, [Next]_vars, NEW d \in Dispatchers, NEW r \in Runs,
           disp[d].run = r, DispatchClaim(d), ~overran'[r]
    PROVE  /\ ~Outlived(r)' /\ phase'[r] = disp[d].resume
           /\ run'[r].status = "running" /\ ~run'[r].published
           /\ run'[r].lease = disp[d].now + LeaseTicks
<1>1. /\ RowChange(r) /\ phase'[r] = phase[r]
      /\ run \in [Runs -> RunRows]
      /\ ~overran[r]
  BY RowChanges, Monotone DEF DispatchClaim, IInv, TypeOK
<1>2. FirstClaim(d, r) \/ LaterClaim(d, r)
  BY ClaimWrites
<1>3. CASE FirstClaim(d, r)
  <2>1. run[r].status \in Unclaimed /\ run[r].status = "pending"
    BY <1>3 DEF FirstClaim, Unclaimed
  <2>2. ~run[r].published
    BY <2>1 DEF IInv, TasksOfClaimedRuns, Unclaimed
  <2>3. ~Outlived(r) /\ phase[r] = 0
    BY <2>1, UnclaimedFresh DEF History, Untouched
  <2>4. ~Marked(r)
    BY <1>3, <2>2 DEF Marked, FirstClaim, Becomes
  <2>5. disp[d].resume = 0
    BY <1>3 DEF FirstClaim, Calls, Claims, Chosen
  <2>6. ~Outlived(r)'
    BY <1>1, <2>1, <2>3, <2>4, OutlivedStep
  <2> QED
    BY <1>1, <1>3, <2>2, <2>3, <2>5, <2>6 DEF FirstClaim, Becomes
<1>4. CASE LaterClaim(d, r)
  <2>1. run[r].status = "running" /\ ~run[r].published
    BY <1>4 DEF LaterClaim, Claimable
  <2>2. ~Outlived(r)
    BY <1>1, <2>1 DEF Claims, Fresh
  <2>3. ~Marked(r)
    BY <1>4 DEF Marked, LaterClaim, Becomes
  <2>4. disp[d].resume = phase[r]
    BY <1>4 DEF LaterClaim, Calls, Claims, Chosen
  <2>5. ~Outlived(r)'
    BY <1>1, <2>1, <2>2, <2>3, OutlivedStep
  <2> QED
    BY <1>1, <1>4, <2>4, <2>5 DEF LaterClaim, Becomes
<1> QED
  BY <1>2, <1>3, <1>4

\* Two calls never hold the claim of one run.
LEMMA AloneStep ==
    ASSUME IInv, IInv', History, Claims, [Next]_vars, NEW r \in Runs, ~overran'[r],
           NEW d \in Dispatchers, NEW e \in Dispatchers,
           Holds(d)', Holds(e)', disp'[d].run = r, disp'[e].run = r
    PROVE  d = e
<1>1. ~overran[r] /\ disp \in [Dispatchers -> DispatchCalls]
  BY Monotone DEF IInv, TypeOK
<1>2. ASSUME NEW c \in Dispatchers, DispatchClaim(c), disp'[c].run = r,
             NEW b \in Dispatchers, Holds(b), disp[b].run = r
      PROVE  FALSE
  <2>1. disp[c].run = r
    BY <1>1, <1>2 DEF DispatchClaim, DispatchCalls
  <2>2. FirstClaim(c, r) \/ LaterClaim(c, r)
    BY <1>2, <2>1, ClaimWrites
  <2>3. Started(r) \/ Reclaimed(r)
    BY <2>2 DEF Started, Reclaimed
  <2> QED
    BY <1>1, <1>2, <2>3, NotReclaimed
<1>3. ASSUME DispatchClaim(d), DispatchClaim(e) PROVE d = e
  <2>1. disp'[d].pc = "publish" /\ disp[e].pc = "claim"
    BY <1>1, <1>3 DEF DispatchClaim, DispatchCalls
  <2>2. disp' = [disp EXCEPT ![d].pc = "publish"]
    BY <1>3 DEF DispatchClaim
  <2>3. disp'[e].pc = "publish"
    BY <1>1, <1>3 DEF DispatchClaim, DispatchCalls
  <2>4. d # e => disp'[e] = disp[e]
    BY <1>1, <2>2
  <2> QED
    BY <2>1, <2>3, <2>4
<1>4. DispatchClaim(d) \/ (Holds(d) /\ disp[d].run = r)
  BY HoldStep
<1>5. DispatchClaim(e) \/ (Holds(e) /\ disp[e].run = r)
  BY HoldStep
<1>6. ASSUME Holds(d), disp[d].run = r, Holds(e), disp[e].run = r PROVE d = e
  BY <1>1, <1>6 DEF Claims, Held
<1> QED
  BY <1>2, <1>3, <1>4, <1>5, <1>6

\* A call within its lease stays the only one of its run.
LEMMA HeldStep ==
    ASSUME IInv, IInv', History, Claims, [Next]_vars, NEW d \in Dispatchers
    PROVE  Held(d)'
<1> SUFFICES ASSUME NEW r, disp'[d].run = r, Holds(d)', ~overran'[r]
             PROVE  /\ ~Outlived(r)' /\ phase'[r] = disp'[d].resume
                    /\ \/ /\ run'[r].status = "running" /\ ~run'[r].published
                          /\ run'[r].lease = disp'[d].now + LeaseTicks
                       \/ run'[r].status \in Terminal
                    /\ \A e \in Dispatchers : Holds(e)' /\ disp'[e].run = r => e = d
  BY DEF Held
<1>1. r \in Runs /\ disp \in [Dispatchers -> DispatchCalls]
  <2>1. disp'[d].run \in Runs
    BY DEF Holds, IInv, TasksOfClaimedRuns
  <2> QED
    BY <2>1 DEF IInv, TypeOK
<1>2. \A e \in Dispatchers : Holds(e)' /\ disp'[e].run = r => e = d
  BY <1>1, AloneStep
<1>3. CASE DispatchClaim(d)
  <2>1. /\ disp[d].run = r /\ disp'[d].resume = disp[d].resume
        /\ disp'[d].now = disp[d].now
    BY <1>1, <1>3 DEF DispatchClaim, DispatchCalls
  <2> QED
    BY <1>1, <1>2, <1>3, <2>1, WonClaim
<1>4. CASE /\ Holds(d) /\ disp[d].run = r
           /\ disp'[d].now = disp[d].now /\ disp'[d].resume = disp[d].resume
  <2>1. ~overran[r]
    BY <1>1, Monotone
  <2>2. /\ phase[r] = disp[d].resume
        /\ run[r].status = "running" => run[r].lease = disp[d].now + LeaseTicks
    BY <1>4, <2>1 DEF Claims, Held, Terminal
  <2> QED
    BY <1>1, <1>2, <1>4, <2>2, KeptClaim
<1> QED
  BY <1>3, <1>4, HoldStep

\* What a run waits for can come.
LEMMA CommandStep ==
    ASSUME IInv, IInv', History, Claims, CommandInv, [Next]_vars
    PROVE  CommandInv'
<1> SUFFICES ASSUME NEW r \in Runs, ~overran'[r]
             PROVE  /\ run'[r].status = "requires_action" => run'[r].pending /\ ~run'[r].published
                    /\ run'[r].status = "running" /\ run'[r].published => phase'[r] \in commands'[r]
  BY DEF CommandInv, PendingActionKept, PublishedMeansSent
<1>1. /\ ~overran[r] /\ RowChange(r)
      /\ commands[r] \subseteq commands'[r]
  BY Monotone, RowChanges
<1>2. /\ run[r].status = "requires_action" => run[r].pending /\ ~run[r].published
      /\ run[r].status = "running" /\ run[r].published => phase[r] \in commands[r]
  BY <1>1 DEF CommandInv, PendingActionKept, PublishedMeansSent
<1>3. CASE Marked(r)
  <2>1. PICK d \in Calls(r, "mark") : Left(d, r, "project")
    BY <1>3 DEF Marked
  <2>2. d \in Dispatchers /\ disp[d].run = r /\ Holds(d) /\ disp[d].pc = "mark"
    BY <2>1, LeftInTime DEF Calls
  <2>3. /\ phase[r] = disp[d].resume /\ disp[d].resume \in commands[r]
        /\ run[r].status # "requires_action"
    BY <1>1, <2>2 DEF Claims, Held, Delivered, Terminal
  <2>4. phase'[r] = phase[r] /\ run'[r].status = run[r].status
    BY <1>1, <1>3 DEF RowChange, Marked, Resumed, Becomes
  <2> QED
    BY <1>1, <2>3, <2>4
<1>4. CASE Started(r)
  <2>1. ~run[r].published
    BY <1>4 DEF Started, FirstClaim, IInv, TasksOfClaimedRuns
  <2> QED
    BY <1>4, <2>1 DEF Started, FirstClaim, Becomes
<1>5. CASE Kept(r) \/ PartAdded(r)
  <2>1. run'[r] = run[r]
    BY <1>5 DEF Kept, PartAdded
  <2>2. phase'[r] = phase[r] \/ ~run'[r].published
    BY <1>1 DEF RowChange, Resumed, Becomes
  <2> QED
    BY <1>1, <1>2, <2>1, <2>2
<1>6. CASE Created(r) \/ Reclaimed(r) \/ Returned(r) \/ Ended(r) \/ Asked(r) \/ Resumed(r)
  BY <1>6 DEF Created, Reclaimed, LaterClaim, Returned, Ended, Asked, Resumed, Becomes, Terminal
<1> QED
  BY <1>1, <1>3, <1>4, <1>5, <1>6 DEF RowChange

\* No call is in progress initially ...
LEMMA InitClaims == Init => Claims /\ CommandInv
<1> SUFFICES ASSUME Init PROVE Claims /\ CommandInv
  OBVIOUS
<1>1. Answers /\ Fresh /\ CommandInv
  BY DEF Init, Answers, Fresh, CommandInv, PendingActionKept, PublishedMeansSent, Null
<1>2. \A d \in Dispatchers : disp[d].pc = "idle"
  BY DEF Init, IdleDispatch
<1> QED
  BY <1>1, <1>2 DEF Claims, Timely, Chosen, Delivered, Held, Holds

\* ... and every step keeps the claims.
LEMMA StepClaims ==
    ASSUME IInv, IInv', History, Claims, CommandInv, [Next]_vars
    PROVE  Claims' /\ CommandInv'
<1>1. Answers' /\ Fresh'
  BY AnswersStep, FreshStep DEF Claims, History
<1>2. \A d \in Dispatchers : Timely(d)' /\ Delivered(d)' /\ Held(d)'
  BY TimelyStep, DeliveredStep, HeldStep DEF Claims
<1>3. \A d \in Dispatchers : Chosen(d)'
  BY ChosenStep DEF Claims, History
<1> QED
  BY <1>1, <1>2, <1>3, CommandStep DEF Claims

\* In every reachable state a call within its lease is alone with its run, finds it
\* as it was claimed, and publishes the command the run waits for.  CommandInv is
\* part of the induction: marking a run as published is right because of it.
THEOREM ClaimsInvariant == Spec => [](IInv /\ History /\ Claims /\ CommandInv)
<1>1. IInv /\ IInv' /\ History /\ Claims /\ CommandInv /\ [Next]_vars => Claims' /\ CommandInv'
  BY StepClaims
<1> QED
  BY <1>1, InitClaims, HistoryInvariant, PTL DEF Spec

\* The user can always answer a run that waits for an answer, and a published
\* run's command is in the stream, as long as no call outlives its lease or the
\* question it was busy with.
THEOREM CommandsAlwaysKept == Spec => []CommandInv
  BY ClaimsInvariant, PTL
=============================================================================
