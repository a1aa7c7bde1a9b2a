------------------------------- MODULE Memory -------------------------------
(***************************************************************************)
(* The long-term memory of one user: the operations the agent proposes     *)
(* while it generates a reply (agent-memory-operations.service.ts), the    *)
(* memories they write (createAcceptedMemory) and what the end of the run  *)
(* does to them (chat-run-projector.service.ts, chat-sessions.service.ts). *)
(*                                                                         *)
(* A transaction is one action, or two where what it reads may be old when *)
(* it writes (READ COMMITTED): the end of a run reads that the run is      *)
(* running, and its rollback selects the memories, before it writes.       *)
(* createAcceptedMemory is one action: the unique index makes one that     *)
(* another write overtook start again.  Owner, scope, lane and profile are *)
(* one combination, in which the index allows one active memory per slot.  *)
(* The search index is left out: it is written best effort, and every read *)
(* joins it with the status of the memory.                                 *)
(***************************************************************************)
EXTENDS Integers, Sequences

CONSTANTS Generations,  \* replies of the user's sessions
          Slots,        \* slot keys of memories
          NoSlot,       \* a memory without a slot key
          Values,       \* contents of memories
          MaxOperations \* bound on the operations of a generation

ASSUME MemoryAssumption ==
    /\ NoSlot \notin Slots /\ Values # {} /\ MaxOperations \in Nat
    /\ "earlier" \notin Generations

VARIABLES memories,    \* rows of AgentMemory, by id
          generation   \* the generations with their requests

vars == <<memories, generation>>

Statuses == {"new", "running", "completed", "failed", "cancelled"}
Ids == 1 .. Len(memories)
ActiveIds(rows) == {m \in 1 .. Len(rows) : rows[m].active}

\* asked: operations so far; admitted: operations of the current request that
\* are left; heard: the agent still waits for the answer; archive: what the
\* applied operations it knows of want archived.  completing and failing: a
\* transaction that ends the run has read it as running, and seen is what the
\* rollback selected.  start, foreign, twice and behind are auxiliary: the
\* memories active when the generation started, the ones others changed since,
\* the slots it wrote more than once, and what anyone changed behind seen.
NewGeneration == [status |-> "new", asked |-> 0, admitted |-> 0, heard |-> FALSE,
                  archive |-> {}, completing |-> FALSE, failing |-> FALSE, seen |-> {},
                  start |-> {}, foreign |-> {}, twice |-> {}, behind |-> {}]

\* Some memories of earlier replies exist.
Init ==
    /\ memories \in {<<[slot |-> s, value |-> v, by |-> "earlier",
                        active |-> TRUE, supersedes |-> 0]>> : s \in Slots \cup {NoSlot}, v \in Values}
    /\ generation = [g \in Generations |-> NewGeneration]

Start(g) ==
    /\ generation[g].status = "new"
    /\ generation' = [generation EXCEPT ![g].status = "running",
                                        ![g].start = ActiveIds(memories)]
    /\ UNCHANGED memories

-----------------------------------------------------------------------------
(* A request of the agent with one or two operations.                      *)

\* assertGenerationOperationRequest, once for the request
Propose(g) ==
    /\ generation[g].status = "running" /\ generation[g].admitted = 0
    /\ ~generation[g].completing
    /\ \E n \in 1 .. 2 :
          /\ generation[g].asked + n <= MaxOperations
          /\ generation' = [generation EXCEPT ![g].asked = @ + n, ![g].admitted = n,
                                              ![g].heard = TRUE]
    /\ UNCHANGED memories

\* The connection breaks: the agent goes on, the API executes what is left.
LoseConnection(g) ==
    /\ generation[g].heard /\ generation[g].admitted > 0
    /\ generation' = [generation EXCEPT ![g].heard = FALSE]
    /\ UNCHANGED memories

\* The memories an operation or an end of g changes, and what each generation
\* learns of them.
Changed(rows) == {m \in 1 .. Len(rows) : m > Len(memories) \/ rows[m] # memories[m]}

Behind(rows, reply) == IF reply.failing THEN reply.behind \cup Changed(rows) ELSE reply.behind

Told(rows, g, own) ==
    [h \in Generations |->
        IF h = g THEN own
        ELSE [generation[h] EXCEPT !.foreign = IF generation[h].status = "running"
                                               THEN @ \cup Changed(rows) ELSE @,
                                   !.behind = Behind(rows, generation[h])]]

Executed(g, archive) ==
    [generation[g] EXCEPT !.admitted = @ - 1,
                          !.archive = IF generation[g].heard THEN @ \cup archive ELSE @]

Holder(slot) == {m \in ActiveIds(memories) : slot # NoSlot /\ memories[m].slot = slot}

\* Mutant: the memory that holds the slot stays active.
AcceptedBeside(g, slot, value) ==
    Append(memories, [slot |-> slot, value |-> value, by |-> g,
                      active |-> TRUE, supersedes |-> 0])

\* createAcceptedMemory: the rows afterwards, the new one last.
Accepted(g, slot, value) ==
    LET archived == [m \in Ids |-> IF m \in Holder(slot)
                                   THEN [memories[m] EXCEPT !.active = FALSE] ELSE memories[m]]
    IN  Append(archived,
               [slot |-> slot, value |-> value, by |-> g,
                active |-> TRUE,
                supersedes |-> IF Holder(slot) = {} THEN 0 ELSE CHOOSE m \in Holder(slot) : TRUE])

\* executeWriteOperation: the same value is there already.  In a slot the
\* operation counts as applied, with what the memory superseded when it is this
\* generation's own; without a slot it is ignored as a duplicate.
ExecuteSame(g) ==
    /\ generation[g].admitted > 0
    /\ \E m \in ActiveIds(memories), related \in {{}} \cup {{n} : n \in Ids} :
          LET superseded == IF memories[m].by = g /\ memories[m].supersedes # 0
                            THEN {memories[m].supersedes} ELSE {}
          IN  generation' = [generation EXCEPT ![g] = Executed(g,
                                IF memories[m].slot = NoSlot THEN {} ELSE superseded \cup related)]
    /\ UNCHANGED memories

\* executeWriteOperation: a new memory; an update also names related memories,
\* which are archived when the reply completes.
ExecuteWrite(g) ==
    /\ generation[g].admitted > 0
    /\ \E slot \in Slots \cup {NoSlot}, value \in Values, related \in {{}} \cup {{n} : n \in Ids} :
          LET rows == Accepted(g, slot, value)
              superseded == rows[Len(rows)].supersedes
              own == Executed(g, ({superseded} \ {0}) \cup related)
          IN  /\ \A m \in ActiveIds(memories) :
                    <<memories[m].slot, memories[m].value>> # <<slot, value>>
              /\ memories' = rows
              /\ generation' = Told(rows, g,
                    [own EXCEPT !.twice = @ \cup {memories[m].slot : m \in {n \in Ids :
                                              memories[n].by = g /\ memories[n].slot = slot}},
                                !.behind = Behind(rows, generation[g])])

\* executeForgetOperation, of active memories; they are archived when the
\* reply completes.
ExecuteForget(g) ==
    /\ generation[g].admitted > 0
    /\ \E m \in ActiveIds(memories) :
          generation' = [generation EXCEPT ![g] = Executed(g, {m})]
    /\ UNCHANGED memories

\* An operation that fails, is ignored, or becomes a candidate for the user's
\* confirmation (createPendingCandidate).  No code accepts candidates yet.
ExecuteNothing(g) ==
    /\ generation[g].admitted > 0
    /\ generation' = [generation EXCEPT ![g] = Executed(g, {})]
    /\ UNCHANGED memories

-----------------------------------------------------------------------------
(* The end of the generation.                                              *)

\* What is left of a generation that has ended: the operations of its request,
\* and the transactions that read it as running before.
Over(g, status) ==
    [generation[g] EXCEPT !.status = status, !.heard = FALSE,
                          !.start = {}, !.foreign = {}, !.twice = {},
                          !.archive = IF generation[g].completing THEN @ ELSE {}]

\* finalizeGenerationOperations
Finalized(g) ==
    [m \in Ids |-> IF m \in generation[g].archive THEN [memories[m] EXCEPT !.active = FALSE]
                   ELSE memories[m]]

\* completeRun reads the run as running.  The agent has the answers of its
\* requests, or has lost them.
CompleteRead(g) ==
    /\ generation[g].status = "running" /\ ~generation[g].completing
    /\ generation[g].admitted > 0 => ~generation[g].heard
    /\ generation' = [generation EXCEPT ![g].completing = TRUE]
    /\ UNCHANGED memories

\* completeRun writes, whatever the status is by now.
Complete(g) ==
    /\ generation[g].completing
    /\ memories' = Finalized(g)
    /\ generation' = Told(Finalized(g), g,
          [Over(g, "completed") EXCEPT !.completing = FALSE, !.archive = {},
                                       !.behind = Behind(Finalized(g), generation[g])])

OwnActive(g) == {m \in ActiveIds(memories) : memories[m].by = g}

\* Mutant: nothing is restored.
RolledBackOnly(own) ==
    [m \in Ids |-> IF m \in own THEN [memories[m] EXCEPT !.active = FALSE] ELSE memories[m]]

\* Mutant: the memories of the generation stay.
RestoredOnly(own) ==
    [m \in Ids |-> IF m \in {memories[n].supersedes : n \in own}
                   THEN [memories[m] EXCEPT !.active = TRUE] ELSE memories[m]]

\* rollbackGenerationOperations, with the memories own that it selected: they are
\* archived and the ones they superseded become active again.
RolledBack(own) ==
    LET archived == [m \in Ids |-> [memories[m] EXCEPT !.active = @ /\ m \notin own]]
    IN  [m \in Ids |-> IF m \in {memories[n].supersedes : n \in own}
                       THEN [archived[m] EXCEPT !.active = TRUE] ELSE archived[m]]

OnePerSlot(rows) ==
    \A m, n \in ActiveIds(rows) : m # n /\ rows[m].slot \in Slots => rows[m].slot # rows[n].slot

\* failRun, and cancelRun of the projector, read the run as running and select
\* the active memories of the generation.
FailRead(g) ==
    /\ generation[g].status = "running" /\ ~generation[g].failing
    /\ generation' = [generation EXCEPT ![g].failing = TRUE, ![g].seen = OwnActive(g)]
    /\ UNCHANGED memories

Ended(g, status) == [Over(g, status) EXCEPT !.failing = FALSE, !.seen = {}, !.behind = {}]

\* They write, whatever the status is by now.
Fail(g) ==
    /\ generation[g].failing
    /\ OnePerSlot(RolledBack(generation[g].seen))
    /\ memories' = RolledBack(generation[g].seen)
    /\ generation' = Told(RolledBack(generation[g].seen), g, Ended(g, "failed"))

\* The unique index of the active slots refuses what would be restored.  The
\* transaction is dropped silently (ignoreUniqueConstraint): the run goes on
\* as it was until recoverRunningRuns finds it and fails it once more.
FailRefused(g) ==
    /\ generation[g].failing
    /\ ~OnePerSlot(RolledBack(generation[g].seen))
    /\ generation' = [generation EXCEPT ![g].failing = FALSE, ![g].seen = {}, ![g].behind = {}]
    /\ UNCHANGED memories

\* cancelRun of chat-sessions.service.ts, which leaves the memories alone.
UserCancel(g) ==
    /\ generation[g].status = "running"
    /\ generation' = [generation EXCEPT ![g] = Over(g, "cancelled")]
    /\ UNCHANGED memories

-----------------------------------------------------------------------------

Execute(g) ==
    ExecuteSame(g) \/ ExecuteWrite(g) \/ ExecuteForget(g) \/ ExecuteNothing(g)

End(g) ==
    \/ CompleteRead(g) \/ Complete(g) \/ UserCancel(g)
    \/ FailRead(g) \/ Fail(g) \/ FailRefused(g)

Next == \E g \in Generations :
    Start(g) \/ Propose(g) \/ LoseConnection(g) \/ Execute(g) \/ End(g)

Spec == Init /\ [][Next]_vars

-----------------------------------------------------------------------------
(* Properties.                                                             *)

\* Rows are well formed, and a slot has one active memory.
MemoryTypeOK ==
    /\ \A m \in Ids :
          /\ memories[m].slot \in Slots \cup {NoSlot} /\ memories[m].value \in Values
          /\ memories[m].by \in Generations \cup {"earlier"}
          /\ memories[m].supersedes \in 0 .. m - 1
    /\ \A g \in Generations :
          /\ generation[g].status \in Statuses /\ generation[g].admitted \in 0 .. 2
          /\ generation[g].archive \cup generation[g].seen \subseteq Ids
    /\ OnePerSlot(memories)

\* failRun is refused by the unique index, and then swallowed with its error
\* (ignoreUniqueConstraint), only when it was overtaken: a memory its rollback
\* selected is not active any more.  A rollback that selects now always commits,
\* so the next attempt (recoverRunningRuns) is refused only when it is overtaken
\* again.
RollbackCommits ==
    /\ MemoryTypeOK
    /\ \A g \in Generations :
          /\ OnePerSlot(RolledBack(OwnActive(g)))
          /\ generation[g].failing =>
                \/ OnePerSlot(RolledBack(generation[g].seen))
                \/ \E m \in generation[g].seen : ~memories[m].active

\* Memories that only g could have changed while it ran.
Alone(g) ==
    {m \in generation[g].start :
        /\ memories[m].slot \notin generation[g].twice
        /\ \A n \in generation[g].foreign :
              n # m /\ (memories[m].slot = NoSlot \/ memories[n].slot # memories[m].slot)}

\* Of those, the ones whose slot nobody wrote behind the selection of its rollback.
Undisturbed(g) ==
    {m \in Alone(g) :
        \A n \in generation[g].behind :
            n # m /\ (memories[m].slot = NoSlot \/ memories[n].slot # memories[m].slot)}

\* A reply that fails leaves the memories as it found them: what was active
\* when it started is active, however it was superseded or meant to be
\* forgotten, and what it wrote is not; except in a slot it wrote twice, where
\* its first value comes back, where other replies wrote meanwhile, and for what
\* was written or brought back after the rollback had selected.
FailureRestores ==
    [][\A g \in Generations :
          generation[g].status = "running" /\ generation'[g].status = "failed" =>
             /\ Undisturbed(g) \subseteq ActiveIds(memories')
             /\ \A m \in ActiveIds(memories') :
                   memories[m].by = g => \/ memories[m].slot \in generation[g].twice
                                         \/ m \in generation[g].behind]_vars
=============================================================================
