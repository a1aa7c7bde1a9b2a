---------------------------- MODULE DocumentTree ----------------------------
(***************************************************************************)
(* The documents of team workspaces as a forest: creating, moving and      *)
(* changing visibility (tree.service.ts), trash, restore and removal       *)
(* (trash.service.ts), and the move and duplicate jobs of the operation    *)
(* queue (operations.service.ts).                                          *)
(*                                                                         *)
(* A request reads and checks first, outside of any transaction, and then  *)
(* writes what it has planned: two steps.  The reads of one request are    *)
(* taken at one moment.  A personal workspace is one with a single user    *)
(* and PRIVATE documents.  Sibling order and content are left out.         *)
(***************************************************************************)
EXTENDS Naturals, Sequences, FiniteSets

CONSTANTS MaxDocs,       \* bound on the documents ever created
          Users,         \* active members of every workspace
          Maintainers,   \* the owners and admins among them
          Workspaces,
          Clients,       \* requests that can be under way at once
          Workers,       \* one queue worker in each API process
          InitDocs,      \* bound on the documents there are at first
          MaxRequests, MaxJobs, MaxRestarts

ASSUME TreeAssumption ==
    /\ {MaxDocs, InitDocs, MaxRequests, MaxJobs, MaxRestarts} \subseteq Nat
    /\ Maintainers \subseteq Users
    /\ IsFiniteSet(Clients) /\ IsFiniteSet(Workers) /\ Clients \cap Workers = {}

VARIABLES doc,       \* the rows of Document
          request,   \* what each client's request has planned
          jobs,      \* the rows of DocumentOperationJob
          worker,    \* what each worker is doing
          count,     \* requests and restarts so far
          history    \* auxiliary: what the properties make exceptions for, as
                     \* do the faults of a job

vars == <<doc, request, jobs, worker, count, history>>

-----------------------------------------------------------------------------
Docs == 1..MaxDocs
Root == 0
Visibilities == {"PRIVATE", "WORKSPACE"}
Rows == [life : {"there", "removed"}, parent : Docs \cup {Root}, ws : Workspaces,
         vis : Visibilities, by : Users, trashed : BOOLEAN]
Unused == [life |-> "unused", parent |-> Root]
Idle == [kind |-> "idle"]

There == {d \in Docs : doc[d].life = "there"}
Live == {d \in There : ~doc[d].trashed}
In(w) == {d \in There : doc[d].ws = w}

\* canUserAccessWorkspaceDocument in a team workspace.
Visible(u) == {d \in There : doc[d].vis = "WORKSPACE" \/ doc[d].by = u}

\* assertDocumentAccess: canEdit for everyone who sees the document; the other
\* capabilities belong to maintainers and, for a private document, its creator.
CanEdit(u) == Visible(u) \cap Live
CanManageTrashed(u) == Visible(u) \ Live
CanMove(u, d) == doc[d].vis = "PRIVATE" \/ u \in Maintainers

\* collectDescendantDocumentIds: what hangs below d through documents of context.
Descendants(d, context) ==
    LET below[n \in 0..Cardinality(context)] ==
            IF n = 0 THEN {d}
            ELSE LET above == below[n - 1]
                 IN  above \cup {c \in context : doc[c].parent \in above}
    IN  below[Cardinality(context)]

\* Whether the foreign key of a parent holds.
ParentThere(p) == p = Root \/ p \in There

-----------------------------------------------------------------------------
(* Planning: the reads and checks of a request.                            *)

\* createDocument: below an editable parent of the workspace, with its visibility.
PlanCreates(u) ==
    {[kind |-> "create", user |-> u, ws |-> w, parent |-> Root, vis |-> v] :
         w \in Workspaces, v \in Visibilities}
    \cup {[kind |-> "create", user |-> u, ws |-> doc[p].ws, parent |-> p, vis |-> doc[p].vis] :
             p \in CanEdit(u)}

PatchTargetsAnywhere(u, d) ==
    {[parent |-> p, vis |-> doc[p].vis] : p \in {q \in CanEdit(u) \ {d} : CanMove(u, d)}}

\* patchDocumentMeta: a new parent gives its visibility; a visibility may be
\* set on a root, or on what becomes one, by its creator.
PatchTargets(u, d) ==
    {[parent |-> p, vis |-> doc[p].vis] :
         p \in {q \in CanEdit(u) \ {d} : CanMove(u, d) /\ doc[q].ws = doc[d].ws}}
    \cup {[parent |-> Root, vis |-> v] :
             v \in {w \in Visibilities :
                       \/ w = doc[d].vis /\ CanMove(u, d)
                       \/ doc[d].by = u /\ (doc[d].parent = Root \/ CanMove(u, d))}}

PlanPatches(u) ==
    UNION {{[kind |-> "patch", user |-> u, doc |-> d, parent |-> t.parent, vis |-> t.vis,
             was |-> doc[d].vis,
             ids |-> Descendants(d, CanEdit(u) \cap In(doc[d].ws)) \ {d}] :
                t \in PatchTargets(u, d)} : d \in CanEdit(u)}

\* What a user may delete together: documents of one workspace.
Deletable(u) ==
    {D \in SUBSET {e \in CanEdit(u) : CanMove(u, e)} :
        D # {} /\ \A d, e \in D : doc[d].ws = doc[e].ws}

PlanTrashesAlone(u) == {[kind |-> "trash", user |-> u, ids |-> D] : D \in Deletable(u)}

\* deleteDocument and batchDeleteDocuments: the documents and all below them that
\* their user can see, not in trash.
PlanTrashes(u) ==
    {[kind |-> "trash", user |-> u,
      ids |-> UNION {Descendants(d, CanEdit(u) \cap In(doc[d].ws)) : d \in D}] :
         D \in Deletable(u)}

\* assertTrashRootDocument.
TrashRoot(d) == doc[d].parent \notin In(doc[d].ws) \ Live

TrashedSubtree(d) == Descendants(d, In(doc[d].ws)) \ Live

\* restoreDocumentFromTrash.
PlanRestores(u) ==
    {[kind |-> "restore", user |-> u, ids |-> TrashedSubtree(d)] :
         d \in {e \in CanManageTrashed(u) : CanMove(u, e) /\ TrashRoot(e)}}

PlanRemovesLive(u) ==
    {[kind |-> "remove", user |-> u, ids |-> Descendants(d, CanEdit(u) \cap In(doc[d].ws))] :
         d \in {e \in CanEdit(u) : CanMove(u, e)}}

\* permanentlyDeleteDocument, from the trash or at once.
PlanRemoves(u) ==
    {[kind |-> "remove", user |-> u, ids |-> TrashedSubtree(d)] :
         d \in {e \in CanManageTrashed(u) : CanMove(u, e) /\ TrashRoot(e)}}
    \cup {[kind |-> "remove", user |-> u,
           ids |-> Descendants(d, Visible(u) \cap In(doc[d].ws))] :
             d \in {e \in CanEdit(u) : CanMove(u, e)}}

Plans(u) == PlanCreates(u) \cup PlanTrashes(u) \cup PlanRestores(u) \cup PlanRemoves(u)
                \cup PlanPatches(u)

Begin(c) ==
    /\ request[c] = Idle
    /\ count.requests < MaxRequests
    /\ \E u \in Users : \E r \in Plans(u) : request' = [request EXCEPT ![c] = r]
    /\ count' = [count EXCEPT !.requests = @ + 1]
    /\ UNCHANGED <<doc, jobs, worker, history>>

-----------------------------------------------------------------------------
(* Writing what was planned.                                               *)

Created(r) ==
    LET fresh == CHOOSE d \in Docs : doc[d].life = "unused"
    IN  [doc EXCEPT ![fresh] = [life |-> "there", parent |-> r.parent, ws |-> r.ws,
                                vis |-> r.vis, by |-> r.user, trashed |-> FALSE]]

\* Rows gone meanwhile are not touched, here and below.
Patched(r) ==
    [d \in Docs |->
        IF d = r.doc THEN [doc[d] EXCEPT !.parent = r.parent, !.vis = r.vis]
        ELSE IF d \in r.ids \cap There /\ r.vis # r.was THEN [doc[d] EXCEPT !.vis = r.vis]
        ELSE doc[d]]

Marked(ids, trashed) ==
    [d \in Docs |-> IF d \in ids \cap There THEN [doc[d] EXCEPT !.trashed = trashed] ELSE doc[d]]

RemovedChildrenKept(ids) ==
    [d \in Docs |-> IF d \in ids \cap There
                    THEN [doc[d] EXCEPT !.life = "removed", !.parent = Root] ELSE doc[d]]

\* The rows go, and children left behind become roots (onDelete: SetNull).
Removed(ids) ==
    [d \in Docs |->
        IF d \in ids \cap There THEN [doc[d] EXCEPT !.life = "removed", !.parent = Root]
        ELSE IF doc[d].parent \in ids THEN [doc[d] EXCEPT !.parent = Root]
        ELSE doc[d]]

Outcome(r) ==
    CASE r.kind = "create" -> IF ParentThere(r.parent) THEN Created(r) ELSE doc
      [] r.kind = "patch" -> IF r.doc \in There /\ ParentThere(r.parent)
                             THEN Patched(r) ELSE doc
      [] r.kind = "trash" -> Marked(r.ids, TRUE)
      [] r.kind = "restore" -> Marked(r.ids, FALSE)
      [] r.kind = "remove" -> Removed(r.ids)

\* Plans that wait to be written.  A plan written while another one waits makes
\* what the other has read stale.
Planned == {c \in Clients : request[c] # Idle} \cup {w \in Workers : worker[w].kind = "planned"}
Overlapping == history.overlapped \/ Cardinality(Planned) > 1

Commit(c) ==
    /\ request[c] # Idle
    /\ request[c].kind = "create" => \E d \in Docs : doc[d].life = "unused"
    /\ doc' = Outcome(request[c])
    /\ request' = [request EXCEPT ![c] = Idle]
    /\ history' = [history EXCEPT !.overlapped = Overlapping,
                                  !.patched = @ \/ request[c].kind = "patch"]
    /\ UNCHANGED <<jobs, worker, count>>

-----------------------------------------------------------------------------
(* Jobs.                                                                   *)

\* loadDocumentSubtree within the workspace, with trashed documents or without.
Subtree(d, trashedToo) ==
    Descendants(d, IF trashedToo THEN In(doc[d].ws) ELSE In(doc[d].ws) \cap Live)

\* resolveMoveTarget.
MoveVisibility(j) == IF j.parent = Root THEN j.vis ELSE doc[j.parent].vis

MovableAnywhere(j) ==
    /\ j.doc \in CanEdit(j.user) /\ CanMove(j.user, j.doc)
    /\ j.parent # Root => j.parent \in CanEdit(j.user) /\ doc[j.parent].ws = j.ws
    /\ MoveVisibility(j) = "PRIVATE" =>
          \A d \in Subtree(j.doc, TRUE) : doc[d].by = j.user

\* The checks of a move, made for the request and again by the worker.
Movable(j) ==
    /\ j.doc \in CanEdit(j.user) /\ CanMove(j.user, j.doc)
    /\ j.parent # Root => /\ j.parent \in CanEdit(j.user)
                          /\ doc[j.parent].ws = j.ws
                          /\ j.parent \notin Subtree(j.doc, TRUE)
    /\ MoveVisibility(j) = "PRIVATE" =>
          \A d \in Subtree(j.doc, TRUE) : doc[d].by = j.user

Runnable(j) == IF j.kind = "move" THEN Movable(j) ELSE j.doc \in CanEdit(j.user)

NewJob(kind, u, d, w, p, v, q) ==
    [kind |-> kind, user |-> u, doc |-> d, ws |-> w, parent |-> p, vis |-> v,
     status |-> "PENDING", queue |-> q, writes |-> 0, faults |-> {}]

\* createMoveDocumentTreeJob and createDuplicateDocumentTreeJob.  queue.add puts the
\* job into the queue and answers (added), or the answer will be an error, with the
\* job in the queue (doubtful) or not (lost).
RequestJob ==
    /\ Len(jobs) < MaxJobs
    /\ \E u \in Users, q \in {"added", "doubtful", "lost"} : \E d \in CanEdit(u) :
          \/ \E w \in Workspaces, v \in Visibilities, p \in {Root} \cup CanEdit(u) :
                LET j == NewJob("move", u, d, w, p, v, q)
                IN  Movable(j) /\ jobs' = Append(jobs, [j EXCEPT !.vis = MoveVisibility(j)])
          \/ jobs' = Append(jobs, NewJob("duplicate", u, d, doc[d].ws, doc[d].parent,
                                         doc[d].vis, q))
    /\ UNCHANGED <<doc, request, worker, count, history>>

\* enqueueOrFail: an error of queue.add fails the job, whether it is in the queue
\* or not and whatever has become of it; that update may fail as well.
EnqueueFails(i) ==
    /\ jobs[i].queue \in {"doubtful", "lost"}
    /\ \E s \in {jobs[i].status, "FAILED"} :
          jobs' = [jobs EXCEPT ![i].queue = IF @ = "doubtful" THEN "added" ELSE "none",
                               ![i].status = s,
                               ![i].faults = @ \cup {"queue"}]
    /\ UNCHANGED <<doc, request, worker, count, history>>

\* The subtree as a job has read it.
JobPlan(i) ==
    LET j == jobs[i]
        ids == Subtree(j.doc, j.kind = "move")
    IN  [kind |-> "planned", job |-> i, rows |-> [d \in ids |-> doc[d]],
         vis |-> IF j.kind = "move" THEN MoveVisibility(j) ELSE doc[j.doc].vis]

ClaimableTwice == {"PENDING", "RUNNING"}

\* A job runs only from PENDING, however often the queue delivers it.
Claimable == {"PENDING"}

\* runOperationJob: claim the job, check again and read the subtree.
Claim(w, i) ==
    /\ worker[w] = Idle
    /\ jobs[i].status \in Claimable /\ jobs[i].queue \in {"added", "doubtful"}
    /\ IF Runnable(jobs[i])
       THEN /\ jobs' = [jobs EXCEPT ![i].status = "RUNNING"]
            /\ worker' = [worker EXCEPT ![w] = JobPlan(i)]
       ELSE /\ jobs' = [jobs EXCEPT ![i].status = "FAILED"]
            /\ UNCHANGED worker
    /\ UNCHANGED <<doc, request, count, history>>

MovedTreeRootOnly(j, plan) ==
    [doc EXCEPT ![j.doc] = [@ EXCEPT !.ws = j.ws, !.vis = plan.vis, !.parent = j.parent]]

MovedTreeVisibilityKept(j, plan) ==
    [d \in Docs |->
        IF d = j.doc THEN [doc[d] EXCEPT !.ws = j.ws, !.vis = plan.vis, !.parent = j.parent]
        ELSE IF d \in DOMAIN plan.rows \cap There THEN [doc[d] EXCEPT !.ws = j.ws]
        ELSE doc[d]]

\* executeMoveDocumentTreeJob: the root hangs below the target, and the whole
\* subtree takes over its workspace and visibility.
MovedTree(j, plan) ==
    [d \in Docs |->
        IF d \in DOMAIN plan.rows \cap There
        THEN [doc[d] EXCEPT !.ws = j.ws, !.vis = plan.vis,
                            !.parent = IF d = j.doc THEN j.parent ELSE @]
        ELSE doc[d]]

\* executeDuplicateDocumentTreeJob: copies of what was read, each below the copy
\* of its parent, the root beside the original.
CopiedTree(j, plan, copy) ==
    [d \in Docs |->
        IF \E s \in DOMAIN plan.rows : copy[s] = d
        THEN LET s == CHOOSE s \in DOMAIN plan.rows : copy[s] = d
                 p == plan.rows[s].parent
             IN  [plan.rows[s] EXCEPT !.by = j.user, !.trashed = FALSE,
                                      !.parent = IF s = j.doc THEN p ELSE copy[p]]
        ELSE doc[d]]

\* Fresh ids for copies, one for each.
Copies(ids) ==
    LET unused == {d \in Docs : doc[d].life = "unused"}
    IN  CHOOSE f \in [ids -> unused] : \A s, t \in ids : f[s] = f[t] => s = t

Fits(ids) == Cardinality({d \in Docs : doc[d].life = "unused"}) >= Cardinality(ids)

\* The catch of runOperationJob marks the job, unless that update fails as well.
Caught(i, faults) ==
    \E s \in {jobs[i].status, "FAILED"} :
        jobs' = [jobs EXCEPT ![i].status = s, ![i].faults = @ \cup faults]

\* The job's transaction.  A row or a parent that is gone rolls it back, and so
\* may any other error before it.
Write(w) ==
    LET plan == worker[w]
        j == jobs[plan.job]
        parent == IF j.kind = "move" THEN j.parent ELSE plan.rows[j.doc].parent
        holds == ParentThere(parent) /\ (j.kind = "move" => j.doc \in There)
    IN  /\ worker[w].kind = "planned"
        /\ \/ /\ holds
              /\ j.kind = "duplicate" => Fits(DOMAIN plan.rows)
              /\ doc' = IF j.kind = "move" THEN MovedTree(j, plan)
                        ELSE CopiedTree(j, plan, Copies(DOMAIN plan.rows))
              /\ worker' = [worker EXCEPT ![w] = [kind |-> "written", job |-> plan.job]]
              /\ jobs' = [jobs EXCEPT ![plan.job].writes = @ + 1]
           \/ /\ worker' = [worker EXCEPT ![w] = Idle]
              /\ Caught(plan.job, {})
              /\ UNCHANGED doc
        /\ history' = [history EXCEPT !.overlapped = Overlapping]
        /\ UNCHANGED <<request, count>>

\* The update to SUCCEEDED is made in the try of the execution: when it fails, or
\* when only the answer of the transaction was lost, the written job is caught.
Finish(w) ==
    /\ worker[w].kind = "written"
    /\ \/ jobs' = [jobs EXCEPT ![worker[w].job].status = "SUCCEEDED"]
       \/ Caught(worker[w].job, {"status"})
    /\ worker' = [worker EXCEPT ![w] = Idle]
    /\ UNCHANGED <<doc, request, count, history>>

\* The jobs whose worker has written them or goes on in another process.
Interrupted(w) ==
    {worker[v].job : v \in {x \in Workers : /\ worker[x] # Idle
                                            /\ x # w \/ worker[x].kind = "written"}}

\* An API process restarts: failInterruptedRunningJobs.
Restart(w) ==
    /\ count.restarts < MaxRestarts
    /\ worker' = [worker EXCEPT ![w] = Idle]
    /\ jobs' = [i \in DOMAIN jobs |->
                   IF jobs[i].status = "RUNNING"
                   THEN [jobs[i] EXCEPT !.status = "FAILED",
                                        !.faults = IF i \in Interrupted(w) THEN @ \cup {"restart"} ELSE @]
                   ELSE jobs[i]]
    /\ count' = [count EXCEPT !.restarts = @ + 1]
    /\ UNCHANGED <<doc, request, history>>

-----------------------------------------------------------------------------
\* Any forest that creating documents alone can lead to.
InitialForest(f) ==
    \A d \in 1..InitDocs :
        /\ f[d].parent < d
        /\ f[d].parent # Root => LET p == f[f[d].parent]
                                 IN  /\ f[d].ws = p.ws /\ f[d].vis = p.vis
                                     /\ f[d].vis = "PRIVATE" => f[d].by = p.by

Init ==
    /\ \E f \in [1..InitDocs -> {r \in Rows : r.life = "there" /\ ~r.trashed}] :
          /\ InitialForest(f)
          /\ doc = [d \in Docs |-> IF d <= InitDocs THEN f[d] ELSE Unused]
    /\ request = [c \in Clients |-> Idle]
    /\ jobs = <<>>
    /\ worker = [w \in Workers |-> Idle]
    /\ count = [requests |-> 0, restarts |-> 0]
    /\ history = [overlapped |-> FALSE, patched |-> FALSE]

Next ==
    \/ \E c \in Clients : Begin(c) \/ Commit(c)
    \/ RequestJob \/ \E i \in DOMAIN jobs : EnqueueFails(i)
    \/ \E w \in Workers : (\E i \in DOMAIN jobs : Claim(w, i)) \/ Write(w) \/ Finish(w) \/ Restart(w)

Spec == Init /\ [][Next]_vars

-----------------------------------------------------------------------------
(* What a user sees.                                                       *)

\* getDocumentTree: from the roots down, through children of the same collection.
Shown(u, w) ==
    LET context == CanEdit(u) \cap In(w)
        down[n \in 0..Cardinality(context)] ==
            IF n = 0 THEN {d \in context : doc[d].parent = Root}
            ELSE LET above == down[n - 1]
                 IN  above \cup {c \in context : /\ doc[c].parent \in above
                                                 /\ doc[doc[c].parent].vis = doc[c].vis}
    IN  down[Cardinality(context)]

\* getTrashDocuments: the trashed documents whose parent is not in the trash.
TrashItems(u, w) ==
    LET trash == (Visible(u) \cap In(w)) \ Live
    IN  {d \in trash : doc[d].parent \notin trash}

-----------------------------------------------------------------------------
\* Every variable has its type, and a parent is a document that is there.
TreeTypeOK ==
    /\ doc \in [Docs -> Rows \cup {Unused}]
    /\ \A d \in There : ParentThere(doc[d].parent)
    /\ \A i \in DOMAIN jobs : jobs[i].status \in {"PENDING", "RUNNING", "SUCCEEDED", "FAILED"}
    /\ \A w \in Workers : worker[w].kind \in {"idle", "planned", "written"}

\* Requests and jobs that do not overlap keep the forest whole.
Undisturbed == ~history.overlapped
MovedByJobsOnly == ~history.overlapped /\ ~history.patched

\* No document is its own ancestor: a job checks again what its request has
\* checked, when the tree may be another one (PATCH meta checks nothing).
NoCycle == MovedByJobsOnly => \A d \in There : doc[d].parent \notin Descendants(d, There)

\* Child documents are handled together: nothing live lies below a trashed
\* document, although who trashes a tree may not see all of it.
TrashedTogether ==
    MovedByJobsOnly => \A d \in Live : doc[d].parent \in {Root} \cup Live

\* A tree lies in one workspace.
OneWorkspace ==
    Undisturbed =>
        \A d \in There : doc[d].parent # Root => doc[doc[d].parent].ws = doc[d].ws

\* No document gets lost: whoever may see it finds it in the tree of its
\* workspace or in a trash item that can be restored, through every sequence of
\* moves, trashing, restores and removals by users who see different parts.
Findable ==
    MovedByJobsOnly =>
        \A u \in Users : \A d \in Visible(u) :
            IF d \in Live THEN d \in Shown(u, doc[d].ws)
            ELSE \E t \in TrashItems(u, doc[d].ws) : TrashRoot(t) /\ d \in TrashedSubtree(t)

\* The documents are a forest in which trees are moved, shared and trashed whole,
\* and nothing gets lost.
Forest == TreeTypeOK /\ NoCycle /\ TrashedTogether /\ OneWorkspace /\ Findable

\* Removal takes the subtree along: it leaves no child behind as a root.
RemovedWhole ==
    [][(MovedByJobsOnly /\ ~history'.overlapped) =>
          \A d \in There :
             (doc'[d].life = "there" /\ doc[d].parent # Root /\ doc'[d].parent = Root)
                 => doc'[doc[d].parent].life = "there"]_vars

\* A job is written once at most, and its status tells the truth: it succeeded
\* only if it was written, and failed only if it was not; unless its status was
\* overwritten or lost by an error of queue.add or of the update to SUCCEEDED, or
\* by a restart between its transaction and its status or of another process.
JobTruthful ==
    \A i \in DOMAIN jobs :
        /\ jobs[i].writes <= 1
        /\ jobs[i].status = "PENDING" => jobs[i].writes = 0
        /\ jobs[i].status = "SUCCEEDED" => jobs[i].writes = 1
        /\ jobs[i].status = "FAILED" /\ jobs[i].faults = {} => jobs[i].writes = 0
=============================================================================
