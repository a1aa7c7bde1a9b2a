----------------------------- MODULE ChatSession -----------------------------
(***************************************************************************)
(* A chat session as its users change it (chat-sessions.service.ts): a     *)
(* tree of alternating user and assistant messages, in which every message *)
(* selects one of its children, the session's stored path through that     *)
(* tree, its history version, and the runs that write the replies.         *)
(*                                                                         *)
(* Requests are concurrent and each takes several steps: it reads the      *)
(* session with its messages, asserts that no run is active, writes in one *)
(* transaction what it computed from the first read, and answers with      *)
(* getSession, which may repair the stored path.  Nothing locks the        *)
(* session in between: what holds is held by the unique indexes and by the *)
(* history version.                                                        *)
(*                                                                         *)
(* How a run gets from pending to its end is module ChatRun.  Here it is   *)
(* the status of its row, beside that of its reply: a run that waits for   *)
(* the client leaves the reply as it is, and who ends a run or lets it     *)
(* wait has read its status before, and writes without looking again.      *)
(* "running" stands for PENDING and RUNNING (of a message, STREAMING) and  *)
(* "stopped" for FAILED and CANCELLED: nothing here treats the two of a    *)
(* pair differently.                                                       *)
(***************************************************************************)
EXTENDS Integers, Sequences, FiniteSets, SequencesExt

CONSTANTS Requests,      \* concurrent requests to one session
          MaxMessages,   \* bound on the messages of the session
          MaxSwitches    \* bound on the committed branch switches

ASSUME ChatSessionAssumption == MaxMessages \in Nat \ {0} /\ MaxSwitches \in Nat

VARIABLES messages,  \* ChatSessionMessages, in the order of creation
          session,   \* the ChatSession row
          runs,      \* the status of the run of each reply
          expected,  \* commandContext.expectedHistoryVersion of each run
          late,      \* the outcomes that transactions of the projector, which
                     \* have read the run as running, will write
          told,      \* the runs whose agent was given its context
          requests,  \* the requests in progress
          switches

sessionVars == <<messages, session, runs, expected, late, told, requests, switches>>

None == 0
Ids == 0 .. MaxMessages
activeRunStatuses == {"running", "requires_action"}
continuableAssistantStatuses == {"completed", "stopped"}

\* A user message is "completed" from the start.
MessageRows == [role : {"user", "assistant"},
                status : {"running"} \cup continuableAssistantStatuses,
                parent : Ids, selected : Ids, order : 1 .. MaxMessages]
SessionRows == [root : Ids, leaf : Ids, version : Nat]
Operations == {"send", "edit", "retry", "switch", "get"}

\* A request in progress: what it will write, computed from what it read.
RequestStates == [pc : {"idle", "check", "write", "respond", "repair"}, op : Operations,
                  parent : Ids,     \* the message whose selected child is set
                  order : Ids,      \* branch order of the new message
                  child : Ids,      \* the message a switch selects
                  root : Ids, leaf : Ids,
                  repairs : SUBSET (Ids \X Ids),  \* selections to repair
                  version : Nat]    \* the history version it read
IdleRequest == [pc |-> "idle", op |-> "get", parent |-> None, order |-> 0,
                child |-> None, root |-> None, leaf |-> None, repairs |-> {}, version |-> 0]

SessionTypeOK ==
    /\ messages \in Seq(MessageRows) /\ Len(messages) <= MaxMessages
    /\ session \in SessionRows
    /\ runs \in [1 .. MaxMessages ->
                    {"none"} \cup activeRunStatuses \cup continuableAssistantStatuses]
    /\ expected \in [1 .. MaxMessages -> Nat]
    /\ late \in [1 .. MaxMessages -> SUBSET {"action", "completed"}]
    /\ told \subseteq 1 .. MaxMessages
    /\ requests \in [Requests -> RequestStates]
    /\ switches \in Nat

SessionInit ==
    /\ messages = <<>>
    /\ session = [root |-> None, leaf |-> None, version |-> 0]
    /\ runs = [m \in 1 .. MaxMessages |-> "none"]
    /\ expected = [m \in 1 .. MaxMessages |-> 0]
    /\ late = [m \in 1 .. MaxMessages |-> {}]
    /\ told = {}
    /\ requests = [q \in Requests |-> IdleRequest]
    /\ switches = 0

-----------------------------------------------------------------------------
(* The tree of messages.  A parent is older than its children.             *)

Children(ms, p, role) == {m \in DOMAIN ms : ms[m].parent = p /\ ms[m].role = role}

\* sortBranchMessages(...).at(-1).  Orders of siblings differ (the unique
\* index), so creation time and id never decide.
LastBranch(ms, branch) ==
    IF branch = {} THEN None
    ELSE CHOOSE m \in branch : \A b \in branch : ms[b].order <= ms[m].order

\* getNextBranchOrder
NextBranchOrder(ms, p, role) ==
    LET last == LastBranch(ms, Children(ms, p, role))
    IN  IF last = None THEN 1 ELSE ms[last].order + 1

ReplyRole(role) == IF role = "user" THEN "assistant" ELSE "user"

\* resolveActivePathState: the child the path continues with.
NextOnPath(ms, m) ==
    LET children == Children(ms, m, ReplyRole(ms[m].role))
    IN  IF ms[m].selected \in children THEN ms[m].selected ELSE LastBranch(ms, children)

ActiveRoot(ms, root) ==
    LET roots == Children(ms, None, "user")
    IN  IF root \in roots THEN root ELSE LastBranch(ms, roots)

\* resolveActivePath
ActivePath(ms, root) ==
    LET walk[i \in 0 .. Len(ms)] ==
            IF i = 0 THEN ActiveRoot(ms, root)
            ELSE IF walk[i - 1] = None THEN None ELSE NextOnPath(ms, walk[i - 1])
    IN  [i \in {j \in 1 .. Len(ms) : walk[j - 1] # None} |-> walk[i - 1]]

\* resolvePathToMessage
PathTo(ms, m) ==
    LET climb[i \in 0 .. Len(ms)] ==
            IF i = 0 THEN m
            ELSE IF climb[i - 1] = None THEN None ELSE ms[climb[i - 1]].parent
    IN  Reverse([i \in {j \in 1 .. Len(ms) : climb[j - 1] # None} |-> climb[i - 1]])

PathLeaf(path) == IF path = <<>> THEN None ELSE path[Len(path)]
PathRoot(path) == IF path = <<>> THEN None ELSE path[1]

Select(ms, p, child) == IF p = None THEN ms ELSE [ms EXCEPT ![p].selected = child]

ActiveRuns == {m \in DOMAIN messages : runs[m] \in activeRunStatuses}

-----------------------------------------------------------------------------
(* Reading the session (findAccessibleSessionRunDetailOrThrow) and working *)
(* out the change.  A request whose conditions fail on what it read ends   *)
(* there: the assertion it still makes first has no effect.                *)

Plan(q, op, p, order, child, root, leaf) ==
    /\ requests[q].pc = "idle"
    /\ requests' = [requests EXCEPT ![q] =
          [pc |-> "check", op |-> op, parent |-> p, order |-> order, child |-> child,
           root |-> root, leaf |-> leaf, repairs |-> {}, version |-> session.version]]
    /\ UNCHANGED <<messages, session, runs, expected, late, told, switches>>

\* createRunFromUserMessage
PlanSend(q) ==
    LET path == ActivePath(messages, session.root)
        leaf == PathLeaf(path)
    IN  /\ leaf # None => /\ messages[leaf].role = "assistant"
                          /\ messages[leaf].status \in continuableAssistantStatuses
        /\ Plan(q, "send", leaf,
                IF leaf # None THEN 1 ELSE NextBranchOrder(messages, None, "user"),
                None, PathRoot(path), None)

\* createRunFromEditedUserMessage: a sibling of the edited message t.
PlanEdit(q, t) ==
    LET p == messages[t].parent IN
    /\ messages[t].role = "user"
    /\ Plan(q, "edit", p, NextBranchOrder(messages, p, "user"), None,
            IF p = None THEN None ELSE PathRoot(PathTo(messages, p)), None)

\* createRunFromRetriedAssistantMessage: another reply to the same message.
PlanRetry(q, t) ==
    LET u == messages[t].parent IN
    /\ messages[t].role = "assistant" /\ u # None
    /\ messages[u].role = "user"
    /\ Plan(q, "retry", u, NextBranchOrder(messages, u, "assistant"), None,
            PathRoot(PathTo(messages, u)), None)

\* switchActiveMessage
PlanSwitch(q, t) ==
    LET p == messages[t].parent
        root == PathRoot(PathTo(messages, t))
    IN  /\ messages[t].role = IF p = None THEN "user" ELSE ReplyRole(messages[p].role)
        /\ Plan(q, "switch", p, 0, t, root, PathLeaf(ActivePath(Select(messages, p, t), root)))

\* assertNoActiveRun, a read of its own.
Check(q) ==
    /\ requests[q].pc = "check"
    /\ requests' = IF ActiveRuns = {}
                   THEN [requests EXCEPT ![q].pc = "write"]
                   ELSE [requests EXCEPT ![q] = IdleRequest]
    /\ UNCHANGED <<messages, session, runs, expected, late, told, switches>>

-----------------------------------------------------------------------------
(* The transactions.                                                       *)

\* A write answers with toMutationResponse, that is, with getSession.
Answer(q) == requests' = [requests EXCEPT ![q] = [IdleRequest EXCEPT !.pc = "respond"]]
Done(q) == requests' = [requests EXCEPT ![q] = IdleRequest]

\* The two unique indexes that a new run can run into: on the session for
\* generating runs, and on (parent, role, branch order) for the new message.
NoIndexConflict(p, role, order) ==
    /\ \A m \in DOMAIN messages : runs[m] # "running"
    /\ \A m \in Children(messages, p, role) : messages[m].order # order

NewMessage(role, status, p, order) ==
    [role |-> role, status |-> status, parent |-> p, selected |-> None, order |-> order]

\* createPendingRun
NewRun(a, version) ==
    /\ runs' = [runs EXCEPT ![a] = "running"]
    /\ expected' = [expected EXCEPT ![a] = version]

\* Mutant: the new message goes below the leaf the session has by now.
WriteUserMessageAtLeaf(q) ==
    LET req == requests[q]
        u == Len(messages) + 1
        a == u + 1
        created == messages \o <<NewMessage("user", "completed", session.leaf, req.order),
                                 NewMessage("assistant", "running", u, 1)>>
    IN  /\ req.pc = "write" /\ req.op \in {"send", "edit"}
        /\ a <= MaxMessages
        /\ NoIndexConflict(session.leaf, "user", req.order)
        /\ messages' = Select(Select(created, u, a), session.leaf, u)
        /\ session' = [root |-> IF req.root = None THEN u ELSE req.root,
                       leaf |-> a, version |-> session.version + 1]
        /\ NewRun(a, req.version + 1)
        /\ Answer(q)
        /\ UNCHANGED <<late, told, switches>>

\* createUserMessage, createAssistantPendingMessage, createPendingRun and the
\* updates that select the new messages and move the session to them.
WriteUserMessage(q) ==
    LET req == requests[q]
        u == Len(messages) + 1
        a == u + 1
        created == messages \o <<NewMessage("user", "completed", req.parent, req.order),
                                 NewMessage("assistant", "running", u, 1)>>
    IN  /\ req.pc = "write" /\ req.op \in {"send", "edit"}
        /\ a <= MaxMessages
        /\ IF NoIndexConflict(req.parent, "user", req.order)
           THEN /\ messages' = Select(Select(created, u, a), req.parent, u)
                /\ session' = [root |-> IF req.root = None THEN u ELSE req.root,
                               leaf |-> a, version |-> session.version + 1]
                /\ NewRun(a, req.version + 1)
                /\ Answer(q)
           ELSE Done(q) /\ UNCHANGED <<messages, session, runs, expected>>
        /\ UNCHANGED <<late, told, switches>>

\* Mutant: the older reply is forgotten, the new one is not selected.
WriteRetryUnselected(q) ==
    LET req == requests[q]
        a == Len(messages) + 1
    IN  /\ req.pc = "write" /\ req.op = "retry"
        /\ a <= MaxMessages
        /\ NoIndexConflict(req.parent, "assistant", req.order)
        /\ messages' = Select(Append(messages, NewMessage("assistant", "running",
                                 req.parent, req.order)), req.parent, None)
        /\ session' = [root |-> req.root, leaf |-> a, version |-> session.version + 1]
        /\ NewRun(a, req.version + 1)
        /\ Answer(q)
        /\ UNCHANGED <<late, told, switches>>

\* The transaction of createRunFromRetriedAssistantMessage.
WriteRetry(q) ==
    LET req == requests[q]
        a == Len(messages) + 1
        created == Append(messages, NewMessage("assistant", "running", req.parent, req.order))
    IN  /\ req.pc = "write" /\ req.op = "retry"
        /\ a <= MaxMessages
        /\ IF NoIndexConflict(req.parent, "assistant", req.order)
           THEN /\ messages' = Select(created, req.parent, a)
                /\ session' = [root |-> req.root, leaf |-> a, version |-> session.version + 1]
                /\ NewRun(a, req.version + 1)
                /\ Answer(q)
           ELSE Done(q) /\ UNCHANGED <<messages, session, runs, expected>>
        /\ UNCHANGED <<late, told, switches>>

\* Mutant: a switch does not count as a change of history.
WriteSwitchSameVersion(q) ==
    LET req == requests[q] IN
    /\ req.pc = "write" /\ req.op = "switch"
    /\ switches < MaxSwitches
    /\ messages' = Select(messages, req.parent, req.child)
    /\ session' = [session EXCEPT !.root = req.root, !.leaf = req.leaf]
    /\ switches' = switches + 1
    /\ Answer(q)
    /\ UNCHANGED <<runs, expected, late, told>>

\* No index stands between a switch and a run created since it looked.
WriteSwitch(q) ==
    LET req == requests[q] IN
    /\ req.pc = "write" /\ req.op = "switch"
    /\ switches < MaxSwitches
    /\ messages' = Select(messages, req.parent, req.child)
    /\ session' = [root |-> req.root, leaf |-> req.leaf, version |-> session.version + 1]
    /\ switches' = switches + 1
    /\ Answer(q)
    /\ UNCHANGED <<runs, expected, late, told>>

-----------------------------------------------------------------------------
(* getSession, on its own or as the answer to a change.                    *)

\* resolveActivePathState: the selections on the path that differ from it.
SelectedChildUpdates(ms, path) ==
    {<<path[i], NextOnPath(ms, path[i])>> :
        i \in {j \in DOMAIN path : ms[path[j]].selected # NextOnPath(ms, path[j])}}

\* getSession reads the session, and repairActivePathSelection resolves the
\* path from what was read.
ReadDetail(q) ==
    LET path == ActivePath(messages, session.root)
        updates == SelectedChildUpdates(messages, path)
        stored == /\ session.root = PathRoot(path) /\ session.leaf = PathLeaf(path)
                  /\ updates = {}
    IN  /\ requests[q].pc = "respond" \/ (requests[q].pc = "idle" /\ ~stored)
        /\ requests' = [requests EXCEPT ![q] =
              IF stored THEN IdleRequest
              ELSE [IdleRequest EXCEPT !.pc = "repair", !.root = PathRoot(path),
                                       !.leaf = PathLeaf(path), !.repairs = updates]]
        /\ UNCHANGED <<messages, session, runs, expected, late, told, switches>>

\* The repair leaves the history version alone.
Repair(q) ==
    LET req == requests[q] IN
    /\ req.pc = "repair"
    /\ session' = [session EXCEPT !.root = req.root, !.leaf = req.leaf]
    /\ messages' = [m \in DOMAIN messages |->
          IF \E update \in req.repairs : update[1] = m
          THEN [messages[m] EXCEPT !.selected =
                  (CHOOSE update \in req.repairs : update[1] = m)[2]]
          ELSE messages[m]]
    /\ Done(q)
    /\ UNCHANGED <<runs, expected, late, told, switches>>

-----------------------------------------------------------------------------
(* The runs.                                                               *)

\* The agent learns of the user's messages and of completed replies.
Told(ms, m) == ms[m].role = "user" \/ ms[m].status = "completed"

\* The messages of a path that the agent learns of.
History(ms, path) ==
    LET known[i \in 0 .. Len(path)] ==
            IF i = 0 THEN <<>>
            ELSE IF Told(ms, path[i]) THEN Append(known[i - 1], path[i]) ELSE known[i - 1]
    IN  known[Len(path)]

\* Mutant: the path need not hold the reply that is being generated.
ContextUnchecked(m) == History(messages, ActivePath(messages, session.root))

\* resolveAgentRuntimeContext: the active path must answer the trigger of the run
\* with the run's own message, or the agent gets a conflict, that is, nothing.
Context(m) ==
    LET path == ActivePath(messages, session.root)
    IN  IF \E i \in DOMAIN path : path[i] = m THEN History(messages, path) ELSE <<>>

\* getAgentGenerationBootstrap.  That the run is active was read before the session:
\* it was once, and may be over by now.
Bootstrap(m) ==
    /\ runs[m] # "none" /\ Context(m) # <<>>
    /\ told' = told \cup {m}
    /\ UNCHANGED <<messages, session, runs, expected, late, requests, switches>>

\* The projector's transaction for an outcome of the agent reads the run as
\* RUNNING; what it writes then does not depend on the status any more.
ProjectOutcome(m, outcome) ==
    /\ runs[m] = "running" /\ m \in told
    /\ late' = [late EXCEPT ![m] = @ \cup {outcome}]
    /\ UNCHANGED <<messages, session, runs, expected, told, requests, switches>>

\* requireClientActionRun.  markResumeCommandPublishFailed lets a run wait for the
\* client once more, as if its agent had asked for that again.
RequireAction(m) ==
    /\ "action" \in late[m]
    /\ runs' = [runs EXCEPT ![m] = "requires_action"]
    /\ late' = [late EXCEPT ![m] = @ \ {"action"}]
    /\ UNCHANGED <<messages, session, expected, told, requests, switches>>

\* prepareResumeRun; the unique index on generating runs rejects the update
\* when another run has started meanwhile.
Resume(m) ==
    /\ runs[m] = "requires_action"
    /\ \A other \in DOMAIN messages : runs[other] # "running"
    /\ runs' = [runs EXCEPT ![m] = "running"]
    /\ UNCHANGED <<messages, session, expected, late, told, requests, switches>>

\* completeRun: only on the history the run was created for.
Complete(m) ==
    /\ "completed" \in late[m]
    /\ late' = [late EXCEPT ![m] = @ \ {"completed"}]
    /\ IF session.version = expected[m]
       THEN /\ messages' = [messages EXCEPT ![m].status = "completed"]
            /\ runs' = [runs EXCEPT ![m] = "completed"]
            /\ session' = [session EXCEPT !.version = @ + 1]
       ELSE UNCHANGED <<messages, runs, session>>
    /\ UNCHANGED <<expected, told, requests, switches>>

\* failRun, markRunFailed and cancelRun: the agent failed, the history has
\* changed, or the user gave up.  Every run is active at first, so that one of
\* them may have read it then, and write this however late.
Stop(m) ==
    /\ runs[m] # "none"
    /\ messages' = [messages EXCEPT ![m].status = "stopped"]
    /\ runs' = [runs EXCEPT ![m] = "stopped"]
    /\ UNCHANGED <<session, expected, late, told, requests, switches>>

SessionNext ==
    \/ \E q \in Requests :
          \/ PlanSend(q)
          \/ \E t \in DOMAIN messages : PlanEdit(q, t) \/ PlanRetry(q, t) \/ PlanSwitch(q, t)
          \/ Check(q) \/ WriteUserMessage(q) \/ WriteRetry(q) \/ WriteSwitch(q)
          \/ ReadDetail(q) \/ Repair(q)
    \/ \E m \in DOMAIN messages :
          \/ Bootstrap(m) \/ \E outcome \in {"action", "completed"} : ProjectOutcome(m, outcome)
          \/ RequireAction(m) \/ Resume(m) \/ Complete(m) \/ Stop(m)

SessionSpec == SessionInit /\ [][SessionNext]_sessionVars

-----------------------------------------------------------------------------
(* Properties.                                                             *)

\* Nobody continues a reply before it was over: sendMessage and editAndSendMessage
\* decide from a stale read of the session, and still no message is ever put
\* below a reply that was never completed nor stopped.  Its run may be active
\* again: what was read before can let a stopped run wait for the client.
UnfinishedIsLeaf ==
    \A m \in DOMAIN messages :
        messages[m].parent # None => messages[messages[m].parent].status # "running"

\* Whatever the interleaving of sends, edits, retries and switches, every
\* message with answers selects one of them: resolveActivePathState never
\* has to fall back on the last branch, and getSession repairs at most the
\* stored root and leaf.
SelectionsValid ==
    \A m \in DOMAIN messages :
        LET children == Children(messages, m, ReplyRole(messages[m].role))
        IN  IF children = {} THEN messages[m].selected = None
            ELSE messages[m].selected \in children

\* The tree of messages is one that the active path can be read from, and grows
\* below replies that are over.
MessageTree == SessionTypeOK /\ UnfinishedIsLeaf /\ SelectionsValid

\* The agent answers the history of its own message: whatever it is given for a
\* reply that is not over are the user messages and completed replies above that
\* reply, although the bootstrap resolves the path the session has by then and
\* not the one the run was created on.
ContextIsOwnHistory ==
    \A m \in DOMAIN messages :
        runs[m] # "none" /\ messages[m].status = "running" =>
            Context(m) \in {<<>>, History(messages, PathTo(messages, m))}

\* A reply completes only where the user still looks: when completeRun marks
\* it, the selections lead from the root of its branch to it and nothing
\* follows it.  A switch, edit, retry or send committed since the request
\* read the session makes the run fail instead.
CompletesWhereSelected ==
    [][\A m \in DOMAIN messages :
          messages[m].status # "completed" /\ messages'[m].status = "completed" =>
              ActivePath(messages, PathRoot(PathTo(messages, m))) = PathTo(messages, m)]_sessionVars
=============================================================================
