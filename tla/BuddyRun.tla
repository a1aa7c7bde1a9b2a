------------------------------ MODULE BuddyRun ------------------------------
(***************************************************************************)
(* The turns of the buddy's local runtime (apps/buddy/runtime, Rust): the  *)
(* RPC threads that start, cancel and delete, the registry that keeps one  *)
(* run per conversation, the worker thread that drives Codex, and the      *)
(* storage, which appends to JSONL logs first and to SQLite second and     *)
(* rebuilds SQLite from the logs when the process starts.                  *)
(*                                                                         *)
(* A call of chat.startTurn creates at most one run, so the run has the    *)
(* call's name.  The log and the row of a message, and of an event that is *)
(* not terminal, are written in one step; a terminal event is not: a fault *)
(* may leave the line in the log and the row unchanged, which is also what *)
(* a crash between the two leaves.  Codex is external: it asks for         *)
(* approvals, answers, fails, or hangs until it is cancelled.              *)
(***************************************************************************)
EXTENDS Naturals, FiniteSets, Sequences, SequencesExt

CONSTANTS
    Calls,          \* the deliveries of chat.startTurn
    Requests,       \* the request ids of the client
    RequestOf,      \* the request id of a call; retries share it
    Conversations,
    Existing,       \* the conversations there are at the start
    TargetOf,       \* the conversation of a call, or New
    New,            \* the call carries a seed for a new conversation
    None,
    MaxFaults,      \* bound on failing storage operations and thread starts
    MaxStops        \* bound on crashes and orderly shutdowns

ASSUME BuddyAssumption ==
    /\ RequestOf \in [Calls -> Requests]
    /\ TargetOf \in [Calls -> Conversations \cup {New}]
    /\ Existing \subseteq Conversations
    /\ New \notin Conversations /\ None \notin Conversations \cup Calls
    /\ MaxFaults \in Nat /\ MaxStops \in Nat

VARIABLES
    mode,           \* up, stopping, exited, down or recovering
    convLog,        \* conversations the index of the logs lists
    tombs,          \* conversations (and their runs) the index calls deleted
    convs,          \* rows of conversations
    msgs,           \* calls whose user message is stored
    replies,        \* runs whose assistant message is stored
    logged,         \* runs with a log
    runLog,         \* the terminal events in the log of a run, in order
    db,             \* status of the row of a run
    answers,        \* agent_turn_requests: the call whose response is stored
    appr,           \* status of a run's latest approval
    stage, conv,    \* where a call is, and its conversation
    reserved,       \* registry: reserved conversations
    workers,        \* registry: runs that are registered
    attached,       \* registered runs whose join handle is attached
    token,          \* cancellation token of a run
    work,           \* where a run's worker thread is
    joining,        \* the workers that shutdown has to join
    hosted,         \* runs whose host actions were executed
    accepted,       \* runs whose cancellation was accepted from the user
    deleting,       \* the conversation being deleted and the step reached
    deleted,        \* conversations whose deletion was reported to the user
    faults, stops   \* what is left of the bounds

stored == <<convLog, tombs, convs, msgs, replies, logged, runLog, db, answers, appr>>
registry == <<reserved, workers, attached, token, joining>>
ghosts == <<hosted, accepted, deleted>>
vars == <<mode, stored, stage, conv, registry, work, ghosts, deleting, faults, stops>>

Open == {"queued", "running"}
Final == {"completed", "failed", "cancelled"}
Active == {"planning", "opened", "asked", "logged", "created", "launch", "reserved", "attach"}

\* The request-preparation mutex is held from the lookup of the stored
\* response until the response is stored.
Preparing == {"planning", "opened", "asked", "logged", "created"}

Alive(r) == work[r] \notin {"none", "done"}

BuddyTypeOK ==
    /\ mode \in {"up", "stopping", "exited", "down", "recovering"}
    /\ tombs \subseteq convLog /\ convs \subseteq convLog /\ convLog \subseteq Conversations
    /\ msgs \subseteq Calls /\ replies \subseteq logged /\ logged \subseteq msgs
    /\ \A r \in Calls : runLog[r] \in Seq(Final)
    /\ db \in [Calls -> Open \cup Final \cup {"none"}]
    /\ answers \in [Requests -> Calls \cup {None}]
    /\ appr \in [Calls -> {"none", "pending", "approved", "denied", "cancelled"}]
    /\ stage \in [Calls -> Active \cup {"idle", "done", "failed", "lost"}]
    /\ conv \in [Calls -> Conversations \cup {None}]
    /\ reserved \subseteq Conversations /\ workers \subseteq Calls
    /\ attached \subseteq Calls /\ joining \subseteq Calls
    /\ token \in [Calls -> {"running", "cancel", "claimed"}]
    /\ work \in [Calls -> {"none", "prepare", "started", "codex", "approval", "claim", "host",
                           "reply", "finish", "fallback", "end", "done"}]
    /\ hosted \subseteq Calls /\ accepted \subseteq Calls /\ deleted \subseteq Conversations
    /\ deleting \in [conv : Conversations \cup {None}, step : {"none", "tomb", "row"}]
    /\ faults \in 0 .. MaxFaults /\ stops \in 0 .. MaxStops

NoDelete == [conv |-> None, step |-> "none"]

Init ==
    /\ mode = "up"
    /\ convLog = Existing /\ tombs = {} /\ convs = Existing
    /\ msgs = {} /\ replies = {} /\ logged = {}
    /\ runLog = [r \in Calls |-> <<>>]
    /\ db = [r \in Calls |-> "none"]
    /\ answers = [q \in Requests |-> None]
    /\ appr = [r \in Calls |-> "none"]
    /\ stage = [c \in Calls |-> "idle"]
    /\ conv = [c \in Calls |-> None]
    /\ reserved = {} /\ workers = {} /\ attached = {} /\ joining = {}
    /\ token = [r \in Calls |-> "running"]
    /\ work = [r \in Calls |-> "none"]
    /\ hosted = {} /\ accepted = {} /\ deleted = {}
    /\ deleting = NoDelete
    /\ faults = MaxFaults /\ stops = MaxStops

\* Requests are dispatched, and threads run, while the process serves.
Serving == mode \in {"up", "stopping"}
ShuttingDown == mode # "up"

Fault == faults > 0 /\ faults' = faults - 1

(***************************************************************************)
(* Storage: finish_run.                                                    *)
(***************************************************************************)

\* The terminal line is appended to the log, then the row is updated.
FinishOk(r, status) ==
    /\ db[r] \in Open
    /\ runLog' = [runLog EXCEPT ![r] = Append(@, status)]
    /\ db' = [db EXCEPT ![r] = status]
    /\ UNCHANGED faults

\* An error: nothing is written, or the line but not the row.  A run that is
\* terminal with another status, or whose row is gone, is refused untouched.
FinishError(r, status) ==
    \/ /\ db[r] \in Open
       /\ Fault
       /\ runLog' \in {runLog, [runLog EXCEPT ![r] = Append(@, status)]}
       /\ UNCHANGED db
    \/ /\ db[r] \notin Open \cup {status}
       /\ UNCHANGED <<runLog, db, faults>>

\* A caller that ends the thread whatever finish_run returns.
Finish(r, status) == FinishOk(r, status) \/ FinishError(r, status)

UnchangedButFinish ==
    UNCHANGED <<mode, convLog, tombs, convs, msgs, replies, logged, answers, conv, ghosts,
                deleting, stops>>

(***************************************************************************)
(* chat.startTurn.                                                         *)
(***************************************************************************)

\* reserve_conversation.
Busy(k) == k \in reserved \/ \E r \in workers : conv[r] = k

ReservableAnyway(k) == ~ShuttingDown /\ k \notin reserved

Reservable(k) == ~ShuttingDown /\ ~Busy(k)

\* An error on the way drops the guard of the mutex and the reservation.
Abort(c) ==
    /\ stage' = [stage EXCEPT ![c] = "failed"]
    /\ reserved' = reserved \ {TargetOf[c]}

AskUnlocked(c) ==
    /\ Serving /\ stage[c] = "idle"
    /\ UNCHANGED <<mode, stored, conv, workers, attached, token, joining, work, ghosts,
                   deleting, faults, stops>>
    /\ answers[RequestOf[c]] = None
    /\ TargetOf[c] # New => Reservable(TargetOf[c])
    /\ stage' = [stage EXCEPT ![c] = "planning"]
    /\ reserved' = IF TargetOf[c] = New THEN reserved ELSE reserved \cup {TargetOf[c]}

\* The mutex, the stored response, and the reservation of a conversation
\* that the request names.
Ask(c) ==
    LET stay == UNCHANGED <<mode, stored, conv, workers, attached, token, joining, work, ghosts,
                            deleting, faults, stops>> IN
    /\ Serving /\ stage[c] = "idle"
    /\ \A d \in Calls : stage[d] \notin Preparing
    /\ stay
    /\ \/ /\ answers[RequestOf[c]] # None
          /\ stage' = [stage EXCEPT ![c] = "done"]
          /\ UNCHANGED reserved
       \/ /\ answers[RequestOf[c]] = None
          /\ TargetOf[c] # New => Reservable(TargetOf[c])
          /\ stage' = [stage EXCEPT ![c] = "planning"]
          /\ reserved' = IF TargetOf[c] = New THEN reserved ELSE reserved \cup {TargetOf[c]}
       \/ /\ answers[RequestOf[c]] = None
          /\ TargetOf[c] # New /\ ~Reservable(TargetOf[c])
          /\ stage' = [stage EXCEPT ![c] = "failed"]
          /\ UNCHANGED reserved

\* The conversation is found, or a new one is created: log, index, row.
OpenConversation(c) ==
    /\ Serving /\ stage[c] = "planning"
    /\ UNCHANGED <<mode, tombs, msgs, replies, logged, runLog, db, answers, appr, workers,
                   attached, token, joining, work, ghosts, deleting, stops>>
    /\ \/ /\ TargetOf[c] \in convs
          /\ conv' = [conv EXCEPT ![c] = TargetOf[c]]
          /\ stage' = [stage EXCEPT ![c] = "opened"]
          /\ UNCHANGED <<convLog, convs, reserved, faults>>
       \/ /\ TargetOf[c] \in Conversations \ convs
          /\ Abort(c)
          /\ UNCHANGED <<convLog, convs, conv, faults>>
       \/ \E k \in Conversations \ convLog :
          /\ TargetOf[c] = New
          /\ convLog' = convLog \cup {k}
          /\ \/ /\ convs' = convs \cup {k}
                /\ conv' = [conv EXCEPT ![c] = k]
                /\ stage' = [stage EXCEPT ![c] = "opened"]
                /\ UNCHANGED <<reserved, faults>>
             \/ /\ Fault
                /\ Abort(c)
                /\ UNCHANGED <<convs, conv>>

\* The user message, with the router's decision in the conversation's log.
AppendUserMessage(c) ==
    /\ Serving /\ stage[c] = "opened"
    /\ UNCHANGED <<mode, convLog, tombs, convs, replies, logged, runLog, db, answers, appr, conv,
                   workers, attached, token, joining, work, ghosts, deleting, stops>>
    /\ \/ /\ conv[c] \in convs
          /\ msgs' = msgs \cup {c}
          /\ stage' = [stage EXCEPT ![c] = "asked"]
          /\ UNCHANGED <<reserved, faults>>
       \/ /\ conv[c] \notin convs
          /\ Abort(c)
          /\ UNCHANGED <<msgs, faults>>
       \/ /\ Fault
          /\ msgs' \in {msgs, msgs \cup {c}}
          /\ Abort(c)

\* A turn that needs no runtime is answered from the process itself.
LocalReply(c) ==
    /\ Serving /\ stage[c] = "asked" /\ conv[c] \in convs
    /\ stage' = [stage EXCEPT ![c] = "created"]
    /\ UNCHANGED <<mode, stored, conv, registry, work, ghosts, deleting, faults, stops>>

\* create_conversation_run: the log and its index entry ...
LogRun(c) ==
    /\ Serving /\ stage[c] = "asked"
    /\ UNCHANGED <<mode, convLog, tombs, convs, msgs, replies, runLog, db, answers, appr, conv,
                   workers, attached, token, joining, work, ghosts, deleting, faults, stops>>
    /\ \/ /\ conv[c] \in convs
          /\ logged' = logged \cup {c}
          /\ stage' = [stage EXCEPT ![c] = "logged"]
          /\ UNCHANGED reserved
       \/ /\ conv[c] \notin convs
          /\ Abort(c)
          /\ UNCHANGED logged

\* ... and the row, which refers to the row of the conversation.
CreateRun(c) ==
    /\ Serving /\ stage[c] = "logged"
    /\ UNCHANGED <<mode, convLog, tombs, convs, msgs, replies, logged, runLog, answers, appr, conv,
                   workers, attached, token, joining, work, ghosts, deleting, stops>>
    /\ \/ /\ conv[c] \in convs
          /\ db' = [db EXCEPT ![c] = "queued"]
          /\ stage' = [stage EXCEPT ![c] = "created"]
          /\ UNCHANGED <<reserved, faults>>
       \/ /\ conv[c] \notin convs \/ faults > 0
          /\ faults' = IF conv[c] \in convs THEN faults - 1 ELSE faults
          /\ Abort(c)
          /\ UNCHANGED db

\* store_agent_turn_response; then the mutex is released.
StoreResponse(c) ==
    /\ Serving /\ stage[c] = "created"
    /\ UNCHANGED <<mode, convLog, tombs, convs, msgs, replies, logged, runLog, db, appr, conv,
                   workers, attached, token, joining, work, ghosts, deleting, stops>>
    /\ \/ /\ conv[c] \in convs
          /\ answers' = [answers EXCEPT ![RequestOf[c]] = IF @ = None THEN c ELSE @]
          /\ IF c \in logged
                THEN /\ stage' = [stage EXCEPT ![c] = IF TargetOf[c] = New THEN "launch" ELSE "reserved"]
                     /\ UNCHANGED reserved
                ELSE /\ stage' = [stage EXCEPT ![c] = "done"]
                     /\ reserved' = reserved \ {TargetOf[c]}
          /\ UNCHANGED faults
       \/ /\ conv[c] \notin convs \/ faults > 0
          /\ faults' = IF conv[c] \in convs THEN faults - 1 ELSE faults
          /\ Abort(c)
          /\ UNCHANGED answers

\* A new conversation is reserved only now; an error leaves the run as it is.
ReserveNew(c) ==
    /\ Serving /\ stage[c] = "launch"
    /\ IF Reservable(conv[c])
          THEN /\ stage' = [stage EXCEPT ![c] = "reserved"]
               /\ reserved' = reserved \cup {conv[c]}
          ELSE /\ stage' = [stage EXCEPT ![c] = "failed"]
               /\ UNCHANGED reserved
    /\ UNCHANGED <<mode, stored, conv, workers, attached, token, joining, work, ghosts, deleting,
                   faults, stops>>

\* register_run and the start of the thread, or the failure of either, which
\* finishes the run.
Launch(c) ==
    /\ Serving /\ stage[c] = "reserved"
    /\ reserved' = reserved \ {conv[c]}
    /\ \/ /\ ~ShuttingDown
          /\ workers' = workers \cup {c}
          /\ work' = [work EXCEPT ![c] = "prepare"]
          /\ stage' = [stage EXCEPT ![c] = "attach"]
          /\ UNCHANGED <<mode, stored, conv, attached, token, joining, ghosts, deleting, faults, stops>>
       \/ /\ IF ShuttingDown
                THEN Finish(c, "failed")
                ELSE Fault /\ db[c] \in Open
                     /\ runLog' = [runLog EXCEPT ![c] = Append(@, "failed")]
                     /\ db' = [db EXCEPT ![c] = "failed"]
          /\ stage' = [stage EXCEPT ![c] = "failed"]
          /\ UnchangedButFinish
          /\ UNCHANGED <<appr, workers, attached, token, joining, work>>

AttachWithoutJoin(c) ==
    /\ Serving /\ stage[c] = "attach"
    /\ attached' = attached \cup ({c} \cap workers)
    /\ stage' = [stage EXCEPT ![c] = "done"]
    /\ UNCHANGED <<mode, stored, conv, reserved, workers, token, joining, work, ghosts, deleting,
                   faults, stops>>

\* attach_worker: a run that is no longer registered is joined here.
AttachWorker(c) ==
    /\ Serving /\ stage[c] = "attach"
    /\ \/ c \in workers /\ attached' = attached \cup {c}
       \/ c \notin workers /\ work[c] = "done" /\ UNCHANGED attached
    /\ stage' = [stage EXCEPT ![c] = "done"]
    /\ UNCHANGED <<mode, stored, conv, reserved, workers, token, joining, work, ghosts, deleting,
                   faults, stops>>

(***************************************************************************)
(* chat.cancel, approvals.* and conversations.delete.                      *)
(***************************************************************************)

\* request_cancel through the registry, for a run that is not terminal.
Cancel(r) ==
    /\ Serving /\ db[r] \in Open
    /\ r \in workers /\ token[r] = "running"
    /\ token' = [token EXCEPT ![r] = "cancel"]
    /\ accepted' = accepted \cup {r}
    /\ UNCHANGED <<mode, stored, stage, conv, reserved, workers, attached, joining, work, hosted,
                   deleted, deleting, faults, stops>>

\* The user answers a pending approval.
Answer(r, status) ==
    /\ Serving /\ appr[r] = "pending" /\ db[r] # "none"
    /\ appr' = [appr EXCEPT ![r] = status]
    /\ UNCHANGED <<mode, convLog, tombs, convs, msgs, replies, logged, runLog, db, answers, stage,
                   conv, registry, work, ghosts, deleting, faults, stops>>

DeleteBegin(k) ==
    /\ Serving /\ deleting = NoDelete
    /\ k \in convs /\ Reservable(k)
    /\ reserved' = reserved \cup {k}
    /\ deleting' = [conv |-> k, step |-> "tomb"]
    /\ UNCHANGED <<mode, stored, stage, conv, workers, attached, token, joining, work, ghosts,
                   faults, stops>>

\* The index entries that call the conversation and its runs deleted.
DeleteLog ==
    /\ Serving /\ deleting.step = "tomb"
    /\ tombs' = tombs \cup {deleting.conv}
    /\ deleting' = [deleting EXCEPT !.step = "row"]
    /\ UNCHANGED <<mode, convLog, convs, msgs, replies, logged, runLog, db, answers, appr, stage,
                   conv, registry, work, ghosts, faults, stops>>

\* The row and what cascades from it; the log files go after it.
DeleteRow ==
    LET k == deleting.conv IN
    /\ Serving /\ deleting.step = "row"
    /\ deleting' = NoDelete
    /\ reserved' = reserved \ {k}
    /\ \/ /\ convs' = convs \ {k}
          /\ db' = [r \in Calls |-> IF conv[r] = k THEN "none" ELSE db[r]]
          /\ answers' = [q \in Requests |->
                IF answers[q] # None /\ conv[answers[q]] = k THEN None ELSE answers[q]]
          /\ deleted' = deleted \cup {k}
          /\ UNCHANGED faults
       \/ /\ Fault
          /\ UNCHANGED <<convs, db, answers, deleted>>
    /\ UNCHANGED <<mode, convLog, tombs, msgs, replies, logged, runLog, appr, stage, conv, workers,
                   attached, token, joining, work, hosted, accepted, stops>>

(***************************************************************************)
(* The worker thread: execute_existing_codex_run.                          *)
(***************************************************************************)

\* The thread ends after an attempt to finish the run.
EndWith(r, status) ==
    /\ Finish(r, status)
    /\ work' = [work EXCEPT ![r] = "end"]

ErrorStateFailed(r) ==
    EndWith(r, "failed") /\ token' = [token EXCEPT ![r] = "claimed"]

\* record_codex_runtime_error_state: an accepted cancellation wins.
ErrorState(r) ==
    IF token[r] = "cancel"
       THEN EndWith(r, "cancelled") /\ UNCHANGED token
       ELSE EndWith(r, "failed") /\ token' = [token EXCEPT ![r] = "claimed"]

WorkerOnly ==
    /\ Serving
    /\ UnchangedButFinish
    /\ UNCHANGED <<stage, reserved, workers, attached, joining>>

\* select_codex_runtime_protocol finds no Codex.
Unavailable(r) == ErrorState(r)

\* update_run_status, which refuses a run that is terminal or gone.
MarkRunning(r) ==
    /\ db[r] \in Open
    /\ db' = [db EXCEPT ![r] = "running"]

\* The protocol is chosen, a cancellation noticed, the context read and the
\* row set to running; an error of storage just ends the thread.
Prepare(r) ==
    /\ work[r] = "prepare" /\ WorkerOnly /\ UNCHANGED appr
    /\ \/ Unavailable(r)
       \/ /\ token[r] = "cancel"
          /\ EndWith(r, "cancelled")
          /\ UNCHANGED token
       \/ /\ token[r] # "cancel"
          /\ MarkRunning(r)
          /\ work' = [work EXCEPT ![r] = "started"]
          /\ UNCHANGED <<runLog, token, faults>>
       \/ /\ token[r] # "cancel" /\ db[r] \notin Open
          /\ work' = [work EXCEPT ![r] = "end"]
          /\ UNCHANGED <<runLog, db, token, faults>>
       \/ /\ token[r] # "cancel" /\ Fault
          /\ work' = [work EXCEPT ![r] = "end"]
          /\ UNCHANGED <<runLog, db, token>>

\* A second look at the token, then the start events.
Start(r) ==
    /\ work[r] = "started" /\ WorkerOnly /\ UNCHANGED <<appr, token>>
    /\ \/ token[r] = "cancel" /\ EndWith(r, "cancelled")
       \/ /\ token[r] # "cancel"
          /\ work' = [work EXCEPT ![r] = "codex"]
          /\ UNCHANGED <<runLog, db, faults>>
       \/ /\ token[r] # "cancel" /\ Fault
          /\ work' = [work EXCEPT ![r] = "end"]
          /\ UNCHANGED <<runLog, db>>

\* Codex asks for an approval: declined at once outside of the project,
\* otherwise left pending for the user.
RequestApproval(r) ==
    /\ work[r] = "codex" /\ WorkerOnly
    /\ appr[r] = "none"
    /\ \/ appr' = [appr EXCEPT ![r] = "denied"] /\ UNCHANGED work
       \/ appr' = [appr EXCEPT ![r] = "pending"] /\ work' = [work EXCEPT ![r] = "approval"]
    /\ UNCHANGED <<runLog, db, token, faults>>

\* resolve_codex_app_server_request_approval as the wait calls it: only a
\* pending approval is resolved, and an error is ignored.
Resolve(r) ==
    \/ /\ appr' = [appr EXCEPT ![r] = IF @ = "pending" THEN "cancelled" ELSE @]
       /\ UNCHANGED faults
    \/ Fault /\ UNCHANGED appr

\* The poll of the wait: the run was cancelled; an answer; the deadline.
PollApproval(r) ==
    /\ work[r] = "approval" /\ WorkerOnly /\ UNCHANGED <<runLog, db, token>>
    /\ \/ /\ token[r] = "cancel"
          /\ Resolve(r)
          /\ work' = [work EXCEPT ![r] = "codex"]
       \/ /\ token[r] # "cancel" /\ appr[r] # "pending"
          /\ work' = [work EXCEPT ![r] = "codex"]
          /\ UNCHANGED <<appr, faults>>
       \/ /\ token[r] # "cancel" /\ appr[r] = "pending"
          /\ Resolve(r)
          /\ work' = [work EXCEPT ![r] = "codex"]

\* The turn of Codex fails; it does when it notices the cancellation.
CodexFails(r) ==
    /\ work[r] = "codex" /\ WorkerOnly /\ UNCHANGED appr
    /\ ErrorState(r)

\* The turn of Codex ends, and its thread is bound to the conversation (an
\* error in the binding is CodexFails).
CodexReturns(r) ==
    /\ work[r] = "codex" /\ WorkerOnly /\ UNCHANGED <<appr, runLog, db, token, faults>>
    /\ work' = [work EXCEPT ![r] = "claim"]

ClaimAlways(r) ==
    /\ work[r] = "claim" /\ WorkerOnly /\ UNCHANGED appr
    /\ token' = [token EXCEPT ![r] = "claimed"]
    /\ work' = [work EXCEPT ![r] = "host"]
    /\ UNCHANGED <<runLog, db, faults>>

\* claim_completion_or_abort_cancelled_run.
Claim(r) ==
    /\ work[r] = "claim" /\ WorkerOnly /\ UNCHANGED appr
    /\ \/ /\ token[r] = "running"
          /\ token' = [token EXCEPT ![r] = "claimed"]
          /\ work' = [work EXCEPT ![r] = "host"]
          /\ UNCHANGED <<runLog, db, faults>>
       \/ /\ token[r] # "running"
          /\ EndWith(r, "cancelled")
          /\ UNCHANGED token

\* The host actions of the reply are recorded and executed; an error in the
\* record ends the thread.
HostActions(r) ==
    /\ Serving /\ work[r] = "host"
    /\ \/ /\ hosted' = hosted \cup {r}
          /\ work' = [work EXCEPT ![r] = "reply"]
          /\ UNCHANGED faults
       \/ /\ Fault
          /\ work' = [work EXCEPT ![r] = "end"]
          /\ UNCHANGED hosted
    /\ UNCHANGED <<mode, stored, stage, conv, registry, accepted, deleted, deleting, stops>>

SkipReply(r) ==
    /\ Serving /\ work[r] = "reply"
    /\ work' = [work EXCEPT ![r] = "finish"]
    /\ UNCHANGED <<mode, stored, stage, conv, registry, ghosts, deleting, faults, stops>>

\* persist_completed_codex_run: the assistant message and its event ...
SaveReply(r) ==
    /\ Serving /\ work[r] = "reply"
    /\ \/ /\ replies' = replies \cup {r}
          /\ work' = [work EXCEPT ![r] = "finish"]
          /\ UNCHANGED faults
       \/ /\ Fault
          /\ replies' \in {replies, replies \cup {r}}
          /\ work' = [work EXCEPT ![r] = "fallback"]
    /\ UNCHANGED <<mode, convLog, tombs, convs, msgs, logged, runLog, db, answers, appr, stage, conv,
                   registry, ghosts, deleting, stops>>

\* ... and the end of the run, or the record of the failure to persist it.
Complete(r) ==
    /\ work[r] = "finish" /\ WorkerOnly /\ UNCHANGED <<appr, token>>
    /\ \/ FinishOk(r, "completed") /\ work' = [work EXCEPT ![r] = "end"]
       \/ FinishError(r, "completed") /\ work' = [work EXCEPT ![r] = "fallback"]

Fallback(r) ==
    /\ work[r] = "fallback" /\ WorkerOnly /\ UNCHANGED <<appr, token>>
    /\ EndWith(r, "failed")

\* The registry forgets the run.
End(r) ==
    /\ Serving /\ work[r] = "end"
    /\ work' = [work EXCEPT ![r] = "done"]
    /\ workers' = workers \ {r}
    /\ attached' = attached \ {r}
    /\ UNCHANGED <<mode, stored, stage, conv, reserved, token, joining, ghosts, deleting, faults,
                   stops>>

(***************************************************************************)
(* Shutdown, crash and restart.                                            *)
(***************************************************************************)

\* The registry refuses from now on, cancels what is registered and keeps
\* the handles to join.
Shutdown ==
    /\ mode = "up" /\ stops > 0
    /\ mode' = "stopping"
    /\ stops' = stops - 1
    /\ reserved' = {} /\ workers' = {} /\ attached' = {}
    /\ joining' = workers \cap attached
    /\ token' = [r \in Calls |-> IF r \in workers /\ token[r] = "running" THEN "cancel" ELSE token[r]]
    /\ UNCHANGED <<stored, stage, conv, work, ghosts, deleting, faults>>

\* serve returns: the joined workers are done, then the request threads.
Exit ==
    /\ mode = "stopping"
    /\ \A r \in joining : work[r] = "done"
    /\ \A c \in Calls : stage[c] \notin Active
    /\ deleting = NoDelete
    /\ mode' = "exited"
    /\ UNCHANGED <<stored, stage, conv, registry, work, ghosts, deleting, faults, stops>>

Crash ==
    /\ mode \in {"up", "stopping", "recovering"} /\ stops > 0
    /\ mode' = "down"
    /\ stops' = stops - 1
    /\ UNCHANGED <<stored, stage, conv, registry, work, ghosts, deleting, faults>>

ReconciledFirst(r) ==
    IF r \notin logged \/ conv[r] \in tombs THEN "none"
    ELSE IF runLog[r] = <<>> THEN "queued" ELSE Head(runLog[r])

\* reconcile_run_log: the last terminal line of the log decides.
Reconciled(r) ==
    IF r \notin logged \/ conv[r] \in tombs THEN "none"
    ELSE IF runLog[r] = <<>> THEN "queued" ELSE Last(runLog[r])

AllConversations == convLog

\* reconcile_discovered_local_logs: the conversations that the index lists
\* and does not call deleted.
ReconciledConversations == convLog \ tombs

ApprovalsKept == appr

\* cancel_pending_run_approvals, for the runs that are not terminal.
CancelledApprovals ==
    [r \in Calls |-> IF Reconciled(r) \in Open /\ appr[r] = "pending" THEN "cancelled" ELSE appr[r]]

\* initialize: the rows are rebuilt from the logs in one transaction, then
\* the pending approvals of the runs that are not terminal are cancelled.
Restart ==
    /\ mode \in {"down", "exited"}
    /\ mode' = "recovering"
    /\ convs' = ReconciledConversations
    /\ db' = [r \in Calls |-> Reconciled(r)]
    /\ answers' = [q \in Requests |->
          IF answers[q] # None /\ conv[answers[q]] \notin ReconciledConversations
             THEN None ELSE answers[q]]
    /\ appr' = CancelledApprovals
    /\ stage' = [c \in Calls |-> IF stage[c] \in Active THEN "lost" ELSE stage[c]]
    /\ work' = [r \in Calls |-> "none"]
    /\ reserved' = {} /\ workers' = {} /\ attached' = {} /\ joining' = {}
    /\ token' = [r \in Calls |-> "running"]
    /\ deleting' = NoDelete
    /\ UNCHANGED <<convLog, tombs, msgs, replies, logged, runLog, conv, ghosts, faults, stops>>

\* Every interrupted run is finished as failed; an error ends the process.
RecoverRun(r) ==
    /\ mode = "recovering" /\ db[r] \in Open
    /\ \/ FinishOk(r, "failed") /\ UNCHANGED mode
       \/ FinishError(r, "failed") /\ mode' = "down"
    /\ UNCHANGED <<convLog, tombs, convs, msgs, replies, logged, answers, appr, stage, conv,
                   registry, work, ghosts, deleting, stops>>

RecoveredAtOnce ==
    /\ mode = "recovering"
    /\ mode' = "up"
    /\ UNCHANGED <<stored, stage, conv, registry, work, ghosts, deleting, faults, stops>>

Recovered ==
    /\ mode = "recovering"
    /\ \A r \in Calls : db[r] \notin Open
    /\ mode' = "up"
    /\ UNCHANGED <<stored, stage, conv, registry, work, ghosts, deleting, faults, stops>>

-----------------------------------------------------------------------------

StartTurn(c) ==
    \/ Ask(c) \/ OpenConversation(c) \/ AppendUserMessage(c) \/ LocalReply(c) \/ LogRun(c)
    \/ CreateRun(c) \/ StoreResponse(c) \/ ReserveNew(c) \/ Launch(c) \/ AttachWorker(c)

\* What the worker does of its own accord.
WorkerStep(r) ==
    \/ Prepare(r) \/ Start(r) \/ PollApproval(r) \/ Claim(r) \/ HostActions(r) \/ SaveReply(r)
    \/ Complete(r) \/ Fallback(r) \/ End(r)

Next ==
    \/ \E c \in Calls :
          \/ StartTurn(c) \/ WorkerStep(c)
          \/ RequestApproval(c) \/ CodexFails(c) \/ CodexReturns(c)
          \/ Cancel(c) \/ RecoverRun(c)
          \/ \E status \in {"approved", "denied"} : Answer(c, status)
    \/ \E k \in Conversations : DeleteBegin(k)
    \/ DeleteLog \/ DeleteRow
    \/ Shutdown \/ Exit \/ Crash \/ Restart \/ Recovered

Spec == Init /\ [][Next]_vars

\* Threads run, the wait for an approval has a deadline, and Codex polls the
\* cancellation; nothing is assumed of a turn that is not cancelled, of the
\* user, or of a new start.
Fairness ==
    \A r \in Calls :
        /\ WF_vars(WorkerStep(r))
        /\ WF_vars(token[r] = "cancel" /\ (CodexFails(r) \/ CodexReturns(r)))

FairSpec == Spec /\ Fairness

-----------------------------------------------------------------------------

\* At most one thread works for a conversation, whatever the calls, retries,
\* deletions and shutdowns around it.
OneRunPerConversation ==
    \A r, s \in Calls : Alive(r) /\ Alive(s) /\ conv[r] = conv[s] => r = s

\* A run whose cancellation was accepted does nothing on the host and is never
\* completed, in the rows or in the logs; it is failed only by a restart.
CancelHonoured ==
    \A r \in accepted :
        /\ r \notin hosted
        /\ db[r] # "completed" /\ "completed" \notin ToSet(runLog[r])
        /\ stops = MaxStops => db[r] # "failed"

\* A completed run has its assistant message.
CompletedHasReply == \A r \in Calls : db[r] = "completed" => r \in replies

\* A deletion that was reported stays, through every crash and restart.
NoResurrection == deleted \cap convs = {}

\* The start of a turn, or its worker, still has the run in its hands.
Owned(r) == stage[r] \in Active \/ Alive(r)

\* The late reservation of a new conversation was refused.
Refused(r) == TargetOf[r] = New /\ stage[r] = "failed"

\* While the process serves and no operation of storage has failed, a run
\* that is not terminal is in somebody's hands: nobody waits for a run that
\* will never end (worker_start_failure_terminalizes_the_persisted_run), except
\* for the run of a new conversation whose late reservation was refused.
NoOrphan ==
    Serving /\ faults = MaxFaults =>
        \A r \in Calls : db[r] \in Open => Owned(r) \/ Refused(r)

\* An approval the user is asked for belongs to a run that waits for it, unless
\* an operation of storage has failed: no question outlives its run, also
\* over a restart.
PendingMeansWaiting ==
    mode = "up" /\ faults = MaxFaults =>
        \A r \in Calls : appr[r] = "pending" /\ db[r] # "none" => work[r] = "approval"

\* An orderly exit leaves no worker behind, and no run that is not terminal,
\* with the same exception.
QuietExit ==
    mode = "exited" =>
        \A r \in Calls : ~Alive(r) /\ (faults = MaxFaults /\ ~Refused(r) => db[r] \notin Open)

\* A request id stands for one turn, however often it is sent, as long as no
\* operation of storage fails and the process does not die in between
\* (replays_the_original_turn_when_a_request_id_is_retried).
OneTurnPerRequest ==
    faults = MaxFaults /\ stops = MaxStops => \A c, d \in msgs :
        RequestOf[c] = RequestOf[d] /\ {conv[c], conv[d]} \subseteq convs => c = d

\* One turn for a request, one run at a time for a conversation.
OneTurn == BuddyTypeOK /\ OneRunPerConversation /\ OneTurnPerRequest

\* What the user was told holds: an accepted cancellation, a completed reply, a
\* reported deletion.
PromisesKept == CancelHonoured /\ CompletedHasReply /\ NoResurrection

\* Nothing is left waiting for what will never come: no run, no approval, and no
\* thread when the process exits.
NothingLeftWaiting == NoOrphan /\ PendingMeansWaiting /\ QuietExit

\* The outcome that the rows show of a run is final: not even a restart, which
\* rebuilds it from the log, changes it; only a deletion removes it.
OutcomeFinal ==
    [][\A r \in Calls : db[r] \in Final =>
          db'[r] = db[r] \/ (db'[r] = "none" /\ conv[r] \in tombs)]_vars

\* A cancellation that was accepted ends the run, as cancelled, unless an
\* operation of storage fails; the thread ends in any case, as long as the
\* process lives.
CancelTakesEffect ==
    \A r \in Calls : (r \in accepted) ~>
        \/ ~Alive(r) /\ (db[r] \in {"cancelled", "none"} \/ faults < MaxFaults)
        \/ stops < MaxStops
=============================================================================
