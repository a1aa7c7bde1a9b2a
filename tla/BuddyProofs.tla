------------------------------ MODULE BuddyProofs ------------------------------
(***************************************************************************)
(* Proofs about the desktop application.                                   *)
(*                                                                         *)
(* BuddyRun, for every set of calls, conversations and bounds: one turn    *)
(* for a request and one thread for a conversation, what the user was told *)
(* stays true, nothing waits for what will never come, and the outcome of  *)
(* a run is final over every restart.                                      *)
(*                                                                         *)
(* RuntimeSupervisor, for every set of process handles and every value of  *)
(* the bounds: the status it shows is true.                                *)
(***************************************************************************)
EXTENDS BuddyRun, RuntimeSupervisor, TLAPS

-----------------------------------------------------------------------------
(* BuddyRun: the inductive invariant.                                      *)

\* Calls that have not launched their run.
Early == {"idle"} \cup (Active \ {"attach"})

\* What a call has stored when it has come to its stage.
Placed(c) ==
    /\ stage[c] \in {"idle", "planning", "opened"} => c \notin msgs
    /\ stage[c] \in {"asked", "logged", "created", "launch", "reserved", "attach"} => c \in msgs
    /\ stage[c] \in {"idle", "planning", "opened", "asked"} => c \notin logged
    /\ stage[c] \in {"logged", "launch", "reserved", "attach"} => c \in logged
    /\ stage[c] \in {"opened", "asked", "logged", "created", "launch", "reserved", "attach"}
          => conv[c] \in convLog /\ (TargetOf[c] # New => conv[c] = TargetOf[c])
    /\ stage[c] = "launch" => TargetOf[c] = New
    /\ stage[c] = "logged" => db[c] = "none"
    /\ stage[c] \in Early => /\ work[c] = "none" /\ appr[c] = "none" /\ runLog[c] = <<>>
                             /\ c \notin accepted /\ c \notin hosted
    /\ Alive(c) => stage[c] \in {"attach", "done"}

\* What is stored of a run refers to what was stored before it.
Stored(c) ==
    /\ c \in msgs => conv[c] \in convLog
    /\ c \notin logged => db[c] = "none" /\ work[c] = "none" /\ runLog[c] = <<>>
    /\ db[c] # "none" => conv[c] \in convs

\* The log and the row of a run tell the same outcome.
LogTrue(r) ==
    /\ db[r] \in Final => runLog[r] # <<>> /\ Last(runLog[r]) = db[r]
    /\ work[r] \in {"prepare", "started", "codex", "approval", "claim", "host", "reply", "finish"}
          => runLog[r] = <<>>

LogCompleted(r) == "completed" \in ToSet(runLog[r])

\* The token decides between the cancellation and the completion of a run.
Decided(r) ==
    /\ work[r] \in {"host", "reply", "finish", "fallback"} => token[r] = "claimed"
    /\ Alive(r) /\ r \in accepted => token[r] = "cancel"
    /\ Alive(r) /\ (r \in hosted \/ LogCompleted(r)) => token[r] = "claimed"
    /\ r \in accepted => r \notin hosted /\ ~LogCompleted(r)
    /\ r \in accepted /\ stops = MaxStops => db[r] # "failed"
    /\ work[r] = "finish" \/ LogCompleted(r) => r \in replies

\* A deletion is in the logs before it is reported.
Deletions ==
    /\ deleting.step = "none" => deleting = NoDelete
    /\ deleting.step # "none" => deleting.conv \in convLog
    /\ deleting.step = "row" => deleting.conv \in tombs
    /\ deleted \subseteq tombs /\ NoResurrection

\* What the registry knows of the threads.
Registered ==
    /\ stops = MaxStops => mode = "up"
    /\ workers \subseteq {r \in Calls : Alive(r)}
    /\ mode = "up" => \A r \in Calls : Alive(r) => r \in workers /\ (r \in attached \/ stage[r] = "attach")
    /\ mode = "stopping" =>
          /\ workers = {}
          /\ \A r \in Calls : Alive(r) => r \in joining \/ stage[r] = "attach"
    /\ mode = "recovering" =>
          /\ workers = {} /\ deleting = NoDelete
          /\ \A r \in Calls : work[r] = "none" /\ stage[r] \notin Active

\* The calls that hold a reservation, and for what.
Holding == {c \in Calls : (stage[c] \in Preparing /\ TargetOf[c] # New) \/ stage[c] = "reserved"}
HeldBy(c) == IF stage[c] \in Preparing THEN TargetOf[c] ELSE conv[c]

\* A conversation is reserved by one call or deletion, or has one thread.
ReservedAt(c, d) ==
    mode = "up" =>
        /\ c \in Holding => HeldBy(c) \in reserved /\ HeldBy(c) # deleting.conv
        /\ c \in Holding /\ d \in Holding /\ HeldBy(c) = HeldBy(d) => c = d
        /\ deleting.step # "none" => deleting.conv \in reserved
        /\ c \in workers => conv[c] \notin reserved

\* The request-preparation mutex, and what its holder found.
Mutex ==
    /\ \A c, d \in Calls : stage[c] \in Preparing /\ stage[d] \in Preparing => c = d
    /\ \A c \in Calls : stage[c] \in Preparing => answers[RequestOf[c]] = None

\* Without faults and stops, a message in a conversation has its answer, or gets it.
Answered(c) ==
    faults = MaxFaults /\ stops = MaxStops /\ c \in msgs /\ conv[c] \in convs =>
        answers[RequestOf[c]] = c \/ stage[c] \in {"asked", "logged", "created"}

\* Without faults a run that is not terminal is in somebody's hands (NoOrphan).
InHand(r) ==
    Serving /\ faults = MaxFaults /\ db[r] \in Open => Owned(r) \/ Refused(r)

\* Without faults a thread ends with its run, and an approval waits for a thread
\* or belongs to a deleted conversation.
Ended(r) ==
    faults = MaxFaults =>
        /\ work[r] \in {"end", "done"} => db[r] \notin Open
        /\ appr[r] = "pending" => work[r] = "approval" \/ (db[r] = "none" /\ conv[r] \in tombs)

IInv ==
    /\ BuddyTypeOK /\ runLog \in [Calls -> Seq(Final)]
    /\ \A c \in Calls : /\ Placed(c) /\ Stored(c) /\ LogTrue(c) /\ Decided(c) /\ Ended(c)
                        /\ Answered(c) /\ InHand(c)
    /\ \A c, d \in Calls : ReservedAt(c, d)
    /\ Deletions /\ Registered /\ Mutex /\ OneRunPerConversation /\ QuietExit

-----------------------------------------------------------------------------
(* Every step keeps each part of the invariant.                            *)

USE DEF vars, stored, registry, ghosts

\* The types, variable by variable.
StageTyped == stage \in [Calls -> Active \cup {"idle", "done", "failed", "lost"}]
WorkTyped == work \in [Calls -> {"none", "prepare", "started", "codex", "approval", "claim",
                                 "host", "reply", "finish", "fallback", "end", "done"}]
LogTyped == runLog \in [Calls -> Seq(Final)]
RowTyped == db \in [Calls -> Open \cup Final \cup {"none"}]
ConvTyped == conv \in [Calls -> Conversations \cup {None}]
TokenTyped == token \in [Calls -> {"running", "cancel", "claimed"}]
ApprovalTyped == appr \in [Calls -> {"none", "pending", "approved", "denied", "cancelled"}]
AnswersTyped == answers \in [Requests -> Calls \cup {None}]
DeletingTyped == deleting \in [conv : Conversations \cup {None}, step : {"none", "tomb", "row"}]
IndexTyped == tombs \subseteq convLog /\ convs \subseteq convLog /\ convLog \subseteq Conversations
MessagesTyped == msgs \subseteq Calls /\ replies \subseteq logged /\ logged \subseteq msgs
RegistryTyped ==
    /\ reserved \subseteq Conversations /\ workers \subseteq Calls
    /\ attached \subseteq Calls /\ joining \subseteq Calls
GhostsTyped == hosted \subseteq Calls /\ accepted \subseteq Calls /\ deleted \subseteq Conversations
BoundsTyped == /\ faults \in 0 .. MaxFaults /\ stops \in 0 .. MaxStops
               /\ mode \in {"up", "stopping", "exited", "down", "recovering"}

\* The types that the invariant gives.
LEMMA Types ==
    ASSUME IInv
    PROVE  /\ StageTyped /\ WorkTyped /\ LogTyped /\ RowTyped /\ ConvTyped /\ TokenTyped
           /\ ApprovalTyped /\ AnswersTyped /\ DeletingTyped /\ IndexTyped /\ MessagesTyped
           /\ RegistryTyped /\ GhostsTyped /\ BoundsTyped
BY DEF IInv, BuddyTypeOK, StageTyped, WorkTyped, LogTyped, RowTyped, ConvTyped, TokenTyped,
       ApprovalTyped, AnswersTyped, DeletingTyped, IndexTyped, MessagesTyped, RegistryTyped,
       GhostsTyped, BoundsTyped

\* A log with another outcome, and the last outcome of a log.
LEMMA Appended ==
    ASSUME LogTyped
    PROVE  /\ \A r \in Calls, s \in {"completed", "failed", "cancelled"} :
                 [runLog EXCEPT ![r] = Append(@, s)] \in [Calls -> Seq(Final)]
           /\ \A r \in Calls : /\ runLog[r] \in Seq(Final)
                              /\ runLog[r] # <<>> => Last(runLog[r]) \in Final
<1>1. \A s \in Seq(Final), e \in Final : Append(s, e) \in Seq(Final)
  OBVIOUS
<1>2. \A s \in Seq(Final) : s # <<>> => Last(s) \in Final
  BY DEF Last
<1>3. {"completed", "failed", "cancelled"} = Final
  BY DEF Final
<1> QED
  BY <1>1, <1>2, <1>3 DEF LogTyped

\* The stages.
LEMMA StageTypedStep ==
    ASSUME IInv, [Next]_vars
    PROVE  StageTyped'
<1>1. ASSUME NEW c \in Calls, Ask(c) PROVE StageTyped'
  BY <1>1, Types DEF Ask, Reservable, Busy, StageTyped, Active
<1>2. ASSUME NEW c \in Calls, OpenConversation(c) PROVE StageTyped'
  BY <1>2, Types DEF OpenConversation, Abort, Fault, StageTyped, Active
<1>3. ASSUME NEW c \in Calls, AppendUserMessage(c) PROVE StageTyped'
  BY <1>3, Types DEF AppendUserMessage, Abort, Fault, StageTyped, Active
<1>4. ASSUME NEW c \in Calls, LocalReply(c) PROVE StageTyped'
  BY <1>4, Types DEF LocalReply, StageTyped, Active
<1>5. ASSUME NEW c \in Calls, LogRun(c) PROVE StageTyped'
  BY <1>5, Types DEF LogRun, Abort, StageTyped, Active
<1>6. ASSUME NEW c \in Calls, CreateRun(c) PROVE StageTyped'
  BY <1>6, Types DEF CreateRun, Abort, StageTyped, Active
<1>7. ASSUME NEW c \in Calls, StoreResponse(c) PROVE StageTyped'
  BY <1>7, Types DEF StoreResponse, Abort, StageTyped, Active
<1>8. ASSUME NEW c \in Calls, ReserveNew(c) PROVE StageTyped'
  BY <1>8, Types DEF ReserveNew, Reservable, Busy, StageTyped, Active
<1>9. ASSUME NEW c \in Calls, Launch(c) PROVE StageTyped'
  BY <1>9, Types DEF Launch, Finish, FinishOk, FinishError, Fault, UnchangedButFinish,
     StageTyped, Active
<1>10. ASSUME NEW c \in Calls, AttachWorker(c) PROVE StageTyped'
  BY <1>10, Types DEF AttachWorker, StageTyped, Active
<1>11. CASE Restart
  BY <1>11, Types DEF Restart, Reconciled, ReconciledConversations, CancelledApprovals,
     StageTyped, Active
<1>12. ASSUME UNCHANGED <<stage>> PROVE StageTyped'
  BY <1>12, Types DEF StageTyped, Active
<1>13. ASSUME NEW c \in Calls, Prepare(c) \/ Start(c) \/ PollApproval(c) \/ Claim(c) \/
   HostActions(c) \/ SaveReply(c) \/ Complete(c) \/ Fallback(c) PROVE StageTyped'
  BY <1>12, <1>13 DEF Prepare, Start, PollApproval, Claim, HostActions, SaveReply,
     Complete, Fallback, WorkerOnly, UnchangedButFinish
<1>14. ASSUME NEW c \in Calls, End(c) \/ RequestApproval(c) \/ CodexFails(c) \/
   CodexReturns(c) \/ Cancel(c) \/ RecoverRun(c) PROVE StageTyped'
  BY <1>12, <1>14 DEF End, RequestApproval, CodexFails, CodexReturns, Cancel,
     RecoverRun, WorkerOnly, UnchangedButFinish
<1>15. CASE DeleteLog \/ DeleteRow \/ Shutdown \/ Exit \/ Crash \/ Recovered \/
   UNCHANGED vars
  BY <1>12, <1>15 DEF DeleteLog, DeleteRow, Shutdown, Exit, Crash, Recovered
<1>16. ASSUME NEW c \in Calls, NEW status \in {"approved", "denied"}, Answer(c, status)
   PROVE StageTyped'
  BY <1>12, <1>16 DEF Answer
<1>17. ASSUME NEW k \in Conversations, DeleteBegin(k) PROVE StageTyped'
  BY <1>12, <1>17 DEF DeleteBegin
<1> QED
  BY <1>1, <1>2, <1>3, <1>4, <1>5, <1>6, <1>7, <1>8, <1>9, <1>10, <1>11, <1>13, <1>14,
     <1>15, <1>16, <1>17 DEF Next, StartTurn, WorkerStep

\* The threads.
LEMMA WorkTypedStep ==
    ASSUME IInv, [Next]_vars
    PROVE  WorkTyped'
<1>1. ASSUME NEW c \in Calls, Launch(c) PROVE WorkTyped'
  BY <1>1, Types DEF Launch, Finish, FinishOk, FinishError, Fault, UnchangedButFinish,
     WorkTyped
<1>2. ASSUME NEW c \in Calls, Prepare(c) PROVE WorkTyped'
  BY <1>2, Types DEF Prepare, Unavailable, ErrorState, EndWith, Finish, FinishOk,
     FinishError, Fault, MarkRunning, WorkerOnly, UnchangedButFinish, WorkTyped
<1>3. ASSUME NEW c \in Calls, Start(c) PROVE WorkTyped'
  BY <1>3, Types DEF Start, EndWith, Finish, FinishOk, FinishError, Fault, WorkerOnly,
     UnchangedButFinish, WorkTyped
<1>4. ASSUME NEW c \in Calls, PollApproval(c) PROVE WorkTyped'
  BY <1>4, Types DEF PollApproval, Resolve, Fault, WorkerOnly, UnchangedButFinish,
     WorkTyped
<1>5. ASSUME NEW c \in Calls, Claim(c) PROVE WorkTyped'
  BY <1>5, Types DEF Claim, EndWith, Finish, FinishOk, FinishError, Fault, WorkerOnly,
     UnchangedButFinish, WorkTyped
<1>6. ASSUME NEW c \in Calls, HostActions(c) PROVE WorkTyped'
  BY <1>6, Types DEF HostActions, Fault, WorkTyped
<1>7. ASSUME NEW c \in Calls, SaveReply(c) PROVE WorkTyped'
  BY <1>7, Types DEF SaveReply, Fault, WorkTyped
<1>8. ASSUME NEW c \in Calls, Complete(c) PROVE WorkTyped'
  BY <1>8, Types DEF Complete, FinishOk, FinishError, Fault, WorkerOnly,
     UnchangedButFinish, WorkTyped
<1>9. ASSUME NEW c \in Calls, Fallback(c) PROVE WorkTyped'
  BY <1>9, Types DEF Fallback, EndWith, Finish, FinishOk, FinishError, Fault,
     WorkerOnly, UnchangedButFinish, WorkTyped
<1>10. ASSUME NEW c \in Calls, End(c) PROVE WorkTyped'
  BY <1>10, Types DEF End, WorkTyped
<1>11. ASSUME NEW c \in Calls, RequestApproval(c) PROVE WorkTyped'
  BY <1>11, Types DEF RequestApproval, WorkerOnly, UnchangedButFinish, WorkTyped
<1>12. ASSUME NEW c \in Calls, CodexFails(c) PROVE WorkTyped'
  BY <1>12, Types DEF CodexFails, ErrorState, EndWith, Finish, FinishOk, FinishError,
     Fault, WorkerOnly, UnchangedButFinish, WorkTyped
<1>13. ASSUME NEW c \in Calls, CodexReturns(c) PROVE WorkTyped'
  BY <1>13, Types DEF CodexReturns, WorkerOnly, UnchangedButFinish, WorkTyped
<1>14. CASE Restart
  BY <1>14, Types DEF Restart, Reconciled, ReconciledConversations, CancelledApprovals,
     WorkTyped
<1>15. ASSUME UNCHANGED <<work>> PROVE WorkTyped'
  BY <1>15, Types DEF WorkTyped
<1>16. ASSUME NEW c \in Calls, Ask(c) \/ OpenConversation(c) \/ AppendUserMessage(c) \/
   LocalReply(c) \/ LogRun(c) \/ CreateRun(c) \/ StoreResponse(c) \/ ReserveNew(c) PROVE
   WorkTyped'
  BY <1>15, <1>16 DEF Ask, OpenConversation, AppendUserMessage, LocalReply, LogRun,
     CreateRun, StoreResponse, ReserveNew
<1>17. ASSUME NEW c \in Calls, AttachWorker(c) \/ Cancel(c) \/ RecoverRun(c) PROVE
   WorkTyped'
  BY <1>15, <1>17 DEF AttachWorker, Cancel, RecoverRun
<1>18. CASE DeleteLog \/ DeleteRow \/ Shutdown \/ Exit \/ Crash \/ Recovered \/
   UNCHANGED vars
  BY <1>15, <1>18 DEF DeleteLog, DeleteRow, Shutdown, Exit, Crash, Recovered
<1>19. ASSUME NEW c \in Calls, NEW status \in {"approved", "denied"}, Answer(c, status)
   PROVE WorkTyped'
  BY <1>15, <1>19 DEF Answer
<1>20. ASSUME NEW k \in Conversations, DeleteBegin(k) PROVE WorkTyped'
  BY <1>15, <1>20 DEF DeleteBegin
<1> QED
  BY <1>1, <1>2, <1>3, <1>4, <1>5, <1>6, <1>7, <1>8, <1>9, <1>10, <1>11, <1>12, <1>13,
     <1>14, <1>16, <1>17, <1>18, <1>19, <1>20 DEF Next, StartTurn, WorkerStep

\* The logs.
LEMMA LogTypedStep ==
    ASSUME IInv, [Next]_vars
    PROVE  LogTyped'
<1>1. ASSUME NEW c \in Calls, Launch(c) PROVE LogTyped'
  BY <1>1, Types, Appended DEF Launch, Finish, FinishOk, FinishError, Fault,
     UnchangedButFinish, LogTyped
<1>2. ASSUME NEW c \in Calls, Prepare(c) PROVE LogTyped'
  BY <1>2, Types, Appended DEF Prepare, Unavailable, ErrorState, EndWith, Finish,
     FinishOk, FinishError, Fault, MarkRunning, WorkerOnly, UnchangedButFinish, LogTyped
<1>3. ASSUME NEW c \in Calls, Start(c) PROVE LogTyped'
  BY <1>3, Types, Appended DEF Start, EndWith, Finish, FinishOk, FinishError, Fault,
     WorkerOnly, UnchangedButFinish, LogTyped
<1>4. ASSUME NEW c \in Calls, Claim(c) PROVE LogTyped'
  BY <1>4, Types, Appended DEF Claim, EndWith, Finish, FinishOk, FinishError, Fault,
     WorkerOnly, UnchangedButFinish, LogTyped
<1>5. ASSUME NEW c \in Calls, Complete(c) PROVE LogTyped'
  BY <1>5, Types, Appended DEF Complete, FinishOk, FinishError, Fault, WorkerOnly,
     UnchangedButFinish, LogTyped
<1>6. ASSUME NEW c \in Calls, Fallback(c) PROVE LogTyped'
  BY <1>6, Types, Appended DEF Fallback, EndWith, Finish, FinishOk, FinishError, Fault,
     WorkerOnly, UnchangedButFinish, LogTyped
<1>7. ASSUME NEW c \in Calls, CodexFails(c) PROVE LogTyped'
  BY <1>7, Types, Appended DEF CodexFails, ErrorState, EndWith, Finish, FinishOk,
     FinishError, Fault, WorkerOnly, UnchangedButFinish, LogTyped
<1>8. ASSUME NEW c \in Calls, RecoverRun(c) PROVE LogTyped'
  BY <1>8, Types, Appended DEF RecoverRun, FinishOk, FinishError, Fault, LogTyped
<1>9. ASSUME UNCHANGED <<runLog>> PROVE LogTyped'
  BY <1>9, Types, Appended DEF LogTyped
<1>10. ASSUME NEW c \in Calls, Ask(c) \/ OpenConversation(c) \/ AppendUserMessage(c) \/
   LocalReply(c) \/ LogRun(c) \/ CreateRun(c) \/ StoreResponse(c) \/ ReserveNew(c) PROVE
   LogTyped'
  BY <1>9, <1>10 DEF Ask, OpenConversation, AppendUserMessage, LocalReply, LogRun,
     CreateRun, StoreResponse, ReserveNew
<1>11. ASSUME NEW c \in Calls, AttachWorker(c) \/ PollApproval(c) \/ HostActions(c) \/
   SaveReply(c) \/ End(c) \/ RequestApproval(c) \/ CodexReturns(c) \/ Cancel(c) PROVE
   LogTyped'
  BY <1>9, <1>11 DEF AttachWorker, PollApproval, HostActions, SaveReply, End,
     RequestApproval, CodexReturns, Cancel, WorkerOnly, UnchangedButFinish
<1>12. CASE DeleteLog \/ DeleteRow \/ Shutdown \/ Exit \/ Crash \/ Restart \/ Recovered
   \/ UNCHANGED vars
  BY <1>9, <1>12 DEF DeleteLog, DeleteRow, Shutdown, Exit, Crash, Restart, Recovered
<1>13. ASSUME NEW c \in Calls, NEW status \in {"approved", "denied"}, Answer(c, status)
   PROVE LogTyped'
  BY <1>9, <1>13 DEF Answer
<1>14. ASSUME NEW k \in Conversations, DeleteBegin(k) PROVE LogTyped'
  BY <1>9, <1>14 DEF DeleteBegin
<1> QED
  BY <1>1, <1>2, <1>3, <1>4, <1>5, <1>6, <1>7, <1>8, <1>10, <1>11, <1>12, <1>13, <1>14
     DEF Next, StartTurn, WorkerStep

\* The rows.
LEMMA RowTypedStep ==
    ASSUME IInv, [Next]_vars
    PROVE  RowTyped'
<1>1. ASSUME NEW c \in Calls, CreateRun(c) PROVE RowTyped'
  BY <1>1, Types DEF CreateRun, Abort, RowTyped, Open, Final
<1>2. ASSUME NEW c \in Calls, Launch(c) PROVE RowTyped'
  BY <1>2, Types DEF Launch, Finish, FinishOk, FinishError, Fault, UnchangedButFinish,
     RowTyped, Open, Final
<1>3. ASSUME NEW c \in Calls, Prepare(c) PROVE RowTyped'
  BY <1>3, Types DEF Prepare, Unavailable, ErrorState, EndWith, Finish, FinishOk,
     FinishError, Fault, MarkRunning, WorkerOnly, UnchangedButFinish, RowTyped, Open,
     Final
<1>4. ASSUME NEW c \in Calls, Start(c) PROVE RowTyped'
  BY <1>4, Types DEF Start, EndWith, Finish, FinishOk, FinishError, Fault, WorkerOnly,
     UnchangedButFinish, RowTyped, Open, Final
<1>5. ASSUME NEW c \in Calls, Claim(c) PROVE RowTyped'
  BY <1>5, Types DEF Claim, EndWith, Finish, FinishOk, FinishError, Fault, WorkerOnly,
     UnchangedButFinish, RowTyped, Open, Final
<1>6. ASSUME NEW c \in Calls, Complete(c) PROVE RowTyped'
  BY <1>6, Types DEF Complete, FinishOk, FinishError, Fault, WorkerOnly,
     UnchangedButFinish, RowTyped, Open, Final
<1>7. ASSUME NEW c \in Calls, Fallback(c) PROVE RowTyped'
  BY <1>7, Types DEF Fallback, EndWith, Finish, FinishOk, FinishError, Fault,
     WorkerOnly, UnchangedButFinish, RowTyped, Open, Final
<1>8. ASSUME NEW c \in Calls, CodexFails(c) PROVE RowTyped'
  BY <1>8, Types DEF CodexFails, ErrorState, EndWith, Finish, FinishOk, FinishError,
     Fault, WorkerOnly, UnchangedButFinish, RowTyped, Open, Final
<1>9. ASSUME NEW c \in Calls, RecoverRun(c) PROVE RowTyped'
  BY <1>9, Types DEF RecoverRun, FinishOk, FinishError, Fault, RowTyped, Open, Final
<1>10. CASE DeleteRow
  BY <1>10, Types DEF DeleteRow, Fault, RowTyped, Open, Final
<1>11. CASE Restart
  BY <1>11, Types, Appended DEF Restart, Reconciled, ReconciledConversations,
     CancelledApprovals, RowTyped, Open, Final
<1>12. ASSUME UNCHANGED <<db>> PROVE RowTyped'
  BY <1>12, Types DEF RowTyped, Open, Final
<1>13. ASSUME NEW c \in Calls, Ask(c) \/ OpenConversation(c) \/ AppendUserMessage(c) \/
   LocalReply(c) \/ LogRun(c) \/ StoreResponse(c) \/ ReserveNew(c) \/ AttachWorker(c)
   PROVE RowTyped'
  BY <1>12, <1>13 DEF Ask, OpenConversation, AppendUserMessage, LocalReply, LogRun,
     StoreResponse, ReserveNew, AttachWorker
<1>14. ASSUME NEW c \in Calls, PollApproval(c) \/ HostActions(c) \/ SaveReply(c) \/
   End(c) \/ RequestApproval(c) \/ CodexReturns(c) \/ Cancel(c) PROVE RowTyped'
  BY <1>12, <1>14 DEF PollApproval, HostActions, SaveReply, End, RequestApproval,
     CodexReturns, Cancel, WorkerOnly, UnchangedButFinish
<1>15. CASE DeleteLog \/ Shutdown \/ Exit \/ Crash \/ Recovered \/ UNCHANGED vars
  BY <1>12, <1>15 DEF DeleteLog, Shutdown, Exit, Crash, Recovered
<1>16. ASSUME NEW c \in Calls, NEW status \in {"approved", "denied"}, Answer(c, status)
   PROVE RowTyped'
  BY <1>12, <1>16 DEF Answer
<1>17. ASSUME NEW k \in Conversations, DeleteBegin(k) PROVE RowTyped'
  BY <1>12, <1>17 DEF DeleteBegin
<1> QED
  BY <1>1, <1>2, <1>3, <1>4, <1>5, <1>6, <1>7, <1>8, <1>9, <1>10, <1>11, <1>13, <1>14,
     <1>15, <1>16, <1>17 DEF Next, StartTurn, WorkerStep

\* The conversations of the calls.
LEMMA ConvTypedStep ==
    ASSUME IInv, [Next]_vars
    PROVE  ConvTyped'
<1>1. ASSUME NEW c \in Calls, OpenConversation(c) PROVE ConvTyped'
  BY <1>1, Types DEF OpenConversation, Abort, Fault, ConvTyped, IndexTyped
<1>2. ASSUME UNCHANGED <<conv>> PROVE ConvTyped'
  BY <1>2, Types DEF ConvTyped, IndexTyped
<1>3. ASSUME NEW c \in Calls, Ask(c) \/ AppendUserMessage(c) \/ LocalReply(c) \/
   LogRun(c) \/ CreateRun(c) \/ StoreResponse(c) \/ ReserveNew(c) \/ Launch(c) PROVE
   ConvTyped'
  BY <1>2, <1>3 DEF Ask, AppendUserMessage, LocalReply, LogRun, CreateRun,
     StoreResponse, ReserveNew, Launch, UnchangedButFinish
<1>4. ASSUME NEW c \in Calls, AttachWorker(c) \/ Prepare(c) \/ Start(c) \/
   PollApproval(c) \/ Claim(c) \/ HostActions(c) \/ SaveReply(c) \/ Complete(c) PROVE
   ConvTyped'
  BY <1>2, <1>4 DEF AttachWorker, Prepare, Start, PollApproval, Claim, HostActions,
     SaveReply, Complete, WorkerOnly, UnchangedButFinish
<1>5. ASSUME NEW c \in Calls, Fallback(c) \/ End(c) \/ RequestApproval(c) \/
   CodexFails(c) \/ CodexReturns(c) \/ Cancel(c) \/ RecoverRun(c) PROVE ConvTyped'
  BY <1>2, <1>5 DEF Fallback, End, RequestApproval, CodexFails, CodexReturns, Cancel,
     RecoverRun, WorkerOnly, UnchangedButFinish
<1>6. CASE DeleteLog \/ DeleteRow \/ Shutdown \/ Exit \/ Crash \/ Restart \/ Recovered
   \/ UNCHANGED vars
  BY <1>2, <1>6 DEF DeleteLog, DeleteRow, Shutdown, Exit, Crash, Restart, Recovered
<1>7. ASSUME NEW c \in Calls, NEW status \in {"approved", "denied"}, Answer(c, status)
   PROVE ConvTyped'
  BY <1>2, <1>7 DEF Answer
<1>8. ASSUME NEW k \in Conversations, DeleteBegin(k) PROVE ConvTyped'
  BY <1>2, <1>8 DEF DeleteBegin
<1> QED
  BY <1>1, <1>3, <1>4, <1>5, <1>6, <1>7, <1>8 DEF Next, StartTurn, WorkerStep

\* The tokens.
LEMMA TokenTypedStep ==
    ASSUME IInv, [Next]_vars
    PROVE  TokenTyped'
<1>1. ASSUME NEW c \in Calls, Prepare(c) PROVE TokenTyped'
  BY <1>1, Types DEF Prepare, Unavailable, ErrorState, EndWith, Finish, FinishOk,
     FinishError, Fault, MarkRunning, WorkerOnly, UnchangedButFinish, TokenTyped
<1>2. ASSUME NEW c \in Calls, Claim(c) PROVE TokenTyped'
  BY <1>2, Types DEF Claim, EndWith, Finish, FinishOk, FinishError, Fault, WorkerOnly,
     UnchangedButFinish, TokenTyped
<1>3. ASSUME NEW c \in Calls, CodexFails(c) PROVE TokenTyped'
  BY <1>3, Types DEF CodexFails, ErrorState, EndWith, Finish, FinishOk, FinishError,
     Fault, WorkerOnly, UnchangedButFinish, TokenTyped
<1>4. ASSUME NEW c \in Calls, Cancel(c) PROVE TokenTyped'
  BY <1>4, Types DEF Cancel, TokenTyped
<1>5. CASE Shutdown
  BY <1>5, Types DEF Shutdown, TokenTyped
<1>6. CASE Restart
  BY <1>6, Types DEF Restart, Reconciled, ReconciledConversations, CancelledApprovals,
     TokenTyped
<1>7. ASSUME UNCHANGED <<token>> PROVE TokenTyped'
  BY <1>7, Types DEF TokenTyped
<1>8. ASSUME NEW c \in Calls, Ask(c) \/ OpenConversation(c) \/ AppendUserMessage(c) \/
   LocalReply(c) \/ LogRun(c) \/ CreateRun(c) \/ StoreResponse(c) \/ ReserveNew(c) PROVE
   TokenTyped'
  BY <1>7, <1>8 DEF Ask, OpenConversation, AppendUserMessage, LocalReply, LogRun,
     CreateRun, StoreResponse, ReserveNew
<1>9. ASSUME NEW c \in Calls, Launch(c) \/ AttachWorker(c) \/ Start(c) \/
   PollApproval(c) \/ HostActions(c) \/ SaveReply(c) \/ Complete(c) \/ Fallback(c) PROVE
   TokenTyped'
  BY <1>7, <1>9 DEF Launch, AttachWorker, Start, PollApproval, HostActions, SaveReply,
     Complete, Fallback, WorkerOnly, UnchangedButFinish
<1>10. ASSUME NEW c \in Calls, End(c) \/ RequestApproval(c) \/ CodexReturns(c) \/
   RecoverRun(c) PROVE TokenTyped'
  BY <1>7, <1>10 DEF End, RequestApproval, CodexReturns, RecoverRun, WorkerOnly,
     UnchangedButFinish
<1>11. CASE DeleteLog \/ DeleteRow \/ Exit \/ Crash \/ Recovered \/ UNCHANGED vars
  BY <1>7, <1>11 DEF DeleteLog, DeleteRow, Exit, Crash, Recovered
<1>12. ASSUME NEW c \in Calls, NEW status \in {"approved", "denied"}, Answer(c, status)
   PROVE TokenTyped'
  BY <1>7, <1>12 DEF Answer
<1>13. ASSUME NEW k \in Conversations, DeleteBegin(k) PROVE TokenTyped'
  BY <1>7, <1>13 DEF DeleteBegin
<1> QED
  BY <1>1, <1>2, <1>3, <1>4, <1>5, <1>6, <1>8, <1>9, <1>10, <1>11, <1>12, <1>13 DEF
     Next, StartTurn, WorkerStep

\* The approvals.
LEMMA ApprovalTypedStep ==
    ASSUME IInv, [Next]_vars
    PROVE  ApprovalTyped'
<1>1. ASSUME NEW c \in Calls, PollApproval(c) PROVE ApprovalTyped'
  BY <1>1, Types DEF PollApproval, Resolve, Fault, WorkerOnly, UnchangedButFinish,
     ApprovalTyped
<1>2. ASSUME NEW c \in Calls, RequestApproval(c) PROVE ApprovalTyped'
  BY <1>2, Types DEF RequestApproval, WorkerOnly, UnchangedButFinish, ApprovalTyped
<1>3. ASSUME NEW c \in Calls, NEW status \in {"approved", "denied"}, Answer(c, status)
   PROVE ApprovalTyped'
  BY <1>3, Types DEF Answer, ApprovalTyped
<1>4. CASE Restart
  BY <1>4, Types DEF Restart, Reconciled, ReconciledConversations, CancelledApprovals,
     ApprovalTyped
<1>5. ASSUME UNCHANGED <<appr>> PROVE ApprovalTyped'
  BY <1>5, Types DEF ApprovalTyped
<1>6. ASSUME NEW c \in Calls, Ask(c) \/ OpenConversation(c) \/ AppendUserMessage(c) \/
   LocalReply(c) \/ LogRun(c) \/ CreateRun(c) \/ StoreResponse(c) \/ ReserveNew(c) PROVE
   ApprovalTyped'
  BY <1>5, <1>6 DEF Ask, OpenConversation, AppendUserMessage, LocalReply, LogRun,
     CreateRun, StoreResponse, ReserveNew
<1>7. ASSUME NEW c \in Calls, Launch(c) \/ AttachWorker(c) \/ Prepare(c) \/ Start(c) \/
   Claim(c) \/ HostActions(c) \/ SaveReply(c) \/ Complete(c) PROVE ApprovalTyped'
  BY <1>5, <1>7 DEF Launch, AttachWorker, Prepare, Start, Claim, HostActions, SaveReply,
     Complete, WorkerOnly, UnchangedButFinish
<1>8. ASSUME NEW c \in Calls, Fallback(c) \/ End(c) \/ CodexFails(c) \/ CodexReturns(c)
   \/ Cancel(c) \/ RecoverRun(c) PROVE ApprovalTyped'
  BY <1>5, <1>8 DEF Fallback, End, CodexFails, CodexReturns, Cancel, RecoverRun,
     WorkerOnly, UnchangedButFinish
<1>9. CASE DeleteLog \/ DeleteRow \/ Shutdown \/ Exit \/ Crash \/ Recovered \/ UNCHANGED
   vars
  BY <1>5, <1>9 DEF DeleteLog, DeleteRow, Shutdown, Exit, Crash, Recovered
<1>10. ASSUME NEW k \in Conversations, DeleteBegin(k) PROVE ApprovalTyped'
  BY <1>5, <1>10 DEF DeleteBegin
<1> QED
  BY <1>1, <1>2, <1>3, <1>4, <1>6, <1>7, <1>8, <1>9, <1>10 DEF Next, StartTurn,
     WorkerStep

\* The responses.
LEMMA AnswersTypedStep ==
    ASSUME IInv, [Next]_vars
    PROVE  AnswersTyped'
<1>1. ASSUME NEW c \in Calls, StoreResponse(c) PROVE AnswersTyped'
  BY <1>1, Types, BuddyAssumption DEF StoreResponse, Abort, AnswersTyped
<1>2. CASE DeleteRow
  BY <1>2, Types, BuddyAssumption DEF DeleteRow, Fault, AnswersTyped
<1>3. CASE Restart
  BY <1>3, Types, BuddyAssumption DEF Restart, Reconciled, ReconciledConversations,
     CancelledApprovals, AnswersTyped
<1>4. ASSUME UNCHANGED <<answers>> PROVE AnswersTyped'
  BY <1>4, Types, BuddyAssumption DEF AnswersTyped
<1>5. ASSUME NEW c \in Calls, Ask(c) \/ OpenConversation(c) \/ AppendUserMessage(c) \/
   LocalReply(c) \/ LogRun(c) \/ CreateRun(c) \/ ReserveNew(c) \/ Launch(c) PROVE
   AnswersTyped'
  BY <1>4, <1>5 DEF Ask, OpenConversation, AppendUserMessage, LocalReply, LogRun,
     CreateRun, ReserveNew, Launch, UnchangedButFinish
<1>6. ASSUME NEW c \in Calls, AttachWorker(c) \/ Prepare(c) \/ Start(c) \/
   PollApproval(c) \/ Claim(c) \/ HostActions(c) \/ SaveReply(c) \/ Complete(c) PROVE
   AnswersTyped'
  BY <1>4, <1>6 DEF AttachWorker, Prepare, Start, PollApproval, Claim, HostActions,
     SaveReply, Complete, WorkerOnly, UnchangedButFinish
<1>7. ASSUME NEW c \in Calls, Fallback(c) \/ End(c) \/ RequestApproval(c) \/
   CodexFails(c) \/ CodexReturns(c) \/ Cancel(c) \/ RecoverRun(c) PROVE AnswersTyped'
  BY <1>4, <1>7 DEF Fallback, End, RequestApproval, CodexFails, CodexReturns, Cancel,
     RecoverRun, WorkerOnly, UnchangedButFinish
<1>8. CASE DeleteLog \/ Shutdown \/ Exit \/ Crash \/ Recovered \/ UNCHANGED vars
  BY <1>4, <1>8 DEF DeleteLog, Shutdown, Exit, Crash, Recovered
<1>9. ASSUME NEW c \in Calls, NEW status \in {"approved", "denied"}, Answer(c, status)
   PROVE AnswersTyped'
  BY <1>4, <1>9 DEF Answer
<1>10. ASSUME NEW k \in Conversations, DeleteBegin(k) PROVE AnswersTyped'
  BY <1>4, <1>10 DEF DeleteBegin
<1> QED
  BY <1>1, <1>2, <1>3, <1>5, <1>6, <1>7, <1>8, <1>9, <1>10 DEF Next, StartTurn,
     WorkerStep

\* The deletion.
LEMMA DeletingTypedStep ==
    ASSUME IInv, [Next]_vars
    PROVE  DeletingTyped'
<1>1. ASSUME NEW k \in Conversations, DeleteBegin(k) PROVE DeletingTyped'
  BY <1>1, Types DEF DeleteBegin, Reservable, Busy, DeletingTyped, NoDelete
<1>2. CASE DeleteLog
  BY <1>2, Types DEF DeleteLog, DeletingTyped, NoDelete
<1>3. CASE DeleteRow
  BY <1>3, Types DEF DeleteRow, Fault, DeletingTyped, NoDelete
<1>4. CASE Restart
  BY <1>4, Types DEF Restart, Reconciled, ReconciledConversations, CancelledApprovals,
     DeletingTyped, NoDelete
<1>5. ASSUME UNCHANGED <<deleting>> PROVE DeletingTyped'
  BY <1>5, Types DEF DeletingTyped, NoDelete
<1>6. ASSUME NEW c \in Calls, Ask(c) \/ OpenConversation(c) \/ AppendUserMessage(c) \/
   LocalReply(c) \/ LogRun(c) \/ CreateRun(c) \/ StoreResponse(c) \/ ReserveNew(c) PROVE
   DeletingTyped'
  BY <1>5, <1>6 DEF Ask, OpenConversation, AppendUserMessage, LocalReply, LogRun,
     CreateRun, StoreResponse, ReserveNew
<1>7. ASSUME NEW c \in Calls, Launch(c) \/ AttachWorker(c) \/ Prepare(c) \/ Start(c) \/
   PollApproval(c) \/ Claim(c) \/ HostActions(c) \/ SaveReply(c) PROVE DeletingTyped'
  BY <1>5, <1>7 DEF Launch, AttachWorker, Prepare, Start, PollApproval, Claim,
     HostActions, SaveReply, WorkerOnly, UnchangedButFinish
<1>8. ASSUME NEW c \in Calls, Complete(c) \/ Fallback(c) \/ End(c) \/ RequestApproval(c)
   \/ CodexFails(c) \/ CodexReturns(c) \/ Cancel(c) \/ RecoverRun(c) PROVE
   DeletingTyped'
  BY <1>5, <1>8 DEF Complete, Fallback, End, RequestApproval, CodexFails, CodexReturns,
     Cancel, RecoverRun, WorkerOnly, UnchangedButFinish
<1>9. CASE Shutdown \/ Exit \/ Crash \/ Recovered \/ UNCHANGED vars
  BY <1>5, <1>9 DEF Shutdown, Exit, Crash, Recovered
<1>10. ASSUME NEW c \in Calls, NEW status \in {"approved", "denied"}, Answer(c, status)
   PROVE DeletingTyped'
  BY <1>5, <1>10 DEF Answer
<1> QED
  BY <1>1, <1>2, <1>3, <1>4, <1>6, <1>7, <1>8, <1>9, <1>10 DEF Next, StartTurn,
     WorkerStep

\* The index and the rows of the conversations.
LEMMA IndexTypedStep ==
    ASSUME IInv, [Next]_vars
    PROVE  IndexTyped'
<1>0. Deletions
  BY DEF IInv
<1>1. ASSUME NEW c \in Calls, OpenConversation(c) PROVE IndexTyped'
  BY <1>1, <1>0, Types DEF OpenConversation, Abort, Fault, IndexTyped
<1>2. CASE DeleteLog
  BY <1>2, <1>0, Types, BuddyAssumption DEF DeleteLog, IndexTyped, Deletions
<1>3. CASE DeleteRow
  BY <1>3, <1>0, Types DEF DeleteRow, Fault, IndexTyped
<1>4. CASE Restart
  BY <1>4, <1>0, Types DEF Restart, Reconciled, ReconciledConversations,
     CancelledApprovals, IndexTyped
<1>5. ASSUME UNCHANGED <<tombs, convs, convLog>> PROVE IndexTyped'
  BY <1>5, <1>0, Types DEF IndexTyped
<1>6. ASSUME NEW c \in Calls, Ask(c) \/ AppendUserMessage(c) \/ LocalReply(c) \/
   LogRun(c) \/ CreateRun(c) \/ StoreResponse(c) \/ ReserveNew(c) \/ Launch(c) PROVE
   IndexTyped'
  BY <1>5, <1>6 DEF Ask, AppendUserMessage, LocalReply, LogRun, CreateRun,
     StoreResponse, ReserveNew, Launch, UnchangedButFinish
<1>7. ASSUME NEW c \in Calls, AttachWorker(c) \/ Prepare(c) \/ Start(c) \/
   PollApproval(c) \/ Claim(c) \/ HostActions(c) \/ SaveReply(c) \/ Complete(c) PROVE
   IndexTyped'
  BY <1>5, <1>7 DEF AttachWorker, Prepare, Start, PollApproval, Claim, HostActions,
     SaveReply, Complete, WorkerOnly, UnchangedButFinish
<1>8. ASSUME NEW c \in Calls, Fallback(c) \/ End(c) \/ RequestApproval(c) \/
   CodexFails(c) \/ CodexReturns(c) \/ Cancel(c) \/ RecoverRun(c) PROVE IndexTyped'
  BY <1>5, <1>8 DEF Fallback, End, RequestApproval, CodexFails, CodexReturns, Cancel,
     RecoverRun, WorkerOnly, UnchangedButFinish
<1>9. CASE Shutdown \/ Exit \/ Crash \/ Recovered \/ UNCHANGED vars
  BY <1>5, <1>9 DEF Shutdown, Exit, Crash, Recovered
<1>10. ASSUME NEW c \in Calls, NEW status \in {"approved", "denied"}, Answer(c, status)
   PROVE IndexTyped'
  BY <1>5, <1>10 DEF Answer
<1>11. ASSUME NEW k \in Conversations, DeleteBegin(k) PROVE IndexTyped'
  BY <1>5, <1>11 DEF DeleteBegin
<1> QED
  BY <1>1, <1>2, <1>3, <1>4, <1>6, <1>7, <1>8, <1>9, <1>10, <1>11 DEF Next, StartTurn,
     WorkerStep

\* The messages and logs.
LEMMA MessagesTypedStep ==
    ASSUME IInv, [Next]_vars
    PROVE  MessagesTyped'
<1>0. \A c \in Calls : Placed(c) /\ Stored(c)
  BY DEF IInv
<1>1. ASSUME NEW c \in Calls, AppendUserMessage(c) PROVE MessagesTyped'
  BY <1>1, <1>0, Types DEF AppendUserMessage, Abort, Fault, MessagesTyped
<1>2. ASSUME NEW c \in Calls, LogRun(c) PROVE MessagesTyped'
  BY <1>2, <1>0, Types DEF LogRun, Abort, MessagesTyped, Placed
<1>3. ASSUME NEW c \in Calls, SaveReply(c) PROVE MessagesTyped'
  BY <1>3, <1>0, Types DEF SaveReply, Fault, MessagesTyped, Stored
<1>4. ASSUME UNCHANGED <<msgs, replies, logged>> PROVE MessagesTyped'
  BY <1>4, <1>0, Types DEF MessagesTyped
<1>5. ASSUME NEW c \in Calls, Ask(c) \/ OpenConversation(c) \/ LocalReply(c) \/
   CreateRun(c) \/ StoreResponse(c) \/ ReserveNew(c) \/ Launch(c) \/ AttachWorker(c)
   PROVE MessagesTyped'
  BY <1>4, <1>5 DEF Ask, OpenConversation, LocalReply, CreateRun, StoreResponse,
     ReserveNew, Launch, AttachWorker, UnchangedButFinish
<1>6. ASSUME NEW c \in Calls, Prepare(c) \/ Start(c) \/ PollApproval(c) \/ Claim(c) \/
   HostActions(c) \/ Complete(c) \/ Fallback(c) \/ End(c) PROVE MessagesTyped'
  BY <1>4, <1>6 DEF Prepare, Start, PollApproval, Claim, HostActions, Complete,
     Fallback, End, WorkerOnly, UnchangedButFinish
<1>7. ASSUME NEW c \in Calls, RequestApproval(c) \/ CodexFails(c) \/ CodexReturns(c) \/
   Cancel(c) \/ RecoverRun(c) PROVE MessagesTyped'
  BY <1>4, <1>7 DEF RequestApproval, CodexFails, CodexReturns, Cancel, RecoverRun,
     WorkerOnly, UnchangedButFinish
<1>8. CASE DeleteLog \/ DeleteRow \/ Shutdown \/ Exit \/ Crash \/ Restart \/ Recovered
   \/ UNCHANGED vars
  BY <1>4, <1>8 DEF DeleteLog, DeleteRow, Shutdown, Exit, Crash, Restart, Recovered
<1>9. ASSUME NEW c \in Calls, NEW status \in {"approved", "denied"}, Answer(c, status)
   PROVE MessagesTyped'
  BY <1>4, <1>9 DEF Answer
<1>10. ASSUME NEW k \in Conversations, DeleteBegin(k) PROVE MessagesTyped'
  BY <1>4, <1>10 DEF DeleteBegin
<1> QED
  BY <1>1, <1>2, <1>3, <1>5, <1>6, <1>7, <1>8, <1>9, <1>10 DEF Next, StartTurn,
     WorkerStep

\* The registry.
LEMMA RegistryTypedStep ==
    ASSUME IInv, [Next]_vars
    PROVE  RegistryTyped'
<1>0. \A c \in Calls : Placed(c)
  BY DEF IInv
<1>1. ASSUME NEW c \in Calls, Ask(c) PROVE RegistryTyped'
  BY <1>1, <1>0, Types, BuddyAssumption DEF Ask, Reservable, Busy, RegistryTyped,
     IndexTyped, ConvTyped
<1>2. ASSUME NEW c \in Calls, OpenConversation(c) PROVE RegistryTyped'
  BY <1>2, <1>0, Types, BuddyAssumption DEF OpenConversation, Abort, Fault,
     RegistryTyped, IndexTyped, ConvTyped
<1>3. ASSUME NEW c \in Calls, AppendUserMessage(c) PROVE RegistryTyped'
  BY <1>3, <1>0, Types, BuddyAssumption DEF AppendUserMessage, Abort, Fault,
     RegistryTyped, IndexTyped, ConvTyped
<1>4. ASSUME NEW c \in Calls, LogRun(c) PROVE RegistryTyped'
  BY <1>4, <1>0, Types, BuddyAssumption DEF LogRun, Abort, RegistryTyped, IndexTyped,
     ConvTyped
<1>5. ASSUME NEW c \in Calls, CreateRun(c) PROVE RegistryTyped'
  BY <1>5, <1>0, Types, BuddyAssumption DEF CreateRun, Abort, RegistryTyped, IndexTyped,
     ConvTyped
<1>6. ASSUME NEW c \in Calls, StoreResponse(c) PROVE RegistryTyped'
  BY <1>6, <1>0, Types, BuddyAssumption DEF StoreResponse, Abort, RegistryTyped,
     IndexTyped, ConvTyped
<1>7. ASSUME NEW c \in Calls, ReserveNew(c) PROVE RegistryTyped'
  BY <1>7, <1>0, Types, BuddyAssumption DEF ReserveNew, Reservable, Busy, RegistryTyped,
     IndexTyped, ConvTyped, Placed
<1>8. ASSUME NEW c \in Calls, Launch(c) PROVE RegistryTyped'
  BY <1>8, <1>0, Types, BuddyAssumption DEF Launch, Finish, FinishOk, FinishError,
     Fault, UnchangedButFinish, RegistryTyped, IndexTyped, ConvTyped
<1>9. ASSUME NEW c \in Calls, AttachWorker(c) PROVE RegistryTyped'
  BY <1>9, <1>0, Types, BuddyAssumption DEF AttachWorker, RegistryTyped, IndexTyped,
     ConvTyped
<1>10. ASSUME NEW c \in Calls, End(c) PROVE RegistryTyped'
  BY <1>10, <1>0, Types, BuddyAssumption DEF End, RegistryTyped, IndexTyped, ConvTyped
<1>11. ASSUME NEW k \in Conversations, DeleteBegin(k) PROVE RegistryTyped'
  BY <1>11, <1>0, Types, BuddyAssumption DEF DeleteBegin, Reservable, Busy,
     RegistryTyped, IndexTyped, ConvTyped
<1>12. CASE DeleteRow
  BY <1>12, <1>0, Types, BuddyAssumption DEF DeleteRow, Fault, RegistryTyped,
     IndexTyped, ConvTyped
<1>13. CASE Shutdown
  BY <1>13, <1>0, Types, BuddyAssumption DEF Shutdown, RegistryTyped, IndexTyped,
     ConvTyped
<1>14. CASE Restart
  BY <1>14, <1>0, Types, BuddyAssumption DEF Restart, Reconciled,
     ReconciledConversations, CancelledApprovals, RegistryTyped, IndexTyped, ConvTyped
<1>15. ASSUME UNCHANGED <<reserved, workers, attached, joining>> PROVE RegistryTyped'
  BY <1>15, <1>0, Types, BuddyAssumption DEF RegistryTyped, IndexTyped, ConvTyped
<1>16. ASSUME NEW c \in Calls, LocalReply(c) \/ Prepare(c) \/ Start(c) \/
   PollApproval(c) \/ Claim(c) \/ HostActions(c) \/ SaveReply(c) \/ Complete(c) PROVE
   RegistryTyped'
  BY <1>15, <1>16 DEF LocalReply, Prepare, Start, PollApproval, Claim, HostActions,
     SaveReply, Complete, WorkerOnly, UnchangedButFinish
<1>17. ASSUME NEW c \in Calls, Fallback(c) \/ RequestApproval(c) \/ CodexFails(c) \/
   CodexReturns(c) \/ Cancel(c) \/ RecoverRun(c) PROVE RegistryTyped'
  BY <1>15, <1>17 DEF Fallback, RequestApproval, CodexFails, CodexReturns, Cancel,
     RecoverRun, WorkerOnly, UnchangedButFinish
<1>18. CASE DeleteLog \/ Exit \/ Crash \/ Recovered \/ UNCHANGED vars
  BY <1>15, <1>18 DEF DeleteLog, Exit, Crash, Recovered
<1>19. ASSUME NEW c \in Calls, NEW status \in {"approved", "denied"}, Answer(c, status)
   PROVE RegistryTyped'
  BY <1>15, <1>19 DEF Answer
<1> QED
  BY <1>1, <1>2, <1>3, <1>4, <1>5, <1>6, <1>7, <1>8, <1>9, <1>10, <1>11, <1>12, <1>13,
     <1>14, <1>16, <1>17, <1>18, <1>19 DEF Next, StartTurn, WorkerStep

\* The auxiliary sets.
LEMMA GhostsTypedStep ==
    ASSUME IInv, [Next]_vars
    PROVE  GhostsTyped'
<1>0. Deletions
  BY DEF IInv
<1>1. ASSUME NEW c \in Calls, HostActions(c) PROVE GhostsTyped'
  BY <1>1, <1>0, Types DEF HostActions, Fault, GhostsTyped, IndexTyped
<1>2. ASSUME NEW c \in Calls, Cancel(c) PROVE GhostsTyped'
  BY <1>2, <1>0, Types DEF Cancel, GhostsTyped, IndexTyped
<1>3. CASE DeleteRow
  BY <1>3, <1>0, Types DEF DeleteRow, Fault, GhostsTyped, IndexTyped, Deletions
<1>4. ASSUME UNCHANGED <<hosted, accepted, deleted>> PROVE GhostsTyped'
  BY <1>4, <1>0, Types DEF GhostsTyped, IndexTyped
<1>5. ASSUME NEW c \in Calls, Ask(c) \/ OpenConversation(c) \/ AppendUserMessage(c) \/
   LocalReply(c) \/ LogRun(c) \/ CreateRun(c) \/ StoreResponse(c) \/ ReserveNew(c) PROVE
   GhostsTyped'
  BY <1>4, <1>5 DEF Ask, OpenConversation, AppendUserMessage, LocalReply, LogRun,
     CreateRun, StoreResponse, ReserveNew
<1>6. ASSUME NEW c \in Calls, Launch(c) \/ AttachWorker(c) \/ Prepare(c) \/ Start(c) \/
   PollApproval(c) \/ Claim(c) \/ SaveReply(c) \/ Complete(c) PROVE GhostsTyped'
  BY <1>4, <1>6 DEF Launch, AttachWorker, Prepare, Start, PollApproval, Claim,
     SaveReply, Complete, WorkerOnly, UnchangedButFinish
<1>7. ASSUME NEW c \in Calls, Fallback(c) \/ End(c) \/ RequestApproval(c) \/
   CodexFails(c) \/ CodexReturns(c) \/ RecoverRun(c) PROVE GhostsTyped'
  BY <1>4, <1>7 DEF Fallback, End, RequestApproval, CodexFails, CodexReturns,
     RecoverRun, WorkerOnly, UnchangedButFinish
<1>8. CASE DeleteLog \/ Shutdown \/ Exit \/ Crash \/ Restart \/ Recovered \/ UNCHANGED
   vars
  BY <1>4, <1>8 DEF DeleteLog, Shutdown, Exit, Crash, Restart, Recovered
<1>9. ASSUME NEW c \in Calls, NEW status \in {"approved", "denied"}, Answer(c, status)
   PROVE GhostsTyped'
  BY <1>4, <1>9 DEF Answer
<1>10. ASSUME NEW k \in Conversations, DeleteBegin(k) PROVE GhostsTyped'
  BY <1>4, <1>10 DEF DeleteBegin
<1> QED
  BY <1>1, <1>2, <1>3, <1>5, <1>6, <1>7, <1>8, <1>9, <1>10 DEF Next, StartTurn,
     WorkerStep

\* The bounds and the mode.
LEMMA BoundsTypedStep ==
    ASSUME IInv, [Next]_vars
    PROVE  BoundsTyped'
<1>1. ASSUME NEW c \in Calls, OpenConversation(c) PROVE BoundsTyped'
  BY <1>1, Types, BuddyAssumption DEF OpenConversation, Abort, Fault, BoundsTyped
<1>2. ASSUME NEW c \in Calls, AppendUserMessage(c) PROVE BoundsTyped'
  BY <1>2, Types, BuddyAssumption DEF AppendUserMessage, Abort, Fault, BoundsTyped
<1>3. ASSUME NEW c \in Calls, CreateRun(c) PROVE BoundsTyped'
  BY <1>3, Types, BuddyAssumption DEF CreateRun, Abort, BoundsTyped
<1>4. ASSUME NEW c \in Calls, StoreResponse(c) PROVE BoundsTyped'
  BY <1>4, Types, BuddyAssumption DEF StoreResponse, Abort, BoundsTyped
<1>5. ASSUME NEW c \in Calls, Launch(c) PROVE BoundsTyped'
  BY <1>5, Types, BuddyAssumption DEF Launch, Finish, FinishOk, FinishError, Fault,
     UnchangedButFinish, BoundsTyped
<1>6. ASSUME NEW c \in Calls, Prepare(c) PROVE BoundsTyped'
  BY <1>6, Types, BuddyAssumption DEF Prepare, Unavailable, ErrorState, EndWith, Finish,
     FinishOk, FinishError, Fault, MarkRunning, WorkerOnly, UnchangedButFinish,
     BoundsTyped
<1>7. ASSUME NEW c \in Calls, Start(c) PROVE BoundsTyped'
  BY <1>7, Types, BuddyAssumption DEF Start, EndWith, Finish, FinishOk, FinishError,
     Fault, WorkerOnly, UnchangedButFinish, BoundsTyped
<1>8. ASSUME NEW c \in Calls, PollApproval(c) PROVE BoundsTyped'
  BY <1>8, Types, BuddyAssumption DEF PollApproval, Resolve, Fault, WorkerOnly,
     UnchangedButFinish, BoundsTyped
<1>9. ASSUME NEW c \in Calls, Claim(c) PROVE BoundsTyped'
  BY <1>9, Types, BuddyAssumption DEF Claim, EndWith, Finish, FinishOk, FinishError,
     Fault, WorkerOnly, UnchangedButFinish, BoundsTyped
<1>10. ASSUME NEW c \in Calls, HostActions(c) PROVE BoundsTyped'
  BY <1>10, Types, BuddyAssumption DEF HostActions, Fault, BoundsTyped
<1>11. ASSUME NEW c \in Calls, SaveReply(c) PROVE BoundsTyped'
  BY <1>11, Types, BuddyAssumption DEF SaveReply, Fault, BoundsTyped
<1>12. ASSUME NEW c \in Calls, Complete(c) PROVE BoundsTyped'
  BY <1>12, Types, BuddyAssumption DEF Complete, FinishOk, FinishError, Fault,
     WorkerOnly, UnchangedButFinish, BoundsTyped
<1>13. ASSUME NEW c \in Calls, Fallback(c) PROVE BoundsTyped'
  BY <1>13, Types, BuddyAssumption DEF Fallback, EndWith, Finish, FinishOk, FinishError,
     Fault, WorkerOnly, UnchangedButFinish, BoundsTyped
<1>14. ASSUME NEW c \in Calls, CodexFails(c) PROVE BoundsTyped'
  BY <1>14, Types, BuddyAssumption DEF CodexFails, ErrorState, EndWith, Finish,
     FinishOk, FinishError, Fault, WorkerOnly, UnchangedButFinish, BoundsTyped
<1>15. ASSUME NEW c \in Calls, RecoverRun(c) PROVE BoundsTyped'
  BY <1>15, Types, BuddyAssumption DEF RecoverRun, FinishOk, FinishError, Fault,
     BoundsTyped
<1>16. CASE DeleteRow
  BY <1>16, Types, BuddyAssumption DEF DeleteRow, Fault, BoundsTyped
<1>17. CASE Shutdown
  BY <1>17, Types, BuddyAssumption DEF Shutdown, BoundsTyped
<1>18. CASE Exit
  BY <1>18, Types, BuddyAssumption DEF Exit, BoundsTyped
<1>19. CASE Crash
  BY <1>19, Types, BuddyAssumption DEF Crash, BoundsTyped
<1>20. CASE Restart
  BY <1>20, Types, BuddyAssumption DEF Restart, Reconciled, ReconciledConversations,
     CancelledApprovals, BoundsTyped
<1>21. CASE Recovered
  BY <1>21, Types, BuddyAssumption DEF Recovered, BoundsTyped
<1>22. ASSUME UNCHANGED <<faults, stops, mode>> PROVE BoundsTyped'
  BY <1>22, Types, BuddyAssumption DEF BoundsTyped
<1>23. ASSUME NEW c \in Calls, Ask(c) \/ LocalReply(c) \/ LogRun(c) \/ ReserveNew(c) \/
   AttachWorker(c) \/ End(c) \/ RequestApproval(c) \/ CodexReturns(c) PROVE BoundsTyped'
  BY <1>22, <1>23 DEF Ask, LocalReply, LogRun, ReserveNew, AttachWorker, End,
     RequestApproval, CodexReturns, WorkerOnly, UnchangedButFinish
<1>24. ASSUME NEW c \in Calls, Cancel(c) PROVE BoundsTyped'
  BY <1>22, <1>24 DEF Cancel
<1>25. CASE DeleteLog \/ UNCHANGED vars
  BY <1>22, <1>25 DEF DeleteLog
<1>26. ASSUME NEW c \in Calls, NEW status \in {"approved", "denied"}, Answer(c, status)
   PROVE BoundsTyped'
  BY <1>22, <1>26 DEF Answer
<1>27. ASSUME NEW k \in Conversations, DeleteBegin(k) PROVE BoundsTyped'
  BY <1>22, <1>27 DEF DeleteBegin
<1> QED
  BY <1>1, <1>2, <1>3, <1>4, <1>5, <1>6, <1>7, <1>8, <1>9, <1>10, <1>11, <1>12, <1>13,
     <1>14, <1>15, <1>16, <1>17, <1>18, <1>19, <1>20, <1>21, <1>23, <1>24, <1>25, <1>26,
     <1>27 DEF Next, StartTurn, WorkerStep

\* What the calls have stored.
LEMMA PlacedStep ==
    ASSUME IInv, [Next]_vars, NEW d \in Calls
    PROVE  Placed(d)'
<1>0. Registered /\ \A c \in Calls : Placed(c) /\ Stored(c)
  BY DEF IInv
<1>1. ASSUME NEW c \in Calls, Ask(c) PROVE Placed(d)'
  BY <1>1, <1>0, Types DEF Ask, Reservable, Busy, Placed, Stored, Alive, Early, Active,
     StageTyped, ConvTyped, WorkTyped, MessagesTyped, IndexTyped, RowTyped,
     ApprovalTyped, LogTyped
<1>2. ASSUME NEW c \in Calls, OpenConversation(c) PROVE Placed(d)'
  <2>1. ASSUME d # c PROVE Placed(d)'
    <3>1. /\ stage'[d] = stage[d] /\ conv'[d] = conv[d] /\ convLog \subseteq convLog'
          /\ UNCHANGED <<msgs, logged, db, work, runLog, appr, accepted, hosted>>
      BY <1>2, <2>1, Types DEF OpenConversation, Abort, StageTyped, ConvTyped
    <3> QED
      BY <1>0, <3>1 DEF Placed, Alive
  <2>2. /\ stage'[c] \in {"opened", "failed"} /\ stage[c] = "planning"
        /\ stage'[c] = "opened" => conv'[c] \in convLog' /\ (TargetOf[c] # New => conv'[c] = TargetOf[c])
        /\ UNCHANGED <<msgs, logged, db, work, runLog, appr, accepted, hosted>>
    BY <1>2, Types DEF OpenConversation, Abort, StageTyped, ConvTyped, IndexTyped
  <2>3. Placed(c)'
    BY <1>0, <2>2 DEF Placed, Alive, Early, Active
  <2> QED
    BY <2>1, <2>3
<1>3. ASSUME NEW c \in Calls, AppendUserMessage(c) PROVE Placed(d)'
  BY <1>3, <1>0, Types DEF AppendUserMessage, Abort, Fault, Placed, Stored, Alive,
     Early, Active, StageTyped, ConvTyped, WorkTyped, MessagesTyped, IndexTyped,
     RowTyped, ApprovalTyped, LogTyped
<1>4. ASSUME NEW c \in Calls, LocalReply(c) PROVE Placed(d)'
  BY <1>4, <1>0, Types DEF LocalReply, Placed, Stored, Alive, Early, Active, StageTyped,
     ConvTyped, WorkTyped, MessagesTyped, IndexTyped, RowTyped, ApprovalTyped, LogTyped
<1>5. ASSUME NEW c \in Calls, LogRun(c) PROVE Placed(d)'
  BY <1>5, <1>0, Types, SMTT(60) DEF LogRun, Abort, Placed, Stored, Alive, Early,
     Active, StageTyped, ConvTyped, WorkTyped, MessagesTyped, IndexTyped, RowTyped,
     ApprovalTyped, LogTyped
<1>6. ASSUME NEW c \in Calls, CreateRun(c) PROVE Placed(d)'
  BY <1>6, <1>0, Types, SMTT(60) DEF CreateRun, Abort, Placed, Stored, Alive, Early,
     Active, StageTyped, ConvTyped, WorkTyped, MessagesTyped, IndexTyped, RowTyped,
     ApprovalTyped, LogTyped
<1>7. ASSUME NEW c \in Calls, StoreResponse(c) PROVE Placed(d)'
  BY <1>7, <1>0, Types, SMTT(60) DEF StoreResponse, Abort, Placed, Stored, Alive, Early,
     Active, StageTyped, ConvTyped, WorkTyped, MessagesTyped, IndexTyped, RowTyped,
     ApprovalTyped, LogTyped
<1>8. ASSUME NEW c \in Calls, ReserveNew(c) PROVE Placed(d)'
  BY <1>8, <1>0, Types DEF ReserveNew, Reservable, Busy, Placed, Stored, Alive, Early,
     Active, StageTyped, ConvTyped, WorkTyped, MessagesTyped, IndexTyped, RowTyped,
     ApprovalTyped, LogTyped
<1>9. ASSUME NEW c \in Calls, Launch(c) PROVE Placed(d)'
  <2>1. ASSUME d # c PROVE Placed(d)'
    <3>1. /\ stage'[d] = stage[d] /\ work'[d] = work[d] /\ runLog'[d] = runLog[d] /\ db'[d] = db[d]
          /\ UNCHANGED <<msgs, logged, conv, convLog, appr, accepted, hosted>>
      BY <1>9, <2>1, Types DEF Launch, Finish, FinishOk, FinishError, Fault, UnchangedButFinish,
         StageTyped, WorkTyped, LogTyped, RowTyped
    <3> QED
      BY <1>0, <3>1 DEF Placed, Alive
  <2>2. /\ stage'[c] \in {"attach", "failed"} /\ stage[c] = "reserved"
        /\ work'[c] = work[c] \/ stage'[c] = "attach"
        /\ UNCHANGED <<msgs, logged, conv, convLog>>
    BY <1>9, Types DEF Launch, Finish, FinishOk, FinishError, Fault, UnchangedButFinish,
       StageTyped, WorkTyped
  <2>3. Placed(c)'
    BY <1>0, <2>2 DEF Placed, Alive, Early, Active
  <2> QED
    BY <2>1, <2>3
<1>10. ASSUME NEW c \in Calls, AttachWorker(c) PROVE Placed(d)'
  BY <1>10, <1>0, Types DEF AttachWorker, Placed, Stored, Alive, Early, Active,
     StageTyped, ConvTyped, WorkTyped, MessagesTyped, IndexTyped, RowTyped,
     ApprovalTyped, LogTyped
<1>11. ASSUME NEW c \in Calls, Prepare(c) PROVE Placed(d)'
  BY <1>11, <1>0, Types, SMTT(60) DEF Prepare, Unavailable, ErrorState, EndWith, Finish,
     FinishOk, FinishError, Fault, MarkRunning, WorkerOnly, UnchangedButFinish, Placed,
     Stored, Alive, Early, Active, StageTyped, ConvTyped, WorkTyped, MessagesTyped,
     IndexTyped, RowTyped, ApprovalTyped, LogTyped
<1>12. ASSUME NEW c \in Calls, Start(c) PROVE Placed(d)'
  BY <1>12, <1>0, Types DEF Start, EndWith, Finish, FinishOk, FinishError, Fault,
     WorkerOnly, UnchangedButFinish, Placed, Stored, Alive, Early, Active, StageTyped,
     ConvTyped, WorkTyped, MessagesTyped, IndexTyped, RowTyped, ApprovalTyped, LogTyped
<1>13. ASSUME NEW c \in Calls, PollApproval(c) PROVE Placed(d)'
  BY <1>13, <1>0, Types DEF PollApproval, Resolve, Fault, WorkerOnly,
     UnchangedButFinish, Placed, Stored, Alive, Early, Active, StageTyped, ConvTyped,
     WorkTyped, MessagesTyped, IndexTyped, RowTyped, ApprovalTyped, LogTyped
<1>14. ASSUME NEW c \in Calls, Claim(c) PROVE Placed(d)'
  BY <1>14, <1>0, Types DEF Claim, EndWith, Finish, FinishOk, FinishError, Fault,
     WorkerOnly, UnchangedButFinish, Placed, Stored, Alive, Early, Active, StageTyped,
     ConvTyped, WorkTyped, MessagesTyped, IndexTyped, RowTyped, ApprovalTyped, LogTyped
<1>15. ASSUME NEW c \in Calls, HostActions(c) PROVE Placed(d)'
  BY <1>15, <1>0, Types DEF HostActions, Fault, Placed, Stored, Alive, Early, Active,
     StageTyped, ConvTyped, WorkTyped, MessagesTyped, IndexTyped, RowTyped,
     ApprovalTyped, LogTyped
<1>16. ASSUME NEW c \in Calls, SaveReply(c) PROVE Placed(d)'
  BY <1>16, <1>0, Types DEF SaveReply, Fault, Placed, Stored, Alive, Early, Active,
     StageTyped, ConvTyped, WorkTyped, MessagesTyped, IndexTyped, RowTyped,
     ApprovalTyped, LogTyped
<1>17. ASSUME NEW c \in Calls, Complete(c) PROVE Placed(d)'
  BY <1>17, <1>0, Types DEF Complete, FinishOk, FinishError, Fault, WorkerOnly,
     UnchangedButFinish, Placed, Stored, Alive, Early, Active, StageTyped, ConvTyped,
     WorkTyped, MessagesTyped, IndexTyped, RowTyped, ApprovalTyped, LogTyped
<1>18. ASSUME NEW c \in Calls, Fallback(c) PROVE Placed(d)'
  BY <1>18, <1>0, Types DEF Fallback, EndWith, Finish, FinishOk, FinishError, Fault,
     WorkerOnly, UnchangedButFinish, Placed, Stored, Alive, Early, Active, StageTyped,
     ConvTyped, WorkTyped, MessagesTyped, IndexTyped, RowTyped, ApprovalTyped, LogTyped
<1>19. ASSUME NEW c \in Calls, End(c) PROVE Placed(d)'
  BY <1>19, <1>0, Types DEF End, Placed, Stored, Alive, Early, Active, StageTyped,
     ConvTyped, WorkTyped, MessagesTyped, IndexTyped, RowTyped, ApprovalTyped, LogTyped
<1>20. ASSUME NEW c \in Calls, RequestApproval(c) PROVE Placed(d)'
  BY <1>20, <1>0, Types DEF RequestApproval, WorkerOnly, UnchangedButFinish, Placed,
     Stored, Alive, Early, Active, StageTyped, ConvTyped, WorkTyped, MessagesTyped,
     IndexTyped, RowTyped, ApprovalTyped, LogTyped
<1>21. ASSUME NEW c \in Calls, CodexFails(c) PROVE Placed(d)'
  BY <1>21, <1>0, Types DEF CodexFails, ErrorState, EndWith, Finish, FinishOk,
     FinishError, Fault, WorkerOnly, UnchangedButFinish, Placed, Stored, Alive, Early,
     Active, StageTyped, ConvTyped, WorkTyped, MessagesTyped, IndexTyped, RowTyped,
     ApprovalTyped, LogTyped
<1>22. ASSUME NEW c \in Calls, CodexReturns(c) PROVE Placed(d)'
  BY <1>22, <1>0, Types DEF CodexReturns, WorkerOnly, UnchangedButFinish, Placed,
     Stored, Alive, Early, Active, StageTyped, ConvTyped, WorkTyped, MessagesTyped,
     IndexTyped, RowTyped, ApprovalTyped, LogTyped
<1>23. ASSUME NEW c \in Calls, Cancel(c) PROVE Placed(d)'
  BY <1>23, <1>0, Types DEF Cancel, Placed, Stored, Alive, Early, Active, StageTyped,
     ConvTyped, WorkTyped, MessagesTyped, IndexTyped, RowTyped, ApprovalTyped, LogTyped,
     Registered
<1>24. ASSUME NEW c \in Calls, RecoverRun(c) PROVE Placed(d)'
  BY <1>24, <1>0, Types DEF RecoverRun, FinishOk, FinishError, Fault, Placed, Stored,
     Alive, Early, Active, StageTyped, ConvTyped, WorkTyped, MessagesTyped, IndexTyped,
     RowTyped, ApprovalTyped, LogTyped, Registered, Open
<1>25. ASSUME NEW c \in Calls, NEW status \in {"approved", "denied"}, Answer(c, status)
   PROVE Placed(d)'
  BY <1>25, <1>0, Types DEF Answer, Placed, Stored, Alive, Early, Active, StageTyped,
     ConvTyped, WorkTyped, MessagesTyped, IndexTyped, RowTyped, ApprovalTyped, LogTyped
<1>26. CASE DeleteRow
  BY <1>26, <1>0, Types DEF DeleteRow, Fault, Placed, Stored, Alive, Early, Active,
     StageTyped, ConvTyped, WorkTyped, MessagesTyped, IndexTyped, RowTyped,
     ApprovalTyped, LogTyped
<1>27. CASE Restart
  BY <1>27, <1>0, Types DEF Restart, Reconciled, ReconciledConversations,
     CancelledApprovals, Placed, Stored, Alive, Early, Active, StageTyped, ConvTyped,
     WorkTyped, MessagesTyped, IndexTyped, RowTyped, ApprovalTyped, LogTyped
<1>28. ASSUME UNCHANGED <<stage, msgs, logged, conv, convLog, db, work, appr, runLog,
   accepted, hosted>> PROVE Placed(d)'
  BY <1>28, <1>0, Types DEF Placed, Stored, Alive, Early, Active, StageTyped, ConvTyped,
     WorkTyped, MessagesTyped, IndexTyped, RowTyped, ApprovalTyped, LogTyped
<1>29. CASE DeleteLog \/ Shutdown \/ Exit \/ Crash \/ Recovered \/ UNCHANGED vars
  BY <1>28, <1>29 DEF DeleteLog, Shutdown, Exit, Crash, Recovered
<1>30. ASSUME NEW k \in Conversations, DeleteBegin(k) PROVE Placed(d)'
  BY <1>28, <1>30 DEF DeleteBegin
<1> QED
  BY <1>1, <1>2, <1>3, <1>4, <1>5, <1>6, <1>7, <1>8, <1>9, <1>10, <1>11, <1>12, <1>13,
     <1>14, <1>15, <1>16, <1>17, <1>18, <1>19, <1>20, <1>21, <1>22, <1>23, <1>24, <1>25,
     <1>26, <1>27, <1>29, <1>30 DEF Next, StartTurn, WorkerStep

\* What refers to what.
LEMMA StoredStep ==
    ASSUME IInv, [Next]_vars, NEW d \in Calls
    PROVE  Stored(d)'
<1>0. \A c \in Calls : Placed(c) /\ Stored(c)
  BY DEF IInv
<1>1. ASSUME NEW c \in Calls, OpenConversation(c) PROVE Stored(d)'
  BY <1>1, <1>0, Types DEF OpenConversation, Abort, Fault, Stored, Placed, Alive, Early,
     Active, Open, ConvTyped, IndexTyped, StageTyped, WorkTyped, MessagesTyped,
     RowTyped, LogTyped
<1>2. ASSUME NEW c \in Calls, AppendUserMessage(c) PROVE Stored(d)'
  BY <1>2, <1>0, Types DEF AppendUserMessage, Abort, Fault, Stored, Placed, Alive,
     Early, Active, Open, ConvTyped, IndexTyped, StageTyped, WorkTyped, MessagesTyped,
     RowTyped, LogTyped
<1>3. ASSUME NEW c \in Calls, LogRun(c) PROVE Stored(d)'
  BY <1>3, <1>0, Types DEF LogRun, Abort, Stored, Placed, Alive, Early, Active, Open,
     ConvTyped, IndexTyped, StageTyped, WorkTyped, MessagesTyped, RowTyped, LogTyped
<1>4. ASSUME NEW c \in Calls, CreateRun(c) PROVE Stored(d)'
  BY <1>4, <1>0, Types, SMTT(60) DEF CreateRun, Abort, Stored, Placed, Alive, Early,
     Active, Open, ConvTyped, IndexTyped, StageTyped, WorkTyped, MessagesTyped,
     RowTyped, LogTyped
<1>5. ASSUME NEW c \in Calls, Launch(c) PROVE Stored(d)'
  BY <1>5, <1>0, Types DEF Launch, Finish, FinishOk, FinishError, Fault,
     UnchangedButFinish, Stored, Placed, Alive, Early, Active, Open, ConvTyped,
     IndexTyped, StageTyped, WorkTyped, MessagesTyped, RowTyped, LogTyped
<1>6. ASSUME NEW c \in Calls, Prepare(c) PROVE Stored(d)'
  BY <1>6, <1>0, Types DEF Prepare, Unavailable, ErrorState, EndWith, Finish, FinishOk,
     FinishError, Fault, MarkRunning, WorkerOnly, UnchangedButFinish, Stored, Placed,
     Alive, Early, Active, Open, ConvTyped, IndexTyped, StageTyped, WorkTyped,
     MessagesTyped, RowTyped, LogTyped
<1>7. ASSUME NEW c \in Calls, Start(c) PROVE Stored(d)'
  BY <1>7, <1>0, Types DEF Start, EndWith, Finish, FinishOk, FinishError, Fault,
     WorkerOnly, UnchangedButFinish, Stored, Placed, Alive, Early, Active, Open,
     ConvTyped, IndexTyped, StageTyped, WorkTyped, MessagesTyped, RowTyped, LogTyped
<1>8. ASSUME NEW c \in Calls, PollApproval(c) PROVE Stored(d)'
  BY <1>8, <1>0, Types DEF PollApproval, Resolve, Fault, WorkerOnly, UnchangedButFinish,
     Stored, Placed, Alive, Early, Active, Open, ConvTyped, IndexTyped, StageTyped,
     WorkTyped, MessagesTyped, RowTyped, LogTyped
<1>9. ASSUME NEW c \in Calls, Claim(c) PROVE Stored(d)'
  BY <1>9, <1>0, Types DEF Claim, EndWith, Finish, FinishOk, FinishError, Fault,
     WorkerOnly, UnchangedButFinish, Stored, Placed, Alive, Early, Active, Open,
     ConvTyped, IndexTyped, StageTyped, WorkTyped, MessagesTyped, RowTyped, LogTyped
<1>10. ASSUME NEW c \in Calls, HostActions(c) PROVE Stored(d)'
  BY <1>10, <1>0, Types DEF HostActions, Fault, Stored, Placed, Alive, Early, Active,
     Open, ConvTyped, IndexTyped, StageTyped, WorkTyped, MessagesTyped, RowTyped,
     LogTyped
<1>11. ASSUME NEW c \in Calls, SaveReply(c) PROVE Stored(d)'
  BY <1>11, <1>0, Types, SMTT(60) DEF SaveReply, Fault, Stored, Placed, Alive, Early,
     Active, Open, ConvTyped, IndexTyped, StageTyped, WorkTyped, MessagesTyped,
     RowTyped, LogTyped
<1>12. ASSUME NEW c \in Calls, Complete(c) PROVE Stored(d)'
  BY <1>12, <1>0, Types DEF Complete, FinishOk, FinishError, Fault, WorkerOnly,
     UnchangedButFinish, Stored, Placed, Alive, Early, Active, Open, ConvTyped,
     IndexTyped, StageTyped, WorkTyped, MessagesTyped, RowTyped, LogTyped
<1>13. ASSUME NEW c \in Calls, Fallback(c) PROVE Stored(d)'
  BY <1>13, <1>0, Types DEF Fallback, EndWith, Finish, FinishOk, FinishError, Fault,
     WorkerOnly, UnchangedButFinish, Stored, Placed, Alive, Early, Active, Open,
     ConvTyped, IndexTyped, StageTyped, WorkTyped, MessagesTyped, RowTyped, LogTyped
<1>14. ASSUME NEW c \in Calls, End(c) PROVE Stored(d)'
  BY <1>14, <1>0, Types DEF End, Stored, Placed, Alive, Early, Active, Open, ConvTyped,
     IndexTyped, StageTyped, WorkTyped, MessagesTyped, RowTyped, LogTyped
<1>15. ASSUME NEW c \in Calls, RequestApproval(c) PROVE Stored(d)'
  BY <1>15, <1>0, Types DEF RequestApproval, WorkerOnly, UnchangedButFinish, Stored,
     Placed, Alive, Early, Active, Open, ConvTyped, IndexTyped, StageTyped, WorkTyped,
     MessagesTyped, RowTyped, LogTyped
<1>16. ASSUME NEW c \in Calls, CodexFails(c) PROVE Stored(d)'
  BY <1>16, <1>0, Types DEF CodexFails, ErrorState, EndWith, Finish, FinishOk,
     FinishError, Fault, WorkerOnly, UnchangedButFinish, Stored, Placed, Alive, Early,
     Active, Open, ConvTyped, IndexTyped, StageTyped, WorkTyped, MessagesTyped,
     RowTyped, LogTyped
<1>17. ASSUME NEW c \in Calls, CodexReturns(c) PROVE Stored(d)'
  BY <1>17, <1>0, Types DEF CodexReturns, WorkerOnly, UnchangedButFinish, Stored,
     Placed, Alive, Early, Active, Open, ConvTyped, IndexTyped, StageTyped, WorkTyped,
     MessagesTyped, RowTyped, LogTyped
<1>18. ASSUME NEW c \in Calls, RecoverRun(c) PROVE Stored(d)'
  BY <1>18, <1>0, Types DEF RecoverRun, FinishOk, FinishError, Fault, Stored, Placed,
     Alive, Early, Active, Open, ConvTyped, IndexTyped, StageTyped, WorkTyped,
     MessagesTyped, RowTyped, LogTyped
<1>19. CASE DeleteRow
  BY <1>19, <1>0, Types, ZenonT(60) DEF DeleteRow, Fault, Stored, Placed, Alive, Early, Active,
     Open, ConvTyped, IndexTyped, StageTyped, WorkTyped, MessagesTyped, RowTyped,
     LogTyped
<1>20. CASE Restart
  BY <1>20, <1>0, Types DEF Restart, Reconciled, ReconciledConversations,
     CancelledApprovals, Stored, Placed, Alive, Early, Active, Open, ConvTyped,
     IndexTyped, StageTyped, WorkTyped, MessagesTyped, RowTyped, LogTyped
<1>21. ASSUME UNCHANGED <<msgs, logged, conv, convLog, convs, db, work, runLog>> PROVE
   Stored(d)'
  BY <1>21, <1>0, Types DEF Stored, Placed, Alive, Early, Active, Open, ConvTyped,
     IndexTyped, StageTyped, WorkTyped, MessagesTyped, RowTyped, LogTyped
<1>22. ASSUME NEW c \in Calls, Ask(c) \/ LocalReply(c) \/ StoreResponse(c) \/
   ReserveNew(c) \/ AttachWorker(c) \/ Cancel(c) PROVE Stored(d)'
  BY <1>21, <1>22 DEF Ask, LocalReply, StoreResponse, ReserveNew, AttachWorker, Cancel
<1>23. CASE DeleteLog \/ Shutdown \/ Exit \/ Crash \/ Recovered \/ UNCHANGED vars
  BY <1>21, <1>23 DEF DeleteLog, Shutdown, Exit, Crash, Recovered
<1>24. ASSUME NEW c \in Calls, NEW status \in {"approved", "denied"}, Answer(c, status)
   PROVE Stored(d)'
  BY <1>21, <1>24 DEF Answer
<1>25. ASSUME NEW k \in Conversations, DeleteBegin(k) PROVE Stored(d)'
  BY <1>21, <1>25 DEF DeleteBegin
<1> QED
  BY <1>1, <1>2, <1>3, <1>4, <1>5, <1>6, <1>7, <1>8, <1>9, <1>10, <1>11, <1>12, <1>13,
     <1>14, <1>15, <1>16, <1>17, <1>18, <1>19, <1>20, <1>22, <1>23, <1>24, <1>25 DEF
     Next, StartTurn, WorkerStep

\* What an attempt to finish a run does: nothing, or a line in the log and, unless
\* there is a fault, the row.
Finished(r, s) ==
    /\ faults' = MaxFaults => faults = MaxFaults
    /\ \A d \in Calls \ {r} : /\ runLog'[d] = runLog[d] /\ db'[d] = db[d]
                              /\ LogCompleted(d)' <=> LogCompleted(d)
    /\ \/ /\ runLog'[r] = runLog[r] /\ db'[r] = db[r]
          /\ LogCompleted(r)' <=> LogCompleted(r)
          /\ faults' = MaxFaults => db[r] \notin Open
       \/ /\ db[r] \in Open /\ runLog'[r] # <<>> /\ Last(runLog'[r]) = s
          /\ LogCompleted(r)' <=> LogCompleted(r) \/ s = "completed"
          /\ db'[r] = s \/ (db'[r] = db[r] /\ faults' # MaxFaults)

\* The log of a run after an outcome is appended to it.
LEMMA LogAppended ==
    ASSUME IInv, NEW r \in Calls, NEW s \in {"completed", "failed", "cancelled"},
           runLog' = [runLog EXCEPT ![r] = Append(@, s)]
    PROVE  /\ runLog'[r] # <<>> /\ Last(runLog'[r]) = s
           /\ LogCompleted(r)' <=> LogCompleted(r) \/ s = "completed"
           /\ \A d \in Calls \ {r} : /\ runLog'[d] = runLog[d]
                                     /\ LogCompleted(d)' <=> LogCompleted(d)
<1>1. \A l \in Seq(Final), e \in Final :
         /\ Append(l, e) # <<>> /\ Last(Append(l, e)) = e
         /\ \A x : x \in ToSet(Append(l, e)) <=> x \in ToSet(l) \/ x = e
  BY DEF Last, ToSet
<1>2. s \in Final
  BY DEF Final
<1>3. \A d \in Calls : runLog[d] \in Seq(Final)
  BY Types DEF LogTyped
<1>4. runLog'[r] = Append(runLog[r], s) /\ \A d \in Calls \ {r} : runLog'[d] = runLog[d]
  BY Types DEF LogTyped
<1> QED
  BY <1>1, <1>2, <1>3, <1>4 DEF LogCompleted

\* An empty log has no outcome.
LEMMA EmptyLog ==
    ASSUME NEW r \in Calls, runLog[r] = <<>>
    PROVE  ~LogCompleted(r)
BY DEF LogCompleted, ToSet

\* finish_run.
LEMMA FinishEffect ==
    ASSUME IInv, NEW r \in Calls, NEW s \in {"completed", "failed", "cancelled"},
           FinishOk(r, s) \/ FinishError(r, s)
    PROVE  Finished(r, s)
<1>0. faults' = MaxFaults => faults = MaxFaults
  BY Types, BuddyAssumption DEF FinishOk, FinishError, Fault, BoundsTyped
<1>1. CASE runLog' = runLog /\ db' = db
  <2>1. faults' = MaxFaults => db[r] \notin Open
    BY <1>1, Types DEF FinishOk, FinishError, Fault, BoundsTyped, Open, RowTyped
  <2> QED
    BY <1>0, <1>1, <2>1 DEF Finished, LogCompleted
<1>2. CASE runLog' = [runLog EXCEPT ![r] = Append(@, s)] /\ db[r] \in Open
           /\ (db' = [db EXCEPT ![r] = s] \/ (db' = db /\ faults' # MaxFaults))
  BY <1>0, <1>2, LogAppended, Types DEF Finished, RowTyped
<1> QED
  BY <1>1, <1>2, Types, BuddyAssumption DEF FinishOk, FinishError, Fault, BoundsTyped

\* A launch registers the run, or finishes it as failed.
LEMMA LaunchEffect ==
    ASSUME IInv, NEW c \in Calls, Launch(c)
    PROVE  /\ stage[c] = "reserved"
           /\ UNCHANGED <<token, accepted, hosted, replies, stops, conv, tombs, appr>>
           /\ \/ UNCHANGED <<runLog, db, faults>> /\ work' = [work EXCEPT ![c] = "prepare"]
              \/ UNCHANGED work /\ Finished(c, "failed")
<1>1. CASE Finish(c, "failed") /\ UNCHANGED work
  BY <1>1, FinishEffect DEF Launch, Finish, UnchangedButFinish
<1>2. CASE /\ Fault /\ db[c] \in Open /\ UNCHANGED work
           /\ runLog' = [runLog EXCEPT ![c] = Append(@, "failed")]
           /\ db' = [db EXCEPT ![c] = "failed"]
  <2>1. faults' # MaxFaults
    BY <1>2, Types, BuddyAssumption DEF Fault, BoundsTyped
  <2> QED
    BY <1>2, <2>1, LogAppended, Types DEF Launch, Finished, RowTyped, UnchangedButFinish
<1> QED
  BY <1>1, <1>2 DEF Launch

\* The tokens, the promises they decide, and the logs.
LEMMA DecidedStep ==
    ASSUME IInv, [Next]_vars, NEW d \in Calls
    PROVE  Decided(d)'
<1>0. Registered /\ \A c \in Calls : Placed(c) /\ Stored(c) /\ LogTrue(c) /\ Decided(c)
  BY DEF IInv
<1>1. ASSUME NEW c \in Calls, CreateRun(c) PROVE Decided(d)'
  BY <1>1, <1>0, Types, BuddyAssumption DEF CreateRun, Abort, Decided, LogTrue,
     LogCompleted, Stored, Placed, Alive, Early, Active, Open, Final, TokenTyped,
     StageTyped, WorkTyped, MessagesTyped, RowTyped, LogTyped
<1>2. ASSUME NEW c \in Calls, Launch(c) PROVE Decided(d)'
  BY <1>2, Types, LaunchEffect, EmptyLog DEF Finished, IInv, Decided, LogTrue,
     LogCompleted, Stored, Placed, Alive, Early, Active, Open, Final, TokenTyped,
     StageTyped, WorkTyped, MessagesTyped, RowTyped, LogTyped
<1>3. ASSUME NEW c \in Calls, Prepare(c) PROVE Decided(d)'
  BY <1>3, <1>0, Types, BuddyAssumption, FinishEffect DEF Prepare, Unavailable,
     ErrorState, EndWith, Finish, Fault, MarkRunning, WorkerOnly, UnchangedButFinish,
     Finished, Decided, LogTrue, LogCompleted, Stored, Placed, Alive, Early, Active,
     Open, Final, TokenTyped, StageTyped, WorkTyped, MessagesTyped, RowTyped, LogTyped
<1>4. ASSUME NEW c \in Calls, Start(c) PROVE Decided(d)'
  BY <1>4, <1>0, Types, BuddyAssumption, FinishEffect DEF Start, EndWith, Finish, Fault,
     WorkerOnly, UnchangedButFinish, Finished, Decided, LogTrue, LogCompleted, Stored,
     Placed, Alive, Early, Active, Open, Final, TokenTyped, StageTyped, WorkTyped,
     MessagesTyped, RowTyped, LogTyped
<1>5. ASSUME NEW c \in Calls, PollApproval(c) PROVE Decided(d)'
  BY <1>5, <1>0, Types, BuddyAssumption, ZenonT(60) DEF PollApproval, Resolve, Fault, WorkerOnly,
     UnchangedButFinish, Decided, LogTrue, LogCompleted, Stored, Placed, Alive, Early,
     Active, Open, Final, TokenTyped, StageTyped, WorkTyped, MessagesTyped, RowTyped,
     LogTyped
<1>6. ASSUME NEW c \in Calls, Claim(c) PROVE Decided(d)'
  BY <1>6, <1>0, Types, BuddyAssumption, FinishEffect DEF Claim, EndWith, Finish, Fault,
     WorkerOnly, UnchangedButFinish, Finished, Decided, LogTrue, LogCompleted, Stored,
     Placed, Alive, Early, Active, Open, Final, TokenTyped, StageTyped, WorkTyped,
     MessagesTyped, RowTyped, LogTyped
<1>7. ASSUME NEW c \in Calls, HostActions(c) PROVE Decided(d)'
  BY <1>7, <1>0, Types, BuddyAssumption, ZenonT(60) DEF HostActions, Fault, Decided, LogTrue,
     LogCompleted, Stored, Placed, Alive, Early, Active, Open, Final, TokenTyped,
     StageTyped, WorkTyped, MessagesTyped, RowTyped, LogTyped
<1>8. ASSUME NEW c \in Calls, SaveReply(c) PROVE Decided(d)'
  BY <1>8, <1>0, Types, BuddyAssumption, SMTT(60) DEF SaveReply, Fault, Decided, LogTrue,
     LogCompleted, Stored, Placed, Alive, Early, Active, Open, Final, TokenTyped,
     StageTyped, WorkTyped, MessagesTyped, RowTyped, LogTyped
<1>9. ASSUME NEW c \in Calls, Complete(c) PROVE Decided(d)'
  BY <1>9, <1>0, Types, BuddyAssumption, FinishEffect DEF Complete, Fault, WorkerOnly,
     UnchangedButFinish, Finished, Decided, LogTrue, LogCompleted, Stored, Placed,
     Alive, Early, Active, Open, Final, TokenTyped, StageTyped, WorkTyped,
     MessagesTyped, RowTyped, LogTyped
<1>10. ASSUME NEW c \in Calls, Fallback(c) PROVE Decided(d)'
  BY <1>10, <1>0, Types, BuddyAssumption, FinishEffect DEF Fallback, EndWith, Finish,
     Fault, WorkerOnly, UnchangedButFinish, Finished, Decided, LogTrue, LogCompleted,
     Stored, Placed, Alive, Early, Active, Open, Final, TokenTyped, StageTyped,
     WorkTyped, MessagesTyped, RowTyped, LogTyped
<1>11. ASSUME NEW c \in Calls, End(c) PROVE Decided(d)'
  BY <1>11, <1>0, Types, BuddyAssumption DEF End, Decided, LogTrue, LogCompleted,
     Stored, Placed, Alive, Early, Active, Open, Final, TokenTyped, StageTyped,
     WorkTyped, MessagesTyped, RowTyped, LogTyped
<1>12. ASSUME NEW c \in Calls, RequestApproval(c) PROVE Decided(d)'
  BY <1>12, <1>0, Types, BuddyAssumption DEF RequestApproval, WorkerOnly,
     UnchangedButFinish, Decided, LogTrue, LogCompleted, Stored, Placed, Alive, Early,
     Active, Open, Final, TokenTyped, StageTyped, WorkTyped, MessagesTyped, RowTyped,
     LogTyped
<1>13. ASSUME NEW c \in Calls, CodexFails(c) PROVE Decided(d)'
  BY <1>13, <1>0, Types, BuddyAssumption, FinishEffect DEF CodexFails, ErrorState,
     EndWith, Finish, Fault, WorkerOnly, UnchangedButFinish, Finished, Decided, LogTrue,
     LogCompleted, Stored, Placed, Alive, Early, Active, Open, Final, TokenTyped,
     StageTyped, WorkTyped, MessagesTyped, RowTyped, LogTyped
<1>14. ASSUME NEW c \in Calls, CodexReturns(c) PROVE Decided(d)'
  BY <1>14, <1>0, Types, BuddyAssumption DEF CodexReturns, WorkerOnly,
     UnchangedButFinish, Decided, LogTrue, LogCompleted, Stored, Placed, Alive, Early,
     Active, Open, Final, TokenTyped, StageTyped, WorkTyped, MessagesTyped, RowTyped,
     LogTyped
<1>15. ASSUME NEW c \in Calls, Cancel(c) PROVE Decided(d)'
  BY <1>15, <1>0, Types, BuddyAssumption DEF Cancel, Decided, LogTrue, LogCompleted,
     Stored, Placed, Alive, Early, Active, Open, Final, TokenTyped, StageTyped,
     WorkTyped, MessagesTyped, RowTyped, LogTyped, Registered
<1>16. ASSUME NEW c \in Calls, RecoverRun(c) PROVE Decided(d)'
  BY <1>16, <1>0, Types, BuddyAssumption, FinishEffect DEF RecoverRun, Fault, Finished,
     Decided, LogTrue, LogCompleted, Stored, Placed, Alive, Early, Active, Open, Final,
     TokenTyped, StageTyped, WorkTyped, MessagesTyped, RowTyped, LogTyped, Registered
<1>17. CASE DeleteRow
  BY <1>17, <1>0, Types, BuddyAssumption DEF DeleteRow, Fault, Decided, LogTrue,
     LogCompleted, Stored, Placed, Alive, Early, Active, Open, Final, TokenTyped,
     StageTyped, WorkTyped, MessagesTyped, RowTyped, LogTyped
<1>18. CASE Shutdown
  BY <1>18, <1>0, Types, BuddyAssumption DEF Shutdown, Decided, LogTrue, LogCompleted,
     Stored, Placed, Alive, Early, Active, Open, Final, TokenTyped, StageTyped,
     WorkTyped, MessagesTyped, RowTyped, LogTyped, BoundsTyped
<1>19. CASE Crash
  BY <1>19, <1>0, Types, BuddyAssumption DEF Crash, Decided, LogTrue, LogCompleted,
     Stored, Placed, Alive, Early, Active, Open, Final, TokenTyped, StageTyped,
     WorkTyped, MessagesTyped, RowTyped, LogTyped, BoundsTyped
<1>20. CASE Restart
  BY <1>20, <1>0, Types, BuddyAssumption DEF Restart, Reconciled,
     ReconciledConversations, CancelledApprovals, Decided, LogTrue, LogCompleted,
     Stored, Placed, Alive, Early, Active, Open, Final, TokenTyped, StageTyped,
     WorkTyped, MessagesTyped, RowTyped, LogTyped, Registered
<1>21. ASSUME UNCHANGED <<work, token, accepted, hosted, runLog, stops, db, replies>>
   PROVE Decided(d)'
  BY <1>21, <1>0, Types, BuddyAssumption DEF Decided, LogTrue, LogCompleted, Stored,
     Placed, Alive, Early, Active, Open, Final, TokenTyped, StageTyped, WorkTyped,
     MessagesTyped, RowTyped, LogTyped
<1>22. ASSUME NEW c \in Calls, Ask(c) \/ OpenConversation(c) \/ AppendUserMessage(c) \/
   LocalReply(c) \/ LogRun(c) \/ StoreResponse(c) \/ ReserveNew(c) \/ AttachWorker(c)
   PROVE Decided(d)'
  BY <1>21, <1>22 DEF Ask, OpenConversation, AppendUserMessage, LocalReply, LogRun,
     StoreResponse, ReserveNew, AttachWorker
<1>23. CASE DeleteLog \/ Exit \/ Recovered \/ UNCHANGED vars
  BY <1>21, <1>23 DEF DeleteLog, Exit, Recovered
<1>24. ASSUME NEW c \in Calls, NEW status \in {"approved", "denied"}, Answer(c, status)
   PROVE Decided(d)'
  BY <1>21, <1>24 DEF Answer
<1>25. ASSUME NEW k \in Conversations, DeleteBegin(k) PROVE Decided(d)'
  BY <1>21, <1>25 DEF DeleteBegin
<1> QED
  BY <1>1, <1>2, <1>3, <1>4, <1>5, <1>6, <1>7, <1>8, <1>9, <1>10, <1>11, <1>12, <1>13,
     <1>14, <1>15, <1>16, <1>17, <1>18, <1>19, <1>20, <1>22, <1>23, <1>24, <1>25 DEF
     Next, StartTurn, WorkerStep

\* The logs and the rows.
LEMMA LogTrueStep ==
    ASSUME IInv, [Next]_vars, NEW d \in Calls
    PROVE  LogTrue(d)'
<1>0. Registered /\ \A c \in Calls : Placed(c) /\ Stored(c) /\ LogTrue(c)
  BY DEF IInv
<1>1. ASSUME NEW c \in Calls, CreateRun(c) PROVE LogTrue(d)'
  BY <1>1, <1>0, Types, Appended DEF CreateRun, Abort, LogTrue, Stored, Placed, Alive,
     Early, Active, Open, Final, StageTyped, WorkTyped, MessagesTyped, RowTyped,
     LogTyped
<1>2. ASSUME NEW c \in Calls, Launch(c) PROVE LogTrue(d)'
  BY <1>2, Types, LaunchEffect, EmptyLog DEF Finished, IInv, LogTrue, Stored, Placed,
     Alive, Early, Active, Open, Final, StageTyped, WorkTyped, MessagesTyped, RowTyped,
     LogTyped
<1>3. ASSUME NEW c \in Calls, Prepare(c) PROVE LogTrue(d)'
  BY <1>3, <1>0, Types, Appended, FinishEffect DEF Prepare, Unavailable, ErrorState,
     EndWith, Finish, Fault, MarkRunning, WorkerOnly, UnchangedButFinish, Finished,
     LogTrue, Stored, Placed, Alive, Early, Active, Open, Final, StageTyped, WorkTyped,
     MessagesTyped, RowTyped, LogTyped
<1>4. ASSUME NEW c \in Calls, Start(c) PROVE LogTrue(d)'
  BY <1>4, <1>0, Types, Appended, FinishEffect DEF Start, EndWith, Finish, Fault,
     WorkerOnly, UnchangedButFinish, Finished, LogTrue, Stored, Placed, Alive, Early,
     Active, Open, Final, StageTyped, WorkTyped, MessagesTyped, RowTyped, LogTyped
<1>5. ASSUME NEW c \in Calls, PollApproval(c) PROVE LogTrue(d)'
  BY <1>5, <1>0, Types, Appended DEF PollApproval, Resolve, Fault, WorkerOnly,
     UnchangedButFinish, LogTrue, Stored, Placed, Alive, Early, Active, Open, Final,
     StageTyped, WorkTyped, MessagesTyped, RowTyped, LogTyped
<1>6. ASSUME NEW c \in Calls, Claim(c) PROVE LogTrue(d)'
  BY <1>6, <1>0, Types, Appended, FinishEffect DEF Claim, EndWith, Finish, Fault,
     WorkerOnly, UnchangedButFinish, Finished, LogTrue, Stored, Placed, Alive, Early,
     Active, Open, Final, StageTyped, WorkTyped, MessagesTyped, RowTyped, LogTyped
<1>7. ASSUME NEW c \in Calls, HostActions(c) PROVE LogTrue(d)'
  BY <1>7, <1>0, Types, Appended DEF HostActions, Fault, LogTrue, Stored, Placed, Alive,
     Early, Active, Open, Final, StageTyped, WorkTyped, MessagesTyped, RowTyped,
     LogTyped
<1>8. ASSUME NEW c \in Calls, SaveReply(c) PROVE LogTrue(d)'
  BY <1>8, <1>0, Types, Appended DEF SaveReply, Fault, LogTrue, Stored, Placed, Alive,
     Early, Active, Open, Final, StageTyped, WorkTyped, MessagesTyped, RowTyped,
     LogTyped
<1>9. ASSUME NEW c \in Calls, Complete(c) PROVE LogTrue(d)'
  BY <1>9, <1>0, Types, Appended, SMTT(60), FinishEffect DEF Complete, Fault,
     WorkerOnly, UnchangedButFinish, Finished, LogTrue, Stored, Placed, Alive, Early,
     Active, Open, Final, StageTyped, WorkTyped, MessagesTyped, RowTyped, LogTyped
<1>10. ASSUME NEW c \in Calls, Fallback(c) PROVE LogTrue(d)'
  BY <1>10, <1>0, Types, Appended, SMTT(60), FinishEffect DEF Fallback, EndWith, Finish,
     Fault, WorkerOnly, UnchangedButFinish, Finished, LogTrue, Stored, Placed, Alive,
     Early, Active, Open, Final, StageTyped, WorkTyped, MessagesTyped, RowTyped,
     LogTyped
<1>11. ASSUME NEW c \in Calls, End(c) PROVE LogTrue(d)'
  BY <1>11, <1>0, Types, Appended DEF End, LogTrue, Stored, Placed, Alive, Early,
     Active, Open, Final, StageTyped, WorkTyped, MessagesTyped, RowTyped, LogTyped
<1>12. ASSUME NEW c \in Calls, RequestApproval(c) PROVE LogTrue(d)'
  BY <1>12, <1>0, Types, Appended DEF RequestApproval, WorkerOnly, UnchangedButFinish,
     LogTrue, Stored, Placed, Alive, Early, Active, Open, Final, StageTyped, WorkTyped,
     MessagesTyped, RowTyped, LogTyped
<1>13. ASSUME NEW c \in Calls, CodexFails(c) PROVE LogTrue(d)'
  BY <1>13, <1>0, Types, Appended, FinishEffect DEF CodexFails, ErrorState, EndWith,
     Finish, Fault, WorkerOnly, UnchangedButFinish, Finished, LogTrue, Stored, Placed,
     Alive, Early, Active, Open, Final, StageTyped, WorkTyped, MessagesTyped, RowTyped,
     LogTyped
<1>14. ASSUME NEW c \in Calls, CodexReturns(c) PROVE LogTrue(d)'
  BY <1>14, <1>0, Types, Appended DEF CodexReturns, WorkerOnly, UnchangedButFinish,
     LogTrue, Stored, Placed, Alive, Early, Active, Open, Final, StageTyped, WorkTyped,
     MessagesTyped, RowTyped, LogTyped
<1>15. ASSUME NEW c \in Calls, RecoverRun(c) PROVE LogTrue(d)'
  BY <1>15, <1>0, Types, Appended, FinishEffect, SMTT(60) DEF RecoverRun, Fault, Finished,
     LogTrue, Stored, Placed, Alive, Early, Active, Open, Final, StageTyped, WorkTyped,
     MessagesTyped, RowTyped, LogTyped, Registered
<1>16. CASE DeleteRow
  BY <1>16, <1>0, Types, Appended DEF DeleteRow, Fault, LogTrue, Stored, Placed, Alive,
     Early, Active, Open, Final, StageTyped, WorkTyped, MessagesTyped, RowTyped,
     LogTyped
<1>17. CASE Restart
  BY <1>17, <1>0, Types, Appended DEF Restart, Reconciled, ReconciledConversations,
     CancelledApprovals, LogTrue, Stored, Placed, Alive, Early, Active, Open, Final,
     StageTyped, WorkTyped, MessagesTyped, RowTyped, LogTyped
<1>18. ASSUME UNCHANGED <<db, runLog, work>> PROVE LogTrue(d)'
  BY <1>18, <1>0, Types, Appended DEF LogTrue, Stored, Placed, Alive, Early, Active,
     Open, Final, StageTyped, WorkTyped, MessagesTyped, RowTyped, LogTyped
<1>19. ASSUME NEW c \in Calls, Ask(c) \/ OpenConversation(c) \/ AppendUserMessage(c) \/
   LocalReply(c) \/ LogRun(c) \/ StoreResponse(c) \/ ReserveNew(c) \/ AttachWorker(c)
   PROVE LogTrue(d)'
  BY <1>18, <1>19 DEF Ask, OpenConversation, AppendUserMessage, LocalReply, LogRun,
     StoreResponse, ReserveNew, AttachWorker
<1>20. ASSUME NEW c \in Calls, Cancel(c) PROVE LogTrue(d)'
  BY <1>18, <1>20 DEF Cancel
<1>21. CASE DeleteLog \/ Shutdown \/ Exit \/ Crash \/ Recovered \/ UNCHANGED vars
  BY <1>18, <1>21 DEF DeleteLog, Shutdown, Exit, Crash, Recovered
<1>22. ASSUME NEW c \in Calls, NEW status \in {"approved", "denied"}, Answer(c, status)
   PROVE LogTrue(d)'
  BY <1>18, <1>22 DEF Answer
<1>23. ASSUME NEW k \in Conversations, DeleteBegin(k) PROVE LogTrue(d)'
  BY <1>18, <1>23 DEF DeleteBegin
<1> QED
  BY <1>1, <1>2, <1>3, <1>4, <1>5, <1>6, <1>7, <1>8, <1>9, <1>10, <1>11, <1>12, <1>13,
     <1>14, <1>15, <1>16, <1>17, <1>19, <1>20, <1>21, <1>22, <1>23 DEF Next, StartTurn,
     WorkerStep

\* An attempt to finish a run that does not wait for an approval.
LEMMA EndedKept ==
    ASSUME IInv, NEW d \in Calls, NEW c \in Calls, NEW s \in {"completed", "failed", "cancelled"},
           Finished(c, s), UNCHANGED <<appr, conv, tombs>>, work[c] # "approval",
           NEW w \in {"none", "end", "fallback"}, work' = [work EXCEPT ![c] = w]
    PROVE  Ended(d)'
<1>1. Ended(c) /\ Ended(d) /\ s \notin Open /\ s # "none"
  BY DEF IInv, Open
<1>2. faults' = MaxFaults => faults = MaxFaults
  BY DEF Finished
<1>3. work'[c] = w /\ (d # c => work'[d] = work[d])
  BY Types DEF WorkTyped
<1>4. CASE d # c
  <2>1. db'[d] = db[d]
    BY <1>4 DEF Finished
  <2> QED
    BY <1>1, <1>2, <1>3, <1>4, <2>1 DEF Ended
<1>5. CASE d = c
  <2>1. faults' = MaxFaults => db'[c] \notin Open
    BY <1>1 DEF Finished
  <2>2. faults' = MaxFaults /\ appr[c] = "pending" => db[c] = "none" /\ conv[c] \in tombs
    BY <1>1, <1>2 DEF Ended
  <2>3. db[c] = "none" => db'[c] = "none"
    BY DEF Finished, Open
  <2> QED
    BY <1>3, <1>5, <2>1, <2>2, <2>3 DEF Ended
<1> QED
  BY <1>4, <1>5

\* The ends of threads and approvals.
LEMMA EndedStep ==
    ASSUME IInv, [Next]_vars, NEW d \in Calls
    PROVE  Ended(d)'
<1>0. \A c \in Calls : Placed(c) /\ Stored(c) /\ LogTrue(c) /\ Ended(c)
  BY DEF IInv
<1>1. ASSUME NEW c \in Calls, OpenConversation(c) PROVE Ended(d)'
  <2>1. Ended(d) /\ Placed(d) /\ Placed(c) /\ stage[c] = "planning"
    BY <1>1 DEF IInv, OpenConversation
  <2>2. appr[c] = "none" /\ work[c] = "none"
    BY <2>1 DEF Placed, Early, Active
  <2>3. d # c => conv'[d] = conv[d]
    BY <1>1, Types DEF OpenConversation, Abort, ConvTyped
  <2>4. faults' = MaxFaults => faults = MaxFaults
    BY <1>1, Types, BuddyAssumption DEF OpenConversation, Fault, BoundsTyped
  <2> QED
    BY <1>1, <2>1, <2>2, <2>3, <2>4 DEF Ended, OpenConversation
<1>2. ASSUME NEW c \in Calls, AppendUserMessage(c) PROVE Ended(d)'
  BY <1>2, <1>0, Types, BuddyAssumption DEF AppendUserMessage, Abort, Fault, ConvTyped,
     Ended, LogTrue, Stored, Placed, Alive, Early, Active, Open, Final, ApprovalTyped,
     BoundsTyped, StageTyped, WorkTyped, MessagesTyped, RowTyped, LogTyped
<1>3. ASSUME NEW c \in Calls, CreateRun(c) PROVE Ended(d)'
  BY <1>3, <1>0, Types, BuddyAssumption DEF CreateRun, Abort, ConvTyped, Ended, LogTrue,
     Stored, Placed, Alive, Early, Active, Open, Final, ApprovalTyped, BoundsTyped,
     StageTyped, WorkTyped, MessagesTyped, RowTyped, LogTyped
<1>4. ASSUME NEW c \in Calls, StoreResponse(c) PROVE Ended(d)'
  BY <1>4, <1>0, Types, BuddyAssumption DEF StoreResponse, Abort, ConvTyped, Ended,
     LogTrue, Stored, Placed, Alive, Early, Active, Open, Final, ApprovalTyped,
     BoundsTyped, StageTyped, WorkTyped, MessagesTyped, RowTyped, LogTyped
<1>5. ASSUME NEW c \in Calls, Launch(c) PROVE Ended(d)'
  BY <1>5, Types, LaunchEffect, EmptyLog DEF Finished, ConvTyped, IInv, Ended, LogTrue,
     Stored, Placed, Alive, Early, Active, Open, Final, ApprovalTyped, BoundsTyped,
     StageTyped, WorkTyped, MessagesTyped, RowTyped, LogTyped
<1>6. ASSUME NEW c \in Calls, Prepare(c) PROVE Ended(d)'
  BY <1>6, <1>0, Types, BuddyAssumption, FinishEffect DEF Prepare, Unavailable,
     ErrorState, EndWith, Finish, Fault, MarkRunning, WorkerOnly, UnchangedButFinish,
     Finished, ConvTyped, Ended, LogTrue, Stored, Placed, Alive, Early, Active, Open,
     Final, ApprovalTyped, BoundsTyped, StageTyped, WorkTyped, MessagesTyped, RowTyped,
     LogTyped
<1>7. ASSUME NEW c \in Calls, Start(c) PROVE Ended(d)'
  BY <1>7, <1>0, Types, BuddyAssumption, FinishEffect DEF Start, EndWith, Finish, Fault,
     WorkerOnly, UnchangedButFinish, Finished, ConvTyped, Ended, LogTrue, Stored,
     Placed, Alive, Early, Active, Open, Final, ApprovalTyped, BoundsTyped, StageTyped,
     WorkTyped, MessagesTyped, RowTyped, LogTyped
<1>8. ASSUME NEW c \in Calls, PollApproval(c) PROVE Ended(d)'
  BY <1>8, <1>0, Types, BuddyAssumption DEF PollApproval, Resolve, Fault, WorkerOnly,
     UnchangedButFinish, ConvTyped, Ended, LogTrue, Stored, Placed, Alive, Early,
     Active, Open, Final, ApprovalTyped, BoundsTyped, StageTyped, WorkTyped,
     MessagesTyped, RowTyped, LogTyped
<1>9. ASSUME NEW c \in Calls, Claim(c) PROVE Ended(d)'
  <2>1. CASE token[c] = "running"
    BY <1>9, <2>1, Types DEF Claim, WorkerOnly, UnchangedButFinish, IInv, Ended, WorkTyped
  <2>2. CASE token[c] # "running"
    BY <1>9, <2>2, FinishEffect, EndedKept DEF Claim, EndWith, Finish, WorkerOnly, UnchangedButFinish
  <2> QED
    BY <2>1, <2>2
<1>10. ASSUME NEW c \in Calls, HostActions(c) PROVE Ended(d)'
  BY <1>10, <1>0, Types, BuddyAssumption DEF HostActions, Fault, ConvTyped, Ended,
     LogTrue, Stored, Placed, Alive, Early, Active, Open, Final, ApprovalTyped,
     BoundsTyped, StageTyped, WorkTyped, MessagesTyped, RowTyped, LogTyped
<1>11. ASSUME NEW c \in Calls, SaveReply(c) PROVE Ended(d)'
  BY <1>11, <1>0, Types, BuddyAssumption DEF SaveReply, Fault, ConvTyped, Ended,
     LogTrue, Stored, Placed, Alive, Early, Active, Open, Final, ApprovalTyped,
     BoundsTyped, StageTyped, WorkTyped, MessagesTyped, RowTyped, LogTyped
<1>12. ASSUME NEW c \in Calls, Complete(c) PROVE Ended(d)'
  <2>1. PICK w \in {"end", "fallback"}, s \in {"completed", "failed", "cancelled"} :
           (FinishOk(c, s) \/ FinishError(c, s)) /\ work' = [work EXCEPT ![c] = w]
    BY <1>12 DEF Complete
  <2> QED
    BY <1>12, <2>1, FinishEffect, EndedKept DEF Complete, WorkerOnly, UnchangedButFinish
<1>13. ASSUME NEW c \in Calls, Fallback(c) PROVE Ended(d)'
  BY <1>13, <1>0, Types, BuddyAssumption, FinishEffect DEF Fallback, EndWith, Finish,
     Fault, WorkerOnly, UnchangedButFinish, Finished, ConvTyped, Ended, LogTrue, Stored,
     Placed, Alive, Early, Active, Open, Final, ApprovalTyped, BoundsTyped, StageTyped,
     WorkTyped, MessagesTyped, RowTyped, LogTyped
<1>14. ASSUME NEW c \in Calls, End(c) PROVE Ended(d)'
  BY <1>14, <1>0, Types, BuddyAssumption DEF End, ConvTyped, Ended, LogTrue, Stored,
     Placed, Alive, Early, Active, Open, Final, ApprovalTyped, BoundsTyped, StageTyped,
     WorkTyped, MessagesTyped, RowTyped, LogTyped
<1>15. ASSUME NEW c \in Calls, RequestApproval(c) PROVE Ended(d)'
  BY <1>15, <1>0, Types, BuddyAssumption DEF RequestApproval, WorkerOnly,
     UnchangedButFinish, ConvTyped, Ended, LogTrue, Stored, Placed, Alive, Early,
     Active, Open, Final, ApprovalTyped, BoundsTyped, StageTyped, WorkTyped,
     MessagesTyped, RowTyped, LogTyped
<1>16. ASSUME NEW c \in Calls, CodexFails(c) PROVE Ended(d)'
  <2>1. PICK w \in {"end", "fallback"}, s \in {"completed", "failed", "cancelled"} :
           (FinishOk(c, s) \/ FinishError(c, s)) /\ work' = [work EXCEPT ![c] = w]
    BY <1>16 DEF CodexFails, ErrorState, EndWith, Finish
  <2> QED
    BY <1>16, <2>1, FinishEffect, EndedKept DEF CodexFails, WorkerOnly, UnchangedButFinish
<1>17. ASSUME NEW c \in Calls, CodexReturns(c) PROVE Ended(d)'
  BY <1>17, <1>0, Types, BuddyAssumption DEF CodexReturns, WorkerOnly,
     UnchangedButFinish, ConvTyped, Ended, LogTrue, Stored, Placed, Alive, Early,
     Active, Open, Final, ApprovalTyped, BoundsTyped, StageTyped, WorkTyped,
     MessagesTyped, RowTyped, LogTyped
<1>18. ASSUME NEW c \in Calls, RecoverRun(c) PROVE Ended(d)'
  <2>1. work[c] = "none" /\ UNCHANGED <<work, appr, conv, tombs>>
    BY <1>18 DEF RecoverRun, IInv, Registered
  <2>2. work' = [work EXCEPT ![c] = "none"]
    BY <2>1, Types DEF WorkTyped
  <2>3. Finished(c, "failed")
    BY <1>18, FinishEffect DEF RecoverRun
  <2> QED
    BY <2>1, <2>2, <2>3, EndedKept
<1>19. ASSUME NEW c \in Calls, NEW status \in {"approved", "denied"}, Answer(c, status)
   PROVE Ended(d)'
  BY <1>19, <1>0, Types, BuddyAssumption DEF Answer, ConvTyped, Ended, LogTrue, Stored,
     Placed, Alive, Early, Active, Open, Final, ApprovalTyped, BoundsTyped, StageTyped,
     WorkTyped, MessagesTyped, RowTyped, LogTyped
<1>20. CASE DeleteLog
  BY <1>20, <1>0, Types, BuddyAssumption DEF DeleteLog, ConvTyped, Ended, LogTrue,
     Stored, Placed, Alive, Early, Active, Open, Final, ApprovalTyped, BoundsTyped,
     StageTyped, WorkTyped, MessagesTyped, RowTyped, LogTyped
<1>21. CASE DeleteRow
  BY <1>21, <1>0, Types, BuddyAssumption DEF DeleteRow, Fault, ConvTyped, Ended,
     LogTrue, Stored, Placed, Alive, Early, Active, Open, Final, ApprovalTyped,
     BoundsTyped, StageTyped, WorkTyped, MessagesTyped, RowTyped, LogTyped
<1>22. CASE Restart
  BY <1>22, <1>0, Types, BuddyAssumption DEF Restart, Reconciled,
     ReconciledConversations, CancelledApprovals, ConvTyped, Ended, LogTrue, Stored,
     Placed, Alive, Early, Active, Open, Final, ApprovalTyped, BoundsTyped, StageTyped,
     WorkTyped, MessagesTyped, RowTyped, LogTyped
<1>23. ASSUME UNCHANGED <<faults, work, db, appr, conv, tombs>> PROVE Ended(d)'
  BY <1>23, <1>0, Types, BuddyAssumption DEF ConvTyped, Ended, LogTrue, Stored, Placed,
     Alive, Early, Active, Open, Final, ApprovalTyped, BoundsTyped, StageTyped,
     WorkTyped, MessagesTyped, RowTyped, LogTyped
<1>24. ASSUME NEW c \in Calls, Ask(c) \/ LocalReply(c) \/ LogRun(c) \/ ReserveNew(c) \/
   AttachWorker(c) \/ Cancel(c) PROVE Ended(d)'
  BY <1>23, <1>24 DEF Ask, LocalReply, LogRun, ReserveNew, AttachWorker, Cancel
<1>25. CASE Shutdown \/ Exit \/ Crash \/ Recovered \/ UNCHANGED vars
  BY <1>23, <1>25 DEF Shutdown, Exit, Crash, Recovered
<1>26. ASSUME NEW k \in Conversations, DeleteBegin(k) PROVE Ended(d)'
  BY <1>23, <1>26 DEF DeleteBegin
<1> QED
  BY <1>1, <1>2, <1>3, <1>4, <1>5, <1>6, <1>7, <1>8, <1>9, <1>10, <1>11, <1>12, <1>13,
     <1>14, <1>15, <1>16, <1>17, <1>18, <1>19, <1>20, <1>21, <1>22, <1>24, <1>25, <1>26
     DEF Next, StartTurn, WorkerStep

\* The deletions.
LEMMA DeletionsStep ==
    ASSUME IInv, [Next]_vars
    PROVE  Deletions'
<1>0. Deletions
  BY DEF IInv
<1>1. ASSUME NEW c \in Calls, OpenConversation(c) PROVE Deletions'
  BY <1>1, <1>0, Types, BuddyAssumption DEF OpenConversation, Abort, Fault, Deletions,
     NoResurrection, NoDelete, IndexTyped, DeletingTyped
<1>2. ASSUME NEW k \in Conversations, DeleteBegin(k) PROVE Deletions'
  BY <1>2, <1>0, Types, BuddyAssumption DEF DeleteBegin, Reservable, Busy, Deletions,
     NoResurrection, NoDelete, IndexTyped, DeletingTyped
<1>3. CASE DeleteLog
  BY <1>3, <1>0, Types, BuddyAssumption DEF DeleteLog, Deletions, NoResurrection,
     NoDelete, IndexTyped, DeletingTyped
<1>4. CASE DeleteRow
  BY <1>4, <1>0, Types, BuddyAssumption DEF DeleteRow, Fault, Deletions, NoResurrection,
     NoDelete, IndexTyped, DeletingTyped
<1>5. CASE Restart
  BY <1>5, <1>0, Types, BuddyAssumption DEF Restart, Reconciled,
     ReconciledConversations, CancelledApprovals, Deletions, NoResurrection, NoDelete,
     IndexTyped, DeletingTyped
<1>6. ASSUME UNCHANGED <<deleting, convLog, tombs, deleted, convs>> PROVE Deletions'
  BY <1>6, <1>0, Types, BuddyAssumption DEF Deletions, NoResurrection, NoDelete,
     IndexTyped, DeletingTyped
<1>7. ASSUME NEW c \in Calls, Ask(c) \/ AppendUserMessage(c) \/ LocalReply(c) \/
   LogRun(c) \/ CreateRun(c) \/ StoreResponse(c) \/ ReserveNew(c) \/ Launch(c) PROVE
   Deletions'
  BY <1>6, <1>7 DEF Ask, AppendUserMessage, LocalReply, LogRun, CreateRun,
     StoreResponse, ReserveNew, Launch, UnchangedButFinish
<1>8. ASSUME NEW c \in Calls, AttachWorker(c) \/ Prepare(c) \/ Start(c) \/
   PollApproval(c) \/ Claim(c) \/ HostActions(c) \/ SaveReply(c) \/ Complete(c) PROVE
   Deletions'
  BY <1>6, <1>8 DEF AttachWorker, Prepare, Start, PollApproval, Claim, HostActions,
     SaveReply, Complete, WorkerOnly, UnchangedButFinish
<1>9. ASSUME NEW c \in Calls, Fallback(c) \/ End(c) \/ RequestApproval(c) \/
   CodexFails(c) \/ CodexReturns(c) \/ Cancel(c) \/ RecoverRun(c) PROVE Deletions'
  BY <1>6, <1>9 DEF Fallback, End, RequestApproval, CodexFails, CodexReturns, Cancel,
     RecoverRun, WorkerOnly, UnchangedButFinish
<1>10. CASE Shutdown \/ Exit \/ Crash \/ Recovered \/ UNCHANGED vars
  BY <1>6, <1>10 DEF Shutdown, Exit, Crash, Recovered
<1>11. ASSUME NEW c \in Calls, NEW status \in {"approved", "denied"}, Answer(c, status)
   PROVE Deletions'
  BY <1>6, <1>11 DEF Answer
<1> QED
  BY <1>1, <1>2, <1>3, <1>4, <1>5, <1>7, <1>8, <1>9, <1>10, <1>11 DEF Next, StartTurn,
     WorkerStep

\* What the registry knows.
LEMMA RegisteredStep ==
    ASSUME IInv, [Next]_vars
    PROVE  Registered'
<1>0. Registered /\ \A c \in Calls : Placed(c)
  BY DEF IInv
<1>1. ASSUME NEW c \in Calls, Ask(c) PROVE Registered'
  BY <1>1, <1>0, Types, BuddyAssumption DEF Ask, Reservable, Busy, Serving,
     ShuttingDown, Registered, Placed, Alive, Early, Active, StageTyped, WorkTyped,
     RegistryTyped
<1>2. ASSUME NEW c \in Calls, OpenConversation(c) PROVE Registered'
  BY <1>2, <1>0, Types, BuddyAssumption DEF OpenConversation, Abort, Fault, Serving,
     ShuttingDown, Registered, Placed, Alive, Early, Active, StageTyped, WorkTyped,
     RegistryTyped
<1>3. ASSUME NEW c \in Calls, AppendUserMessage(c) PROVE Registered'
  BY <1>3, <1>0, Types, BuddyAssumption DEF AppendUserMessage, Abort, Fault, Serving,
     ShuttingDown, Registered, Placed, Alive, Early, Active, StageTyped, WorkTyped,
     RegistryTyped
<1>4. ASSUME NEW c \in Calls, LocalReply(c) PROVE Registered'
  BY <1>4, <1>0, Types, BuddyAssumption DEF LocalReply, Serving, ShuttingDown,
     Registered, Placed, Alive, Early, Active, StageTyped, WorkTyped, RegistryTyped
<1>5. ASSUME NEW c \in Calls, LogRun(c) PROVE Registered'
  BY <1>5, <1>0, Types, BuddyAssumption DEF LogRun, Abort, Serving, ShuttingDown,
     Registered, Placed, Alive, Early, Active, StageTyped, WorkTyped, RegistryTyped
<1>6. ASSUME NEW c \in Calls, CreateRun(c) PROVE Registered'
  BY <1>6, <1>0, Types, BuddyAssumption DEF CreateRun, Abort, Serving, ShuttingDown,
     Registered, Placed, Alive, Early, Active, StageTyped, WorkTyped, RegistryTyped
<1>7. ASSUME NEW c \in Calls, StoreResponse(c) PROVE Registered'
  BY <1>7, <1>0, Types, BuddyAssumption DEF StoreResponse, Abort, Serving, ShuttingDown,
     Registered, Placed, Alive, Early, Active, StageTyped, WorkTyped, RegistryTyped
<1>8. ASSUME NEW c \in Calls, ReserveNew(c) PROVE Registered'
  BY <1>8, <1>0, Types, BuddyAssumption DEF ReserveNew, Reservable, Busy, Serving,
     ShuttingDown, Registered, Placed, Alive, Early, Active, StageTyped, WorkTyped,
     RegistryTyped
<1>9. ASSUME NEW c \in Calls, Launch(c) PROVE Registered'
  BY <1>9, <1>0, Types, BuddyAssumption DEF Launch, Finish, FinishOk, FinishError,
     Fault, UnchangedButFinish, Serving, ShuttingDown, Registered, Placed, Alive, Early,
     Active, StageTyped, WorkTyped, RegistryTyped
<1>10. ASSUME NEW c \in Calls, AttachWorker(c) PROVE Registered'
  BY <1>10, <1>0, Types, BuddyAssumption DEF AttachWorker, Serving, ShuttingDown,
     Registered, Placed, Alive, Early, Active, StageTyped, WorkTyped, RegistryTyped
<1>11. ASSUME NEW c \in Calls, Prepare(c) PROVE Registered'
  BY <1>11, <1>0, Types, BuddyAssumption DEF Prepare, Unavailable, ErrorState, EndWith,
     Finish, FinishOk, FinishError, Fault, MarkRunning, WorkerOnly, UnchangedButFinish,
     Serving, ShuttingDown, Registered, Placed, Alive, Early, Active, StageTyped,
     WorkTyped, RegistryTyped
<1>12. ASSUME NEW c \in Calls, Start(c) PROVE Registered'
  BY <1>12, <1>0, Types, BuddyAssumption DEF Start, EndWith, Finish, FinishOk,
     FinishError, Fault, WorkerOnly, UnchangedButFinish, Serving, ShuttingDown,
     Registered, Placed, Alive, Early, Active, StageTyped, WorkTyped, RegistryTyped
<1>13. ASSUME NEW c \in Calls, PollApproval(c) PROVE Registered'
  BY <1>13, <1>0, Types, BuddyAssumption DEF PollApproval, Resolve, Fault, WorkerOnly,
     UnchangedButFinish, Serving, ShuttingDown, Registered, Placed, Alive, Early,
     Active, StageTyped, WorkTyped, RegistryTyped
<1>14. ASSUME NEW c \in Calls, Claim(c) PROVE Registered'
  BY <1>14, <1>0, Types, BuddyAssumption DEF Claim, EndWith, Finish, FinishOk,
     FinishError, Fault, WorkerOnly, UnchangedButFinish, Serving, ShuttingDown,
     Registered, Placed, Alive, Early, Active, StageTyped, WorkTyped, RegistryTyped
<1>15. ASSUME NEW c \in Calls, HostActions(c) PROVE Registered'
  BY <1>15, <1>0, Types, BuddyAssumption DEF HostActions, Fault, Serving, ShuttingDown,
     Registered, Placed, Alive, Early, Active, StageTyped, WorkTyped, RegistryTyped
<1>16. ASSUME NEW c \in Calls, SaveReply(c) PROVE Registered'
  BY <1>16, <1>0, Types, BuddyAssumption DEF SaveReply, Fault, Serving, ShuttingDown,
     Registered, Placed, Alive, Early, Active, StageTyped, WorkTyped, RegistryTyped
<1>17. ASSUME NEW c \in Calls, Complete(c) PROVE Registered'
  BY <1>17, <1>0, Types, BuddyAssumption DEF Complete, FinishOk, FinishError, Fault,
     WorkerOnly, UnchangedButFinish, Serving, ShuttingDown, Registered, Placed, Alive,
     Early, Active, StageTyped, WorkTyped, RegistryTyped
<1>18. ASSUME NEW c \in Calls, Fallback(c) PROVE Registered'
  BY <1>18, <1>0, Types, BuddyAssumption DEF Fallback, EndWith, Finish, FinishOk,
     FinishError, Fault, WorkerOnly, UnchangedButFinish, Serving, ShuttingDown,
     Registered, Placed, Alive, Early, Active, StageTyped, WorkTyped, RegistryTyped
<1>19. ASSUME NEW c \in Calls, End(c) PROVE Registered'
  BY <1>19, <1>0, Types, BuddyAssumption DEF End, Serving, ShuttingDown, Registered,
     Placed, Alive, Early, Active, StageTyped, WorkTyped, RegistryTyped
<1>20. ASSUME NEW c \in Calls, RequestApproval(c) PROVE Registered'
  BY <1>20, <1>0, Types, BuddyAssumption DEF RequestApproval, WorkerOnly,
     UnchangedButFinish, Serving, ShuttingDown, Registered, Placed, Alive, Early,
     Active, StageTyped, WorkTyped, RegistryTyped
<1>21. ASSUME NEW c \in Calls, CodexFails(c) PROVE Registered'
  BY <1>21, <1>0, Types, BuddyAssumption DEF CodexFails, ErrorState, EndWith, Finish,
     FinishOk, FinishError, Fault, WorkerOnly, UnchangedButFinish, Serving,
     ShuttingDown, Registered, Placed, Alive, Early, Active, StageTyped, WorkTyped,
     RegistryTyped
<1>22. ASSUME NEW c \in Calls, CodexReturns(c) PROVE Registered'
  BY <1>22, <1>0, Types, BuddyAssumption DEF CodexReturns, WorkerOnly,
     UnchangedButFinish, Serving, ShuttingDown, Registered, Placed, Alive, Early,
     Active, StageTyped, WorkTyped, RegistryTyped
<1>23. ASSUME NEW c \in Calls, RecoverRun(c) PROVE Registered'
  BY <1>23, <1>0, Types, BuddyAssumption DEF RecoverRun, FinishOk, FinishError, Fault,
     Serving, ShuttingDown, Registered, Placed, Alive, Early, Active, StageTyped,
     WorkTyped, RegistryTyped
<1>24. ASSUME NEW k \in Conversations, DeleteBegin(k) PROVE Registered'
  BY <1>24, <1>0, Types, BuddyAssumption DEF DeleteBegin, Reservable, Busy, Serving,
     ShuttingDown, Registered, Placed, Alive, Early, Active, StageTyped, WorkTyped,
     RegistryTyped
<1>25. CASE DeleteLog
  BY <1>25, <1>0, Types, BuddyAssumption DEF DeleteLog, Serving, ShuttingDown,
     Registered, Placed, Alive, Early, Active, StageTyped, WorkTyped, RegistryTyped
<1>26. CASE DeleteRow
  BY <1>26, <1>0, Types, BuddyAssumption DEF DeleteRow, Fault, Serving, ShuttingDown,
     Registered, Placed, Alive, Early, Active, StageTyped, WorkTyped, RegistryTyped
<1>27. CASE Shutdown
  BY <1>27, <1>0, Types, BuddyAssumption DEF Shutdown, Serving, ShuttingDown,
     Registered, Placed, Alive, Early, Active, StageTyped, WorkTyped, RegistryTyped,
     BoundsTyped
<1>28. CASE Exit
  BY <1>28, <1>0, Types, BuddyAssumption DEF Exit, Serving, ShuttingDown, Registered,
     Placed, Alive, Early, Active, StageTyped, WorkTyped, RegistryTyped
<1>29. CASE Crash
  BY <1>29, <1>0, Types, BuddyAssumption DEF Crash, Serving, ShuttingDown, Registered,
     Placed, Alive, Early, Active, StageTyped, WorkTyped, RegistryTyped, BoundsTyped
<1>30. CASE Restart
  BY <1>30, <1>0, Types, BuddyAssumption DEF Restart, Reconciled,
     ReconciledConversations, CancelledApprovals, Serving, ShuttingDown, Registered,
     Placed, Alive, Early, Active, StageTyped, WorkTyped, RegistryTyped
<1>31. CASE Recovered
  BY <1>31, <1>0, Types, BuddyAssumption DEF Recovered, Serving, ShuttingDown,
     Registered, Placed, Alive, Early, Active, StageTyped, WorkTyped, RegistryTyped
<1>32. ASSUME UNCHANGED <<stops, mode, workers, work, attached, stage, joining,
   deleting>> PROVE Registered'
  BY <1>32, <1>0, Types, BuddyAssumption DEF Serving, ShuttingDown, Registered, Placed,
     Alive, Early, Active, StageTyped, WorkTyped, RegistryTyped
<1>33. ASSUME NEW c \in Calls, Cancel(c) PROVE Registered'
  BY <1>32, <1>33 DEF Cancel
<1>34. CASE UNCHANGED vars
  BY <1>32, <1>34
<1>35. ASSUME NEW c \in Calls, NEW status \in {"approved", "denied"}, Answer(c, status)
   PROVE Registered'
  BY <1>32, <1>35 DEF Answer
<1> QED
  BY <1>1, <1>2, <1>3, <1>4, <1>5, <1>6, <1>7, <1>8, <1>9, <1>10, <1>11, <1>12, <1>13,
     <1>14, <1>15, <1>16, <1>17, <1>18, <1>19, <1>20, <1>21, <1>22, <1>23, <1>24, <1>25,
     <1>26, <1>27, <1>28, <1>29, <1>30, <1>31, <1>33, <1>34, <1>35 DEF Next, StartTurn,
     WorkerStep

\* The request-preparation mutex.
LEMMA MutexStep ==
    ASSUME IInv, [Next]_vars
    PROVE  Mutex'
<1>0. Mutex
  BY DEF IInv
<1>1. ASSUME NEW c \in Calls, Ask(c) PROVE Mutex'
  BY <1>1, <1>0, Types, BuddyAssumption DEF Ask, Reservable, Busy, Mutex, Preparing,
     StageTyped, AnswersTyped
<1>2. ASSUME NEW c \in Calls, OpenConversation(c) PROVE Mutex'
  BY <1>2, <1>0, Types, BuddyAssumption DEF OpenConversation, Abort, Fault, Mutex,
     Preparing, StageTyped, AnswersTyped
<1>3. ASSUME NEW c \in Calls, AppendUserMessage(c) PROVE Mutex'
  BY <1>3, <1>0, Types, BuddyAssumption DEF AppendUserMessage, Abort, Fault, Mutex,
     Preparing, StageTyped, AnswersTyped
<1>4. ASSUME NEW c \in Calls, LocalReply(c) PROVE Mutex'
  BY <1>4, <1>0, Types, BuddyAssumption DEF LocalReply, Mutex, Preparing, StageTyped,
     AnswersTyped
<1>5. ASSUME NEW c \in Calls, LogRun(c) PROVE Mutex'
  BY <1>5, <1>0, Types, BuddyAssumption DEF LogRun, Abort, Mutex, Preparing, StageTyped,
     AnswersTyped
<1>6. ASSUME NEW c \in Calls, CreateRun(c) PROVE Mutex'
  BY <1>6, <1>0, Types, BuddyAssumption DEF CreateRun, Abort, Mutex, Preparing,
     StageTyped, AnswersTyped
<1>7. ASSUME NEW c \in Calls, StoreResponse(c) PROVE Mutex'
  <2>1. \A b \in Calls : stage'[b] \in Preparing => b # c /\ stage[b] \in Preparing
    BY <1>7, Types DEF StoreResponse, Abort, Preparing, StageTyped
  <2>2. stage[c] \in Preparing
    BY <1>7 DEF StoreResponse, Preparing
  <2> QED
    BY <2>1, <2>2 DEF IInv, Mutex
<1>8. ASSUME NEW c \in Calls, ReserveNew(c) PROVE Mutex'
  BY <1>8, <1>0, Types, BuddyAssumption DEF ReserveNew, Reservable, Busy, Mutex,
     Preparing, StageTyped, AnswersTyped
<1>9. ASSUME NEW c \in Calls, Launch(c) PROVE Mutex'
  BY <1>9, <1>0, Types, BuddyAssumption DEF Launch, Finish, FinishOk, FinishError,
     Fault, UnchangedButFinish, Mutex, Preparing, StageTyped, AnswersTyped
<1>10. ASSUME NEW c \in Calls, AttachWorker(c) PROVE Mutex'
  BY <1>10, <1>0, Types, BuddyAssumption DEF AttachWorker, Mutex, Preparing, StageTyped,
     AnswersTyped
<1>11. CASE DeleteRow
  BY <1>11, <1>0, Types, BuddyAssumption DEF DeleteRow, Fault, Mutex, Preparing,
     StageTyped, AnswersTyped
<1>12. CASE Restart
  BY <1>12, <1>0, Types, BuddyAssumption DEF Restart, Reconciled,
     ReconciledConversations, CancelledApprovals, Mutex, Preparing, StageTyped,
     AnswersTyped
<1>13. ASSUME UNCHANGED <<stage, answers>> PROVE Mutex'
  BY <1>13, <1>0, Types, BuddyAssumption DEF Mutex, Preparing, StageTyped, AnswersTyped
<1>14. ASSUME NEW c \in Calls, Prepare(c) \/ Start(c) \/ PollApproval(c) \/ Claim(c) \/
   HostActions(c) \/ SaveReply(c) \/ Complete(c) \/ Fallback(c) PROVE Mutex'
  BY <1>13, <1>14 DEF Prepare, Start, PollApproval, Claim, HostActions, SaveReply,
     Complete, Fallback, WorkerOnly, UnchangedButFinish
<1>15. ASSUME NEW c \in Calls, End(c) \/ RequestApproval(c) \/ CodexFails(c) \/
   CodexReturns(c) \/ Cancel(c) \/ RecoverRun(c) PROVE Mutex'
  BY <1>13, <1>15 DEF End, RequestApproval, CodexFails, CodexReturns, Cancel,
     RecoverRun, WorkerOnly, UnchangedButFinish
<1>16. CASE DeleteLog \/ Shutdown \/ Exit \/ Crash \/ Recovered \/ UNCHANGED vars
  BY <1>13, <1>16 DEF DeleteLog, Shutdown, Exit, Crash, Recovered
<1>17. ASSUME NEW c \in Calls, NEW status \in {"approved", "denied"}, Answer(c, status)
   PROVE Mutex'
  BY <1>13, <1>17 DEF Answer
<1>18. ASSUME NEW k \in Conversations, DeleteBegin(k) PROVE Mutex'
  BY <1>13, <1>18 DEF DeleteBegin
<1> QED
  BY <1>1, <1>2, <1>3, <1>4, <1>5, <1>6, <1>7, <1>8, <1>9, <1>10, <1>11, <1>12, <1>14,
     <1>15, <1>16, <1>17, <1>18 DEF Next, StartTurn, WorkerStep

\* The answers of the requests.
LEMMA AnsweredStep ==
    ASSUME IInv, [Next]_vars, NEW d \in Calls
    PROVE  Answered(d)'
<1>0. Registered /\ Mutex /\ \A c \in Calls : Placed(c) /\ Stored(c) /\ Answered(c)
  BY DEF IInv
<1>1. ASSUME NEW c \in Calls, Ask(c) PROVE Answered(d)'
  BY <1>1, <1>0, Types, BuddyAssumption DEF Ask, Reservable, Busy, Answered, Mutex,
     Preparing, Placed, Stored, StageTyped, AnswersTyped, ConvTyped, IndexTyped,
     BoundsTyped, MessagesTyped, Registered
<1>2. ASSUME NEW c \in Calls, OpenConversation(c) PROVE Answered(d)'
  BY <1>2, <1>0, Types, BuddyAssumption DEF OpenConversation, Abort, Fault, Answered,
     Mutex, Preparing, Placed, Stored, StageTyped, AnswersTyped, ConvTyped, IndexTyped,
     BoundsTyped, MessagesTyped, Registered
<1>3. ASSUME NEW c \in Calls, AppendUserMessage(c) PROVE Answered(d)'
  BY <1>3, <1>0, Types, BuddyAssumption DEF AppendUserMessage, Abort, Fault, Answered,
     Mutex, Preparing, Placed, Stored, StageTyped, AnswersTyped, ConvTyped, IndexTyped,
     BoundsTyped, MessagesTyped, Registered
<1>4. ASSUME NEW c \in Calls, LocalReply(c) PROVE Answered(d)'
  BY <1>4, <1>0, Types, BuddyAssumption DEF LocalReply, Answered, Mutex, Preparing,
     Placed, Stored, StageTyped, AnswersTyped, ConvTyped, IndexTyped, BoundsTyped,
     MessagesTyped, Registered
<1>5. ASSUME NEW c \in Calls, LogRun(c) PROVE Answered(d)'
  BY <1>5, <1>0, Types, BuddyAssumption DEF LogRun, Abort, Answered, Mutex, Preparing,
     Placed, Stored, StageTyped, AnswersTyped, ConvTyped, IndexTyped, BoundsTyped,
     MessagesTyped, Registered
<1>6. ASSUME NEW c \in Calls, CreateRun(c) PROVE Answered(d)'
  BY <1>6, <1>0, Types, BuddyAssumption DEF CreateRun, Abort, Answered, Mutex,
     Preparing, Placed, Stored, StageTyped, AnswersTyped, ConvTyped, IndexTyped,
     BoundsTyped, MessagesTyped, Registered
<1>7. ASSUME NEW c \in Calls, StoreResponse(c) PROVE Answered(d)'
  BY <1>7, <1>0, Types, BuddyAssumption DEF StoreResponse, Abort, Answered, Mutex,
     Preparing, Placed, Stored, StageTyped, AnswersTyped, ConvTyped, IndexTyped,
     BoundsTyped, MessagesTyped, Registered
<1>8. ASSUME NEW c \in Calls, ReserveNew(c) PROVE Answered(d)'
  BY <1>8, <1>0, Types, BuddyAssumption DEF ReserveNew, Reservable, Busy, Answered,
     Mutex, Preparing, Placed, Stored, StageTyped, AnswersTyped, ConvTyped, IndexTyped,
     BoundsTyped, MessagesTyped, Registered
<1>9. ASSUME NEW c \in Calls, Launch(c) PROVE Answered(d)'
  BY <1>9, <1>0, Types, BuddyAssumption DEF Launch, Finish, FinishOk, FinishError,
     Fault, UnchangedButFinish, Answered, Mutex, Preparing, Placed, Stored, StageTyped,
     AnswersTyped, ConvTyped, IndexTyped, BoundsTyped, MessagesTyped, Registered
<1>10. ASSUME NEW c \in Calls, AttachWorker(c) PROVE Answered(d)'
  BY <1>10, <1>0, Types, BuddyAssumption DEF AttachWorker, Answered, Mutex, Preparing,
     Placed, Stored, StageTyped, AnswersTyped, ConvTyped, IndexTyped, BoundsTyped,
     MessagesTyped, Registered
<1>11. ASSUME NEW c \in Calls, Prepare(c) PROVE Answered(d)'
  BY <1>11, <1>0, Types, BuddyAssumption DEF Prepare, Unavailable, ErrorState, EndWith,
     Finish, FinishOk, FinishError, Fault, MarkRunning, WorkerOnly, UnchangedButFinish,
     Answered, Mutex, Preparing, Placed, Stored, StageTyped, AnswersTyped, ConvTyped,
     IndexTyped, BoundsTyped, MessagesTyped, Registered
<1>12. ASSUME NEW c \in Calls, Start(c) PROVE Answered(d)'
  BY <1>12, <1>0, Types, BuddyAssumption DEF Start, EndWith, Finish, FinishOk,
     FinishError, Fault, WorkerOnly, UnchangedButFinish, Answered, Mutex, Preparing,
     Placed, Stored, StageTyped, AnswersTyped, ConvTyped, IndexTyped, BoundsTyped,
     MessagesTyped, Registered
<1>13. ASSUME NEW c \in Calls, PollApproval(c) PROVE Answered(d)'
  BY <1>13, <1>0, Types, BuddyAssumption DEF PollApproval, Resolve, Fault, WorkerOnly,
     UnchangedButFinish, Answered, Mutex, Preparing, Placed, Stored, StageTyped,
     AnswersTyped, ConvTyped, IndexTyped, BoundsTyped, MessagesTyped, Registered
<1>14. ASSUME NEW c \in Calls, Claim(c) PROVE Answered(d)'
  BY <1>14, <1>0, Types, BuddyAssumption DEF Claim, EndWith, Finish, FinishOk,
     FinishError, Fault, WorkerOnly, UnchangedButFinish, Answered, Mutex, Preparing,
     Placed, Stored, StageTyped, AnswersTyped, ConvTyped, IndexTyped, BoundsTyped,
     MessagesTyped, Registered
<1>15. ASSUME NEW c \in Calls, HostActions(c) PROVE Answered(d)'
  BY <1>15, <1>0, Types, BuddyAssumption DEF HostActions, Fault, Answered, Mutex,
     Preparing, Placed, Stored, StageTyped, AnswersTyped, ConvTyped, IndexTyped,
     BoundsTyped, MessagesTyped, Registered
<1>16. ASSUME NEW c \in Calls, SaveReply(c) PROVE Answered(d)'
  BY <1>16, <1>0, Types, BuddyAssumption DEF SaveReply, Fault, Answered, Mutex,
     Preparing, Placed, Stored, StageTyped, AnswersTyped, ConvTyped, IndexTyped,
     BoundsTyped, MessagesTyped, Registered
<1>17. ASSUME NEW c \in Calls, Complete(c) PROVE Answered(d)'
  BY <1>17, <1>0, Types, BuddyAssumption DEF Complete, FinishOk, FinishError, Fault,
     WorkerOnly, UnchangedButFinish, Answered, Mutex, Preparing, Placed, Stored,
     StageTyped, AnswersTyped, ConvTyped, IndexTyped, BoundsTyped, MessagesTyped,
     Registered
<1>18. ASSUME NEW c \in Calls, Fallback(c) PROVE Answered(d)'
  BY <1>18, <1>0, Types, BuddyAssumption DEF Fallback, EndWith, Finish, FinishOk,
     FinishError, Fault, WorkerOnly, UnchangedButFinish, Answered, Mutex, Preparing,
     Placed, Stored, StageTyped, AnswersTyped, ConvTyped, IndexTyped, BoundsTyped,
     MessagesTyped, Registered
<1>19. ASSUME NEW c \in Calls, CodexFails(c) PROVE Answered(d)'
  BY <1>19, <1>0, Types, BuddyAssumption DEF CodexFails, ErrorState, EndWith, Finish,
     FinishOk, FinishError, Fault, WorkerOnly, UnchangedButFinish, Answered, Mutex,
     Preparing, Placed, Stored, StageTyped, AnswersTyped, ConvTyped, IndexTyped,
     BoundsTyped, MessagesTyped, Registered
<1>20. ASSUME NEW c \in Calls, RecoverRun(c) PROVE Answered(d)'
  BY <1>20, <1>0, Types, BuddyAssumption DEF RecoverRun, FinishOk, FinishError, Fault,
     Answered, Mutex, Preparing, Placed, Stored, StageTyped, AnswersTyped, ConvTyped,
     IndexTyped, BoundsTyped, MessagesTyped, Registered
<1>21. CASE DeleteRow
  BY <1>21, <1>0, Types, BuddyAssumption DEF DeleteRow, Fault, Answered, Mutex,
     Preparing, Placed, Stored, StageTyped, AnswersTyped, ConvTyped, IndexTyped,
     BoundsTyped, MessagesTyped, Registered
<1>22. CASE Shutdown
  BY <1>22, <1>0, Types, BuddyAssumption DEF Shutdown, Answered, Mutex, Preparing,
     Placed, Stored, StageTyped, AnswersTyped, ConvTyped, IndexTyped, BoundsTyped,
     MessagesTyped, Registered
<1>23. CASE Crash
  BY <1>23, <1>0, Types, BuddyAssumption DEF Crash, Answered, Mutex, Preparing, Placed,
     Stored, StageTyped, AnswersTyped, ConvTyped, IndexTyped, BoundsTyped,
     MessagesTyped, Registered
<1>24. CASE Restart
  BY <1>24, <1>0, Types, BuddyAssumption DEF Restart, Reconciled,
     ReconciledConversations, CancelledApprovals, Answered, Mutex, Preparing, Placed,
     Stored, StageTyped, AnswersTyped, ConvTyped, IndexTyped, BoundsTyped,
     MessagesTyped, Registered
<1>25. ASSUME UNCHANGED <<faults, stops, msgs, conv, convs, answers, stage>> PROVE
   Answered(d)'
  BY <1>25, <1>0, Types, BuddyAssumption DEF Answered, Mutex, Preparing, Placed, Stored,
     StageTyped, AnswersTyped, ConvTyped, IndexTyped, BoundsTyped, MessagesTyped,
     Registered
<1>26. ASSUME NEW c \in Calls, End(c) \/ RequestApproval(c) \/ CodexReturns(c) \/
   Cancel(c) PROVE Answered(d)'
  BY <1>25, <1>26 DEF End, RequestApproval, CodexReturns, Cancel, WorkerOnly,
     UnchangedButFinish
<1>27. CASE DeleteLog \/ Exit \/ Recovered \/ UNCHANGED vars
  BY <1>25, <1>27 DEF DeleteLog, Exit, Recovered
<1>28. ASSUME NEW c \in Calls, NEW status \in {"approved", "denied"}, Answer(c, status)
   PROVE Answered(d)'
  BY <1>25, <1>28 DEF Answer
<1>29. ASSUME NEW k \in Conversations, DeleteBegin(k) PROVE Answered(d)'
  BY <1>25, <1>29 DEF DeleteBegin
<1> QED
  BY <1>1, <1>2, <1>3, <1>4, <1>5, <1>6, <1>7, <1>8, <1>9, <1>10, <1>11, <1>12, <1>13,
     <1>14, <1>15, <1>16, <1>17, <1>18, <1>19, <1>20, <1>21, <1>22, <1>23, <1>24, <1>26,
     <1>27, <1>28, <1>29 DEF Next, StartTurn, WorkerStep

\* One thread for a conversation.
LEMMA OneRunStep ==
    ASSUME IInv, [Next]_vars
    PROVE  OneRunPerConversation'
<1>0. OneRunPerConversation
  BY DEF IInv
<1>1. ASSUME NEW c \in Calls, OpenConversation(c) PROVE OneRunPerConversation'
  <2>1. \A r \in Calls : Alive(r) => conv'[r] = conv[r]
    BY <1>1, Types DEF OpenConversation, Abort, ConvTyped, IInv, Placed, Alive, Active
  <2>2. \A r \in Calls : Alive(r)' <=> Alive(r)
    BY <1>1 DEF OpenConversation, Alive
  <2> QED
    BY <2>1, <2>2 DEF IInv, OneRunPerConversation
<1>2. ASSUME NEW c \in Calls, Launch(c) PROVE OneRunPerConversation'
  <2>1. conv' = conv
    BY <1>2 DEF Launch, UnchangedButFinish
  <2>2. CASE work' = work
    BY <2>1, <2>2 DEF IInv, OneRunPerConversation, Alive
  <2>3. CASE ~ShuttingDown /\ work' = [work EXCEPT ![c] = "prepare"]
    <3>1. \A r \in Calls \ {c} : Alive(r)' <=> Alive(r)
      BY <2>3, Types DEF Alive, WorkTyped
    <3>2. ReservedAt(c, c) /\ c \in Holding /\ HeldBy(c) = conv[c] /\ mode = "up"
      BY <1>2, <2>3 DEF IInv, Launch, Holding, HeldBy, Preparing, ShuttingDown
    <3>3. conv[c] \in reserved
      BY <3>2 DEF ReservedAt
    <3>4. \A r \in Calls : Alive(r) => conv[r] # conv[c]
      BY <3>2, <3>3 DEF IInv, ReservedAt, Registered
    <3> QED
      BY <2>1, <3>1, <3>4 DEF IInv, OneRunPerConversation
  <2> QED
    BY <1>2, <2>2, <2>3 DEF Launch
<1>3. ASSUME NEW c \in Calls, Prepare(c) PROVE OneRunPerConversation'
  BY <1>3, <1>0, Types DEF Prepare, Unavailable, ErrorState, EndWith, Finish, FinishOk,
     FinishError, Fault, MarkRunning, WorkerOnly, UnchangedButFinish,
     OneRunPerConversation, Alive, WorkTyped
<1>4. ASSUME NEW c \in Calls, Start(c) PROVE OneRunPerConversation'
  <2>1. \A r \in Calls : Alive(r)' => Alive(r)
    BY <1>4, Types DEF Start, EndWith, Finish, FinishOk, FinishError, Fault, WorkerOnly,
       UnchangedButFinish, Alive, WorkTyped
  <2>2. conv' = conv
    BY <1>4 DEF Start, WorkerOnly, UnchangedButFinish
  <2> QED
    BY <2>1, <2>2 DEF IInv, OneRunPerConversation
<1>5. ASSUME NEW c \in Calls, PollApproval(c) PROVE OneRunPerConversation'
  <2>1. \A r \in Calls : Alive(r)' => Alive(r)
    BY <1>5, Types DEF PollApproval, Resolve, Fault, WorkerOnly, UnchangedButFinish, Alive,
       WorkTyped
  <2>2. conv' = conv
    BY <1>5 DEF PollApproval, WorkerOnly, UnchangedButFinish
  <2> QED
    BY <2>1, <2>2 DEF IInv, OneRunPerConversation
<1>6. ASSUME NEW c \in Calls, Claim(c) PROVE OneRunPerConversation'
  <2>1. \A r \in Calls : Alive(r)' => Alive(r)
    BY <1>6, Types DEF Claim, EndWith, Finish, FinishOk, FinishError, Fault, WorkerOnly,
       UnchangedButFinish, Alive, WorkTyped
  <2>2. conv' = conv
    BY <1>6 DEF Claim, WorkerOnly, UnchangedButFinish
  <2> QED
    BY <2>1, <2>2 DEF IInv, OneRunPerConversation
<1>7. ASSUME NEW c \in Calls, HostActions(c) PROVE OneRunPerConversation'
  <2>1. \A r \in Calls : Alive(r)' => Alive(r)
    BY <1>7, Types DEF HostActions, Fault, Alive, WorkTyped
  <2>2. conv' = conv
    BY <1>7 DEF HostActions
  <2> QED
    BY <2>1, <2>2 DEF IInv, OneRunPerConversation
<1>8. ASSUME NEW c \in Calls, SaveReply(c) PROVE OneRunPerConversation'
  <2>1. \A r \in Calls : Alive(r)' => Alive(r)
    BY <1>8, Types DEF SaveReply, Fault, Alive, WorkTyped
  <2>2. conv' = conv
    BY <1>8 DEF SaveReply
  <2> QED
    BY <2>1, <2>2 DEF IInv, OneRunPerConversation
<1>9. ASSUME NEW c \in Calls, Complete(c) PROVE OneRunPerConversation'
  <2>1. \A r \in Calls : Alive(r)' => Alive(r)
    BY <1>9, Types DEF Complete, FinishOk, FinishError, Fault, WorkerOnly,
       UnchangedButFinish, Alive, WorkTyped
  <2>2. conv' = conv
    BY <1>9 DEF Complete, WorkerOnly, UnchangedButFinish
  <2> QED
    BY <2>1, <2>2 DEF IInv, OneRunPerConversation
<1>10. ASSUME NEW c \in Calls, Fallback(c) PROVE OneRunPerConversation'
  BY <1>10, <1>0, Types DEF Fallback, EndWith, Finish, FinishOk, FinishError, Fault,
     WorkerOnly, UnchangedButFinish, OneRunPerConversation, Alive, WorkTyped
<1>11. ASSUME NEW c \in Calls, End(c) PROVE OneRunPerConversation'
  BY <1>11, <1>0, Types DEF End, OneRunPerConversation, Alive, WorkTyped
<1>12. ASSUME NEW c \in Calls, RequestApproval(c) PROVE OneRunPerConversation'
  BY <1>12, <1>0, Types DEF RequestApproval, WorkerOnly, UnchangedButFinish,
     OneRunPerConversation, Alive, WorkTyped
<1>13. ASSUME NEW c \in Calls, CodexFails(c) PROVE OneRunPerConversation'
  BY <1>13, <1>0, Types DEF CodexFails, ErrorState, EndWith, Finish, FinishOk,
     FinishError, Fault, WorkerOnly, UnchangedButFinish, OneRunPerConversation, Alive,
     WorkTyped
<1>14. ASSUME NEW c \in Calls, CodexReturns(c) PROVE OneRunPerConversation'
  BY <1>14, <1>0, Types DEF CodexReturns, WorkerOnly, UnchangedButFinish,
     OneRunPerConversation, Alive, WorkTyped
<1>15. CASE Restart
  BY <1>15, <1>0, Types DEF Restart, Reconciled, ReconciledConversations,
     CancelledApprovals, OneRunPerConversation, Alive, WorkTyped
<1>16. ASSUME UNCHANGED <<work, conv>> PROVE OneRunPerConversation'
  BY <1>16, <1>0, Types DEF OneRunPerConversation, Alive, WorkTyped
<1>17. ASSUME NEW c \in Calls, Ask(c) \/ AppendUserMessage(c) \/ LocalReply(c) \/
   LogRun(c) \/ CreateRun(c) \/ StoreResponse(c) \/ ReserveNew(c) \/ AttachWorker(c)
   PROVE OneRunPerConversation'
  BY <1>16, <1>17 DEF Ask, AppendUserMessage, LocalReply, LogRun, CreateRun,
     StoreResponse, ReserveNew, AttachWorker
<1>18. ASSUME NEW c \in Calls, Cancel(c) \/ RecoverRun(c) PROVE OneRunPerConversation'
  BY <1>16, <1>18 DEF Cancel, RecoverRun
<1>19. CASE DeleteLog \/ DeleteRow \/ Shutdown \/ Exit \/ Crash \/ Recovered \/
   UNCHANGED vars
  BY <1>16, <1>19 DEF DeleteLog, DeleteRow, Shutdown, Exit, Crash, Recovered
<1>20. ASSUME NEW c \in Calls, NEW status \in {"approved", "denied"}, Answer(c, status)
   PROVE OneRunPerConversation'
  BY <1>16, <1>20 DEF Answer
<1>21. ASSUME NEW k \in Conversations, DeleteBegin(k) PROVE OneRunPerConversation'
  BY <1>16, <1>21 DEF DeleteBegin
<1> QED
  BY <1>1, <1>2, <1>3, <1>4, <1>5, <1>6, <1>7, <1>8, <1>9, <1>10, <1>11, <1>12, <1>13,
     <1>14, <1>15, <1>17, <1>18, <1>19, <1>20, <1>21 DEF Next, StartTurn, WorkerStep

\* The reservations.
LEMMA ReservedStep ==
    ASSUME IInv, [Next]_vars, NEW d \in Calls, NEW e \in Calls
    PROVE  ReservedAt(d, e)'
<1>0. Deletions /\ Registered /\ (\A c \in Calls : Placed(c)) /\ \A a, b \in Calls :
   ReservedAt(a, b)
  BY DEF IInv
<1>1. ASSUME NEW c \in Calls, Ask(c) PROVE ReservedAt(d, e)'
  BY <1>1, <1>0, Types, BuddyAssumption DEF Ask, Reservable, Busy, ReservedAt, Holding,
     HeldBy, Preparing, ShuttingDown, Serving, NoDelete, Registered, Placed, Deletions,
     Alive, Early, Active, StageTyped, ConvTyped, DeletingTyped, IndexTyped,
     RegistryTyped
<1>2. ASSUME NEW c \in Calls, OpenConversation(c) PROVE ReservedAt(d, e)'
  BY <1>2, <1>0, Types, BuddyAssumption DEF OpenConversation, Abort, Fault, ReservedAt,
     Holding, HeldBy, Preparing, ShuttingDown, Serving, NoDelete, Registered, Placed,
     Deletions, Alive, Early, Active, StageTyped, ConvTyped, DeletingTyped, IndexTyped,
     RegistryTyped
<1>3. ASSUME NEW c \in Calls, AppendUserMessage(c) PROVE ReservedAt(d, e)'
  BY <1>3, <1>0, Types, BuddyAssumption DEF AppendUserMessage, Abort, Fault, ReservedAt,
     Holding, HeldBy, Preparing, ShuttingDown, Serving, NoDelete, Registered, Placed,
     Deletions, Alive, Early, Active, StageTyped, ConvTyped, DeletingTyped, IndexTyped,
     RegistryTyped
<1>4. ASSUME NEW c \in Calls, LocalReply(c) PROVE ReservedAt(d, e)'
  BY <1>4, <1>0, Types, BuddyAssumption DEF LocalReply, ReservedAt, Holding, HeldBy,
     Preparing, ShuttingDown, Serving, NoDelete, Registered, Placed, Deletions, Alive,
     Early, Active, StageTyped, ConvTyped, DeletingTyped, IndexTyped, RegistryTyped
<1>5. ASSUME NEW c \in Calls, LogRun(c) PROVE ReservedAt(d, e)'
  BY <1>5, <1>0, Types, BuddyAssumption DEF LogRun, Abort, ReservedAt, Holding, HeldBy,
     Preparing, ShuttingDown, Serving, NoDelete, Registered, Placed, Deletions, Alive,
     Early, Active, StageTyped, ConvTyped, DeletingTyped, IndexTyped, RegistryTyped
<1>6. ASSUME NEW c \in Calls, CreateRun(c) PROVE ReservedAt(d, e)'
  BY <1>6, <1>0, Types, BuddyAssumption DEF CreateRun, Abort, ReservedAt, Holding,
     HeldBy, Preparing, ShuttingDown, Serving, NoDelete, Registered, Placed, Deletions,
     Alive, Early, Active, StageTyped, ConvTyped, DeletingTyped, IndexTyped,
     RegistryTyped
<1>7. ASSUME NEW c \in Calls, StoreResponse(c) PROVE ReservedAt(d, e)'
  BY <1>7, <1>0, Types, BuddyAssumption DEF StoreResponse, Abort, ReservedAt, Holding,
     HeldBy, Preparing, ShuttingDown, Serving, NoDelete, Registered, Placed, Deletions,
     Alive, Early, Active, StageTyped, ConvTyped, DeletingTyped, IndexTyped,
     RegistryTyped
<1>8. ASSUME NEW c \in Calls, ReserveNew(c) PROVE ReservedAt(d, e)'
  BY <1>8, <1>0, Types, BuddyAssumption DEF ReserveNew, Reservable, Busy, ReservedAt,
     Holding, HeldBy, Preparing, ShuttingDown, Serving, NoDelete, Registered, Placed,
     Deletions, Alive, Early, Active, StageTyped, ConvTyped, DeletingTyped, IndexTyped,
     RegistryTyped
<1>9. ASSUME NEW c \in Calls, Launch(c) PROVE ReservedAt(d, e)'
  BY <1>9, <1>0, Types, BuddyAssumption DEF Launch, Finish, FinishOk, FinishError,
     Fault, UnchangedButFinish, ReservedAt, Holding, HeldBy, Preparing, ShuttingDown,
     Serving, NoDelete, Registered, Placed, Deletions, Alive, Early, Active, StageTyped,
     ConvTyped, DeletingTyped, IndexTyped, RegistryTyped
<1>10. ASSUME NEW c \in Calls, AttachWorker(c) PROVE ReservedAt(d, e)'
  BY <1>10, <1>0, Types, BuddyAssumption DEF AttachWorker, ReservedAt, Holding, HeldBy,
     Preparing, ShuttingDown, Serving, NoDelete, Registered, Placed, Deletions, Alive,
     Early, Active, StageTyped, ConvTyped, DeletingTyped, IndexTyped, RegistryTyped
<1>11. ASSUME NEW c \in Calls, End(c) PROVE ReservedAt(d, e)'
  BY <1>11, <1>0, Types, BuddyAssumption DEF End, ReservedAt, Holding, HeldBy,
     Preparing, ShuttingDown, Serving, NoDelete, Registered, Placed, Deletions, Alive,
     Early, Active, StageTyped, ConvTyped, DeletingTyped, IndexTyped, RegistryTyped
<1>12. ASSUME NEW c \in Calls, RecoverRun(c) PROVE ReservedAt(d, e)'
  BY <1>12, <1>0, Types, BuddyAssumption DEF RecoverRun, FinishOk, FinishError, Fault,
     ReservedAt, Holding, HeldBy, Preparing, ShuttingDown, Serving, NoDelete,
     Registered, Placed, Deletions, Alive, Early, Active, StageTyped, ConvTyped,
     DeletingTyped, IndexTyped, RegistryTyped
<1>13. ASSUME NEW k \in Conversations, DeleteBegin(k) PROVE ReservedAt(d, e)'
  BY <1>13, <1>0, Types, BuddyAssumption DEF DeleteBegin, Reservable, Busy, ReservedAt,
     Holding, HeldBy, Preparing, ShuttingDown, Serving, NoDelete, Registered, Placed,
     Deletions, Alive, Early, Active, StageTyped, ConvTyped, DeletingTyped, IndexTyped,
     RegistryTyped
<1>14. CASE DeleteLog
  BY <1>14, <1>0, Types, BuddyAssumption DEF DeleteLog, ReservedAt, Holding, HeldBy,
     Preparing, ShuttingDown, Serving, NoDelete, Registered, Placed, Deletions, Alive,
     Early, Active, StageTyped, ConvTyped, DeletingTyped, IndexTyped, RegistryTyped
<1>15. CASE DeleteRow
  BY <1>15, <1>0, Types, BuddyAssumption DEF DeleteRow, Fault, ReservedAt, Holding,
     HeldBy, Preparing, ShuttingDown, Serving, NoDelete, Registered, Placed, Deletions,
     Alive, Early, Active, StageTyped, ConvTyped, DeletingTyped, IndexTyped,
     RegistryTyped
<1>16. CASE Shutdown
  BY <1>16, <1>0, Types, BuddyAssumption DEF Shutdown, ReservedAt, Holding, HeldBy,
     Preparing, ShuttingDown, Serving, NoDelete, Registered, Placed, Deletions, Alive,
     Early, Active, StageTyped, ConvTyped, DeletingTyped, IndexTyped, RegistryTyped
<1>17. CASE Exit
  BY <1>17, <1>0, Types, BuddyAssumption DEF Exit, ReservedAt, Holding, HeldBy,
     Preparing, ShuttingDown, Serving, NoDelete, Registered, Placed, Deletions, Alive,
     Early, Active, StageTyped, ConvTyped, DeletingTyped, IndexTyped, RegistryTyped
<1>18. CASE Crash
  BY <1>18, <1>0, Types, BuddyAssumption DEF Crash, ReservedAt, Holding, HeldBy,
     Preparing, ShuttingDown, Serving, NoDelete, Registered, Placed, Deletions, Alive,
     Early, Active, StageTyped, ConvTyped, DeletingTyped, IndexTyped, RegistryTyped
<1>19. CASE Restart
  BY <1>19, <1>0, Types, BuddyAssumption DEF Restart, Reconciled,
     ReconciledConversations, CancelledApprovals, ReservedAt, Holding, HeldBy,
     Preparing, ShuttingDown, Serving, NoDelete, Registered, Placed, Deletions, Alive,
     Early, Active, StageTyped, ConvTyped, DeletingTyped, IndexTyped, RegistryTyped
<1>20. CASE Recovered
  BY <1>20, <1>0, Types, BuddyAssumption DEF Recovered, ReservedAt, Holding, HeldBy,
     Preparing, ShuttingDown, Serving, NoDelete, Registered, Placed, Deletions, Alive,
     Early, Active, StageTyped, ConvTyped, DeletingTyped, IndexTyped, RegistryTyped
<1>21. ASSUME UNCHANGED <<mode, stage, conv, reserved, workers, deleting>> PROVE
   ReservedAt(d, e)'
  BY <1>21, <1>0, Types, BuddyAssumption DEF ReservedAt, Holding, HeldBy, Preparing,
     ShuttingDown, Serving, NoDelete, Registered, Placed, Deletions, Alive, Early,
     Active, StageTyped, ConvTyped, DeletingTyped, IndexTyped, RegistryTyped
<1>22. ASSUME NEW c \in Calls, Prepare(c) \/ Start(c) \/ PollApproval(c) \/ Claim(c) \/
   HostActions(c) \/ SaveReply(c) \/ Complete(c) \/ Fallback(c) PROVE ReservedAt(d, e)'
  BY <1>21, <1>22 DEF Prepare, Start, PollApproval, Claim, HostActions, SaveReply,
     Complete, Fallback, WorkerOnly, UnchangedButFinish
<1>23. ASSUME NEW c \in Calls, RequestApproval(c) \/ CodexFails(c) \/ CodexReturns(c) \/
   Cancel(c) PROVE ReservedAt(d, e)'
  BY <1>21, <1>23 DEF RequestApproval, CodexFails, CodexReturns, Cancel, WorkerOnly,
     UnchangedButFinish
<1>24. CASE UNCHANGED vars
  BY <1>21, <1>24
<1>25. ASSUME NEW c \in Calls, NEW status \in {"approved", "denied"}, Answer(c, status)
   PROVE ReservedAt(d, e)'
  BY <1>21, <1>25 DEF Answer
<1> QED
  BY <1>1, <1>2, <1>3, <1>4, <1>5, <1>6, <1>7, <1>8, <1>9, <1>10, <1>11, <1>12, <1>13,
     <1>14, <1>15, <1>16, <1>17, <1>18, <1>19, <1>20, <1>22, <1>23, <1>24, <1>25 DEF
     Next, StartTurn, WorkerStep

\* The hands a run is in.
LEMMA InHandStep ==
    ASSUME IInv, [Next]_vars, NEW d \in Calls
    PROVE  InHand(d)'
<1>0. Registered /\ \A c \in Calls : Placed(c) /\ Stored(c) /\ Ended(c) /\ InHand(c)
  BY DEF IInv
<1>1. ASSUME NEW c \in Calls, Ask(c) PROVE InHand(d)'
  BY <1>1, <1>0, Types, BuddyAssumption DEF Ask, Reservable, Busy, InHand, Owned,
     Refused, Serving, Alive, Active, Open, Placed, Stored, Ended, Registered,
     StageTyped, WorkTyped, RowTyped, BoundsTyped
<1>2. ASSUME NEW c \in Calls, OpenConversation(c) PROVE InHand(d)'
  BY <1>2, <1>0, Types, BuddyAssumption DEF OpenConversation, Abort, Fault, InHand,
     Owned, Refused, Serving, Alive, Active, Open, Placed, Stored, Ended, Registered,
     StageTyped, WorkTyped, RowTyped, BoundsTyped
<1>3. ASSUME NEW c \in Calls, AppendUserMessage(c) PROVE InHand(d)'
  BY <1>3, <1>0, Types, BuddyAssumption DEF AppendUserMessage, Abort, Fault, InHand,
     Owned, Refused, Serving, Alive, Active, Open, Placed, Stored, Ended, Registered,
     StageTyped, WorkTyped, RowTyped, BoundsTyped
<1>4. ASSUME NEW c \in Calls, LocalReply(c) PROVE InHand(d)'
  BY <1>4, <1>0, Types, BuddyAssumption DEF LocalReply, InHand, Owned, Refused, Serving,
     Alive, Active, Open, Placed, Stored, Ended, Registered, StageTyped, WorkTyped,
     RowTyped, BoundsTyped
<1>5. ASSUME NEW c \in Calls, LogRun(c) PROVE InHand(d)'
  BY <1>5, <1>0, Types, BuddyAssumption DEF LogRun, Abort, InHand, Owned, Refused,
     Serving, Alive, Active, Open, Placed, Stored, Ended, Registered, StageTyped,
     WorkTyped, RowTyped, BoundsTyped
<1>6. ASSUME NEW c \in Calls, CreateRun(c) PROVE InHand(d)'
  BY <1>6, <1>0, Types, BuddyAssumption DEF CreateRun, Abort, InHand, Owned, Refused,
     Serving, Alive, Active, Open, Placed, Stored, Ended, Registered, StageTyped,
     WorkTyped, RowTyped, BoundsTyped
<1>7. ASSUME NEW c \in Calls, StoreResponse(c) PROVE InHand(d)'
  BY <1>7, <1>0, Types, BuddyAssumption DEF StoreResponse, Abort, InHand, Owned,
     Refused, Serving, Alive, Active, Open, Placed, Stored, Ended, Registered,
     StageTyped, WorkTyped, RowTyped, BoundsTyped
<1>8. ASSUME NEW c \in Calls, ReserveNew(c) PROVE InHand(d)'
  BY <1>8, <1>0, Types, BuddyAssumption DEF ReserveNew, Reservable, Busy, InHand, Owned,
     Refused, Serving, Alive, Active, Open, Placed, Stored, Ended, Registered,
     StageTyped, WorkTyped, RowTyped, BoundsTyped
<1>9. ASSUME NEW c \in Calls, Launch(c) PROVE InHand(d)'
  BY <1>9, <1>0, Types, BuddyAssumption, FinishEffect DEF Launch, Finish, Fault,
     UnchangedButFinish, Finished, InHand, Owned, Refused, Serving, Alive, Active, Open,
     Placed, Stored, Ended, Registered, StageTyped, WorkTyped, RowTyped, BoundsTyped
<1>10. ASSUME NEW c \in Calls, AttachWorker(c) PROVE InHand(d)'
  BY <1>10, <1>0, Types, BuddyAssumption DEF AttachWorker, InHand, Owned, Refused,
     Serving, Alive, Active, Open, Placed, Stored, Ended, Registered, StageTyped,
     WorkTyped, RowTyped, BoundsTyped
<1>11. ASSUME NEW c \in Calls, Prepare(c) PROVE InHand(d)'
  BY <1>11, <1>0, Types, BuddyAssumption, FinishEffect DEF Prepare, Unavailable,
     ErrorState, EndWith, Finish, Fault, MarkRunning, WorkerOnly, UnchangedButFinish,
     Finished, InHand, Owned, Refused, Serving, Alive, Active, Open, Placed, Stored,
     Ended, Registered, StageTyped, WorkTyped, RowTyped, BoundsTyped
<1>12. ASSUME NEW c \in Calls, Start(c) PROVE InHand(d)'
  BY <1>12, <1>0, Types, BuddyAssumption, FinishEffect DEF Start, EndWith, Finish,
     Fault, WorkerOnly, UnchangedButFinish, Finished, InHand, Owned, Refused, Serving,
     Alive, Active, Open, Placed, Stored, Ended, Registered, StageTyped, WorkTyped,
     RowTyped, BoundsTyped
<1>13. ASSUME NEW c \in Calls, PollApproval(c) PROVE InHand(d)'
  BY <1>13, <1>0, Types, BuddyAssumption DEF PollApproval, Resolve, Fault, WorkerOnly,
     UnchangedButFinish, InHand, Owned, Refused, Serving, Alive, Active, Open, Placed,
     Stored, Ended, Registered, StageTyped, WorkTyped, RowTyped, BoundsTyped
<1>14. ASSUME NEW c \in Calls, Claim(c) PROVE InHand(d)'
  BY <1>14, <1>0, Types, BuddyAssumption, FinishEffect DEF Claim, EndWith, Finish,
     Fault, WorkerOnly, UnchangedButFinish, Finished, InHand, Owned, Refused, Serving,
     Alive, Active, Open, Placed, Stored, Ended, Registered, StageTyped, WorkTyped,
     RowTyped, BoundsTyped
<1>15. ASSUME NEW c \in Calls, HostActions(c) PROVE InHand(d)'
  BY <1>15, <1>0, Types, BuddyAssumption DEF HostActions, Fault, InHand, Owned, Refused,
     Serving, Alive, Active, Open, Placed, Stored, Ended, Registered, StageTyped,
     WorkTyped, RowTyped, BoundsTyped
<1>16. ASSUME NEW c \in Calls, SaveReply(c) PROVE InHand(d)'
  BY <1>16, <1>0, Types, BuddyAssumption DEF SaveReply, Fault, InHand, Owned, Refused,
     Serving, Alive, Active, Open, Placed, Stored, Ended, Registered, StageTyped,
     WorkTyped, RowTyped, BoundsTyped
<1>17. ASSUME NEW c \in Calls, Complete(c) PROVE InHand(d)'
  BY <1>17, <1>0, Types, BuddyAssumption, FinishEffect DEF Complete, Fault, WorkerOnly,
     UnchangedButFinish, Finished, InHand, Owned, Refused, Serving, Alive, Active, Open,
     Placed, Stored, Ended, Registered, StageTyped, WorkTyped, RowTyped, BoundsTyped
<1>18. ASSUME NEW c \in Calls, Fallback(c) PROVE InHand(d)'
  BY <1>18, <1>0, Types, BuddyAssumption, FinishEffect DEF Fallback, EndWith, Finish,
     Fault, WorkerOnly, UnchangedButFinish, Finished, InHand, Owned, Refused, Serving,
     Alive, Active, Open, Placed, Stored, Ended, Registered, StageTyped, WorkTyped,
     RowTyped, BoundsTyped
<1>19. ASSUME NEW c \in Calls, End(c) PROVE InHand(d)'
  BY <1>19, <1>0, Types, BuddyAssumption DEF End, InHand, Owned, Refused, Serving,
     Alive, Active, Open, Placed, Stored, Ended, Registered, StageTyped, WorkTyped,
     RowTyped, BoundsTyped
<1>20. ASSUME NEW c \in Calls, RequestApproval(c) PROVE InHand(d)'
  BY <1>20, <1>0, Types, BuddyAssumption DEF RequestApproval, WorkerOnly,
     UnchangedButFinish, InHand, Owned, Refused, Serving, Alive, Active, Open, Placed,
     Stored, Ended, Registered, StageTyped, WorkTyped, RowTyped, BoundsTyped
<1>21. ASSUME NEW c \in Calls, CodexFails(c) PROVE InHand(d)'
  BY <1>21, <1>0, Types, BuddyAssumption, FinishEffect DEF CodexFails, ErrorState,
     EndWith, Finish, Fault, WorkerOnly, UnchangedButFinish, Finished, InHand, Owned,
     Refused, Serving, Alive, Active, Open, Placed, Stored, Ended, Registered,
     StageTyped, WorkTyped, RowTyped, BoundsTyped
<1>22. ASSUME NEW c \in Calls, CodexReturns(c) PROVE InHand(d)'
  BY <1>22, <1>0, Types, BuddyAssumption DEF CodexReturns, WorkerOnly,
     UnchangedButFinish, InHand, Owned, Refused, Serving, Alive, Active, Open, Placed,
     Stored, Ended, Registered, StageTyped, WorkTyped, RowTyped, BoundsTyped
<1>23. ASSUME NEW c \in Calls, RecoverRun(c) PROVE InHand(d)'
  BY <1>23, <1>0, Types, BuddyAssumption, FinishEffect DEF RecoverRun, Fault, Finished,
     InHand, Owned, Refused, Serving, Alive, Active, Open, Placed, Stored, Ended,
     Registered, StageTyped, WorkTyped, RowTyped, BoundsTyped
<1>24. CASE DeleteRow
  BY <1>24, <1>0, Types, BuddyAssumption DEF DeleteRow, Fault, InHand, Owned, Refused,
     Serving, Alive, Active, Open, Placed, Stored, Ended, Registered, StageTyped,
     WorkTyped, RowTyped, BoundsTyped
<1>25. CASE Shutdown
  BY <1>25, <1>0, Types, BuddyAssumption DEF Shutdown, InHand, Owned, Refused, Serving,
     Alive, Active, Open, Placed, Stored, Ended, Registered, StageTyped, WorkTyped,
     RowTyped, BoundsTyped
<1>26. CASE Exit
  BY <1>26, <1>0, Types, BuddyAssumption DEF Exit, InHand, Owned, Refused, Serving,
     Alive, Active, Open, Placed, Stored, Ended, Registered, StageTyped, WorkTyped,
     RowTyped, BoundsTyped
<1>27. CASE Crash
  BY <1>27, <1>0, Types, BuddyAssumption DEF Crash, InHand, Owned, Refused, Serving,
     Alive, Active, Open, Placed, Stored, Ended, Registered, StageTyped, WorkTyped,
     RowTyped, BoundsTyped
<1>28. CASE Restart
  BY <1>28, <1>0, Types, BuddyAssumption DEF Restart, Reconciled,
     ReconciledConversations, CancelledApprovals, InHand, Owned, Refused, Serving,
     Alive, Active, Open, Placed, Stored, Ended, Registered, StageTyped, WorkTyped,
     RowTyped, BoundsTyped
<1>29. CASE Recovered
  BY <1>29, <1>0, Types, BuddyAssumption DEF Recovered, InHand, Owned, Refused, Serving,
     Alive, Active, Open, Placed, Stored, Ended, Registered, StageTyped, WorkTyped,
     RowTyped, BoundsTyped
<1>30. ASSUME UNCHANGED <<mode, faults, db, stage, work>> PROVE InHand(d)'
  BY <1>30, <1>0, Types, BuddyAssumption DEF InHand, Owned, Refused, Serving, Alive,
     Active, Open, Placed, Stored, Ended, Registered, StageTyped, WorkTyped, RowTyped,
     BoundsTyped
<1>31. ASSUME NEW c \in Calls, Cancel(c) PROVE InHand(d)'
  BY <1>30, <1>31 DEF Cancel
<1>32. CASE DeleteLog \/ UNCHANGED vars
  BY <1>30, <1>32 DEF DeleteLog
<1>33. ASSUME NEW c \in Calls, NEW status \in {"approved", "denied"}, Answer(c, status)
   PROVE InHand(d)'
  BY <1>30, <1>33 DEF Answer
<1>34. ASSUME NEW k \in Conversations, DeleteBegin(k) PROVE InHand(d)'
  BY <1>30, <1>34 DEF DeleteBegin
<1> QED
  BY <1>1, <1>2, <1>3, <1>4, <1>5, <1>6, <1>7, <1>8, <1>9, <1>10, <1>11, <1>12, <1>13,
     <1>14, <1>15, <1>16, <1>17, <1>18, <1>19, <1>20, <1>21, <1>22, <1>23, <1>24, <1>25,
     <1>26, <1>27, <1>28, <1>29, <1>31, <1>32, <1>33, <1>34 DEF Next, StartTurn,
     WorkerStep

\* The orderly exit.
LEMMA QuietExitStep ==
    ASSUME IInv, [Next]_vars
    PROVE  QuietExit'
<1>0. Registered /\ QuietExit /\ \A c \in Calls : InHand(c)
  BY DEF IInv
<1>1. ASSUME NEW c \in Calls, Ask(c) PROVE QuietExit'
  BY <1>1, <1>0, Types DEF Ask, Reservable, Busy, QuietExit, InHand, Owned, Refused,
     Serving, Alive, Active, Registered
<1>2. ASSUME NEW c \in Calls, OpenConversation(c) PROVE QuietExit'
  BY <1>2, <1>0, Types DEF OpenConversation, Abort, Fault, QuietExit, InHand, Owned,
     Refused, Serving, Alive, Active, Registered
<1>3. ASSUME NEW c \in Calls, AppendUserMessage(c) PROVE QuietExit'
  BY <1>3, <1>0, Types DEF AppendUserMessage, Abort, Fault, QuietExit, InHand, Owned,
     Refused, Serving, Alive, Active, Registered
<1>4. ASSUME NEW c \in Calls, LocalReply(c) PROVE QuietExit'
  BY <1>4, <1>0, Types DEF LocalReply, QuietExit, InHand, Owned, Refused, Serving,
     Alive, Active, Registered
<1>5. ASSUME NEW c \in Calls, LogRun(c) PROVE QuietExit'
  BY <1>5, <1>0, Types DEF LogRun, Abort, QuietExit, InHand, Owned, Refused, Serving,
     Alive, Active, Registered
<1>6. ASSUME NEW c \in Calls, CreateRun(c) PROVE QuietExit'
  BY <1>6, <1>0, Types DEF CreateRun, Abort, QuietExit, InHand, Owned, Refused, Serving,
     Alive, Active, Registered
<1>7. ASSUME NEW c \in Calls, StoreResponse(c) PROVE QuietExit'
  BY <1>7, <1>0, Types DEF StoreResponse, Abort, QuietExit, InHand, Owned, Refused,
     Serving, Alive, Active, Registered
<1>8. ASSUME NEW c \in Calls, ReserveNew(c) PROVE QuietExit'
  BY <1>8, <1>0, Types DEF ReserveNew, Reservable, Busy, QuietExit, InHand, Owned,
     Refused, Serving, Alive, Active, Registered
<1>9. ASSUME NEW c \in Calls, Launch(c) PROVE QuietExit'
  BY <1>9, <1>0, Types DEF Launch, Finish, FinishOk, FinishError, Fault,
     UnchangedButFinish, QuietExit, InHand, Owned, Refused, Serving, Alive, Active,
     Registered
<1>10. ASSUME NEW c \in Calls, AttachWorker(c) PROVE QuietExit'
  BY <1>10, <1>0, Types DEF AttachWorker, QuietExit, InHand, Owned, Refused, Serving,
     Alive, Active, Registered
<1>11. ASSUME NEW c \in Calls, Prepare(c) PROVE QuietExit'
  BY <1>11, <1>0, Types DEF Prepare, Unavailable, ErrorState, EndWith, Finish, FinishOk,
     FinishError, Fault, MarkRunning, WorkerOnly, UnchangedButFinish, QuietExit, InHand,
     Owned, Refused, Serving, Alive, Active, Registered
<1>12. ASSUME NEW c \in Calls, Start(c) PROVE QuietExit'
  BY <1>12, <1>0, Types DEF Start, EndWith, Finish, FinishOk, FinishError, Fault,
     WorkerOnly, UnchangedButFinish, QuietExit, InHand, Owned, Refused, Serving, Alive,
     Active, Registered
<1>13. ASSUME NEW c \in Calls, PollApproval(c) PROVE QuietExit'
  BY <1>13, <1>0, Types DEF PollApproval, Resolve, Fault, WorkerOnly,
     UnchangedButFinish, QuietExit, InHand, Owned, Refused, Serving, Alive, Active,
     Registered
<1>14. ASSUME NEW c \in Calls, Claim(c) PROVE QuietExit'
  BY <1>14, <1>0, Types DEF Claim, EndWith, Finish, FinishOk, FinishError, Fault,
     WorkerOnly, UnchangedButFinish, QuietExit, InHand, Owned, Refused, Serving, Alive,
     Active, Registered
<1>15. ASSUME NEW c \in Calls, HostActions(c) PROVE QuietExit'
  BY <1>15, <1>0, Types DEF HostActions, Fault, QuietExit, InHand, Owned, Refused,
     Serving, Alive, Active, Registered
<1>16. ASSUME NEW c \in Calls, SaveReply(c) PROVE QuietExit'
  BY <1>16, <1>0, Types DEF SaveReply, Fault, QuietExit, InHand, Owned, Refused,
     Serving, Alive, Active, Registered
<1>17. ASSUME NEW c \in Calls, Complete(c) PROVE QuietExit'
  BY <1>17, <1>0, Types DEF Complete, FinishOk, FinishError, Fault, WorkerOnly,
     UnchangedButFinish, QuietExit, InHand, Owned, Refused, Serving, Alive, Active,
     Registered
<1>18. ASSUME NEW c \in Calls, Fallback(c) PROVE QuietExit'
  BY <1>18, <1>0, Types DEF Fallback, EndWith, Finish, FinishOk, FinishError, Fault,
     WorkerOnly, UnchangedButFinish, QuietExit, InHand, Owned, Refused, Serving, Alive,
     Active, Registered
<1>19. ASSUME NEW c \in Calls, End(c) PROVE QuietExit'
  BY <1>19, <1>0, Types DEF End, QuietExit, InHand, Owned, Refused, Serving, Alive,
     Active, Registered
<1>20. ASSUME NEW c \in Calls, RequestApproval(c) PROVE QuietExit'
  BY <1>20, <1>0, Types DEF RequestApproval, WorkerOnly, UnchangedButFinish, QuietExit,
     InHand, Owned, Refused, Serving, Alive, Active, Registered
<1>21. ASSUME NEW c \in Calls, CodexFails(c) PROVE QuietExit'
  BY <1>21, <1>0, Types DEF CodexFails, ErrorState, EndWith, Finish, FinishOk,
     FinishError, Fault, WorkerOnly, UnchangedButFinish, QuietExit, InHand, Owned,
     Refused, Serving, Alive, Active, Registered
<1>22. ASSUME NEW c \in Calls, CodexReturns(c) PROVE QuietExit'
  BY <1>22, <1>0, Types DEF CodexReturns, WorkerOnly, UnchangedButFinish, QuietExit,
     InHand, Owned, Refused, Serving, Alive, Active, Registered
<1>23. ASSUME NEW c \in Calls, RecoverRun(c) PROVE QuietExit'
  BY <1>23, <1>0, Types DEF RecoverRun, FinishOk, FinishError, Fault, QuietExit, InHand,
     Owned, Refused, Serving, Alive, Active, Registered
<1>24. CASE DeleteRow
  BY <1>24, <1>0, Types DEF DeleteRow, Fault, QuietExit, InHand, Owned, Refused,
     Serving, Alive, Active, Registered
<1>25. CASE Shutdown
  BY <1>25, <1>0, Types DEF Shutdown, QuietExit, InHand, Owned, Refused, Serving, Alive,
     Active, Registered
<1>26. CASE Exit
  BY <1>26, <1>0, Types DEF Exit, QuietExit, InHand, Owned, Refused, Serving, Alive,
     Active, Registered
<1>27. CASE Crash
  BY <1>27, <1>0, Types DEF Crash, QuietExit, InHand, Owned, Refused, Serving, Alive,
     Active, Registered
<1>28. CASE Restart
  BY <1>28, <1>0, Types DEF Restart, Reconciled, ReconciledConversations,
     CancelledApprovals, QuietExit, InHand, Owned, Refused, Serving, Alive, Active,
     Registered
<1>29. CASE Recovered
  BY <1>29, <1>0, Types DEF Recovered, QuietExit, InHand, Owned, Refused, Serving,
     Alive, Active, Registered
<1>30. ASSUME UNCHANGED <<mode, faults, db, stage, work>> PROVE QuietExit'
  BY <1>30, <1>0, Types DEF QuietExit, InHand, Owned, Refused, Serving, Alive, Active,
     Registered
<1>31. ASSUME NEW c \in Calls, Cancel(c) PROVE QuietExit'
  BY <1>30, <1>31 DEF Cancel
<1>32. CASE DeleteLog \/ UNCHANGED vars
  BY <1>30, <1>32 DEF DeleteLog
<1>33. ASSUME NEW c \in Calls, NEW status \in {"approved", "denied"}, Answer(c, status)
   PROVE QuietExit'
  BY <1>30, <1>33 DEF Answer
<1>34. ASSUME NEW k \in Conversations, DeleteBegin(k) PROVE QuietExit'
  BY <1>30, <1>34 DEF DeleteBegin
<1> QED
  BY <1>1, <1>2, <1>3, <1>4, <1>5, <1>6, <1>7, <1>8, <1>9, <1>10, <1>11, <1>12, <1>13,
     <1>14, <1>15, <1>16, <1>17, <1>18, <1>19, <1>20, <1>21, <1>22, <1>23, <1>24, <1>25,
     <1>26, <1>27, <1>28, <1>29, <1>31, <1>32, <1>33, <1>34 DEF Next, StartTurn,
     WorkerStep

\* No step changes an outcome, except a deletion.
LEMMA FinalStep ==
    ASSUME IInv, [Next]_vars, NEW d \in Calls, db[d] \in Final
    PROVE  db'[d] = db[d] \/ (db'[d] = "none" /\ conv[d] \in tombs)
<1>0. Deletions /\ \A c \in Calls : Placed(c) /\ Stored(c) /\ LogTrue(c)
  BY DEF IInv
<1>1. ASSUME NEW c \in Calls, CreateRun(c) PROVE db'[d] = db[d] \/ (db'[d] = "none" /\
   conv[d] \in tombs)
  BY <1>1, <1>0, Types DEF CreateRun, Abort, Deletions, LogTrue, Stored, Placed, Final,
     Open, RowTyped
<1>2. ASSUME NEW c \in Calls, Launch(c) PROVE db'[d] = db[d] \/ (db'[d] = "none" /\
   conv[d] \in tombs)
  BY <1>2, Types, LaunchEffect, EmptyLog DEF Finished, Final, Open, RowTyped
<1>3. ASSUME NEW c \in Calls, Prepare(c) PROVE db'[d] = db[d] \/ (db'[d] = "none" /\
   conv[d] \in tombs)
  BY <1>3, <1>0, Types, FinishEffect DEF Prepare, Unavailable, ErrorState, EndWith,
     Finish, Fault, MarkRunning, WorkerOnly, UnchangedButFinish, Finished, Deletions,
     LogTrue, Stored, Placed, Final, Open, RowTyped
<1>4. ASSUME NEW c \in Calls, Start(c) PROVE db'[d] = db[d] \/ (db'[d] = "none" /\
   conv[d] \in tombs)
  BY <1>4, <1>0, Types, FinishEffect DEF Start, EndWith, Finish, Fault, WorkerOnly,
     UnchangedButFinish, Finished, Deletions, LogTrue, Stored, Placed, Final, Open,
     RowTyped
<1>5. ASSUME NEW c \in Calls, Claim(c) PROVE db'[d] = db[d] \/ (db'[d] = "none" /\
   conv[d] \in tombs)
  BY <1>5, <1>0, Types, FinishEffect DEF Claim, EndWith, Finish, Fault, WorkerOnly,
     UnchangedButFinish, Finished, Deletions, LogTrue, Stored, Placed, Final, Open,
     RowTyped
<1>6. ASSUME NEW c \in Calls, Complete(c) PROVE db'[d] = db[d] \/ (db'[d] = "none" /\
   conv[d] \in tombs)
  BY <1>6, <1>0, Types, FinishEffect DEF Complete, Fault, WorkerOnly,
     UnchangedButFinish, Finished, Deletions, LogTrue, Stored, Placed, Final, Open,
     RowTyped
<1>7. ASSUME NEW c \in Calls, Fallback(c) PROVE db'[d] = db[d] \/ (db'[d] = "none" /\
   conv[d] \in tombs)
  BY <1>7, <1>0, Types, FinishEffect DEF Fallback, EndWith, Finish, Fault, WorkerOnly,
     UnchangedButFinish, Finished, Deletions, LogTrue, Stored, Placed, Final, Open,
     RowTyped
<1>8. ASSUME NEW c \in Calls, CodexFails(c) PROVE db'[d] = db[d] \/ (db'[d] = "none" /\
   conv[d] \in tombs)
  BY <1>8, <1>0, Types, FinishEffect DEF CodexFails, ErrorState, EndWith, Finish, Fault,
     WorkerOnly, UnchangedButFinish, Finished, Deletions, LogTrue, Stored, Placed,
     Final, Open, RowTyped
<1>9. ASSUME NEW c \in Calls, RecoverRun(c) PROVE db'[d] = db[d] \/ (db'[d] = "none" /\
   conv[d] \in tombs)
  BY <1>9, <1>0, Types, FinishEffect DEF RecoverRun, Fault, Finished, Deletions,
     LogTrue, Stored, Placed, Final, Open, RowTyped
<1>10. CASE DeleteRow
  BY <1>10, <1>0, Types DEF DeleteRow, Fault, Deletions, LogTrue, Stored, Placed, Final,
     Open, RowTyped, NoDelete
<1>11. CASE Restart
  BY <1>11, <1>0, Types DEF Restart, Reconciled, ReconciledConversations,
     CancelledApprovals, Deletions, LogTrue, Stored, Placed, Final, Open, RowTyped
<1>12. ASSUME UNCHANGED <<db>> PROVE db'[d] = db[d] \/ (db'[d] = "none" /\ conv[d] \in
   tombs)
  BY <1>12, <1>0, Types DEF Deletions, LogTrue, Stored, Placed, Final, Open, RowTyped
<1>13. ASSUME NEW c \in Calls, Ask(c) \/ OpenConversation(c) \/ AppendUserMessage(c) \/
   LocalReply(c) \/ LogRun(c) \/ StoreResponse(c) \/ ReserveNew(c) \/ AttachWorker(c)
   PROVE db'[d] = db[d] \/ (db'[d] = "none" /\ conv[d] \in tombs)
  BY <1>12, <1>13 DEF Ask, OpenConversation, AppendUserMessage, LocalReply, LogRun,
     StoreResponse, ReserveNew, AttachWorker
<1>14. ASSUME NEW c \in Calls, PollApproval(c) \/ HostActions(c) \/ SaveReply(c) \/
   End(c) \/ RequestApproval(c) \/ CodexReturns(c) \/ Cancel(c) PROVE db'[d] = db[d] \/
   (db'[d] = "none" /\ conv[d] \in tombs)
  BY <1>12, <1>14 DEF PollApproval, HostActions, SaveReply, End, RequestApproval,
     CodexReturns, Cancel, WorkerOnly, UnchangedButFinish
<1>15. CASE DeleteLog \/ Shutdown \/ Exit \/ Crash \/ Recovered \/ UNCHANGED vars
  BY <1>12, <1>15 DEF DeleteLog, Shutdown, Exit, Crash, Recovered
<1>16. ASSUME NEW c \in Calls, NEW status \in {"approved", "denied"}, Answer(c, status)
   PROVE db'[d] = db[d] \/ (db'[d] = "none" /\ conv[d] \in tombs)
  BY <1>12, <1>16 DEF Answer
<1>17. ASSUME NEW k \in Conversations, DeleteBegin(k) PROVE db'[d] = db[d] \/ (db'[d] =
   "none" /\ conv[d] \in tombs)
  BY <1>12, <1>17 DEF DeleteBegin
<1> QED
  BY <1>1, <1>2, <1>3, <1>4, <1>5, <1>6, <1>7, <1>8, <1>9, <1>10, <1>11, <1>13, <1>14,
     <1>15, <1>16, <1>17 DEF Next, StartTurn, WorkerStep

-----------------------------------------------------------------------------
(* The theorems.                                                           *)

\* Every step keeps the invariant.
LEMMA StepInvariant == IInv /\ [Next]_vars => IInv'
<1> SUFFICES ASSUME IInv, [Next]_vars PROVE IInv'
  OBVIOUS
<1>1. BuddyTypeOK'
  <2>1. StageTyped' /\ WorkTyped' /\ LogTyped' /\ RowTyped' /\ ConvTyped'
    BY StageTypedStep, WorkTypedStep, LogTypedStep, RowTypedStep, ConvTypedStep
  <2>2. TokenTyped' /\ ApprovalTyped' /\ AnswersTyped' /\ DeletingTyped' /\ IndexTyped'
    BY TokenTypedStep, ApprovalTypedStep, AnswersTypedStep, DeletingTypedStep, IndexTypedStep
  <2>3. MessagesTyped' /\ RegistryTyped' /\ GhostsTyped' /\ BoundsTyped'
    BY MessagesTypedStep, RegistryTypedStep, GhostsTypedStep, BoundsTypedStep
  <2>4. \A r \in Calls : runLog'[r] \in Seq(Final)
    BY <2>1 DEF LogTyped
  <2> QED
    BY <2>1, <2>2, <2>3, <2>4 DEF BuddyTypeOK, StageTyped, WorkTyped, RowTyped, ConvTyped, TokenTyped,
       ApprovalTyped, AnswersTyped, DeletingTyped, IndexTyped, MessagesTyped, RegistryTyped,
       GhostsTyped, BoundsTyped
<1>2. runLog' \in [Calls -> Seq(Final)]
  BY LogTypedStep DEF LogTyped
<1>3. \A c \in Calls : (Placed(c) /\ Stored(c) /\ LogTrue(c) /\ Decided(c))'
  BY PlacedStep, StoredStep, LogTrueStep, DecidedStep
<1>4. \A c \in Calls : (Ended(c) /\ Answered(c) /\ InHand(c))'
  BY EndedStep, AnsweredStep, InHandStep
<1>5. \A c, d \in Calls : ReservedAt(c, d)'
  BY ReservedStep
<1>6. Deletions' /\ Registered' /\ Mutex' /\ OneRunPerConversation' /\ QuietExit'
  BY DeletionsStep, RegisteredStep, MutexStep, OneRunStep, QuietExitStep
<1> QED
  BY <1>1, <1>2, <1>3, <1>4, <1>5, <1>6 DEF IInv

\* The invariant holds at the start.
LEMMA InitInvariant == Init => IInv
<1> SUFFICES ASSUME Init PROVE IInv
  OBVIOUS
<1>1. <<>> \in Seq(Final)
  OBVIOUS
<1>2. runLog \in [Calls -> Seq(Final)] /\ \A r \in Calls : runLog[r] = <<>> /\ ~LogCompleted(r)
  BY <1>1, EmptyLog DEF Init
<1>3. BuddyTypeOK
  BY <1>2, BuddyAssumption DEF Init, BuddyTypeOK, Open, Final, Active, NoDelete
<1>4. ASSUME NEW c \in Calls
      PROVE  Placed(c) /\ Stored(c) /\ LogTrue(c) /\ Decided(c) /\ Ended(c) /\ Answered(c) /\ InHand(c)
  BY <1>2, <1>4, BuddyAssumption DEF Init, Placed, Stored, LogTrue, Decided, Ended, Answered, InHand,
     Alive, Open, Final, Early, Active
<1>5. \A c, d \in Calls : ReservedAt(c, d)
  BY DEF Init, ReservedAt, Holding, Preparing, NoDelete
<1>6. Deletions /\ Registered /\ Mutex /\ OneRunPerConversation /\ QuietExit
  BY DEF Init, Deletions, NoResurrection, Registered, Mutex, OneRunPerConversation, QuietExit, Alive,
     Preparing, NoDelete
<1> QED
  BY <1>2, <1>3, <1>4, <1>5, <1>6 DEF IInv

\* The inductive invariant holds in every reachable state.
THEOREM Invariant == Spec => []IInv
BY InitInvariant, StepInvariant, PTL DEF Spec

\* At most one thread works for a conversation, and without faults and stops a request
\* id stands for one turn, however often it is sent and whatever runs beside it.
THEOREM OneTurnAlways == Spec => []OneTurn
<1>1. IInv => OneTurn
  <2> SUFFICES ASSUME IInv PROVE OneTurn
    OBVIOUS
  <2>1. ASSUME faults = MaxFaults, stops = MaxStops, NEW c \in msgs, NEW d \in msgs,
               RequestOf[c] = RequestOf[d], {conv[c], conv[d]} \subseteq convs
        PROVE  c = d
    <3>1. c \in Calls /\ d \in Calls
      BY DEF IInv, BuddyTypeOK
    <3>2. /\ answers[RequestOf[c]] = c \/ stage[c] \in {"asked", "logged", "created"}
          /\ answers[RequestOf[d]] = d \/ stage[d] \in {"asked", "logged", "created"}
      BY <2>1, <3>1 DEF IInv, Answered
    <3>3. /\ stage[c] \in {"asked", "logged", "created"} => answers[RequestOf[c]] = None
          /\ stage[d] \in {"asked", "logged", "created"} => answers[RequestOf[d]] = None
          /\ stage[c] \in {"asked", "logged", "created"} /\ stage[d] \in {"asked", "logged", "created"}
                => c = d
      BY <3>1 DEF IInv, Mutex, Preparing
    <3> QED
      BY <2>1, <3>1, <3>2, <3>3, BuddyAssumption
  <2>2. OneTurnPerRequest
    BY <2>1 DEF OneTurnPerRequest
  <2> QED
    BY <2>2 DEF OneTurn, IInv
<1> QED
  BY <1>1, Invariant, PTL

\* An accepted cancellation, a completed reply and a reported deletion stay true, over
\* every fault, crash and restart.
THEOREM PromisesAlwaysKept == Spec => []PromisesKept
<1>1. IInv => PromisesKept
  <2> SUFFICES ASSUME IInv PROVE PromisesKept
    OBVIOUS
  <2>1. \A r \in Calls : db[r] = "completed" => LogCompleted(r)
    <3> SUFFICES ASSUME NEW r \in Calls, db[r] = "completed" PROVE LogCompleted(r)
      OBVIOUS
    <3>1. runLog[r] # <<>> /\ Last(runLog[r]) = "completed"
      BY DEF IInv, LogTrue, Final
    <3>2. \A l \in Seq(Final) : l # <<>> => Last(l) \in ToSet(l)
      BY DEF Last, ToSet
    <3> QED
      BY <3>1, <3>2 DEF IInv, LogCompleted
  <2>2. CompletedHasReply
    BY <2>1 DEF IInv, Decided, CompletedHasReply
  <2>3. \A r \in accepted : r \in Calls
    BY DEF IInv, BuddyTypeOK
  <2>4. CancelHonoured
    BY <2>1, <2>3 DEF IInv, Decided, CancelHonoured, LogCompleted
  <2> QED
    BY <2>2, <2>4 DEF IInv, Deletions, PromisesKept
<1> QED
  BY <1>1, Invariant, PTL

\* No run, approval or thread is left waiting: while the process serves an unfinished
\* run is in somebody's hands, a pending approval has its thread, and an orderly exit
\* leaves neither a thread nor an unfinished run.
THEOREM NothingEverLeft == Spec => []NothingLeftWaiting
<1>1. IInv => NothingLeftWaiting
  BY DEF IInv, InHand, Ended, NothingLeftWaiting, NoOrphan, PendingMeansWaiting
<1> QED
  BY <1>1, Invariant, PTL

\* The outcome that a row shows is final; not even the reconstruction of the rows from
\* the logs changes it.
THEOREM OutcomesAreFinal == Spec => OutcomeFinal
<1> DEFINE Kept == \A r \in Calls : db[r] \in Final =>
                      db'[r] = db[r] \/ (db'[r] = "none" /\ conv[r] \in tombs)
<1>1. IInv /\ [Next]_vars => [Kept]_vars
  <2> SUFFICES ASSUME IInv, Next PROVE Kept
    OBVIOUS
  <2> SUFFICES ASSUME NEW r \in Calls, db[r] \in Final
               PROVE  db'[r] = db[r] \/ (db'[r] = "none" /\ conv[r] \in tombs)
    OBVIOUS
  <2> QED
    BY FinalStep
<1> QED
  BY <1>1, Invariant, PTL DEF Spec, OutcomeFinal

-----------------------------------------------------------------------------
(* RuntimeSupervisor: the inductive invariant, what the fields and the     *)
(* queue of lifecycle operations tell of one another.                      *)

Operations ==
    [kind : {"start", "stop", "restart", "fail"}, process : Processes \cup {NoProcess},
     live : BOOLEAN, phase : {"queued", "shutdown", "SIGTERM", "SIGKILL"}, already : BOOLEAN]

\* Only the head of the queue has begun, only the head follows a failure, and
\* only the last operation has not been outdated by a call.
QueueOK ==
    /\ ops \in Seq(Operations) /\ calls \in Nat
    /\ \A i \in DOMAIN ops :
          /\ i # 1 => ops[i].phase = "queued" /\ ops[i].kind # "fail"
          /\ ops[i].live => i = Len(ops)

\* The current generation is the process that is held, and one is wanted unless
\* a call of this very turn has changed that.
CurrentHeld ==
    sup.current # NoProcess =>
        sup.proc = sup.current /\ sup.client /\ (Drained => sup.desired)

\* An operation that waits is about the process that is held, whose generation
\* is over; a process it found gone has not come back.
WaitsForHeld ==
    ops # <<>> /\ (Drained \/ ops[1].kind = "fail") =>
        /\ sup.current = NoProcess /\ sup.proc = ops[1].process /\ sup.proc # NoProcess
        /\ Drained /\ ops[1].already => sup.proc \in exitedProcesses

\* A restart is scheduled when there is nothing to wait for and nothing is held.
TimerAlone == sup.restartTimer => ops = <<>> /\ sup.proc = NoProcess

\* While an operation is due or under way the status is neither that of a runtime
\* that can be used nor that of one that is at rest.
BusyShown == ops # <<>> => sup.status \notin {"ready", "stopped"}

SupervisorIInv == StatusTrue /\ QueueOK /\ CurrentHeld /\ WaitsForHeld /\ TimerAlone /\ BusyShown

-----------------------------------------------------------------------------
(* Operators.                                                              *)

\* The type of the supervisor's fields.
Fields == [status : Statuses, attempt : 0..MaxAttempts, desired : BOOLEAN,
           proc : Processes \cup {NoProcess}, client : BOOLEAN,
           current : Processes \cup {NoProcess}, restartTimer : BOOLEAN,
           readinessTimer : Processes \cup {NoProcess}, stableTimer : Processes \cup {NoProcess}]

\* What each of the operators on the fields changes.
LEMMA FieldsChanged ==
    ASSUME NEW s \in Fields
    PROVE  /\ ClearTimers(s) \in Fields
           /\ ~ClearTimers(s).restartTimer
           /\ ClearTimers(s).readinessTimer = NoProcess /\ ClearTimers(s).stableTimer = NoProcess
           /\ ClearTimers(s).proc = s.proc /\ ClearTimers(s).current = s.current
           /\ ClearTimers(s).client = s.client /\ ClearTimers(s).desired = s.desired
           /\ ClearTimers(s).status = s.status
           /\ Bump(s) \in Fields /\ Bump(s).current = NoProcess
           /\ Bump(s).readinessTimer = NoProcess /\ Bump(s).stableTimer = NoProcess
           /\ Bump(s).proc = s.proc /\ Bump(s).restartTimer = s.restartTimer
           /\ Bump(s).client = s.client /\ Bump(s).desired = s.desired
           /\ Bump(s).status = s.status
BY DEF Fields, ClearTimers, Bump, NoProcess

\* Giving up or scheduling a restart leaves the process and its timers alone.
LEMMA ScheduleRestartChanges ==
    ASSUME NEW s \in Fields
    PROVE  /\ ScheduleRestart(s) \in Fields
           /\ ScheduleRestart(s).proc = s.proc /\ ScheduleRestart(s).current = s.current
           /\ ScheduleRestart(s).client = s.client /\ ScheduleRestart(s).desired = s.desired
           /\ ScheduleRestart(s).readinessTimer = s.readinessTimer
           /\ ScheduleRestart(s).stableTimer = s.stableTimer
           /\ ScheduleRestart(s).restartTimer => s.restartTimer \/ s.desired
           /\ IF s.desired THEN ScheduleRestart(s).status \in {"offline", "restarting"}
                           ELSE ScheduleRestart(s) = s
<1>1. CASE ~s.desired
  BY <1>1 DEF ScheduleRestart
<1>2. CASE s.desired /\ s.attempt = MaxAttempts
  BY <1>2 DEF ScheduleRestart, Fields, Statuses
<1>3. CASE s.desired /\ s.attempt # MaxAttempts
  <2>1. ScheduleRestart(s) = [s EXCEPT !.status = "restarting", !.attempt = s.attempt + 1,
                                       !.restartTimer = TRUE]
    BY <1>3 DEF ScheduleRestart
  <2>2. s.attempt + 1 \in 0 .. MaxAttempts
    BY <1>3, SupervisorAssumption DEF Fields
  <2> QED
    BY <1>3, <2>1, <2>2 DEF Fields, Statuses
<1> QED
  BY <1>1, <1>2, <1>3

\* With no operation left the invariant says this of the fields.
LEMMA NothingQueued ==
    ASSUME sup' \in Fields, process' \in [Processes -> ProcessStates], calls' \in Nat,
           ops' = <<>>, RuntimeOwned', ReadyIsReal', StoppedIsQuiet',
           {sup'.readinessTimer, sup'.stableTimer} \subseteq {sup'.current, NoProcess},
           sup'.current # NoProcess => sup'.proc = sup'.current /\ sup'.client /\ sup'.desired,
           sup'.restartTimer => sup'.proc = NoProcess
    PROVE  SupervisorIInv'
<1>1. StatusTrue'
  BY DEF StatusTrue, SupervisorTypeOK, Fields
<1>2. ops' \in Seq(Operations) /\ DOMAIN ops' = {}
  OBVIOUS
<1>3. QueueOK' /\ CurrentHeld' /\ WaitsForHeld' /\ TimerAlone' /\ BusyShown'
  BY <1>2 DEF QueueOK, CurrentHeld, WaitsForHeld, TimerAlone, BusyShown
<1> QED
  BY <1>1, <1>3 DEF SupervisorIInv

\* spawnGeneration from fields that hold nothing, when nothing lives.
LEMMA SpawnStep ==
    ASSUME process \in [Processes -> ProcessStates], \A p \in Processes : ~ProcessAlive(p),
           NEW s \in Fields, s.proc = NoProcess, s.current = NoProcess, ~s.restartTimer,
           s.readinessTimer = NoProcess, s.stableTimer = NoProcess,
           s.status \notin {"ready", "stopped"},
           SpawnGeneration(s), ops' = <<>>, calls' \in Nat
    PROVE  SupervisorIInv'
<1>0. NoProcess \notin Processes
  BY SupervisorAssumption DEF NoProcess
<1>1. CASE ~s.desired /\ sup' = s /\ UNCHANGED process
  BY <1>1, NothingQueued DEF RuntimeOwned, ProcessAlive, ReadyIsReal, StoppedIsQuiet
<1>2. CASE /\ s.desired /\ sup' = ScheduleRestart([s EXCEPT !.current = NoProcess])
           /\ UNCHANGED process
  <2>1. [s EXCEPT !.current = NoProcess] = s
    BY DEF Fields
  <2>2. /\ sup' \in Fields /\ sup'.proc = NoProcess /\ sup'.current = NoProcess
        /\ sup'.readinessTimer = NoProcess /\ sup'.stableTimer = NoProcess
        /\ sup'.status \in {"offline", "restarting"}
    BY <1>2, <2>1, ScheduleRestartChanges
  <2> QED
    BY <1>2, <2>2, NothingQueued DEF RuntimeOwned, ProcessAlive, ReadyIsReal, StoppedIsQuiet
<1>3. ASSUME NEW p \in Free, NEW state \in {"up", "failing"}, s.desired,
             process' = [process EXCEPT ![p] = state],
             sup' = [s EXCEPT !.status = "starting", !.proc = p, !.client = TRUE,
                              !.current = p, !.readinessTimer = p]
      PROVE  SupervisorIInv'
  <2>1. p \in Processes
    BY DEF Free
  <2>2. /\ sup' \in Fields /\ sup'.proc = p /\ sup'.current = p /\ sup'.client
        /\ sup'.readinessTimer = p /\ sup'.stableTimer = NoProcess
        /\ sup'.desired /\ ~sup'.restartTimer /\ sup'.status = "starting"
    BY <1>3, <2>1 DEF Fields, Statuses
  <2>3. process' \in [Processes -> ProcessStates]
    BY <1>3, <2>1 DEF ProcessStates
  <2>4. RuntimeOwned'
    BY <1>3, <2>1, <2>2 DEF RuntimeOwned, ProcessAlive
  <2>5. ReadyIsReal' /\ StoppedIsQuiet'
    BY <2>2 DEF ReadyIsReal, StoppedIsQuiet
  <2> QED
    BY <2>2, <2>3, <2>4, <2>5, NothingQueued
<1> QED
  BY <1>1, <1>2, <1>3 DEF SpawnGeneration

-----------------------------------------------------------------------------
(* Steps.                                                                  *)

\* The types, and what holds between events, when no operation is due.
LEMMA Known ==
    ASSUME SupervisorIInv
    PROVE  /\ sup \in Fields /\ process \in [Processes -> ProcessStates] /\ calls \in Nat
           /\ {sup.readinessTimer, sup.stableTimer} \subseteq {sup.current, NoProcess}
           /\ NoProcess \notin Processes
           /\ ops \in Seq(Operations) /\ DOMAIN ops = 1 .. Len(ops) /\ Len(ops) \in Nat
           /\ ops # <<>> => ops[1] \in Operations /\ 1 \in DOMAIN ops
           /\ sup.current = NoProcess =>
                 sup.readinessTimer = NoProcess /\ sup.stableTimer = NoProcess
           /\ sup.proc = NoProcess =>
                 sup.current = NoProcess /\ \A p \in Processes : ~ProcessAlive(p)
           /\ Drained /\ sup.current # NoProcess => ops = <<>> /\ sup.desired
<1>1. /\ sup \in Fields /\ process \in [Processes -> ProcessStates] /\ calls \in Nat
      /\ {sup.readinessTimer, sup.stableTimer} \subseteq {sup.current, NoProcess}
      /\ ops \in Seq(Operations)
  BY DEF SupervisorIInv, StatusTrue, SupervisorTypeOK, Fields, QueueOK
<1>2. NoProcess \notin Processes
  BY SupervisorAssumption DEF NoProcess
<1>3. /\ DOMAIN ops = 1 .. Len(ops) /\ Len(ops) \in Nat
      /\ ops # <<>> => ops[1] \in Operations /\ 1 \in DOMAIN ops
  BY <1>1
<1>4. sup.proc = NoProcess => sup.current = NoProcess /\ \A p \in Processes : ~ProcessAlive(p)
  BY <1>1, <1>2 DEF SupervisorIInv, CurrentHeld, StatusTrue, RuntimeOwned
<1>5. Drained /\ sup.current # NoProcess => ops = <<>> /\ sup.desired
  BY DEF SupervisorIInv, CurrentHeld, WaitsForHeld
<1> QED
  BY <1>1, <1>2, <1>3, <1>4, <1>5

\* A call outdates the operations there are and queues one of its own.
LEMMA CallStep ==
    ASSUME SupervisorIInv, Drained, NEW kind \in {"start", "stop", "restart"},
           Enqueue(NewOp(kind, NoProcess)), UNCHANGED process, calls' = calls + 1,
           sup' \in Fields, sup'.status \in {"starting", "stopping", "restarting"},
           sup'.proc = sup.proc, sup'.current = sup.current, sup'.client = sup.client,
           ~sup'.restartTimer, sup'.readinessTimer = NoProcess, sup'.stableTimer = NoProcess
    PROVE  SupervisorIInv'
<1> DEFINE op == NewOp(kind, NoProcess)
           old == [i \in DOMAIN ops |-> [ops[i] EXCEPT !.live = FALSE]]
<1>1. /\ op \in Operations /\ op.phase = "queued" /\ op.kind # "fail"
  BY DEF NewOp, Operations, NoProcess
<1>2. /\ \A i \in DOMAIN ops : /\ ops[i] \in Operations
                               /\ [ops[i] EXCEPT !.live = FALSE] \in Operations
      /\ calls' \in Nat
  <2>1. calls' \in Nat
    BY Known
  <2>2. \A i \in DOMAIN ops : ops[i] \in Operations
    <3>1. ops \in Seq(Operations)
      BY Known
    <3> QED
      BY <3>1
  <2>3. \A o \in Operations : [o EXCEPT !.live = FALSE] \in Operations
    BY DEF Operations
  <2> QED
    BY <2>1, <2>2, <2>3
<1>3. old \in Seq(Operations) /\ Len(old) = Len(ops)
  <2>1. old \in [1 .. Len(ops) -> Operations] /\ Len(ops) \in Nat
    BY <1>2, Known
  <2> HIDE DEF old
  <2> QED
    BY <2>1
<1>4. \A i \in DOMAIN ops : /\ ~old[i].live /\ old[i].phase = ops[i].phase
                            /\ old[i].kind = ops[i].kind /\ old[i].process = ops[i].process
                            /\ old[i].already = ops[i].already
  BY <1>2 DEF Operations
<1>5. ops' = Append(old, op)
  BY DEF Enqueue
<1> HIDE DEF op, old
<1>6. /\ ops' \in Seq(Operations) /\ ops' # <<>> /\ Len(ops') = Len(ops) + 1
      /\ DOMAIN ops' = 1 .. Len(ops) + 1
      /\ \A i \in 1 .. Len(ops) : ops'[i] = old[i]
      /\ ops'[Len(ops) + 1] = op
  BY <1>1, <1>3, <1>5, Known
<1>7. QueueOK'
  <2> SUFFICES ASSUME NEW i \in DOMAIN ops'
               PROVE  /\ i # 1 => ops'[i].phase = "queued" /\ ops'[i].kind # "fail"
                      /\ ops'[i].live => i = Len(ops')
    BY <1>2, <1>6 DEF QueueOK
  <2>1. CASE i = Len(ops) + 1
    BY <1>1, <1>6, <2>1
  <2>2. CASE i # Len(ops) + 1
    <3>1. i \in DOMAIN ops /\ i \in 1 .. Len(ops)
      BY <1>6, <2>2, Known
    <3> QED
      BY <1>4, <1>6, <3>1 DEF SupervisorIInv, QueueOK
  <2> QED
    BY <2>1, <2>2
<1>8. CASE ops = <<>>
  <2>1. ops'[1] = op /\ 1 \in DOMAIN ops'
    BY <1>6, <1>8
  <2>2. ~Drained'
    BY <1>1, <2>1 DEF Drained
  <2>3. CurrentHeld' /\ WaitsForHeld' /\ TimerAlone' /\ BusyShown'
    BY <1>1, <2>1, <2>2 DEF SupervisorIInv, CurrentHeld, WaitsForHeld, TimerAlone, BusyShown
  <2>4. StatusTrue'
    BY Known DEF SupervisorIInv, StatusTrue, SupervisorTypeOK, Fields, RuntimeOwned,
       ProcessAlive, ReadyIsReal,
       StoppedIsQuiet
  <2> QED
    BY <1>7, <2>3, <2>4 DEF SupervisorIInv
<1>9. CASE ops # <<>>
  <2>1. ops'[1] = old[1] /\ 1 \in DOMAIN ops
    BY <1>6, <1>9, Known
  <2>2. /\ sup.current = NoProcess /\ sup.proc = ops[1].process /\ sup.proc # NoProcess
        /\ ops[1].already => sup.proc \in exitedProcesses
    BY <1>9 DEF SupervisorIInv, WaitsForHeld
  <2>3. CurrentHeld' /\ WaitsForHeld' /\ TimerAlone' /\ BusyShown'
    <3>1. CurrentHeld'
      BY <2>2 DEF CurrentHeld
    <3>2. Drained'
      BY <1>4, <1>6, <2>1 DEF Drained
    <3>3. WaitsForHeld'
      BY <1>4, <2>1, <2>2, <3>2 DEF WaitsForHeld, exitedProcesses
    <3> QED
      BY <3>1, <3>3 DEF TimerAlone, BusyShown
  <2>4. StatusTrue'
    BY Known DEF SupervisorIInv, StatusTrue, SupervisorTypeOK, Fields, RuntimeOwned,
       ProcessAlive, ReadyIsReal,
       StoppedIsQuiet
  <2> QED
    BY <1>7, <2>3, <2>4 DEF SupervisorIInv
<1> QED
  BY <1>8, <1>9

\* start, stop and restart.
LEMMA CallsStep ==
    ASSUME SupervisorIInv, StartRuntime \/ StopRuntime \/ RestartRuntime
    PROVE  SupervisorIInv'
<1>1. /\ Drained /\ calls' = calls + 1 /\ calls' \in Nat /\ sup \in Fields
  BY Known DEF StartRuntime, StopRuntime, RestartRuntime, CallAllowed
<1>2. CASE StartRuntime
  <2> DEFINE s == [ClearTimers(sup) EXCEPT !.desired = TRUE, !.status = "starting",
                                           !.attempt = 0]
  <2>1. /\ s \in Fields /\ s.status = "starting" /\ s.desired /\ ~s.restartTimer
        /\ s.readinessTimer = NoProcess /\ s.stableTimer = NoProcess
        /\ s.proc = sup.proc /\ s.current = sup.current /\ s.client = sup.client
    <3>1. PICK c \in Fields : c = ClearTimers(sup)
      BY <1>1, FieldsChanged
    <3>2. /\ c.proc = sup.proc /\ c.current = sup.current /\ c.client = sup.client
          /\ ~c.restartTimer /\ c.readinessTimer = NoProcess /\ c.stableTimer = NoProcess
      BY <1>1, <3>1, FieldsChanged
    <3>3. 0 \in 0 .. MaxAttempts
      BY SupervisorAssumption
    <3>4. s = [c EXCEPT !.desired = TRUE, !.status = "starting", !.attempt = 0]
      BY <3>1
    <3> HIDE DEF s
    <3> QED
      BY <3>2, <3>3, <3>4 DEF Fields, Statuses
  <2>2. CASE sup.proc = NoProcess /\ Outdate /\ SpawnGeneration(s)
    <3>1. ops = <<>>
      BY <1>1, <2>2 DEF SupervisorIInv, WaitsForHeld
    <3>2. ops' = <<>>
      BY <2>2, <3>1 DEF Outdate
    <3> HIDE DEF s
    <3> QED
      BY <1>1, <2>1, <2>2, <3>2, SpawnStep, Known
  <2>3. CASE Enqueue(NewOp("start", NoProcess)) /\ sup' = s /\ UNCHANGED process
    <3> HIDE DEF s
    <3> QED
      BY <1>1, <2>1, <2>3, CallStep
  <2> QED
    BY <1>2, <2>2, <2>3 DEF StartRuntime
<1>3. CASE StopRuntime
  <2>1. /\ sup' \in Fields /\ sup'.status = "stopping" /\ ~sup'.restartTimer
        /\ sup'.readinessTimer = NoProcess /\ sup'.stableTimer = NoProcess
        /\ sup'.proc = sup.proc /\ sup'.current = sup.current /\ sup'.client = sup.client
    BY <1>1, <1>3 DEF StopRuntime, ClearTimers, Fields, Statuses, NoProcess
  <2> QED
    BY <1>1, <1>3, <2>1, CallStep DEF StopRuntime
<1>4. CASE RestartRuntime
  <2>1. /\ sup' \in Fields /\ sup'.status = "restarting" /\ ~sup'.restartTimer
        /\ sup'.readinessTimer = NoProcess /\ sup'.stableTimer = NoProcess
        /\ sup'.proc = sup.proc /\ sup'.current = sup.current /\ sup'.client = sup.client
    BY <1>1, <1>4 DEF RestartRuntime, ClearTimers, Fields, Statuses, NoProcess
  <2> QED
    BY <1>1, <1>4, <2>1, CallStep DEF RestartRuntime
<1> QED
  BY <1>2, <1>3, <1>4

\* A failing generation is over and its termination is queued, or nothing happens
\* because another generation or none is wanted.
LEMMA FailStep ==
    ASSUME SupervisorIInv, Drained, NEW p \in Processes, FailGeneration(p), UNCHANGED calls,
           process' \in [Processes -> ProcessStates],
           \A q \in Processes :
              \/ process'[q] = process[q]
              \/ (process[q] = "failing" /\ process'[q] = "errored")
    PROVE  SupervisorIInv'
<1>1. \A q \in Processes : /\ ProcessAlive(q)' <=> ProcessAlive(q)
                           /\ process[q] = "ready" => process'[q] = "ready"
                           /\ q \in exitedProcesses => q \in exitedProcesses'
  BY DEF ProcessAlive, exitedProcesses
<1>2. CASE UNCHANGED <<sup, ops>>
  <2>1. StatusTrue'
    <3>1. sup.status = "ready" => sup.proc \in Processes
      BY Known DEF SupervisorIInv, StatusTrue, ReadyIsReal, CurrentHeld, Fields
    <3> QED
      BY <1>1, <1>2, <3>1 DEF SupervisorIInv, StatusTrue, SupervisorTypeOK, RuntimeOwned,
         ReadyIsReal,
         StoppedIsQuiet
  <2>2. WaitsForHeld'
    <3>1. sup.proc \in exitedProcesses => sup.proc \in exitedProcesses'
      BY <1>1 DEF exitedProcesses
    <3> QED
      BY <1>2, <3>1 DEF SupervisorIInv, WaitsForHeld, Drained
  <2> QED
    BY <1>2, <2>1, <2>2 DEF SupervisorIInv, QueueOK, CurrentHeld, TimerAlone, BusyShown, Drained
<1>3. CASE ~UNCHANGED <<sup, ops>>
  <2> DEFINE op == NewOp("fail", p)
             s == [Bump(sup) EXCEPT !.status = "restarting",
                                    !.client = sup.client /\ sup.proc # p]
  <2>1. /\ p = sup.current /\ sup.desired /\ sup' = s /\ ops' = Append(ops, op)
    BY <1>3, Known DEF FailGeneration, Bump, Fields
  <2>2. ops = <<>> /\ sup.proc = p /\ p # NoProcess /\ ~sup.restartTimer
    BY <2>1, Known DEF SupervisorIInv, CurrentHeld, TimerAlone
  <2>3. /\ s \in Fields /\ s.status = "restarting" /\ s.current = NoProcess /\ s.proc = p
        /\ s.readinessTimer = NoProcess /\ s.stableTimer = NoProcess /\ ~s.restartTimer
    BY <2>2, Known DEF Bump, Fields, Statuses, NoProcess
  <2>4. /\ op \in Operations /\ op.kind = "fail" /\ op.process = p
        /\ op.phase = "queued" /\ ~op.already
    BY DEF NewOp, Operations
  <2> HIDE DEF s, op
  <2>5. ops' = <<op>>
    BY <2>1, <2>2
  <2>6. /\ ops' \in Seq(Operations) /\ DOMAIN ops' = {1} /\ ops'[1] = op /\ Len(ops') = 1
        /\ ops' # <<>>
    BY <2>4, <2>5
  <2>7. ~Drained'
    BY <2>4, <2>6 DEF Drained
  <2>8. StatusTrue'
    BY <1>1, <2>1, <2>2, <2>3
       DEF SupervisorIInv, StatusTrue, SupervisorTypeOK, Fields, RuntimeOwned, ReadyIsReal,
       StoppedIsQuiet
  <2>9. QueueOK' /\ CurrentHeld' /\ WaitsForHeld' /\ TimerAlone' /\ BusyShown'
    BY <2>1, <2>2, <2>3, <2>4, <2>6, <2>7, Known
       DEF QueueOK, CurrentHeld, WaitsForHeld, TimerAlone, BusyShown
  <2> QED
    BY <2>8, <2>9 DEF SupervisorIInv
<1> QED
  BY <1>2, <1>3

\* The head of the queue has gone and no generation is current: what is left is
\* queued, and shows in the status.
LEMMA HeadGone ==
    ASSUME SupervisorIInv, ops # <<>>, ops' = Tail(ops), UNCHANGED <<process, calls>>,
           sup' \in Fields, sup'.current = NoProcess, ~sup'.restartTimer,
           sup'.readinessTimer = NoProcess, sup'.stableTimer = NoProcess,
           sup'.status \notin {"ready", "stopped"}, sup'.proc \in {NoProcess, sup.proc},
           sup'.proc = NoProcess => \A p \in Processes : ~ProcessAlive(p)
    PROVE  SupervisorIInv'
<1>1. /\ ops' \in Seq(Operations) /\ Len(ops') = Len(ops) - 1 /\ DOMAIN ops' = 1 .. Len(ops) - 1
      /\ \A i \in DOMAIN ops' : ops'[i] = ops[i + 1] /\ i + 1 \in DOMAIN ops
      /\ ops' # <<>> => 1 \in DOMAIN ops'
  <2>1. /\ ops \in Seq(Operations) /\ Len(ops) \in Nat /\ DOMAIN ops = 1 .. Len(ops)
    BY Known
  <2> QED
    BY <2>1
<1>2. \A i \in DOMAIN ops' :
         ops'[i].phase = "queued" /\ ops'[i].kind # "fail" /\ (ops'[i].live => i = Len(ops'))
  BY <1>1, Known DEF SupervisorIInv, QueueOK
<1>3. QueueOK'
  BY <1>1, <1>2, Known DEF QueueOK
<1>4. ops' # <<>> => ~Drained' /\ ops'[1].kind # "fail"
  BY <1>1, <1>2 DEF Drained
<1>5. CurrentHeld' /\ WaitsForHeld' /\ TimerAlone' /\ BusyShown'
  BY <1>4 DEF CurrentHeld, WaitsForHeld, TimerAlone, BusyShown
<1>6. StatusTrue'
  BY Known DEF SupervisorIInv, StatusTrue, SupervisorTypeOK, Fields, RuntimeOwned, ProcessAlive,
     ReadyIsReal,
     StoppedIsQuiet
<1> QED
  BY <1>3, <1>5, <1>6 DEF SupervisorIInv

\* What each operation does after its wait, from the fields s that the wait left:
\* nobody is current, and a process that was let go of is dead.
LEMMA ContinueStep ==
    ASSUME SupervisorIInv, ops # <<>>, NEW terminated \in BOOLEAN, NEW s \in Fields,
           s.current = NoProcess, ~s.restartTimer, s.readinessTimer = NoProcess,
           s.stableTimer = NoProcess,
           s.status = sup.status, s.proc \in {NoProcess, sup.proc},
           s.proc = NoProcess => \A p \in Processes : ~ProcessAlive(p),
           terminated => s.proc = NoProcess,
           Continue(ops[1], s, terminated), ops' = Tail(ops), UNCHANGED calls
    PROVE  SupervisorIInv'
<1>1. PICK op \in Operations : op = ops[1]
  BY Known
<1>2. op.kind \in {"start", "stop", "restart", "fail"} /\ op.live \in BOOLEAN
  BY DEF Operations
<1>3. op.live => ops' = <<>>
  <2>1. op.live => Len(ops) = 1
    BY <1>1, Known DEF SupervisorIInv, QueueOK
  <2>2. ops \in Seq(Operations)
    BY Known
  <2> QED
    BY <2>1, <2>2
<1>4. s.status \notin {"ready", "stopped"} /\ calls' \in Nat
      /\ process \in [Processes -> ProcessStates]
  BY Known DEF SupervisorIInv, BusyShown
<1>5. CASE sup' = s /\ UNCHANGED process
  BY <1>4, <1>5, HeadGone
<1>6. CASE sup' = SetTerminationFailure(s) /\ UNCHANGED process
  <2>1. /\ sup' \in Fields /\ sup'.current = NoProcess /\ ~sup'.restartTimer
        /\ sup'.readinessTimer = NoProcess /\ sup'.stableTimer = NoProcess
        /\ sup'.status = "offline" /\ sup'.proc = s.proc
    BY <1>6 DEF SetTerminationFailure, Fields, Statuses
  <2> QED
    BY <1>6, <2>1, HeadGone
<1>7. CASE op.live /\ ~s.desired /\ s.proc = NoProcess /\ sup' = SetStopped(s) /\ UNCHANGED process
  <2>1. 0 \in 0 .. MaxAttempts
    BY SupervisorAssumption
  <2>2. /\ sup' \in Fields /\ sup'.current = NoProcess /\ ~sup'.restartTimer
        /\ sup'.readinessTimer = NoProcess /\ sup'.stableTimer = NoProcess
        /\ sup'.status = "stopped" /\ sup'.proc = NoProcess /\ ~sup'.desired
    BY <1>7, <2>1 DEF SetStopped, Fields, Statuses
  <2>3. RuntimeOwned' /\ ReadyIsReal' /\ StoppedIsQuiet'
    BY <1>7, <2>2 DEF RuntimeOwned, ReadyIsReal, StoppedIsQuiet, ProcessAlive
  <2> QED
    BY <1>3, <1>4, <1>7, <2>2, <2>3, NothingQueued
<1>8. CASE op.live /\ s.proc = NoProcess /\ SpawnGeneration(s)
  BY <1>3, <1>4, <1>8, SpawnStep
<1>9. CASE /\ op.live /\ s.proc = NoProcess
           /\ SpawnGeneration([s EXCEPT !.status = "starting", !.attempt = 0])
  <2>1. 0 \in 0 .. MaxAttempts
    BY SupervisorAssumption
  <2>2. PICK t \in Fields : t = [s EXCEPT !.status = "starting", !.attempt = 0]
    BY <2>1 DEF Fields, Statuses
  <2>3. /\ t.current = NoProcess /\ ~t.restartTimer /\ t.readinessTimer = NoProcess
        /\ t.stableTimer = NoProcess /\ t.status = "starting" /\ t.proc = s.proc
    BY <2>2 DEF Fields
  <2>4. SpawnGeneration(t)
    BY <1>9, <2>2
  <2> QED
    BY <1>3, <1>4, <1>9, <2>3, <2>4, SpawnStep
<1>10. CASE /\ op.live /\ s.desired /\ s.proc = NoProcess /\ sup' = ScheduleRestart(s)
            /\ UNCHANGED process
  <2>1. /\ sup' \in Fields /\ sup'.current = NoProcess /\ sup'.proc = NoProcess
        /\ sup'.readinessTimer = NoProcess /\ sup'.stableTimer = NoProcess
        /\ sup'.status \in {"offline", "restarting"}
    BY <1>10, ScheduleRestartChanges
  <2>2. RuntimeOwned' /\ ReadyIsReal' /\ StoppedIsQuiet'
    BY <1>10, <2>1 DEF RuntimeOwned, ReadyIsReal, StoppedIsQuiet, ProcessAlive
  <2> QED
    BY <1>3, <1>4, <1>10, <2>1, <2>2, NothingQueued
<1> QED
  <2>1. Continue(op, s, terminated)
    BY <1>1
  <2>2. CASE op.kind = "start"
    BY <1>5, <1>6, <1>8, <2>1, <2>2 DEF Continue
  <2>3. CASE op.kind = "stop"
    BY <1>5, <1>6, <1>7, <2>1, <2>3 DEF Continue
  <2>4. CASE op.kind = "restart"
    BY <1>5, <1>6, <1>9, <2>1, <2>4 DEF Continue
  <2>5. CASE op.kind = "fail"
    BY <1>5, <1>6, <1>10, <2>1, <2>5 DEF Continue
  <2> QED
    BY <1>2, <2>2, <2>3, <2>4, <2>5

\* A wait for a process that is known to be dead, or for one given up on.
LEMMA EndWaitStep ==
    ASSUME SupervisorIInv, ops # <<>>, Drained \/ ops[1].kind = "fail", NEW terminated \in BOOLEAN,
           terminated => ops[1].process \in exitedProcesses,
           EndWait(terminated), UNCHANGED calls
    PROVE  SupervisorIInv'
<1>1. /\ sup.current = NoProcess /\ sup.proc = ops[1].process /\ sup.proc # NoProcess
      /\ ~sup.restartTimer /\ Head(ops) = ops[1] /\ sup \in Fields
      /\ sup.readinessTimer = NoProcess /\ sup.stableTimer = NoProcess
  BY Known DEF SupervisorIInv, WaitsForHeld, TimerAlone
<1>2. \A p \in Processes : ProcessAlive(p) => p = sup.proc /\ p \notin exitedProcesses
  BY DEF SupervisorIInv, StatusTrue, RuntimeOwned, ProcessAlive, exitedProcesses
<1> DEFINE s == [sup EXCEPT !.proc = IF terminated THEN NoProcess ELSE @,
                            !.client = @ /\ ~terminated]
<1>3. /\ s \in Fields /\ s.current = NoProcess /\ ~s.restartTimer /\ s.readinessTimer = NoProcess
      /\ s.stableTimer = NoProcess /\ s.status = sup.status
      /\ s.proc = IF terminated THEN NoProcess ELSE sup.proc
  BY <1>1 DEF Fields
<1>4. Continue(ops[1], s, terminated) /\ ops' = Tail(ops)
  BY <1>1 DEF EndWait
<1> HIDE DEF s
<1> QED
  BY <1>1, <1>2, <1>3, <1>4, ContinueStep

\* The head of the queue moves on to a phase in which it waits for the process held.
LEMMA PhaseStep ==
    ASSUME SupervisorIInv, ops # <<>>, UNCHANGED <<process, calls>>,
           NEW op \in Operations, ops' = [ops EXCEPT ![1] = op],
           op.phase # "queued", op.live = ops[1].live, op.process = sup.proc,
           op.already => sup.proc \in exitedProcesses,
           sup.proc # NoProcess, sup' = sup \/ sup' = Bump(sup), sup'.current = NoProcess
    PROVE  SupervisorIInv'
<1>1. /\ ops \in Seq(Operations) /\ Len(ops) \in Nat /\ DOMAIN ops = 1 .. Len(ops)
      /\ 1 \in DOMAIN ops
  BY Known
<1>2. /\ ops' \in Seq(Operations) /\ Len(ops') = Len(ops) /\ DOMAIN ops' = DOMAIN ops
      /\ ops'[1] = op /\ \A i \in DOMAIN ops \ {1} : ops'[i] = ops[i]
  BY <1>1
<1>3. QueueOK'
  BY <1>1, <1>2, Known DEF SupervisorIInv, QueueOK
<1>4. /\ sup' \in Fields /\ sup'.readinessTimer = NoProcess /\ sup'.stableTimer = NoProcess
      /\ sup'.proc = sup.proc /\ sup'.restartTimer = sup.restartTimer
      /\ sup'.status = sup.status
  <2>1. sup \in Fields
    BY Known
  <2>2. CASE sup' = sup
    BY <2>1, <2>2, Known
  <2>3. CASE sup' = Bump(sup)
    BY <2>1, <2>3, FieldsChanged
  <2> QED
    BY <2>2, <2>3
<1>5. /\ sup.status \notin {"ready", "stopped"} /\ ~sup.restartTimer
  BY DEF SupervisorIInv, BusyShown, TimerAlone
<1>6. CurrentHeld' /\ TimerAlone' /\ BusyShown'
  BY <1>4, <1>5 DEF CurrentHeld, TimerAlone, BusyShown
<1>7. WaitsForHeld'
  BY <1>2, <1>4 DEF WaitsForHeld, exitedProcesses
<1>8. StatusTrue'
  BY <1>4, <1>5, Known DEF SupervisorIInv, StatusTrue, SupervisorTypeOK, Fields, RuntimeOwned,
     ProcessAlive,
     ReadyIsReal, StoppedIsQuiet
<1> QED
  BY <1>3, <1>6, <1>7, <1>8 DEF SupervisorIInv

\* An operation begins.
LEMMA BeginStep ==
    ASSUME SupervisorIInv, BeginOperation
    PROVE  SupervisorIInv'
<1>1. ops # <<>> /\ ops[1].phase = "queued"
  BY Known DEF BeginOperation, Drained
<1>2. PICK op \in Operations : op = ops[1] /\ Head(ops) = op
  BY <1>1, Known
<1>3. op.kind = "fail" => /\ sup.current = NoProcess /\ sup.proc = op.process /\ sup.proc # NoProcess
  BY <1>1, <1>2 DEF SupervisorIInv, WaitsForHeld
<1>4. calls' = calls /\ sup \in Fields /\ ~sup.restartTimer
  BY <1>1, Known DEF BeginOperation, SupervisorIInv, TimerAlone
<1>5. CASE /\ op.kind # "fail" /\ sup.proc = NoProcess /\ Continue(op, sup, TRUE)
           /\ ops' = Tail(ops)
  BY <1>1, <1>2, <1>4, <1>5, Known, ContinueStep
<1> DEFINE next(phase) == [op EXCEPT !.process = sup.proc, !.phase = phase,
                                     !.already = sup.proc \in exitedProcesses]
<1>6. \A phase \in {"shutdown", "SIGTERM"} :
         /\ next(phase) \in Operations /\ next(phase).phase = phase
         /\ next(phase).live = op.live /\ next(phase).process = sup.proc
         /\ next(phase).already => sup.proc \in exitedProcesses
  <2>1. sup.proc \in Processes \cup {NoProcess}
    BY <1>4 DEF Fields
  <2> TAKE phase \in {"shutdown", "SIGTERM"}
  <2> DEFINE record(b) == [op EXCEPT !.process = sup.proc, !.phase = phase, !.already = b]
  <2>2. \A b \in BOOLEAN :
           /\ record(b) \in Operations /\ record(b).phase = phase
           /\ record(b).live = op.live /\ record(b).process = sup.proc
           /\ record(b).already = b
    BY <2>1 DEF Operations
  <2>3. PICK b \in BOOLEAN : next(phase) = record(b) /\ (b => sup.proc \in exitedProcesses)
    <3>1. CASE sup.proc \in exitedProcesses
      <4>1. (sup.proc \in exitedProcesses) = TRUE
        BY <3>1
      <4>2. next(phase) = record(TRUE)
        BY <4>1, Zenon
      <4> QED
        BY <3>1, <4>2
    <3>2. CASE sup.proc \notin exitedProcesses
      <4>1. (sup.proc \in exitedProcesses) = FALSE
        BY <3>2
      <4>2. next(phase) = record(FALSE)
        BY <4>1, Zenon
      <4> QED
        BY <4>2
    <3> QED
      BY <3>1, <3>2
  <2> HIDE DEF record, next
  <2> QED
    BY <2>2, <2>3
<1>7. CASE /\ op.kind # "fail" /\ sup.proc # NoProcess /\ sup' = Bump(sup) /\ UNCHANGED process
           /\ ops' = [ops EXCEPT ![1] = next(IF sup.client THEN "shutdown" ELSE "SIGTERM")]
  <2>1. PICK phase \in {"shutdown", "SIGTERM"} : ops' = [ops EXCEPT ![1] = next(phase)]
    BY <1>7
  <2>2. sup'.current = NoProcess
    BY <1>4, <1>7, FieldsChanged
  <2> HIDE DEF next
  <2> QED
    BY <1>1, <1>2, <1>4, <1>6, <1>7, <2>1, <2>2, PhaseStep
<1>8. CASE op.kind = "fail" /\ op.process \in exitedProcesses /\ EndWait(TRUE)
  BY <1>1, <1>2, <1>4, <1>8, EndWaitStep
<1>9. CASE /\ op.kind = "fail" /\ UNCHANGED <<sup, process>>
           /\ ops' = [ops EXCEPT ![1] = next("SIGTERM")]
  <2> HIDE DEF next
  <2> QED
    BY <1>1, <1>2, <1>3, <1>4, <1>6, <1>9, PhaseStep
<1> QED
  <2>1. 1 \in DOMAIN ops
    BY <1>1, Known
  <2>2. CASE op.kind # "fail"
    <3>1. \/ sup.proc = NoProcess /\ Continue(op, sup, TRUE) /\ ops' = Tail(ops)
          \/ /\ sup.proc # NoProcess /\ sup' = Bump(sup) /\ UNCHANGED process
             /\ ops' = [ops EXCEPT ![1] = next(IF sup.client THEN "shutdown" ELSE "SIGTERM")]
      BY <1>2, <2>1, <2>2 DEF BeginOperation
    <3> QED
      BY <1>5, <1>7, <2>2, <3>1
  <2>3. CASE op.kind = "fail"
    <3>1. \/ op.process \in exitedProcesses /\ EndWait(TRUE)
          \/ /\ ops' = [ops EXCEPT ![1] = next("SIGTERM")]
             /\ UNCHANGED <<sup, process>>
      BY <1>2, <1>3, <2>1, <2>3 DEF BeginOperation
    <3> QED
      BY <1>8, <1>9, <2>3, <3>1
  <2> QED
    BY <2>2, <2>3

\* An operation goes on: its wait is over, or has lasted too long.
LEMMA OperationStep ==
    ASSUME SupervisorIInv, OperationEnds \/ OperationTimeout
    PROVE  SupervisorIInv'
<1>1. ops # <<>> /\ Drained /\ calls' = calls
  BY DEF OperationEnds, OperationTimeout
<1>2. PICK op \in Operations : op = ops[1] /\ Head(ops) = op
  BY <1>1, Known
<1>3. /\ sup.current = NoProcess /\ sup.proc = op.process /\ sup.proc # NoProcess
      /\ op.already => sup.proc \in exitedProcesses
      /\ sup.proc \in Processes
  BY <1>1, <1>2, Known DEF SupervisorIInv, WaitsForHeld, Fields
<1>4. CASE OperationEnds
  <2>1. op.process \in exitedProcesses
    BY <1>2, <1>3, <1>4 DEF OperationEnds, Resolved, exitedProcesses
  <2>2. EndWait(TRUE)
    BY <1>4 DEF OperationEnds
  <2> QED
    BY <1>1, <1>2, <2>1, <2>2, EndWaitStep
<1>5. CASE OperationTimeout /\ EndWait(FALSE)
  BY <1>1, <1>5, EndWaitStep
<1>6. CASE OperationTimeout /\ ~EndWait(FALSE)
  <2> DEFINE next == [op EXCEPT !.phase = IF @ = "shutdown" THEN "SIGTERM" ELSE "SIGKILL"]
  <2>1. /\ next \in Operations /\ next.phase # "queued" /\ next.live = op.live
        /\ next.process = op.process /\ next.already = op.already
    BY DEF Operations
  <2>2. ops' = [ops EXCEPT ![1] = next] /\ UNCHANGED <<sup, process>>
    BY <1>1, <1>2, <1>6, Known DEF OperationTimeout
  <2> HIDE DEF next
  <2> QED
    BY <1>1, <1>2, <1>3, <2>1, <2>2, PhaseStep
<1> QED
  BY <1>4, <1>5, <1>6

\* The exit event of a process: of the current one, of one that an operation waits
\* for, and of one that has been given up.
LEMMA ExitStep ==
    ASSUME SupervisorIInv, NEW p \in Processes, ProcessExit(p)
    PROVE  SupervisorIInv'
<1>1. /\ Drained /\ ProcessAlive(p) /\ process' = [process EXCEPT ![p] = "exited"]
      /\ HandleExit(p) /\ ops' = ops /\ calls' = calls
  BY DEF ProcessExit
<1>2. /\ process' \in [Processes -> ProcessStates] /\ p = sup.proc
      /\ \A q \in Processes : ~ProcessAlive(q)'
      /\ sup.proc \in exitedProcesses'
  BY <1>1, Known DEF SupervisorIInv, StatusTrue, RuntimeOwned, ProcessAlive, ProcessStates,
     exitedProcesses
<1>3. CASE p # sup.current
  <2>1. sup' = sup /\ sup.current = NoProcess
    BY <1>1, <1>2, <1>3 DEF HandleExit, SupervisorIInv, CurrentHeld
  <2>2. StatusTrue'
    BY <1>2, <2>1 DEF SupervisorIInv, StatusTrue, SupervisorTypeOK, RuntimeOwned, ReadyIsReal,
       StoppedIsQuiet
  <2>3. WaitsForHeld'
    BY <1>1, <1>2, <2>1 DEF SupervisorIInv, WaitsForHeld, Drained
  <2> QED
    BY <1>1, <2>1, <2>2, <2>3
       DEF SupervisorIInv, QueueOK, CurrentHeld, TimerAlone, BusyShown, Drained
<1>4. CASE p = sup.current
  <2>1. sup.desired /\ ops = <<>> /\ sup \in Fields
    BY <1>1, <1>2, <1>4, Known
  <2> DEFINE s == [Bump(sup) EXCEPT !.proc = NoProcess, !.client = FALSE]
  <2>2. /\ s \in Fields /\ s.proc = NoProcess /\ s.current = NoProcess /\ s.desired
        /\ s.readinessTimer = NoProcess /\ s.stableTimer = NoProcess
    BY <2>1 DEF Bump, Fields, NoProcess
  <2>3. sup' = ScheduleRestart(s)
    <3>1. Bump(sup).desired = sup.desired /\ Bump(sup).client \in BOOLEAN
      BY <2>1, FieldsChanged DEF Fields
    <3>2. [Bump(sup) EXCEPT !.proc = IF sup.proc = p THEN NoProcess ELSE @,
                            !.client = @ /\ ~(sup.proc = p)] = s
      BY <1>2
    <3> QED
      BY <1>1, <1>4, <2>2, <3>2 DEF HandleExit
  <2> HIDE DEF s
  <2>4. /\ sup' \in Fields /\ sup'.proc = NoProcess /\ sup'.current = NoProcess
        /\ sup'.readinessTimer = NoProcess /\ sup'.stableTimer = NoProcess
        /\ sup'.status \in {"offline", "restarting"}
    BY <2>2, <2>3, ScheduleRestartChanges
  <2>5. RuntimeOwned' /\ ReadyIsReal' /\ StoppedIsQuiet'
    BY <1>2, <2>4 DEF RuntimeOwned, ReadyIsReal, StoppedIsQuiet
  <2> QED
    BY <1>1, <1>2, <2>1, <2>4, <2>5, Known, NothingQueued
<1> QED
  BY <1>3, <1>4

\* A process announces itself.
LEMMA ReadyStep ==
    ASSUME SupervisorIInv, NEW p \in Processes, Ready(p)
    PROVE  SupervisorIInv'
<1>1. /\ Drained /\ process[p] = "up" /\ process' = [process EXCEPT ![p] = "ready"]
      /\ ops' = ops /\ calls' = calls /\ p = sup.proc
  BY DEF Ready, SupervisorIInv, StatusTrue, RuntimeOwned, ProcessAlive
<1>2. /\ process' \in [Processes -> ProcessStates]
      /\ \A q \in Processes : ProcessAlive(q)' <=> ProcessAlive(q)
      /\ \A q \in Processes : process[q] = "ready" => process'[q] = "ready"
  BY <1>1, Known DEF ProcessAlive, ProcessStates
<1>3. CASE p # sup.current
  <2>1. sup' = sup /\ sup.current = NoProcess
    BY <1>1, <1>3 DEF Ready, SupervisorIInv, CurrentHeld
  <2>2. StatusTrue'
    BY <1>2, <2>1 DEF SupervisorIInv, StatusTrue, SupervisorTypeOK, RuntimeOwned, ReadyIsReal,
       StoppedIsQuiet
  <2>3. sup.proc \notin exitedProcesses
    BY <1>1 DEF exitedProcesses
  <2>4. WaitsForHeld'
    BY <1>1, <2>1, <2>3 DEF SupervisorIInv, WaitsForHeld, Drained
  <2> QED
    BY <1>1, <2>1, <2>2, <2>4
       DEF SupervisorIInv, QueueOK, CurrentHeld, TimerAlone, BusyShown, Drained
<1>4. CASE p = sup.current
  <2>1. /\ sup.desired /\ ops = <<>> /\ sup \in Fields /\ sup.client /\ sup.proc # NoProcess
        /\ ~sup.restartTimer /\ calls \in Nat /\ p # NoProcess
    BY <1>1, <1>4, Known DEF SupervisorIInv, CurrentHeld, TimerAlone
  <2>2. sup' = [sup EXCEPT !.status = "ready", !.readinessTimer = NoProcess, !.stableTimer = p]
    BY <1>4 DEF Ready
  <2>3. /\ sup' \in Fields /\ sup'.status = "ready" /\ sup'.readinessTimer = NoProcess
        /\ sup'.stableTimer = p /\ sup'.current = p /\ sup'.proc = p /\ sup'.client
        /\ sup'.desired /\ ~sup'.restartTimer
    BY <1>1, <1>4, <2>1, <2>2 DEF Fields, Statuses, NoProcess
  <2>4. process'[p] = "ready"
    BY <1>1, Known
  <2>5. RuntimeOwned' /\ ReadyIsReal' /\ StoppedIsQuiet'
    BY <1>1, <1>2, <2>1, <2>3, <2>4 DEF RuntimeOwned, ReadyIsReal, StoppedIsQuiet,
       SupervisorIInv, StatusTrue
  <2> QED
    BY <1>1, <1>2, <2>1, <2>3, <2>5, NothingQueued
<1> QED
  BY <1>3, <1>4

\* The timers: a restart that is due, a process that has run long enough.
LEMMA TimerStep ==
    ASSUME SupervisorIInv, RestartTimer \/ StableReset
    PROVE  SupervisorIInv'
<1>1. Drained /\ ops' = ops /\ calls' = calls
  BY DEF RestartTimer, StableReset
<1>2. CASE RestartTimer
  <2>1. /\ sup.restartTimer /\ ops = <<>> /\ sup.proc = NoProcess /\ sup \in Fields
        /\ sup.current = NoProcess /\ sup.readinessTimer = NoProcess /\ sup.stableTimer = NoProcess
        /\ \A p \in Processes : ~ProcessAlive(p)
    BY <1>2, Known DEF RestartTimer, SupervisorIInv, TimerAlone
  <2>2. sup.status \notin {"ready", "stopped"}
    BY <2>1 DEF SupervisorIInv, StatusTrue, ReadyIsReal, StoppedIsQuiet
  <2>3. PICK s \in Fields : s = [sup EXCEPT !.restartTimer = FALSE]
    BY <2>1 DEF Fields
  <2>4. /\ s.proc = NoProcess /\ s.current = NoProcess /\ ~s.restartTimer
        /\ s.readinessTimer = NoProcess /\ s.stableTimer = NoProcess /\ s.status = sup.status
    BY <2>1, <2>3 DEF Fields
  <2>5. SpawnGeneration(s)
    BY <1>2, <2>3 DEF RestartTimer
  <2> QED
    BY <1>1, <2>1, <2>2, <2>4, <2>5, Known, SpawnStep
<1>3. CASE StableReset
  <2>1. /\ sup.stableTimer = sup.current /\ sup.current # NoProcess /\ sup \in Fields
        /\ ops = <<>> /\ sup.desired /\ sup.proc = sup.current /\ sup.client
        /\ ~sup.restartTimer
    BY <1>1, <1>3, Known DEF StableReset, SupervisorIInv, CurrentHeld, TimerAlone
  <2>2. /\ sup' \in Fields /\ sup'.stableTimer = NoProcess
        /\ sup'.readinessTimer = sup.readinessTimer /\ sup'.current = sup.current
        /\ sup'.proc = sup.proc /\ sup'.client = sup.client /\ sup'.desired = sup.desired
        /\ sup'.restartTimer = sup.restartTimer /\ sup'.status = sup.status
    <3>1. PICK n \in 0 .. MaxAttempts : sup' = [sup EXCEPT !.stableTimer = NoProcess, !.attempt = n]
      <4>1. sup.attempt \in 0 .. MaxAttempts /\ 0 \in 0 .. MaxAttempts
        BY <2>1, SupervisorAssumption DEF Fields
      <4> QED
        BY <1>3, <4>1 DEF StableReset
    <3> QED
      BY <2>1, <3>1 DEF Fields, NoProcess
  <2>3. UNCHANGED process
    BY <1>3 DEF StableReset
  <2>4. RuntimeOwned' /\ ReadyIsReal' /\ StoppedIsQuiet'
    BY <2>1, <2>2, <2>3 DEF SupervisorIInv, StatusTrue, RuntimeOwned, ReadyIsReal,
       StoppedIsQuiet, ProcessAlive
  <2> QED
    BY <1>1, <2>1, <2>2, <2>3, <2>4, Known, NothingQueued
<1> QED
  BY <1>2, <1>3

-----------------------------------------------------------------------------
(* The theorem.                                                            *)

\* The invariant holds of a supervisor that has not been started.
LEMMA SupervisorInitInvariant == SupervisorInit => SupervisorIInv
<1> SUFFICES ASSUME SupervisorInit PROVE SupervisorIInv
  OBVIOUS
<1>1. 0 \in 0 .. MaxAttempts
  BY SupervisorAssumption
<1>2. StatusTrue
  <2>1. SupervisorTypeOK
    BY <1>1 DEF SupervisorInit, SupervisorTypeOK, Statuses, ProcessStates
  <2> QED
    BY <2>1 DEF SupervisorInit, StatusTrue, RuntimeOwned, ProcessAlive, ReadyIsReal,
       StoppedIsQuiet
<1>3. QueueOK
  BY DEF SupervisorInit, QueueOK
<1> QED
  BY <1>2, <1>3 DEF SupervisorInit, SupervisorIInv, CurrentHeld, WaitsForHeld, TimerAlone,
     BusyShown

\* Every step keeps it.
LEMMA SupervisorStepInvariant ==
    SupervisorIInv /\ [SupervisorNext]_supervisorVars => SupervisorIInv'
<1> SUFFICES ASSUME SupervisorIInv, [SupervisorNext]_supervisorVars PROVE SupervisorIInv'
  OBVIOUS
<1>1. CASE StartRuntime \/ StopRuntime \/ RestartRuntime
  BY <1>1, CallsStep
<1>2. CASE RestartTimer \/ StableReset
  BY <1>2, TimerStep
<1>3. CASE ReadinessTimeout
  <2>1. /\ Drained /\ FailGeneration(sup.readinessTimer) /\ UNCHANGED <<process, calls>>
        /\ sup.readinessTimer \in Processes
    BY <1>3, Known DEF ReadinessTimeout, Fields
  <2> QED
    BY <2>1, Known, FailStep
<1>4. CASE BeginOperation
  BY <1>4, BeginStep
<1>5. CASE OperationEnds \/ OperationTimeout
  BY <1>5, OperationStep
<1>6. ASSUME NEW p \in Processes, ProcessExit(p)
      PROVE  SupervisorIInv'
  BY <1>6, ExitStep
<1>7. ASSUME NEW p \in Processes, ProcessError(p)
      PROVE  SupervisorIInv'
  <2>1. /\ Drained /\ FailGeneration(p) /\ UNCHANGED calls
        /\ process' \in [Processes -> ProcessStates]
        /\ \A q \in Processes :
              \/ process'[q] = process[q]
              \/ (process[q] = "failing" /\ process'[q] = "errored")
    BY <1>7, Known DEF ProcessError, ProcessStates
  <2> QED
    BY <2>1, FailStep
<1>8. ASSUME NEW p \in Processes, Ready(p)
      PROVE  SupervisorIInv'
  BY <1>8, ReadyStep
<1>9. ASSUME NEW p \in Processes, FatalError(p)
      PROVE  SupervisorIInv'
  BY <1>9, Known, FailStep DEF FatalError
<1>10. CASE UNCHANGED supervisorVars
  BY <1>10 DEF supervisorVars, SupervisorIInv, StatusTrue, SupervisorTypeOK, RuntimeOwned,
     ProcessAlive, ReadyIsReal,
     StoppedIsQuiet, QueueOK, CurrentHeld, WaitsForHeld, Drained, exitedProcesses,
     TimerAlone, BusyShown
<1> QED
  BY <1>1, <1>2, <1>3, <1>4, <1>5, <1>6, <1>7, <1>8, <1>9, <1>10 DEF SupervisorNext

\* The inductive invariant holds in every state of the supervisor.
THEOREM SupervisorInvariant == SupervisorSpec => []SupervisorIInv
BY SupervisorInitInvariant, SupervisorStepInvariant, PTL DEF SupervisorSpec

\* There are never two runtimes, none is out of the supervisor's reach, "ready" is
\* shown only of one that can be talked to and "stopped" only when none runs and
\* none will be started.
THEOREM StatusAlwaysTrue == SupervisorSpec => []StatusTrue
<1>1. SupervisorIInv => StatusTrue
  BY DEF SupervisorIInv
<1> QED
  BY <1>1, SupervisorInvariant, PTL
=============================================================================
