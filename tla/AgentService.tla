---------------------------- MODULE AgentService ----------------------------
(***************************************************************************)
(* What the API relies on of the agent service, seen from the Redis streams *)
(* between them.  The API appends generation commands to a command stream; *)
(* the agent appends events to an event stream.  A command carries an      *)
(* idempotency key: 0 is the key of the start command of a run             *)
(* ("chat:generation:<id>"), n > 0 the key of the resume command of the    *)
(* n-th attempt ("chat:generation:<id>:resume:<n>").  Commands may be      *)
(* delivered late, in any order and more than once; they execute when their *)
(* key is not held, and an execution may end without a word.  Module       *)
(* AgentWorker implements this one.                                        *)
(***************************************************************************)
EXTENDS Naturals, Sequences

CONSTANTS Runs,         \* generation ids
          MaxAttempts,  \* bound on ChatMessageGeneration.attempt
          MaxDeltas,    \* bound on the length of a stream that gets a delta
          MaxEvents,    \* bound on the events of one run
          LostReplies   \* whether Redis may execute an XADD and lose the reply

ASSUME ServiceAssumption ==
    /\ MaxAttempts \in Nat
    /\ MaxDeltas \in Nat
    /\ MaxEvents \in Nat
    /\ LostReplies \in BOOLEAN

VARIABLES commands,   \* commands[r]: keys of the commands in the stream
          started,    \* started[r]: keys held by the idempotency store
          executing,  \* executing[r][k]: stage of the execution of command k
          stopped,    \* stopped[r]: a CANCEL_RUN control was published
          events      \* events[r]: the run's events, in stream order

serviceVars == <<commands, started, executing, stopped, events>>

Keys == 0 .. MaxAttempts
Outcomes == {"completed", "action", "failed", "cancelled"}
Failures == {"failed", "cancelled"}
EventKinds == {"delta"} \cup Outcomes
Stages == {"idle", "running", "reported", "failing"}

ServiceTypeOK ==
    /\ commands \in [Runs -> SUBSET Keys]
    /\ started \in [Runs -> SUBSET Keys]
    /\ executing \in [Runs -> [Keys -> Stages]]
    /\ stopped \in [Runs -> BOOLEAN]
    /\ events \in [Runs -> Seq(EventKinds)]

ServiceInit ==
    /\ commands = [r \in Runs |-> {}]
    /\ started = [r \in Runs |-> {}]
    /\ executing = [r \in Runs |-> [k \in Keys |-> "idle"]]
    /\ stopped = [r \in Runs |-> FALSE]
    /\ events = [r \in Runs |-> <<>>]

-----------------------------------------------------------------------------
(* The API's side of the streams.                                          *)

\* XADD of a generation command; a second copy of a command changes nothing.
PublishCommand(r, k) == commands' = [commands EXCEPT ![r] = @ \cup {k}]

\* XADD of a CANCEL_RUN control.
PublishCancel(r) == stopped' = [stopped EXCEPT ![r] = TRUE]

-----------------------------------------------------------------------------
(* The agent's side.                                                       *)

\* A worker takes a copy of the command and holds its key.
Begin(r, k) ==
    /\ k \in commands[r] \ started[r]
    /\ started' = [started EXCEPT ![r] = @ \cup {k}]
    /\ executing' = [executing EXCEPT ![r][k] = "running"]
    /\ UNCHANGED <<commands, stopped, events>>

Delta(r, k) ==
    /\ executing[r][k] = "running"
    /\ Len(events[r]) < MaxDeltas
    /\ events' = [events EXCEPT ![r] = Append(@, "delta")]
    /\ UNCHANGED <<commands, started, executing, stopped>>

\* The execution reports its outcome.  It may report a failure after another
\* outcome, when the reply to that one was lost.
Report(r, k, kind) ==
    /\ \/ executing[r][k] = "running"
       \/ executing[r][k] = "reported" /\ LostReplies /\ kind \in Failures
    /\ kind = "cancelled" => stopped[r]
    /\ Len(events[r]) < MaxEvents
    /\ events' = [events EXCEPT ![r] = Append(@, kind)]
    /\ executing' = [executing EXCEPT ![r][k] =
                        IF kind \in Failures THEN "failing" ELSE "reported"]
    /\ UNCHANGED <<commands, started, stopped>>

\* The execution ends, with or without an outcome.  A failed one releases its
\* key, so that another copy of the command may execute.
End(r, k, keep) ==
    /\ executing[r][k] # "idle"
    /\ executing[r][k] = "reported" /\ ~LostReplies => keep
    /\ executing' = [executing EXCEPT ![r][k] = "idle"]
    /\ started' = IF keep THEN started ELSE [started EXCEPT ![r] = @ \ {k}]
    /\ UNCHANGED <<commands, stopped, events>>

\* A process dies with the executions it was busy with.  Their keys stay held.
AgentCrash ==
    /\ \E lost \in [Runs -> SUBSET Keys] :
          executing' = [r \in Runs |-> [k \in Keys |->
                           IF k \in lost[r] THEN "idle" ELSE executing[r][k]]]
    /\ UNCHANGED <<commands, started, stopped, events>>

AgentStep(r) ==
    \E k \in Keys :
        \/ Begin(r, k)
        \/ Delta(r, k)
        \/ \E kind \in Outcomes : Report(r, k, kind)
        \/ \E keep \in BOOLEAN : End(r, k, keep)

\* The service on its own: its environment publishes any command or control.
ClientStep(r) ==
    \/ /\ \E k \in Keys : PublishCommand(r, k)
       /\ UNCHANGED <<started, executing, stopped, events>>
    \/ /\ PublishCancel(r)
       /\ UNCHANGED <<commands, started, executing, events>>

ServiceNext == AgentCrash \/ \E r \in Runs : ClientStep(r) \/ AgentStep(r)

ServiceSpec == ServiceInit /\ [][ServiceNext]_serviceVars
=============================================================================
