---------------------------- MODULE MCAgentWorker ----------------------------
(* Small instances of AgentWorker.                                         *)
EXTENDS AgentWorker, TLC

\* The runs of one session share its checkpoint thread.
OneThread == [r \in Runs |-> "session"]

\* Two messages: two copies of a start command with a failing call and a crash,
\* the start and the resume command of a run with a failing call or a crash, or
\* the start commands of two runs.  Only what the environment does is limited:
\* no step of the agent waits for what is left out.
Copies == \A i \in DOMAIN queue : queue[i] = queue[1]
OneRun == \A i \in DOMAIN queue : RunOf(i) = RunOf(1)
Started == \A i \in DOMAIN queue : KeyOf(i) = 0
Cancelled == \E r \in Runs : stopped[r]
Streamed == \E r \in Runs : \E n \in DOMAIN events[r] : events[r][n] = "delta"
Scenarios ==
    /\ queue # <<>> => queue[1] = [run |-> "r1", key |-> 0]
    /\ Cancelled => OneRun /\ errors + crashes <= 1 /\ (errors = 1 => Len(queue) = 1)
    /\ expired # {} => ~OneRun
    /\ Streamed => errors + crashes = 0 /\ ~Cancelled
    /\ \/ Copies
       \/ OneRun /\ errors + crashes <= 1
       \/ Started /\ errors + crashes = 0
=============================================================================
