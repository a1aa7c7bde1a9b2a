--------------------------- MODULE ChatRunHistory ---------------------------
(***************************************************************************)
(* ChatRun with a history of the agent's executions, for a property that   *)
(* holds of a run as long as each of its commands is executed once and has *)
(* one outcome.  The runner does not guarantee that (runner.ts): when the   *)
(* reply to the XADD of an outcome is lost it reports a failure behind it,  *)
(* or releases the key, so that a copy of the command runs again.  Of two   *)
(* commands of a run it refuses the second while the first is active, but  *)
(* only within one process; AgentService promises nothing of the kind.     *)
(***************************************************************************)
EXTENDS ChatRun

VARIABLE doubled  \* auxiliary: a command had two outcomes, or two ran at once

\* An execution that has reported an outcome fails, or lets its command run again.
OutcomeTwice(r) ==
    \E k \in Keys : /\ executing[r][k] = "reported"
                    /\ executing'[r][k] = "failing" \/ k \in started[r] \ started'[r]

\* A command begins while another one of the run has no outcome yet.
TwoAtOnce(r) ==
    \E k \in Keys : /\ executing[r][k] # "running" /\ executing'[r][k] = "running"
                    /\ \E other \in Keys \ {k} : executing[r][other] = "running"

HistoryInit == Init /\ doubled = [r \in Runs |-> FALSE]

HistoryNext ==
    /\ Next
    /\ doubled' = [r \in Runs |-> doubled[r] \/ OutcomeTwice(r) \/ TwoAtOnce(r)]

HistorySpec == HistoryInit /\ [][HistoryNext]_<<vars, doubled>>

\* Also when several processes project a run, or one projects it again, the log
\* records its source events once and in stream order - as long as the agent
\* executes each of its commands once and with one outcome, and no call has outlived
\* its lease or its phase (overran).  Outside of these conditions it need not: a
\* process that recovers the run passes events unrecorded while the run waits for the
\* user or has ended, or starts behind such events, and another records them later.
OrderUnlessDoubled == \A r \in Runs : doubled[r] \/ overran[r] \/ SourcesInOrder(r)
=============================================================================
