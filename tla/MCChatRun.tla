----------------------------- MODULE MCChatRun -----------------------------
(* Instances of ChatRun for TLC.                                           *)
EXTENDS ChatRun, TLC

CONSTANTS r1, a1, a2, d1, d2

OneProcess == d1 :> a1 @@ d2 :> a1
OneDispatcher == d1 :> a1
EitherCall == Permutations({d1, d2})

\* At most one dispatch call is in progress.
OneCall == \E d \in Dispatchers : \A e \in Dispatchers \ {d} : disp[e].pc = "idle"

\* Two dispatch calls in one process, three attempts and short streams; or one call
\* at a time, streams of up to three events and a second process that projects those
\* that begin with a delta (no stream of the first case does); or one call at a time,
\* one process and two questions.  Only in the last may a process select a run for
\* recovery while it projects it.
Dispatching ==
    /\ clock = 3 => \A r \in Runs : cancelling[r] = {}
    /\ \A r \in Runs : /\ proj[a2][r].pc = "idle" /\ a2 \notin recovering[r]
                       /\ a1 \in recovering[r] => proj[a1][r].pc = "idle"
                       /\ Len(events[r]) <= 1
                       /\ \A n \in DOMAIN events[r] : events[r][n] # "delta"
TwoProcesses ==
    /\ OneCall /\ clock <= 1
    /\ \A r \in Runs :
          \/ a2 \notin recovering[r] /\ proj[a2][r].pc = "idle"
          \/ /\ events[r] # <<>> /\ Head(events[r]) = "delta"
             /\ a2 \notin recovering[r] \/ proj[a2][r].pc = "idle"
    /\ \A r \in Runs : /\ gen[r].attempt <= 1
                       /\ Len(events[r]) = 3 => cancelling[r] \cup recovering[r] = {}
TwoQuestions ==
    \A r \in Runs :
        /\ proj[a2][r].pc = "idle" /\ a2 \notin recovering[r] /\ cancelling[r] = {}
        /\ OneCall /\ Len(events[r]) <= 2 /\ gen[r].attempt <= 2 /\ ~overran[r]
        /\ \A n \in DOMAIN events[r] : events[r][n] = "action"
Scenarios ==
    /\ \A r \in Runs : a2 \notin cancelling[r] \cup resuming[r]
    /\ Dispatching \/ TwoProcesses \/ TwoQuestions

\* Recovery does not select a run that its own process projects: projectRun would
\* ignore it (projectingRunIds) unless the projection ends in between.
SelectsIdle ==
    \A a \in Apis, r \in Runs :
        a \in recovering'[r] \ recovering[r] => proj[a][r].pc = "idle"

\* The user cancels or answers, and does not do both.
CancelsOrAnswers ==
    \A r \in Runs :
        /\ resuming'[r] \subseteq resuming[r] \/ (cancelling[r] = {} /\ msg[r] # "cancelled")
        /\ cancelling'[r] \subseteq cancelling[r] \/ (resuming[r] = {} /\ gen[r].attempt <= 1)
=============================================================================
