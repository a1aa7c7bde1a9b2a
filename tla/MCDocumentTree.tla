--------------------------- MODULE MCDocumentTree ---------------------------
(* Workspaces and workers are interchangeable; users are not.              *)
EXTENDS DocumentTree, TLC

Symmetry == Permutations(Workspaces) \cup Permutations(Workers)

\* A job whose status may not be what the worker, the queue and no one else made it.
Faulty(i) ==
    \/ jobs[i].queue # "added" \/ jobs[i].faults # {}
    \/ jobs[i].status = "RUNNING" /\ \A w \in Workers : worker[w] = Idle

\* Two requests and a job one after the other, with an id unused at the end (and two
\* for a job that comes last), two of them with PATCH meta or at once, or a job with
\* its faults and a restart.
Scenarios ==
    /\ history.overlapped \/ history.patched => count.requests + Len(jobs) <= 2
    /\ count.restarts > 0 \/ (\E i \in DOMAIN jobs : Faulty(i)) => count.requests = 0
    /\ count.requests + Len(jobs) = 3 =>
          Cardinality({d \in Docs : doc[d] = Unused}) > IF jobs[1].status = "PENDING" THEN 1 ELSE 0

\* States that go on alike are taken as one: of a job that is over and held by no
\* worker, not what it was asked to do.
Over(i) ==
    /\ jobs[i].status \in {"SUCCEEDED", "FAILED"}
    /\ \A w \in Workers : worker[w] # Idle => worker[w].job # i
Alike ==
    <<doc, request, worker, count, history,
      [i \in DOMAIN jobs |->
          IF Over(i) THEN [status |-> jobs[i].status, queue |-> jobs[i].queue,
                           writes |-> jobs[i].writes, faults |-> jobs[i].faults]
          ELSE jobs[i]]>>
=============================================================================
