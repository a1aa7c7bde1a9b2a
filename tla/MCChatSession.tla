---------------------------- MODULE MCChatSession ----------------------------
(* An instance of ChatSession for TLC.                                     *)
EXTENDS ChatSession, TLC

RequestSymmetry == Permutations(Requests)

\* Bound: one transaction of the projector is between its read and its write.
OneOutcome ==
    /\ Cardinality({m \in DOMAIN messages : late[m] # {}}) <= 1
    /\ \A m \in DOMAIN messages : Cardinality(late[m]) <= 1

\* States that go on alike are taken as one: of a version counts only whether it is
\* still the session's, and only for requests and runs that will compare it; of a
\* run that is over and has no outcome under way, not whether its agent was told.
Open == {m \in DOMAIN messages : runs[m] \in activeRunStatuses \/ late[m] # {}}
Planned == {q \in Requests : requests[q].pc \in {"check", "write"}}
Alike ==
    <<messages, [session EXCEPT !.version = 0], runs, late, told \cap Open, switches,
      [m \in Open |-> expected[m] = session.version],
      [q \in Requests |-> [requests[q] EXCEPT !.version = 0]],
      [q \in Planned |-> requests[q].version = session.version]>>
=============================================================================
