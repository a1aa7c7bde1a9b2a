----------------------------- MODULE MCBuddyRun -----------------------------
(* Instances of BuddyRun for TLC.                                          *)
EXTENDS BuddyRun, TLC

\* Two requests in one conversation; a request for a new conversation and its
\* retry; a request for a new conversation and one that goes on in it.
MCRequestOf == "one" :> "p" @@ "two" :> "q" @@ "new" :> "s" @@ "retry" :> "s" @@ "next" :> "q"
MCTargetOf == "one" :> "k1" @@ "two" :> "k1" @@ "new" :> New @@ "retry" :> New @@ "next" :> "k2"

\* Calls that could change names begin in this order, and so do conversations.
Begun == {c \in Calls : stage[c] # "idle"}
Scenarios ==
    /\ "two" \in Begun => "one" \in Begun
    /\ {"retry", "next"} \cap Begun # {} => "new" \in Begun
    /\ "k3" \in convLog => "k2" \in convLog
    /\ \/ Begun \subseteq {"one", "two"}
       \/ Begun \subseteq {"new", "retry"} /\ stops = MaxStops
       \/ Begun \subseteq {"new", "next"} /\ faults = MaxFaults
    /\ faults = 0 => Begun = {"one"}
    /\ "new" \in Begun => deleting.conv # "k1" /\ "k1" \in convs
=============================================================================
