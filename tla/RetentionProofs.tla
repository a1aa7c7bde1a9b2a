-------------------------- MODULE RetentionProofs --------------------------
(***************************************************************************)
(* Proofs about what the agent keeps.                                      *)
(*                                                                         *)
(* Memory, for every set of generations, slots and values: the rollback of *)
(* a failed reply commits unless it is overtaken, and restores what the    *)
(* reply found.                                                            *)
(*                                                                         *)
(* Cleanup, for every number of attempts, errors and crashes: a completed  *)
(* task means that the thread is gone, and nothing is undone.              *)
(***************************************************************************)
EXTENDS Memory, Cleanup, TLAPS

-----------------------------------------------------------------------------
(* Memory: the inductive invariant.                                        *)

Rows == [slot : Slots \cup {NoSlot}, value : Values, by : Generations \cup {"earlier"},
         active : BOOLEAN, supersedes : Nat]

Replies == [status : Statuses, asked : Nat, admitted : 0 .. 2, heard : BOOLEAN,
            archive : SUBSET Nat, completing : BOOLEAN, failing : BOOLEAN, seen : SUBSET Nat,
            start : SUBSET Nat, foreign : SUBSET Nat, twice : SUBSET (Slots \cup {NoSlot}),
            behind : SUBSET Nat]

\* A memory supersedes an older one of its slot.
WellFormed(rows) ==
    /\ rows \in Seq(Rows)
    /\ \A m \in DOMAIN rows :
          /\ rows[m].supersedes \in 0 .. m - 1
          /\ rows[m].supersedes # 0 =>
                rows[m].slot \in Slots /\ rows[rows[m].supersedes].slot = rows[m].slot

Typed ==
    /\ WellFormed(memories)
    /\ generation \in [Generations -> Replies]
    /\ \A g \in Generations :
          /\ generation[g].archive \subseteq Ids /\ generation[g].start \subseteq Ids
          /\ generation[g].foreign \subseteq Ids
          /\ generation[g].seen \subseteq Ids /\ generation[g].behind \subseteq Ids

\* A generation that has not started has written nothing and will not yet.
NothingBefore(g) ==
    generation[g].status = "new" =>
        /\ generation[g].admitted = 0 /\ ~generation[g].failing
        /\ \A m \in Ids : memories[m].by # g

\* A rollback has selected memories of the generation, and all its active ones
\* but those that were changed since.
Selected(g) ==
    /\ \A m \in generation[g].seen : memories[m].by = g
    /\ generation[g].failing =>
          \A m \in Ids : memories[m].active /\ memories[m].by = g
                           => m \in generation[g].seen \cup generation[g].behind

\* What only the generation could have changed is not its own, and is active or
\* is what an active memory of the generation superseded.
Restorable(g) ==
    \A m \in Alone(g) :
        /\ memories[m].by # g
        /\ \/ memories[m].active
           \/ \E x \in Ids : memories[x].active /\ memories[x].by = g /\ memories[x].supersedes = m

\* When a generation superseded a memory of its own, it wrote the slot twice.
TwiceKnown(g) ==
    \A x \in Ids :
        memories[x].by = g /\ memories[x].supersedes # 0
                           /\ memories[memories[x].supersedes].by = g
            => memories[x].slot \in generation[g].twice

IInv ==
    /\ Typed /\ OnePerSlot(memories)
    /\ \A g \in Generations :
          /\ NothingBefore(g) /\ Selected(g)
          /\ generation[g].status = "running" => Restorable(g) /\ TwiceKnown(g)

-----------------------------------------------------------------------------
(* Memory: lemmas about the rows.                                          *)

\* Rows in which the memories there are keep everything but their status.
Keeps(rows) ==
    /\ WellFormed(rows) /\ Ids \subseteq DOMAIN rows
    /\ \A m \in Ids : /\ rows[m].slot = memories[m].slot /\ rows[m].by = memories[m].by
                      /\ rows[m].supersedes = memories[m].supersedes

\* The types that the invariant gives.
LEMMA Known ==
    ASSUME IInv
    PROVE  /\ memories \in Seq(Rows) /\ Len(memories) \in Nat /\ DOMAIN memories = Ids
           /\ Ids = 1 .. Len(memories)
           /\ \A m \in Ids :
                 /\ memories[m] \in Rows /\ m \in Nat \ {0}
                 /\ memories[m].active \in BOOLEAN
                 /\ memories[m].supersedes \in 0 .. m - 1
                 /\ memories[m].supersedes # 0 =>
                       /\ memories[m].supersedes \in Ids /\ memories[m].slot \in Slots
                       /\ memories[memories[m].supersedes].slot = memories[m].slot
           /\ \A g \in Generations :
                 /\ generation[g] \in Replies
                 /\ generation[g].archive \subseteq Ids /\ generation[g].start \subseteq Ids
                 /\ generation[g].foreign \subseteq Ids
                 /\ generation[g].seen \subseteq Ids /\ generation[g].behind \subseteq Ids
           /\ NoSlot \notin Slots /\ "earlier" \notin Generations
<1>1. /\ memories \in Seq(Rows) /\ Len(memories) \in Nat /\ DOMAIN memories = 1 .. Len(memories)
      /\ \A m \in DOMAIN memories : memories[m] \in Rows
  BY DEF IInv, Typed, WellFormed
<1>2. \A m \in Rows : m.active \in BOOLEAN
  BY DEF Rows
<1> QED
  BY <1>1, <1>2, MemoryAssumption DEF IInv, Typed, WellFormed, Ids

\* Archiving memories, or bringing some back, changes their status only.
LEMMA OnlyStatus ==
    ASSUME IInv, NEW rows, rows = [m \in Ids |-> rows[m]],
           \A m \in Ids : \E b \in BOOLEAN : rows[m] = [memories[m] EXCEPT !.active = b]
    PROVE  Keeps(rows) /\ Len(rows) = Len(memories) /\ DOMAIN rows = Ids
<1>1. \A row \in Rows, b \in BOOLEAN :
         /\ [row EXCEPT !.active = b] \in Rows
         /\ [row EXCEPT !.active = b].slot = row.slot /\ [row EXCEPT !.active = b].by = row.by
         /\ [row EXCEPT !.active = b].supersedes = row.supersedes
  BY DEF Rows
<1>2. \A m \in Ids :
         /\ rows[m] \in Rows /\ rows[m].slot = memories[m].slot
         /\ rows[m].by = memories[m].by /\ rows[m].supersedes = memories[m].supersedes
  <2> TAKE m \in Ids
  <2>1. PICK b \in BOOLEAN : rows[m] = [memories[m] EXCEPT !.active = b]
    OBVIOUS
  <2>2. PICK row \in Rows : row = memories[m]
    BY Known
  <2>3. /\ [row EXCEPT !.active = b] \in Rows
        /\ [row EXCEPT !.active = b].slot = row.slot /\ [row EXCEPT !.active = b].by = row.by
        /\ [row EXCEPT !.active = b].supersedes = row.supersedes
    BY <1>1
  <2> QED
    BY <2>1, <2>2, <2>3
<1>3. rows \in [1 .. Len(memories) -> Rows]
  BY <1>2, Known
<1>4. rows \in Seq(Rows) /\ Len(rows) = Len(memories) /\ DOMAIN rows = Ids
  BY <1>3, Known
<1>5. WellFormed(rows)
  <2> SUFFICES ASSUME NEW m \in Ids
               PROVE  /\ rows[m].supersedes \in 0 .. m - 1
                      /\ rows[m].supersedes # 0 =>
                            /\ rows[m].slot \in Slots
                            /\ rows[rows[m].supersedes].slot = rows[m].slot
    BY <1>4 DEF WellFormed
  <2>1. /\ rows[m].supersedes = memories[m].supersedes /\ rows[m].slot = memories[m].slot
        /\ memories[m].supersedes \in 0 .. m - 1
        /\ memories[m].supersedes # 0 =>
              /\ memories[m].supersedes \in Ids /\ memories[m].slot \in Slots
              /\ memories[memories[m].supersedes].slot = memories[m].slot
    BY <1>2, Known
  <2> QED
    BY <1>2, <2>1
<1> QED
  BY <1>2, <1>4, <1>5 DEF Keeps

\* The rows after a completed reply.
LEMMA FinalizedRows ==
    ASSUME IInv, NEW g \in Generations
    PROVE  /\ Keeps(Finalized(g)) /\ DOMAIN Finalized(g) = Ids
           /\ Len(Finalized(g)) = Len(memories)
           /\ \A m \in Ids : Finalized(g)[m].active => memories[m].active
<1> DEFINE rows == Finalized(g)
<1>1. /\ rows = [m \in Ids |-> rows[m]]
      /\ \A m \in Ids : rows[m] = IF m \in generation[g].archive
                                  THEN [memories[m] EXCEPT !.active = FALSE] ELSE memories[m]
  BY DEF Finalized
<1>2. \A row \in Rows : /\ [row EXCEPT !.active = row.active] = row
                        /\ [row EXCEPT !.active = FALSE].active = FALSE
  BY DEF Rows
<1>3. \A m \in Ids : \E b \in BOOLEAN : rows[m] = [memories[m] EXCEPT !.active = b]
  <2> TAKE m \in Ids
  <2>1. memories[m] \in Rows /\ memories[m].active \in BOOLEAN
    BY Known
  <2> QED
    BY <1>1, <1>2, <2>1
<1>4. \A m \in Ids : rows[m].active => memories[m].active
  BY <1>1, <1>2, Known
<1> HIDE DEF rows
<1>5. Keeps(rows) /\ Len(rows) = Len(memories) /\ DOMAIN rows = Ids
  BY <1>1, <1>3, OnlyStatus
<1> QED
  BY <1>4, <1>5 DEF rows

Superseded(own) == {memories[n].supersedes : n \in own}

\* The rows after a rollback: the selected memories are not active, unless another
\* of them superseded them, and the ones they superseded are.
LEMMA RolledBackRows ==
    ASSUME IInv, NEW own \in SUBSET Ids
    PROVE  /\ Keeps(RolledBack(own)) /\ DOMAIN RolledBack(own) = Ids
           /\ Len(RolledBack(own)) = Len(memories)
           /\ \A m \in Ids : RolledBack(own)[m].active <=>
                 m \in Superseded(own) \/ (memories[m].active /\ m \notin own)
<1> DEFINE rows == RolledBack(own)
           kept(m) == memories[m].active /\ m \notin own
<1>1. /\ rows = [m \in Ids |-> rows[m]]
      /\ \A m \in Ids : rows[m] =
            IF m \in Superseded(own)
            THEN [[memories[m] EXCEPT !.active = kept(m)] EXCEPT !.active = TRUE]
            ELSE [memories[m] EXCEPT !.active = kept(m)]
  BY Zenon DEF RolledBack, Superseded
<1>2. \A row \in Rows, b \in BOOLEAN :
         /\ [row EXCEPT !.active = b].active = b
         /\ [[row EXCEPT !.active = b] EXCEPT !.active = TRUE] = [row EXCEPT !.active = TRUE]
  BY DEF Rows
<1>3. \A m \in Ids : kept(m) \in BOOLEAN /\ memories[m] \in Rows
  BY Known
<1> HIDE DEF rows, kept
<1>4. \A m \in Ids : rows[m] = IF m \in Superseded(own)
                               THEN [memories[m] EXCEPT !.active = TRUE]
                               ELSE [memories[m] EXCEPT !.active = kept(m)]
  BY <1>1, <1>2, <1>3
<1>5. \A m \in Ids : /\ \E b \in BOOLEAN : rows[m] = [memories[m] EXCEPT !.active = b]
                     /\ rows[m].active <=> m \in Superseded(own) \/ kept(m)
  <2> TAKE m \in Ids
  <2>1. CASE m \in Superseded(own)
    <3>1. rows[m] = [memories[m] EXCEPT !.active = TRUE] /\ memories[m] \in Rows
      BY <1>3, <1>4, <2>1
    <3>2. rows[m].active = TRUE
      BY <1>2, <3>1
    <3> QED
      BY <2>1, <3>1, <3>2
  <2>2. CASE m \notin Superseded(own)
    <3>1. /\ rows[m] = [memories[m] EXCEPT !.active = kept(m)] /\ memories[m] \in Rows
          /\ kept(m) \in BOOLEAN
      BY <1>3, <1>4, <2>2
    <3>2. rows[m].active = kept(m)
      BY <1>2, <3>1
    <3> QED
      BY <2>2, <3>1, <3>2
  <2> QED
    BY <2>1, <2>2
<1>6. Keeps(rows) /\ Len(rows) = Len(memories) /\ DOMAIN rows = Ids
  BY <1>1, <1>5, OnlyStatus
<1> QED
  BY <1>5, <1>6 DEF rows, kept

\* What a rollback restores does not meet another active memory of its slot, as
\* long as what it selected is active.
LEMMA RollbackFits ==
    ASSUME IInv, NEW own \in SUBSET ActiveIds(memories)
    PROVE  OnePerSlot(RolledBack(own))
<1> DEFINE rows == RolledBack(own)
<1>0. own \in SUBSET Ids
  BY DEF ActiveIds, Ids
<1>1. /\ Len(rows) = Len(memories)
      /\ \A m \in Ids : /\ rows[m].slot = memories[m].slot
                        /\ rows[m].active =>
                              m \in Superseded(own) \/ (memories[m].active /\ m \notin own)
  BY <1>0, RolledBackRows DEF Keeps
<1> SUFFICES ASSUME NEW m \in Ids, NEW n \in Ids, rows[m].active, rows[n].active, m # n,
                    memories[m].slot \in Slots, memories[m].slot = memories[n].slot
             PROVE  FALSE
  BY <1>1, Known, SMTT(60) DEF OnePerSlot, ActiveIds
\* Each of the two stands for an active memory of the slot before.
<1>2. ASSUME NEW k \in Ids, rows[k].active
      PROVE  \E x \in Ids : /\ memories[x].active /\ memories[x].slot = memories[k].slot
                            /\ \/ x \notin own /\ x = k
                               \/ x \in own /\ memories[x].supersedes = k
  <2>1. CASE k \in Superseded(own)
    <3>1. PICK x \in own : memories[x].supersedes = k
      BY <2>1 DEF Superseded
    <3>2. x \in Ids /\ memories[x].active /\ k # 0
      BY <3>1, Known DEF ActiveIds
    <3> QED
      BY <3>1, <3>2, Known
  <2>2. CASE memories[k].active /\ k \notin own
    BY <2>2
  <2> QED
    BY <1>1, <1>2, <2>1, <2>2
<1>3. PICK x \in Ids : /\ memories[x].active /\ memories[x].slot = memories[m].slot
                       /\ \/ x \notin own /\ x = m
                          \/ x \in own /\ memories[x].supersedes = m
  BY <1>2
<1>4. PICK y \in Ids : /\ memories[y].active /\ memories[y].slot = memories[n].slot
                       /\ \/ y \notin own /\ y = n
                          \/ y \in own /\ memories[y].supersedes = n
  BY <1>2
<1>5. x = y
  <2>1. x \in ActiveIds(memories) /\ y \in ActiveIds(memories)
    BY <1>3, <1>4, Known DEF ActiveIds
  <2>2. memories[x].slot \in Slots /\ memories[x].slot = memories[y].slot
    BY <1>3, <1>4
  <2> QED
    BY <2>1, <2>2 DEF IInv, OnePerSlot
<1> QED
  BY <1>3, <1>4, <1>5

\* Rows with a new memory of g, which archives and supersedes the holder of its slot.
Written(rows, g, slot, new) ==
    /\ Keeps(rows) /\ Len(rows) = new /\ DOMAIN rows = Ids \cup {new}
    /\ rows[new].by = g /\ rows[new].active = TRUE /\ rows[new].slot = slot
    /\ \A m \in Ids : rows[m].active <=> memories[m].active /\ m \notin Holder(slot)
    /\ IF Holder(slot) = {} THEN rows[new].supersedes = 0
       ELSE Holder(slot) = {rows[new].supersedes}
    /\ OnePerSlot(rows)

\* The rows after a write.
LEMMA AcceptedRows ==
    ASSUME IInv, NEW g \in Generations, NEW slot \in Slots \cup {NoSlot}, NEW value \in Values
    PROVE  Written(Accepted(g, slot, value), g, slot, Len(memories) + 1)
<1>0. PICK new : new = Len(memories) + 1
  OBVIOUS
<1> DEFINE archived == [m \in Ids |-> IF m \in Holder(slot)
                                      THEN [memories[m] EXCEPT !.active = FALSE] ELSE memories[m]]
           last == IF Holder(slot) = {} THEN 0 ELSE CHOOSE m \in Holder(slot) : TRUE
           row == [slot |-> slot, value |-> value, by |-> g, active |-> TRUE,
                   supersedes |-> last]
<1>1. Accepted(g, slot, value) = Append(archived, row)
  BY DEF Accepted
<1>2. \A m \in Ids : /\ archived[m] = IF m \in Holder(slot)
                                      THEN [memories[m] EXCEPT !.active = FALSE] ELSE memories[m]
                     /\ \E b \in BOOLEAN : archived[m] = [memories[m] EXCEPT !.active = b]
  <2>1. \A m \in Rows : [m EXCEPT !.active = m.active] = m
    BY DEF Rows
  <2> QED
    BY <2>1, Known
<1>3. \A m \in Ids : archived[m].active <=> memories[m].active /\ m \notin Holder(slot)
  <2>1. \A m \in Rows : [m EXCEPT !.active = FALSE].active = FALSE
    BY DEF Rows
  <2> QED
    BY <1>2, <2>1, Known DEF Holder, ActiveIds
<1>4. archived = [m \in Ids |-> archived[m]]
  OBVIOUS
<1>5. \A x \in Holder(slot), y \in Holder(slot) : x = y
  BY Known DEF Holder, IInv, OnePerSlot
<1>6. \A x \in Holder(slot) : /\ x \in Ids /\ memories[x].slot = slot /\ slot \in Slots
                              /\ x \in 1 .. Len(memories)
  BY Known DEF Holder, ActiveIds
<1>7. /\ last \in 0 .. Len(memories)
      /\ IF Holder(slot) = {} THEN last = 0 ELSE Holder(slot) = {last}
      /\ last # 0 => last \in Ids /\ memories[last].slot = slot /\ slot \in Slots
  BY <1>5, <1>6, Known
<1> HIDE DEF archived, last
<1>8. Keeps(archived) /\ Len(archived) = Len(memories) /\ DOMAIN archived = Ids
  BY <1>2, <1>4, OnlyStatus
<1>9. row \in Rows /\ row.by = g /\ row.active = TRUE /\ row.slot = slot /\ row.supersedes = last
  BY <1>7, Known DEF Rows
<1> HIDE DEF row
<1>10. PICK rows : rows = Accepted(g, slot, value)
  OBVIOUS
<1>11. archived \in Seq(Rows)
  BY <1>8 DEF Keeps, WellFormed
<1>12. /\ rows \in Seq(Rows) /\ Len(rows) = new /\ DOMAIN rows = 1 .. new
       /\ rows[new] = row /\ \A m \in Ids : rows[m] = archived[m]
  BY <1>0, <1>1, <1>8, <1>9, <1>10, <1>11, Known
<1>13. DOMAIN rows = Ids \cup {new} /\ new \notin Ids
  BY <1>0, <1>12, Known
<1>14. WellFormed(rows)
  <2> SUFFICES ASSUME NEW m \in DOMAIN rows
               PROVE  /\ rows[m].supersedes \in 0 .. m - 1
                      /\ rows[m].supersedes # 0 =>
                            /\ rows[m].slot \in Slots
                            /\ rows[rows[m].supersedes].slot = rows[m].slot
    BY <1>12 DEF WellFormed
  <2>1. \A k \in Ids : rows[k].slot = memories[k].slot
    BY <1>8, <1>12 DEF Keeps
  <2>2. CASE m = new
    BY <1>0, <1>7, <1>9, <1>12, <2>1, <2>2, Known
  <2>3. CASE m \in Ids
    BY <1>8, <1>12, <2>1, <2>3, Known DEF Keeps
  <2> QED
    BY <1>13, <2>2, <2>3
<1>15. Keeps(rows)
  BY <1>8, <1>12, <1>13, <1>14 DEF Keeps
<1>16. OnePerSlot(rows)
  <2> SUFFICES ASSUME NEW m \in DOMAIN rows, NEW n \in DOMAIN rows, rows[m].active,
                      rows[n].active, m # n, rows[m].slot \in Slots
               PROVE  rows[m].slot # rows[n].slot
    BY <1>12 DEF OnePerSlot, ActiveIds
  <2>1. ASSUME NEW k \in Ids, rows[k].active, slot \in Slots PROVE rows[k].slot # slot
    BY <1>3, <1>12, <1>15, <2>1, Known, SMTT(60) DEF Keeps, Holder, ActiveIds
  <2>2. CASE m \in Ids /\ n \in Ids
    <3>1. m \in ActiveIds(memories) /\ n \in ActiveIds(memories)
      BY <1>3, <1>12, <2>2, Known DEF ActiveIds
    <3> QED
      BY <1>15, <2>2, <3>1 DEF Keeps, IInv, OnePerSlot
  <2>3. CASE m = new
    BY <1>9, <1>12, <1>13, <2>1, <2>3
  <2>4. CASE n = new
    BY <1>9, <1>12, <1>13, <2>1, <2>4
  <2> QED
    BY <1>13, <2>2, <2>3, <2>4
<1> QED
  BY <1>0, <1>3, <1>7, <1>9, <1>10, <1>12, <1>13, <1>15, <1>16, ZenonT(60) DEF Written

-----------------------------------------------------------------------------
(* Memory: steps.                                                          *)

\* A step of g that leaves the memories alone.
LEMMA QuietStep ==
    ASSUME IInv, NEW g \in Generations, UNCHANGED memories, NEW own \in Replies,
           generation' = [generation EXCEPT ![g] = own],
           own.archive \subseteq Ids, own.start \subseteq Ids, own.foreign \subseteq Ids,
           own.seen \subseteq Ids, own.behind \subseteq Ids, Selected(g)',
           own.status # "new",
           own.status = "running" =>
              /\ generation[g].status = "running" /\ own.start = generation[g].start
              /\ own.foreign = generation[g].foreign /\ own.twice = generation[g].twice
    PROVE  IInv'
<1>1. /\ generation' \in [Generations -> Replies] /\ generation'[g] = own /\ Ids' = Ids
      /\ \A h \in Generations \ {g} : generation'[h] = generation[h]
  BY Known DEF IInv, Typed, Ids
<1>2. Typed'
  BY <1>1, Known DEF IInv, Typed, WellFormed
<1>3. OnePerSlot(memories)'
  BY DEF IInv, OnePerSlot, ActiveIds
<1>4. ASSUME NEW h \in Generations
      PROVE  /\ NothingBefore(h)' /\ Selected(h)'
             /\ generation'[h].status = "running" => Restorable(h)' /\ TwiceKnown(h)'
  <2>1. CASE h = g
    <3>1. NothingBefore(h)'
      BY <1>1, <2>1 DEF NothingBefore
    <3>2. own.status = "running" => Restorable(g) /\ TwiceKnown(g)
      BY DEF IInv
    <3>3. own.status = "running" => Alone(g)' = Alone(g)
      BY <1>1 DEF Alone
    <3> QED
      BY <1>1, <2>1, <3>1, <3>2, <3>3 DEF Restorable, TwiceKnown
  <2>2. CASE h # g
    <3>1. generation'[h] = generation[h] /\ Alone(h)' = Alone(h)
      BY <1>1, <2>2 DEF Alone
    <3> QED
      BY <1>1, <3>1 DEF IInv, NothingBefore, Selected, Restorable, TwiceKnown
  <2> QED
    BY <2>1, <2>2
<1> QED
  BY <1>2, <1>3, <1>4 DEF IInv

\* A step of g that changes the memories, which the other generations are told.
LEMMA RowsStep ==
    ASSUME IInv, NEW g \in Generations, NEW rows, memories' = rows, Keeps(rows),
           OnePerSlot(rows), \A m \in DOMAIN rows \ Ids : rows[m].by = g,
           NEW own \in Replies, generation' = Told(rows, g, own),
           own.archive \subseteq DOMAIN rows, own.start \subseteq DOMAIN rows,
           own.foreign \subseteq DOMAIN rows, own.status # "new",
           own.seen \subseteq DOMAIN rows, own.behind \subseteq DOMAIN rows, Selected(g)',
           own.status = "running" => Restorable(g)' /\ TwiceKnown(g)'
    PROVE  IInv'
<1>1. /\ rows \in Seq(Rows) /\ DOMAIN rows = 1 .. Len(rows) /\ Ids' = DOMAIN rows
      /\ Ids \subseteq Ids'
  BY DEF Keeps, WellFormed, Ids
<1>2. Changed(rows) \subseteq Ids' /\ \A m \in Ids \ Changed(rows) : rows[m] = memories[m]
  BY <1>1 DEF Changed
<1> DEFINE told(h) == [generation[h] EXCEPT
                          !.foreign = IF generation[h].status = "running"
                                      THEN @ \cup Changed(rows) ELSE @,
                          !.behind = Behind(rows, generation[h])]
<1>3. /\ generation'[g] = own
      /\ \A h \in Generations \ {g} : generation'[h] = told(h)
      /\ generation' = [h \in Generations |-> IF h = g THEN own ELSE told(h)]
  BY DEF Told
<1>4. \A h \in Generations :
         /\ told(h) \in Replies
         /\ told(h).foreign = IF generation[h].status = "running"
                              THEN generation[h].foreign \cup Changed(rows)
                              ELSE generation[h].foreign
         /\ told(h).status = generation[h].status /\ told(h).admitted = generation[h].admitted
         /\ told(h).archive = generation[h].archive /\ told(h).start = generation[h].start
         /\ told(h).twice = generation[h].twice /\ told(h).seen = generation[h].seen
         /\ told(h).failing = generation[h].failing
         /\ told(h).behind = Behind(rows, generation[h])
         /\ told(h).behind \subseteq Ids'
  <2> TAKE h \in Generations
  <2>1. PICK f : f = IF generation[h].status = "running"
                     THEN generation[h].foreign \cup Changed(rows) ELSE generation[h].foreign
    OBVIOUS
  <2>11. PICK b : b = Behind(rows, generation[h])
    OBVIOUS
  <2>2. f \in SUBSET Nat /\ b \in SUBSET Nat /\ b \subseteq Ids'
    BY <1>1, <1>2, <2>1, <2>11, Known DEF Replies, Behind
  <2>3. told(h) = [generation[h] EXCEPT !.foreign = f, !.behind = b]
    BY <2>1, <2>11
  <2>4. generation[h] \in Replies
    BY Known
  <2> QED
    BY <2>1, <2>11, <2>2, <2>3, <2>4 DEF Replies
<1> HIDE DEF told
<1>5. generation' \in [Generations -> Replies]
  BY <1>3, <1>4
<1>6. Typed'
  <2>1. WellFormed(memories)'
    BY DEF Keeps, WellFormed
  <2>2. ASSUME NEW h \in Generations
        PROVE  /\ generation'[h].archive \subseteq Ids' /\ generation'[h].start \subseteq Ids'
               /\ generation'[h].foreign \subseteq Ids'
               /\ generation'[h].seen \subseteq Ids' /\ generation'[h].behind \subseteq Ids'
    BY <1>1, <1>2, <1>3, <1>4, Known, ZenonT(60)
  <2> QED
    BY <1>5, <2>1, <2>2 DEF Typed
<1>7. OnePerSlot(memories)'
  BY DEF OnePerSlot, ActiveIds
<1>8. ASSUME NEW h \in Generations
      PROVE  /\ NothingBefore(h)' /\ Selected(h)'
             /\ generation'[h].status = "running" => Restorable(h)' /\ TwiceKnown(h)'
  <2>1. CASE h = g
    BY <1>3, <2>1 DEF NothingBefore
  <2>2. CASE h # g
    <3>1. generation'[h] = told(h)
      BY <1>3, <2>2
    <3>2. \A m \in Ids' : rows[m].by = h => m \in Ids /\ memories[m].by = h
      BY <1>1, <2>2 DEF Keeps
    <3>3. NothingBefore(h)'
      <4>1. /\ generation'[h].status = generation[h].status
            /\ generation'[h].admitted = generation[h].admitted
            /\ generation'[h].failing = generation[h].failing
        BY <1>4, <3>1
      <4>2. NothingBefore(h)
        BY DEF IInv
      <4> QED
        BY <3>2, <4>1, <4>2 DEF NothingBefore
    <3>4. ASSUME generation'[h].status = "running" PROVE Restorable(h)'
      <4>1. /\ generation[h].status = "running" /\ Restorable(h)
            /\ generation'[h].foreign = generation[h].foreign \cup Changed(rows)
            /\ generation'[h].start = generation[h].start /\ generation[h].start \subseteq Ids
            /\ generation[h].foreign \subseteq Ids
            /\ generation'[h].twice = generation[h].twice
        BY <1>4, <3>1, <3>4, Known DEF IInv
      <4> SUFFICES ASSUME NEW m \in Alone(h)'
                   PROVE  /\ rows[m].by # h
                          /\ \/ rows[m].active
                             \/ \E x \in Ids' : /\ rows[x].active /\ rows[x].by = h
                                                /\ rows[x].supersedes = m
        BY DEF Restorable
      <4>2. m \in Ids /\ m \notin Changed(rows) /\ m \in Alone(h) /\ rows[m] = memories[m]
        BY <1>2, <4>1 DEF Alone, Keeps
      <4>3. rows[m].by # h
        BY <4>1, <4>2 DEF Restorable
      <4>4. ASSUME NEW x \in Ids, memories[x].active, memories[x].by = h,
                   memories[x].supersedes = m
            PROVE  x \notin Changed(rows)
        <5>1. memories[m].slot = memories[x].slot /\ memories[m].slot \in Slots /\ x # m
          BY <4>2, <4>4, Known
        <5>2. rows[x].slot = memories[x].slot /\ memories[m].slot # NoSlot
          BY <5>1, Known DEF Keeps
        <5> QED
          BY <4>1, <4>2, <5>1, <5>2 DEF Alone
      <4> QED
        BY <1>1, <1>2, <4>1, <4>2, <4>3, <4>4 DEF Restorable
    <3>5. ASSUME generation'[h].status = "running" PROVE TwiceKnown(h)'
      <4>1. generation'[h].twice = generation[h].twice /\ TwiceKnown(h)
        BY <1>4, <3>1, <3>5 DEF IInv
      <4> SUFFICES ASSUME NEW x \in Ids', rows[x].by = h, rows[x].supersedes # 0,
                          rows[rows[x].supersedes].by = h
                   PROVE  rows[x].slot \in generation'[h].twice
        BY DEF TwiceKnown
      <4>2. x \in Ids /\ rows[x].supersedes = memories[x].supersedes
            /\ rows[x].slot = memories[x].slot /\ memories[x].by = h
        BY <3>2 DEF Keeps
      <4>3. memories[x].supersedes \in Ids
        BY <4>2, Known
      <4>4. memories[memories[x].supersedes].by = h
        BY <4>2, <4>3 DEF Keeps
      <4> QED
        BY <4>1, <4>2, <4>4 DEF TwiceKnown
    <3>6. Selected(h)'
      <4>1. /\ Selected(h) /\ generation'[h].seen = generation[h].seen
            /\ generation[h].seen \subseteq Ids
            /\ generation'[h].failing = generation[h].failing
            /\ generation[h].failing => generation'[h].behind = generation[h].behind \cup Changed(rows)
        BY <1>4, <3>1, Known DEF IInv, Behind
      <4>2. \A m \in generation'[h].seen : rows[m].by = h
        BY <4>1 DEF Selected, Keeps
      <4>3. ASSUME generation[h].failing, NEW m \in Ids', rows[m].active, rows[m].by = h
            PROVE  m \in generation'[h].seen \cup generation'[h].behind
        <5>1. m \in Ids /\ memories[m].by = h
          BY <3>2, <4>3
        <5>2. m \notin Changed(rows) => memories[m].active
          BY <1>2, <4>3, <5>1
        <5> QED
          BY <4>1, <4>3, <5>1, <5>2 DEF Selected
      <4> QED
        BY <4>1, <4>2, <4>3 DEF Selected
    <3> QED
      BY <3>3, <3>4, <3>5, <3>6
  <2> QED
    BY <2>1, <2>2
<1> QED
  BY <1>6, <1>7, <1>8 DEF IInv

\* After a step of g that keeps what its rollback selected, and notes what is
\* changed behind it, the selection is as it was.
LEMMA StillSelected ==
    ASSUME IInv, NEW g \in Generations, NEW rows, memories' = rows, Keeps(rows),
           NEW own, generation'[g] = own, own.seen = generation[g].seen,
           own.failing = generation[g].failing, own.behind = Behind(rows, generation[g]),
           \A m \in DOMAIN rows \ Ids : m \in Changed(rows)
    PROVE  Selected(g)' /\ own.seen \subseteq DOMAIN rows /\ own.behind \subseteq DOMAIN rows
<1>1. /\ rows \in Seq(Rows) /\ DOMAIN rows = 1 .. Len(rows) /\ Ids' = DOMAIN rows
      /\ Ids \subseteq Ids' /\ Changed(rows) \subseteq Ids'
      /\ \A m \in Ids \ Changed(rows) : rows[m] = memories[m]
  BY DEF Keeps, WellFormed, Ids, Changed
<1>2. Selected(g) /\ generation[g].seen \subseteq Ids /\ generation[g].behind \subseteq Ids
  BY Known DEF IInv
<1>3. \A m \in own.seen : rows[m].by = g
  BY <1>2 DEF Selected, Keeps
<1>4. ASSUME own.failing, NEW m \in Ids', rows[m].active, rows[m].by = g
      PROVE  m \in own.seen \cup own.behind
  <2>1. own.behind = generation[g].behind \cup Changed(rows)
    BY <1>4 DEF Behind
  <2>2. CASE m \in Changed(rows)
    BY <2>1, <2>2
  <2>3. CASE m \notin Changed(rows)
    <3>1. m \in Ids /\ rows[m] = memories[m]
      BY <1>1, <2>3
    <3> QED
      BY <1>2, <1>4, <2>1, <3>1 DEF Selected
  <2> QED
    BY <2>2, <2>3
<1>5. own.behind \subseteq Ids'
  BY <1>1, <1>2 DEF Behind
<1> QED
  BY <1>1, <1>2, <1>3, <1>4, <1>5 DEF Selected

\* The reply after one of its operations.
LEMMA ExecutedReply ==
    ASSUME IInv, NEW g \in Generations, generation[g].admitted > 0, NEW archive \in SUBSET Ids
    PROVE  LET own == Executed(g, archive)
           IN  /\ own \in Replies /\ own.status = generation[g].status /\ own.status # "new"
               /\ own.archive \subseteq Ids /\ own.start = generation[g].start
               /\ own.foreign = generation[g].foreign /\ own.twice = generation[g].twice
               /\ own.seen = generation[g].seen /\ own.failing = generation[g].failing
               /\ own.behind = generation[g].behind
<1>1. /\ generation[g] \in Replies /\ generation[g].archive \subseteq Ids
      /\ Ids \subseteq Nat
  BY Known
<1>2. PICK a : a = IF generation[g].heard THEN generation[g].archive \cup archive
                   ELSE generation[g].archive
  OBVIOUS
<1>3. PICK k : k = generation[g].admitted - 1
  OBVIOUS
<1>4. Executed(g, archive) = [generation[g] EXCEPT !.admitted = k, !.archive = a]
  BY <1>2, <1>3 DEF Executed
<1>5. generation[g].admitted \in 0 .. 2
  BY <1>1 DEF Replies
<1>6. k \in 0 .. 2
  BY <1>3, <1>5
<1>61. a \subseteq Ids /\ a \in SUBSET Nat
  BY <1>1, <1>2
<1>8. generation[g].status # "new"
  BY <1>5 DEF IInv, NothingBefore
<1>9. PICK own : own = Executed(g, archive)
  OBVIOUS
<1>10. /\ own \in Replies /\ own.status = generation[g].status /\ own.archive = a
       /\ own.start = generation[g].start /\ own.foreign = generation[g].foreign
       /\ own.twice = generation[g].twice /\ own.seen = generation[g].seen
       /\ own.failing = generation[g].failing /\ own.behind = generation[g].behind
  BY <1>1, <1>4, <1>6, <1>61, <1>9 DEF Replies
<1> QED
  BY <1>61, <1>8, <1>9, <1>10

\* The reply after its end.
LEMMA OverReply ==
    ASSUME IInv, NEW g \in Generations, NEW status \in Statuses \ {"new", "running"}
    PROVE  LET own == Over(g, status)
           IN  /\ own \in Replies /\ own.status = status
               /\ own.archive \subseteq Ids /\ own.start = {} /\ own.foreign = {} /\ own.twice = {}
               /\ own.seen = generation[g].seen /\ own.failing = generation[g].failing
               /\ own.behind = generation[g].behind
<1>1. generation[g] \in Replies /\ generation[g].archive \subseteq Ids
  BY Known
<1>2. PICK a : a = IF generation[g].completing THEN generation[g].archive ELSE {}
  OBVIOUS
<1>3. a \in SUBSET Nat /\ a \subseteq Ids
  BY <1>1, <1>2 DEF Replies
<1>4. Over(g, status) = [generation[g] EXCEPT !.status = status, !.heard = FALSE, !.start = {},
                                              !.foreign = {}, !.twice = {}, !.archive = a]
  BY <1>2 DEF Over
<1>5. PICK own : own = Over(g, status)
  OBVIOUS
<1>6. /\ own \in Replies /\ own.status = status /\ own.archive = a /\ own.start = {}
      /\ own.foreign = {} /\ own.twice = {}
      /\ own.seen = generation[g].seen /\ own.failing = generation[g].failing
      /\ own.behind = generation[g].behind
  BY <1>1, <1>3, <1>4, <1>5 DEF Replies
<1> QED
  BY <1>3, <1>5, <1>6

\* Starting finds the memories as they are.
LEMMA StartStep ==
    ASSUME IInv, NEW g \in Generations, Start(g)
    PROVE  IInv'
<1> DEFINE own == [generation[g] EXCEPT !.status = "running", !.start = ActiveIds(memories)]
<1>1. /\ generation[g] \in Replies /\ generation[g].archive \subseteq Ids
      /\ generation[g].foreign \subseteq Ids /\ Ids \subseteq Nat
  BY Known
<1>2. PICK s : s = ActiveIds(memories)
  OBVIOUS
<1>3. s \subseteq Ids /\ s \in SUBSET Nat /\ \A m \in s : memories[m].active
  BY <1>1, <1>2 DEF ActiveIds, Ids
<1>4. \A r \in Replies, b \in SUBSET Nat :
         LET new == [r EXCEPT !.status = "running", !.start = b]
         IN  /\ new \in Replies /\ new.status = "running" /\ new.start = b
             /\ new.archive = r.archive /\ new.foreign = r.foreign
             /\ new.seen = r.seen /\ new.failing = r.failing /\ new.behind = r.behind
  BY DEF Replies, Statuses
<1>5. /\ own \in Replies /\ own.status = "running" /\ own.start = s
      /\ own.archive = generation[g].archive /\ own.foreign = generation[g].foreign
      /\ own.seen = generation[g].seen /\ own.failing = generation[g].failing
      /\ own.behind = generation[g].behind
  BY <1>1, <1>2, <1>3, <1>4
<1>6. generation' = [generation EXCEPT ![g] = own] /\ UNCHANGED memories
  BY DEF Start
<1> HIDE DEF own
<1>7. /\ generation' \in [Generations -> Replies] /\ generation'[g] = own /\ Ids' = Ids
      /\ \A h \in Generations \ {g} : generation'[h] = generation[h]
  BY <1>5, <1>6, Known DEF IInv, Typed, Ids
<1>8. Typed'
  <2>1. WellFormed(memories)'
    BY <1>6 DEF IInv, Typed, WellFormed
  <2>2. ASSUME NEW h \in Generations
        PROVE  /\ generation'[h].archive \subseteq Ids' /\ generation'[h].start \subseteq Ids'
               /\ generation'[h].foreign \subseteq Ids'
               /\ generation'[h].seen \subseteq Ids' /\ generation'[h].behind \subseteq Ids'
    BY <1>1, <1>3, <1>5, <1>7, Known
  <2> QED
    BY <1>7, <2>1, <2>2 DEF Typed
<1>9. OnePerSlot(memories)'
  BY <1>6 DEF IInv, OnePerSlot, ActiveIds
<1>10. ASSUME NEW h \in Generations
       PROVE  /\ NothingBefore(h)' /\ Selected(h)'
              /\ generation'[h].status = "running" => Restorable(h)' /\ TwiceKnown(h)'
  <2>1. CASE h = g
    <3>1. NothingBefore(h)'
      BY <1>5, <1>7, <2>1 DEF NothingBefore
    <3>2. Alone(h)' \subseteq s
      BY <1>5, <1>7, <2>1 DEF Alone
    <3>3. \A m \in Ids : memories[m].by # g
      BY DEF IInv, NothingBefore, Start
    <3>4. Selected(g)'
      BY <1>5, <1>6, <1>7 DEF IInv, Selected
    <3> QED
      BY <1>3, <1>6, <1>7, <2>1, <3>1, <3>2, <3>3, <3>4 DEF Restorable, TwiceKnown
  <2>2. CASE h # g
    <3>1. generation'[h] = generation[h]
      BY <1>7, <2>2
    <3>2. Alone(h)' = Alone(h)
      BY <1>6, <3>1 DEF Alone
    <3> QED
      BY <1>6, <1>7, <3>1, <3>2 DEF IInv, NothingBefore, Selected, Restorable, TwiceKnown
  <2> QED
    BY <2>1, <2>2
<1> QED
  BY <1>8, <1>9, <1>10 DEF IInv

\* Asking for operations, or losing the answer, changes the request only.
LEMMA RequestStep ==
    ASSUME IInv, NEW g \in Generations, Propose(g) \/ LoseConnection(g)
    PROVE  IInv'
<1> DEFINE same(r, q) == /\ r.status = q.status /\ r.archive = q.archive /\ r.start = q.start
                         /\ r.foreign = q.foreign /\ r.twice = q.twice /\ r.seen = q.seen
                         /\ r.failing = q.failing /\ r.behind = q.behind
<1>3. generation[g] \in Replies /\ generation[g].asked \in Nat
  BY Known DEF Replies
<1>4. UNCHANGED memories
  BY DEF Propose, LoseConnection
<1>5. PICK own \in Replies : generation' = [generation EXCEPT ![g] = own] /\ same(own, generation[g])
  <2>1. CASE Propose(g)
    <3>1. PICK n \in 1 .. 2 :
             generation' = [generation EXCEPT ![g].asked = @ + n, ![g].admitted = n,
                                              ![g].heard = TRUE]
      BY <2>1 DEF Propose
    <3>2. PICK k : k = generation[g].asked + n
      OBVIOUS
    <3>3. PICK own : own = [generation[g] EXCEPT !.asked = k, !.admitted = n, !.heard = TRUE]
      OBVIOUS
    <3>4. generation' = [generation EXCEPT ![g] = own]
      BY <3>1, <3>2, <3>3, Known DEF IInv, Typed
    <3>5. k \in Nat /\ n \in 0 .. 2
      BY <1>3, <3>2
    <3>6. own \in Replies /\ same(own, generation[g])
      BY <1>3, <3>3, <3>5 DEF Replies
    <3> QED
      BY <3>4, <3>6
  <2>2. CASE LoseConnection(g)
    <3>1. PICK own : own = [generation[g] EXCEPT !.heard = FALSE]
      OBVIOUS
    <3>2. generation' = [generation EXCEPT ![g] = own]
      BY <2>2, <3>1 DEF LoseConnection
    <3>3. own \in Replies /\ same(own, generation[g])
      BY <1>3, <3>1 DEF Replies
    <3> QED
      BY <3>2, <3>3
  <2> QED
    BY <2>1, <2>2
<1>6. generation[g].status # "new"
  <2>1. generation[g].admitted \in 0 .. 2
    BY <1>3 DEF Replies
  <2> QED
    BY <2>1 DEF IInv, NothingBefore, Propose, LoseConnection
<1>7. Selected(g)'
  <2>1. generation'[g] = own /\ Ids' = Ids
    BY <1>4, <1>5, Known DEF IInv, Typed, Ids
  <2> QED
    BY <1>4, <1>5, <2>1 DEF IInv, Selected
<1> QED
  BY <1>4, <1>5, <1>6, <1>7, QuietStep, Known

\* Operations that write no memory.
LEMMA SilentStep ==
    ASSUME IInv, NEW g \in Generations, ExecuteSame(g) \/ ExecuteForget(g) \/ ExecuteNothing(g)
    PROVE  IInv'
<1>1. generation[g].admitted > 0 /\ UNCHANGED memories
  BY DEF ExecuteSame, ExecuteForget, ExecuteNothing
<1>2. PICK archive \in SUBSET Ids : generation' = [generation EXCEPT ![g] = Executed(g, archive)]
  <2>1. CASE ExecuteSame(g)
    <3>1. PICK m \in ActiveIds(memories), related \in {{}} \cup {{n} : n \in Ids} :
             generation' = [generation EXCEPT ![g] = Executed(g,
                IF memories[m].slot = NoSlot THEN {}
                ELSE (IF memories[m].by = g /\ memories[m].supersedes # 0
                      THEN {memories[m].supersedes} ELSE {}) \cup related)]
      BY <2>1 DEF ExecuteSame
    <3>2. m \in Ids /\ related \subseteq Ids
      BY DEF ActiveIds, Ids
    <3> QED
      BY <3>1, <3>2, Known
  <2>2. CASE ExecuteForget(g)
    BY <2>2, Known DEF ExecuteForget, ActiveIds
  <2>3. CASE ExecuteNothing(g)
    BY <2>3 DEF ExecuteNothing
  <2> QED
    BY <2>1, <2>2, <2>3
<1>3. PICK own : own = Executed(g, archive)
  OBVIOUS
<1>4. /\ own \in Replies /\ own.status = generation[g].status /\ own.status # "new"
      /\ own.archive \subseteq Ids /\ own.start = generation[g].start
      /\ own.foreign = generation[g].foreign /\ own.twice = generation[g].twice
      /\ own.seen = generation[g].seen /\ own.failing = generation[g].failing
      /\ own.behind = generation[g].behind
  BY <1>1, <1>3, ExecutedReply
<1>5. Selected(g)'
  <2>1. generation'[g] = own /\ Ids' = Ids
    BY <1>1, <1>2, <1>3, Known DEF IInv, Typed, Ids
  <2> QED
    BY <1>1, <1>4, <2>1 DEF IInv, Selected
<1> QED
  BY <1>1, <1>2, <1>3, <1>4, <1>5, QuietStep, Known

\* A write: what held the slot is superseded by the new memory; it was not this
\* reply's own memory, or the slot is one it wrote twice.
LEMMA WriteStep ==
    ASSUME IInv, NEW g \in Generations, ExecuteWrite(g)
    PROVE  IInv'
<1>1. PICK slot \in Slots \cup {NoSlot}, value \in Values, related \in {{}} \cup {{n} : n \in Ids} :
         LET rows == Accepted(g, slot, value)
             superseded == rows[Len(rows)].supersedes
             own == Executed(g, ({superseded} \ {0}) \cup related)
         IN  /\ memories' = rows
             /\ generation' = Told(rows, g,
                    [own EXCEPT !.twice = @ \cup {memories[m].slot : m \in {n \in Ids :
                                            memories[n].by = g /\ memories[n].slot = slot}},
                                !.behind = Behind(rows, generation[g])])
  BY DEF ExecuteWrite
<1>2. PICK rows : rows = Accepted(g, slot, value)
  OBVIOUS
<1>3. PICK new : new = Len(memories) + 1
  OBVIOUS
<1>4. /\ Keeps(rows) /\ Len(rows) = new /\ DOMAIN rows = Ids \cup {new}
      /\ rows[new].by = g /\ rows[new].active /\ rows[new].slot = slot
      /\ \A m \in Ids : rows[m].active <=> memories[m].active /\ m \notin Holder(slot)
      /\ IF Holder(slot) = {} THEN rows[new].supersedes = 0
         ELSE Holder(slot) = {rows[new].supersedes}
      /\ OnePerSlot(rows)
  <2>1. Written(rows, g, slot, new)
    BY <1>2, <1>3, AcceptedRows
  <2> QED
    BY <2>1 DEF Written
<1>5. PICK archive : archive = ({rows[new].supersedes} \ {0}) \cup related
  OBVIOUS
<1>6. PICK again : again = {memories[m].slot : m \in {n \in Ids :
                              memories[n].by = g /\ memories[n].slot = slot}}
  OBVIOUS
<1>7. PICK before : before = Executed(g, archive)
  OBVIOUS
<1>81. PICK behind : behind = Behind(rows, generation[g])
  OBVIOUS
<1>8. PICK own : own = [before EXCEPT !.twice = @ \cup again, !.behind = behind]
  OBVIOUS
<1>9. memories' = rows /\ generation' = Told(rows, g, own)
  BY <1>1, <1>2, <1>4, <1>5, <1>6, <1>7, <1>8, <1>81
<1>10. archive \in SUBSET Ids /\ again \subseteq {slot}
  BY <1>4, <1>5, <1>6, Known DEF Holder, ActiveIds
<1>11. /\ before \in Replies /\ before.status = generation[g].status /\ before.status # "new"
       /\ before.archive \subseteq Ids /\ before.start = generation[g].start
       /\ before.foreign = generation[g].foreign /\ before.twice = generation[g].twice
       /\ before.seen = generation[g].seen /\ before.failing = generation[g].failing
  BY <1>7, <1>10, ExecutedReply DEF ExecuteWrite
<1>12. /\ own \in Replies /\ own.status = generation[g].status
       /\ own.archive = before.archive /\ own.start = generation[g].start
       /\ own.foreign = generation[g].foreign
       /\ own.twice = generation[g].twice \cup again
       /\ own.seen = generation[g].seen /\ own.failing = generation[g].failing
       /\ own.behind = behind
  <2>2. PICK b : b = before.twice \cup again
    OBVIOUS
  <2>3. b \in SUBSET (Slots \cup {NoSlot})
    BY <1>10, <1>11, <2>2 DEF Replies
  <2>4. behind \in SUBSET Nat
    BY <1>81, Known DEF Behind, Changed
  <2>5. own = [before EXCEPT !.twice = b, !.behind = behind]
    BY <1>8, <2>2
  <2>6. /\ own \in Replies /\ own.status = before.status /\ own.archive = before.archive
        /\ own.start = before.start /\ own.foreign = before.foreign /\ own.twice = b
        /\ own.seen = before.seen /\ own.failing = before.failing /\ own.behind = behind
    BY <1>11, <2>3, <2>4, <2>5 DEF Replies
  <2> QED
    BY <1>11, <2>2, <2>6
<1>13. generation'[g] = own /\ Ids' = Ids \cup {new} /\ new \notin Ids
  <2>1. generation'[g] = own
    BY <1>9 DEF Told
  <2> QED
    <3>1. rows \in Seq(Rows) /\ Ids' = 1 .. Len(rows)
      BY <1>4, <1>9 DEF Ids, Keeps, WellFormed
    <3>2. Ids' = DOMAIN rows /\ Len(memories) \in Nat /\ Ids = 1 .. Len(memories)
      BY <3>1, Known
    <3>3. new \notin Ids
      BY <1>3, <3>2
    <3> QED
      BY <1>4, <2>1, <3>2, <3>3
<1>14. ASSUME own.status = "running" PROVE Restorable(g)'
  <2> SUFFICES ASSUME NEW m \in Alone(g)'
               PROVE  /\ rows[m].by # g
                      /\ \/ rows[m].active
                         \/ \E x \in Ids' : /\ rows[x].active /\ rows[x].by = g
                                            /\ rows[x].supersedes = m
    BY <1>9 DEF Restorable
  <2>1. /\ m \in generation[g].start /\ m \in Ids /\ rows[m].slot = memories[m].slot
        /\ rows[m].slot \notin generation[g].twice \cup again
        /\ \A n \in generation[g].foreign :
              n # m /\ (rows[m].slot = NoSlot \/ rows[n].slot # rows[m].slot)
    BY <1>4, <1>9, <1>12, <1>13, Known DEF Alone, Keeps
  <2>2. \A n \in generation[g].foreign : n \in Ids /\ rows[n].slot = memories[n].slot
    BY <1>4, Known DEF Keeps
  <2>3. m \in Alone(g)
    BY <2>1, <2>2 DEF Alone
  <2>4. Restorable(g)
    BY <1>12, <1>14 DEF IInv
  <2>5. ASSUME memories[m].active
        PROVE  \/ rows[m].active
               \/ \E x \in Ids' : /\ rows[x].active /\ rows[x].by = g
                                  /\ rows[x].supersedes = m
    BY <1>4, <1>13, <2>1, <2>5
  <2>6. ASSUME NEW x \in Ids, memories[x].active, memories[x].by = g,
               memories[x].supersedes = m
        PROVE  rows[x].active /\ rows[x].by = g /\ rows[x].supersedes = m /\ x \in Ids'
    <3>1. memories[m].slot = memories[x].slot
      BY <2>1, <2>6, Known
    <3>2. x \notin Holder(slot)
      BY <1>6, <2>1, <2>6, <3>1 DEF Holder
    <3> QED
      BY <1>4, <1>13, <2>6, <3>2 DEF Keeps
  <2>7. memories[m].by # g /\ rows[m].by = memories[m].by
    BY <1>4, <2>1, <2>3, <2>4 DEF Restorable, Keeps
  <2> QED
    BY <2>3, <2>4, <2>5, <2>6, <2>7 DEF Restorable
<1>15. ASSUME own.status = "running" PROVE TwiceKnown(g)'
  <2>1. TwiceKnown(g)
    BY <1>12, <1>15 DEF IInv
  <2> SUFFICES ASSUME NEW x \in Ids', rows[x].by = g, rows[x].supersedes # 0,
                      rows[rows[x].supersedes].by = g
               PROVE  rows[x].slot \in generation[g].twice \cup again
    BY <1>9, <1>12, <1>13 DEF TwiceKnown
  <2>2. CASE x \in Ids
    <3>1. /\ memories[x].by = g /\ memories[x].supersedes = rows[x].supersedes
          /\ memories[x].supersedes \in Ids /\ rows[x].slot = memories[x].slot
      BY <1>4, <2>2, Known DEF Keeps
    <3>2. memories[memories[x].supersedes].by = g
      BY <1>4, <3>1 DEF Keeps
    <3> QED
      BY <2>1, <2>2, <3>1, <3>2 DEF TwiceKnown
  <2>3. CASE x = new
    <3>1. PICK y \in Holder(slot) : y = rows[new].supersedes
      BY <1>4, <2>3
    <3>2. y \in Ids /\ memories[y].slot = slot /\ memories[y].by = g
      BY <1>4, <2>3, <3>1, Known DEF Holder, ActiveIds, Keeps
    <3> QED
      BY <1>4, <1>6, <2>3, <3>2
  <2> QED
    BY <1>13, <2>2, <2>3
<1>16. /\ own.archive \subseteq DOMAIN rows /\ own.start \subseteq DOMAIN rows
       /\ own.foreign \subseteq DOMAIN rows /\ own.status # "new"
       /\ \A m \in DOMAIN rows \ Ids : rows[m].by = g
  BY <1>4, <1>11, <1>12, Known
<1>17. Selected(g)' /\ own.seen \subseteq DOMAIN rows /\ own.behind \subseteq DOMAIN rows
  <2>1. \A m \in DOMAIN rows \ Ids : m \in Changed(rows)
    BY <1>3, <1>4, Known DEF Changed
  <2> QED
    BY <1>4, <1>9, <1>12, <1>13, <1>81, <2>1, StillSelected
<1> QED
  BY <1>4, <1>9, <1>12, <1>14, <1>15, <1>16, <1>17, RowsStep

\* The end of a run reads that it is running, and selects what to roll back; or
\* the index refuses a rollback.
LEMMA EndReadStep ==
    ASSUME IInv, NEW g \in Generations, CompleteRead(g) \/ FailRead(g) \/ FailRefused(g)
    PROVE  IInv'
<1>1. UNCHANGED memories /\ Ids' = Ids
  BY DEF CompleteRead, FailRead, FailRefused, Ids
<1>2. /\ generation[g] \in Replies /\ generation \in [Generations -> Replies]
      /\ generation[g].archive \subseteq Ids /\ generation[g].start \subseteq Ids
      /\ generation[g].foreign \subseteq Ids /\ Ids \subseteq Nat
      /\ generation[g].seen \subseteq Ids /\ generation[g].behind \subseteq Ids
  BY Known DEF IInv, Typed
<1> DEFINE rest(own) == /\ own.archive = generation[g].archive /\ own.start = generation[g].start
                        /\ own.foreign = generation[g].foreign /\ own.twice = generation[g].twice
                        /\ own.status = generation[g].status
<1>3. generation[g].status # "new"
  BY DEF CompleteRead, FailRead, FailRefused, IInv, NothingBefore
<1>4. PICK own \in Replies : /\ generation' = [generation EXCEPT ![g] = own] /\ rest(own)
                             /\ own.seen \subseteq Ids /\ own.behind \subseteq Ids
                             /\ \A m \in own.seen : memories[m].by = g
                             /\ own.failing => \A m \in Ids :
                                   memories[m].active /\ memories[m].by = g
                                      => m \in own.seen \cup own.behind
  <2>1. CASE CompleteRead(g)
    <3>1. PICK own : own = [generation[g] EXCEPT !.completing = TRUE]
      OBVIOUS
    <3>2. generation' = [generation EXCEPT ![g] = own]
      BY <2>1, <3>1 DEF CompleteRead
    <3>3. /\ own \in Replies /\ rest(own) /\ own.seen = generation[g].seen
          /\ own.behind = generation[g].behind /\ own.failing = generation[g].failing
      BY <1>2, <3>1 DEF Replies
    <3>4. Selected(g)
      BY DEF IInv
    <3> QED
      BY <1>2, <3>2, <3>3, <3>4 DEF Selected
  <2>2. CASE FailRead(g)
    <3>1. PICK selected : selected = OwnActive(g)
      OBVIOUS
    <3>2. /\ selected \subseteq Ids /\ \A m \in selected : memories[m].by = g
          /\ \A m \in Ids : memories[m].active /\ memories[m].by = g => m \in selected
      BY <3>1 DEF OwnActive, ActiveIds, Ids
    <3>3. PICK own : own = [generation[g] EXCEPT !.failing = TRUE, !.seen = selected]
      OBVIOUS
    <3>4. generation' = [generation EXCEPT ![g] = own]
      BY <1>2, <2>2, <3>1, <3>3 DEF FailRead
    <3>5. /\ own \in Replies /\ rest(own) /\ own.seen = selected
          /\ own.behind = generation[g].behind
      BY <1>2, <3>2, <3>3 DEF Replies
    <3> QED
      BY <1>2, <3>2, <3>4, <3>5
  <2>3. CASE FailRefused(g)
    <3>1. PICK own : own = [generation[g] EXCEPT !.failing = FALSE, !.seen = {}, !.behind = {}]
      OBVIOUS
    <3>2. generation' = [generation EXCEPT ![g] = own]
      BY <1>2, <2>3, <3>1 DEF FailRefused
    <3>3. /\ own \in Replies /\ rest(own) /\ own.seen = {} /\ own.behind = {}
          /\ own.failing = FALSE
      BY <1>2, <3>1 DEF Replies
    <3> QED
      BY <3>2, <3>3
  <2> QED
    BY <2>1, <2>2, <2>3
<1>5. Selected(g)'
  <2>1. generation'[g] = own
    BY <1>2, <1>4
  <2> QED
    BY <1>1, <1>4, <2>1 DEF Selected
<1> QED
  BY <1>1, <1>2, <1>3, <1>4, <1>5, QuietStep

\* The end of a reply.
LEMMA EndStep ==
    ASSUME IInv, NEW g \in Generations, End(g)
    PROVE  IInv'
<1>1. CASE Complete(g)
  <2>1. PICK rows : rows = Finalized(g)
    OBVIOUS
  <2>2. PICK over : over = Over(g, "completed")
    OBVIOUS
  <2>3. PICK behind : behind = Behind(rows, generation[g])
    OBVIOUS
  <2>4. PICK own : own = [over EXCEPT !.completing = FALSE, !.archive = {}, !.behind = behind]
    OBVIOUS
  <2>5. memories' = rows /\ generation' = Told(rows, g, own)
    BY <1>1, <2>1, <2>2, <2>3, <2>4 DEF Complete
  <2>6. /\ Keeps(rows) /\ DOMAIN rows = Ids /\ Len(rows) = Len(memories)
        /\ \A m \in Ids : rows[m].active => memories[m].active
    BY <2>1, FinalizedRows
  <2>7. OnePerSlot(rows)
    <3>1. \A m \in ActiveIds(rows) : m \in ActiveIds(memories) /\ rows[m].slot = memories[m].slot
      BY <2>6, Known DEF ActiveIds, Keeps
    <3> QED
      BY <3>1 DEF IInv, OnePerSlot
  <2>8. /\ over \in Replies /\ over.status = "completed" /\ over.start = {} /\ over.foreign = {}
        /\ over.seen = generation[g].seen /\ over.failing = generation[g].failing
    BY <2>2, OverReply DEF Statuses
  <2>9. behind \in SUBSET Nat
    <3>1. Ids \subseteq Nat /\ generation[g].behind \subseteq Ids /\ Changed(rows) \subseteq Ids
      BY <2>6, Known DEF Changed
    <3> QED
      BY <2>3, <3>1 DEF Behind
  <2>10. /\ own \in Replies /\ own.status = "completed" /\ own.archive = {} /\ own.start = {}
         /\ own.foreign = {} /\ own.seen = generation[g].seen
         /\ own.failing = generation[g].failing /\ own.behind = behind
    BY <2>4, <2>8, <2>9 DEF Replies
  <2>11. generation'[g] = own
    BY <2>5 DEF Told
  <2>12. Selected(g)' /\ own.seen \subseteq DOMAIN rows /\ own.behind \subseteq DOMAIN rows
    BY <2>3, <2>5, <2>6, <2>10, <2>11, StillSelected
  <2> QED
    BY <2>5, <2>6, <2>7, <2>10, <2>12, RowsStep
<1>2. CASE Fail(g)
  <2>1. PICK rows : rows = RolledBack(generation[g].seen)
    OBVIOUS
  <2>2. PICK over : over = Over(g, "failed")
    OBVIOUS
  <2>3. PICK own : own = [over EXCEPT !.failing = FALSE, !.seen = {}, !.behind = {}]
    OBVIOUS
  <2>4. memories' = rows /\ generation' = Told(rows, g, own) /\ OnePerSlot(rows)
    BY <1>2, <2>1, <2>2, <2>3 DEF Fail, Ended
  <2>5. Keeps(rows) /\ DOMAIN rows = Ids
    BY <2>1, RolledBackRows, Known
  <2>6. /\ over \in Replies /\ over.status = "failed" /\ over.archive \subseteq Ids
        /\ over.start = {} /\ over.foreign = {}
    BY <2>2, OverReply DEF Statuses
  <2>7. /\ own \in Replies /\ own.status = "failed" /\ own.archive \subseteq Ids
        /\ own.start = {} /\ own.foreign = {} /\ own.seen = {} /\ own.behind = {}
        /\ own.failing = FALSE
    BY <2>3, <2>6 DEF Replies
  <2>8. generation'[g] = own
    BY <2>4 DEF Told
  <2>9. Selected(g)'
    BY <2>7, <2>8 DEF Selected
  <2> QED
    BY <2>4, <2>5, <2>7, <2>9, RowsStep
<1>3. CASE UserCancel(g)
  <2>1. PICK own : own = Over(g, "cancelled")
    OBVIOUS
  <2>2. /\ own \in Replies /\ own.status = "cancelled" /\ own.archive \subseteq Ids
        /\ own.start = {} /\ own.foreign = {} /\ own.seen = generation[g].seen
        /\ own.failing = generation[g].failing /\ own.behind = generation[g].behind
    BY <2>1, OverReply DEF Statuses
  <2>3. UNCHANGED memories /\ generation' = [generation EXCEPT ![g] = own]
    BY <1>3, <2>1 DEF UserCancel
  <2>4. Selected(g)'
    <3>1. generation'[g] = own /\ Ids' = Ids
      BY <2>3, Known DEF IInv, Typed, Ids
    <3> QED
      BY <2>2, <2>3, <3>1 DEF IInv, Selected
  <2> QED
    BY <2>2, <2>3, <2>4, QuietStep, Known
<1>4. CASE CompleteRead(g) \/ FailRead(g) \/ FailRefused(g)
  BY <1>4, EndReadStep
<1> QED
  BY <1>1, <1>2, <1>3, <1>4 DEF End

-----------------------------------------------------------------------------
(* Memory: the theorems.                                                   *)

\* One memory of an earlier reply, and no generation that has started.
LEMMA InitInvariant ==
    ASSUME Init
    PROVE  IInv
<1>1. PICK s \in Slots \cup {NoSlot}, v \in Values :
         memories = <<[slot |-> s, value |-> v, by |-> "earlier", active |-> TRUE,
                       supersedes |-> 0]>>
  BY DEF Init
<1>2. Ids = {1} /\ Len(memories) = 1 /\ DOMAIN memories = {1}
  BY <1>1 DEF Ids
<1>3. /\ memories[1] \in Rows /\ memories[1].supersedes = 0 /\ memories[1].by = "earlier"
      /\ memories[1].supersedes \in 0 .. 1 - 1
  BY <1>1 DEF Rows
<1>4. WellFormed(memories)
  <2>1. memories \in Seq(Rows)
    BY <1>1, <1>3
  <2> QED
    BY <1>2, <1>3, <2>1 DEF WellFormed
<1>5. NewGeneration \in Replies
  <2>1. 0 \in 0 .. 2
    OBVIOUS
  <2> QED
    BY <2>1 DEF NewGeneration, Replies, Statuses
<1>6. /\ generation = [g \in Generations |-> NewGeneration]
      /\ NewGeneration.status = "new" /\ NewGeneration.admitted = 0
      /\ NewGeneration.archive = {} /\ NewGeneration.start = {} /\ NewGeneration.foreign = {}
      /\ NewGeneration.seen = {} /\ NewGeneration.behind = {} /\ NewGeneration.failing = FALSE
  BY DEF Init, NewGeneration
<1> HIDE DEF NewGeneration
<1>7. Typed
  BY <1>4, <1>5, <1>6 DEF Typed
<1>8. OnePerSlot(memories)
  BY <1>2 DEF OnePerSlot, ActiveIds
<1>9. ASSUME NEW g \in Generations
      PROVE  NothingBefore(g) /\ Selected(g) /\ generation[g].status # "running"
  BY <1>2, <1>3, <1>6, MemoryAssumption DEF NothingBefore, Selected
<1> QED
  BY <1>7, <1>8, <1>9 DEF IInv

\* Every step preserves the invariant.
LEMMA StepInvariant ==
    ASSUME IInv, [Next]_vars
    PROVE  IInv'
<1>1. ASSUME NEW g \in Generations, Start(g) PROVE IInv'
  BY <1>1, StartStep
<1>2. ASSUME NEW g \in Generations, Propose(g) \/ LoseConnection(g) PROVE IInv'
  BY <1>2, RequestStep
<1>3. ASSUME NEW g \in Generations, Execute(g) PROVE IInv'
  <2>1. CASE ExecuteWrite(g)
    BY <2>1, WriteStep
  <2>2. CASE ExecuteSame(g) \/ ExecuteForget(g) \/ ExecuteNothing(g)
    BY <2>2, SilentStep
  <2> QED
    BY <1>3, <2>1, <2>2 DEF Execute
<1>4. ASSUME NEW g \in Generations, End(g) PROVE IInv'
  BY <1>4, EndStep
<1>5. CASE UNCHANGED vars
  <2>1. UNCHANGED memories /\ UNCHANGED generation
    BY <1>5 DEF vars
  <2> QED
    BY <2>1 DEF IInv, Typed, WellFormed, OnePerSlot, ActiveIds, Ids, NothingBefore, Selected,
                Restorable, TwiceKnown, Alone
<1> QED
  BY <1>1, <1>2, <1>3, <1>4, <1>5 DEF Next

\* The memories and the generations satisfy the invariant in every state.
THEOREM Invariant == Spec => []IInv
<1>1. Init => IInv
  BY InitInvariant
<1>2. IInv /\ [Next]_vars => IInv'
  BY StepInvariant
<1> QED
  BY <1>1, <1>2, PTL DEF Spec

\* A rollback that selects the memories now can commit, and one that has selected
\* them before is refused only when something it selected is not active any more:
\* failRun of chat-run-projector.service.ts is swallowed with the unique index's
\* error only when it is overtaken.
THEOREM RollbackAlwaysCommits == Spec => []RollbackCommits
<1>1. IInv => MemoryTypeOK
  <2> SUFFICES ASSUME IInv PROVE MemoryTypeOK
    OBVIOUS
  <2>1. \A m \in Ids : /\ memories[m].slot \in Slots \cup {NoSlot}
                       /\ memories[m].value \in Values
                       /\ memories[m].by \in Generations \cup {"earlier"}
                       /\ memories[m].supersedes \in 0 .. m - 1
    <3>1. \A r \in Rows : /\ r.slot \in Slots \cup {NoSlot} /\ r.value \in Values
                          /\ r.by \in Generations \cup {"earlier"}
      BY DEF Rows
    <3> QED
      BY <3>1, Known
  <2>2. \A g \in Generations : /\ generation[g].status \in Statuses
                               /\ generation[g].admitted \in 0 .. 2
                               /\ generation[g].archive \cup generation[g].seen \subseteq Ids
    <3>1. \A r \in Replies : r.status \in Statuses /\ r.admitted \in 0 .. 2
      BY DEF Replies
    <3> QED
      BY <3>1, Known
  <2> QED
    BY <2>1, <2>2 DEF MemoryTypeOK, IInv
<1>2. IInv => RollbackCommits
  <2> SUFFICES ASSUME IInv, NEW g \in Generations
               PROVE  /\ OnePerSlot(RolledBack(OwnActive(g)))
                      /\ generation[g].failing =>
                            \/ OnePerSlot(RolledBack(generation[g].seen))
                            \/ \E m \in generation[g].seen : ~memories[m].active
    BY <1>1 DEF RollbackCommits
  <2>1. OnePerSlot(RolledBack(OwnActive(g)))
    <3>1. OwnActive(g) \subseteq ActiveIds(memories)
      BY DEF OwnActive
    <3> QED
      BY <3>1, RollbackFits
  <2>2. ASSUME \A m \in generation[g].seen : memories[m].active
        PROVE  OnePerSlot(RolledBack(generation[g].seen))
    <3>1. generation[g].seen \subseteq ActiveIds(memories)
      BY <2>2, Known DEF ActiveIds
    <3> QED
      BY <3>1, RollbackFits
  <2> QED
    BY <2>1, <2>2
<1> QED
  BY <1>2, Invariant, PTL

\* A step keeps the status of the replies it is not about.
LEMMA OthersKeepStatus ==
    ASSUME IInv, NEW g \in Generations, NEW h \in Generations \ {g},
           Start(g) \/ Propose(g) \/ LoseConnection(g) \/ Execute(g) \/ End(g)
    PROVE  generation'[h].status = generation[h].status
<1>1. generation[h] \in Replies
  BY Known
<1>2. ASSUME NEW rows, NEW own, generation' = Told(rows, g, own)
      PROVE  generation'[h].status = generation[h].status
  <2>1. PICK f, b : /\ f = IF generation[h].status = "running"
                           THEN generation[h].foreign \cup Changed(rows) ELSE generation[h].foreign
                    /\ b = Behind(rows, generation[h])
    OBVIOUS
  <2>2. generation'[h] = [generation[h] EXCEPT !.foreign = f, !.behind = b]
    BY <1>2, <2>1 DEF Told
  <2> QED
    BY <1>1, <2>2 DEF Replies
<1>3. ASSUME NEW own, generation' = [generation EXCEPT ![g] = own]
      PROVE  generation'[h].status = generation[h].status
  BY <1>3
<1>4. CASE Start(g) \/ Propose(g) \/ LoseConnection(g)
  <2>1. generation \in [Generations -> Replies]
    BY DEF IInv, Typed
  <2> QED
    BY <1>4, <2>1 DEF Start, Propose, LoseConnection
<1>5. CASE Execute(g)
  <2>1. CASE ExecuteWrite(g)
    BY <1>2, <2>1 DEF ExecuteWrite
  <2>2. CASE ExecuteSame(g) \/ ExecuteForget(g) \/ ExecuteNothing(g)
    BY <1>3, <2>2 DEF ExecuteSame, ExecuteForget, ExecuteNothing
  <2> QED
    BY <1>5, <2>1, <2>2 DEF Execute
<1>6. CASE End(g)
  <2>1. CASE Complete(g) \/ Fail(g)
    BY <1>2, <2>1 DEF Complete, Fail
  <2>2. CASE UserCancel(g) \/ CompleteRead(g) \/ FailRead(g) \/ FailRefused(g)
    <3>1. generation \in [Generations -> Replies]
      BY DEF IInv, Typed
    <3> QED
      BY <2>2, <3>1 DEF UserCancel, CompleteRead, FailRead, FailRefused
  <2> QED
    BY <1>6, <2>1, <2>2 DEF End
<1> QED
  BY <1>4, <1>5, <1>6

\* A running reply becomes a failed one in its own rollback only.
LEMMA OnlyFailFails ==
    ASSUME IInv, [Next]_vars, NEW g \in Generations,
           generation[g].status = "running", generation'[g].status = "failed"
    PROVE  Fail(g)
<1>1. PICK h \in Generations :
         Start(h) \/ Propose(h) \/ LoseConnection(h) \/ Execute(h) \/ End(h)
  BY DEF Next, vars
<1>2. h = g
  BY <1>1, OthersKeepStatus
<1>3. generation[g] \in Replies /\ generation \in [Generations -> Replies]
  BY Known DEF IInv, Typed
<1>4. ~Start(g)
  BY DEF Start
<1>5. ASSUME Propose(g) \/ LoseConnection(g) PROVE FALSE
  BY <1>3, <1>5 DEF Propose, LoseConnection, Replies
<1>6. ASSUME Execute(g) PROVE FALSE
  <2>1. generation[g].admitted > 0
    BY <1>6 DEF Execute, ExecuteWrite, ExecuteSame, ExecuteForget, ExecuteNothing
  <2>2. ASSUME NEW archive, NEW own, own = Executed(g, archive)
        PROVE  /\ own.status = "running"
               /\ \A again, b :
                     [own EXCEPT !.twice = @ \cup again, !.behind = b].status = "running"
    <3>1. PICK a : a = IF generation[g].heard THEN generation[g].archive \cup archive
                       ELSE generation[g].archive
      OBVIOUS
    <3>2. own = [generation[g] EXCEPT !.admitted = @ - 1, !.archive = a]
      BY <2>2, <3>1 DEF Executed
    <3> QED
      BY <1>3, <3>2 DEF Replies
  <2>3. CASE ExecuteWrite(g)
    <3>1. PICK rows, archive, again, b :
             generation' = Told(rows, g, [Executed(g, archive) EXCEPT !.twice = @ \cup again,
                                                                      !.behind = b])
      BY <2>3 DEF ExecuteWrite
    <3> QED
      BY <2>2, <3>1 DEF Told
  <2>4. CASE ExecuteSame(g) \/ ExecuteForget(g) \/ ExecuteNothing(g)
    BY <1>3, <2>2, <2>4, ZenonT(60) DEF ExecuteSame, ExecuteForget, ExecuteNothing
  <2> QED
    BY <1>6, <2>3, <2>4 DEF Execute
<1>7. ~Complete(g) /\ ~UserCancel(g)
  <2>1. PICK done, gone : done = Over(g, "completed") /\ gone = Over(g, "cancelled")
    OBVIOUS
  <2>2. done \in Replies /\ done.status = "completed" /\ gone.status = "cancelled"
    BY <2>1, OverReply DEF Statuses
  <2>3. ASSUME Complete(g) PROVE FALSE
    <3>1. PICK b : generation'[g] = [done EXCEPT !.completing = FALSE, !.archive = {}, !.behind = b]
      BY <2>1, <2>3 DEF Complete, Told
    <3> QED
      BY <2>2, <3>1 DEF Replies
  <2>4. ASSUME UserCancel(g) PROVE FALSE
    BY <1>3, <2>1, <2>2, <2>4 DEF UserCancel
  <2> QED
    BY <2>3, <2>4
<1>8. ASSUME CompleteRead(g) \/ FailRead(g) \/ FailRefused(g) PROVE FALSE
  BY <1>3, <1>8 DEF CompleteRead, FailRead, FailRefused, Replies
<1> QED
  BY <1>1, <1>2, <1>4, <1>5, <1>6, <1>7, <1>8 DEF End

\* A reply that fails leaves the memories as it found them, except where it wrote
\* a slot twice, other replies wrote meanwhile, or something was written behind
\* the selection of its rollback.
THEOREM FailureAlwaysRestores == Spec => FailureRestores
<1>1. ASSUME IInv, [Next]_vars, NEW g \in Generations, generation[g].status = "running",
             generation'[g].status = "failed"
      PROVE  /\ Undisturbed(g) \subseteq ActiveIds(memories')
             /\ \A m \in ActiveIds(memories') :
                   memories[m].by = g => \/ memories[m].slot \in generation[g].twice
                                         \/ m \in generation[g].behind
  <2>0. PICK own : own = generation[g].seen
    OBVIOUS
  <2>1. PICK rows : rows = RolledBack(own)
    OBVIOUS
  <2>2. memories' = rows /\ generation[g].failing /\ own \in SUBSET Ids
    BY <1>1, <2>0, <2>1, OnlyFailFails, Known DEF Fail
  <2>3. /\ DOMAIN rows = Ids /\ Len(rows) = Len(memories)
        /\ \A m \in Ids : rows[m].active <=>
              m \in Superseded(own) \/ (memories[m].active /\ m \notin own)
    BY <1>1, <2>1, <2>2, RolledBackRows
  <2>4. \A m \in Ids : m \in ActiveIds(rows) <=> rows[m].active
    BY <1>1, <2>3, Known DEF ActiveIds
  <2>5. ActiveIds(rows) \subseteq Ids
    BY <1>1, <2>3, Known DEF ActiveIds
  <2>6. /\ \A m \in own : memories[m].by = g
        /\ \A m \in Ids : memories[m].active /\ memories[m].by = g
                              => m \in own \cup generation[g].behind
    BY <1>1, <2>0, <2>2 DEF IInv, Selected
  <2>7. /\ Restorable(g) /\ TwiceKnown(g) /\ Alone(g) \subseteq Ids
        /\ Undisturbed(g) \subseteq Alone(g)
    BY <1>1, Known DEF IInv, Alone, Undisturbed
  <2>8. ASSUME NEW m \in Undisturbed(g) PROVE rows[m].active
    <3>1. CASE memories[m].active /\ m \notin own
      BY <2>3, <2>7, <3>1
    <3>2. ASSUME NEW x \in Ids, memories[x].active, memories[x].by = g,
                 memories[x].supersedes = m
          PROVE  rows[m].active
      <4>1. memories[x].slot = memories[m].slot /\ memories[m].slot # NoSlot
        BY <1>1, <2>7, <3>2, Known
      <4>2. x \in own
        BY <2>6, <3>2, <4>1 DEF Undisturbed
      <4> QED
        BY <2>3, <2>7, <3>2, <4>2 DEF Superseded
    <3>3. m \notin own
      BY <2>6, <2>7 DEF Restorable
    <3> QED
      BY <2>7, <3>1, <3>2, <3>3 DEF Restorable
  <2>9. ASSUME NEW m \in Ids, rows[m].active, memories[m].by = g,
               m \notin generation[g].behind
        PROVE  memories[m].slot \in generation[g].twice
    <3>1. m \in Superseded(own)
      BY <2>3, <2>6, <2>9
    <3>2. PICK x \in own : memories[x].supersedes = m
      BY <3>1 DEF Superseded
    <3>3. x \in Ids /\ memories[x].by = g /\ m # 0
      BY <1>1, <2>2, <2>6, <3>2, Known
    <3>4. memories[x].slot \in generation[g].twice
      BY <2>7, <2>9, <3>2, <3>3 DEF TwiceKnown
    <3> QED
      BY <1>1, <3>2, <3>3, <3>4, Known
  <2> QED
    BY <2>2, <2>4, <2>5, <2>7, <2>8, <2>9
<1>2. IInv /\ [Next]_vars =>
         [\A g \in Generations :
            generation[g].status = "running" /\ generation'[g].status = "failed" =>
               /\ Undisturbed(g) \subseteq ActiveIds(memories')
               /\ \A m \in ActiveIds(memories') :
                     memories[m].by = g => \/ memories[m].slot \in generation[g].twice
                                           \/ m \in generation[g].behind]_vars
  BY <1>1
<1> QED
  BY <1>2, Invariant, PTL DEF Spec, FailureRestores

-----------------------------------------------------------------------------
(* Cleanup: the inductive invariant.                                       *)

\* The request leaves its traces in order: until it has told the run to stop there
\* are no controls, and until it has enqueued the task there is no task.
RequestFirst ==
    /\ session = "live" <=> request = "none"
    /\ request \in {"none", "cancel"} => controls = <<>> /\ agent = "idle" /\ ~cancelLost
    /\ request # "done" => task.status = "none"

\* Without a task there is nothing for the dispatcher, and no control but Cancel.
TaskFirst ==
    task.status = "none" =>
        /\ dispatcher.step = "idle" /\ results = <<>> /\ agent \in {"idle", "ack"}
        /\ \A i \in DOMAIN controls : controls[i] = Cancel

\* The two loops work on the head of their streams.
LoopsBusy ==
    /\ agent # "idle" => controls # <<>>
    /\ agent \notin {"idle", "ack"} => Head(controls) # Cancel
    /\ consumer = "applied" => results # <<>>

\* The lock keeps the run and the deletion of its thread apart, while it lasts.
LockHeld ==
    /\ run = "running" => lock = "run" \/ overran
    /\ agent \in {"delete", "completed"} => lock = "cleanup" \/ overran

\* A run of the deleted session that may still write is going to be told to stop
\* before any delete control is looked at, unless the cancellation was lost.
CancelComes ==
    session = "deleted" /\ run # "idle" /\ ~aborted /\ ~cancelLost =>
        \/ request = "cancel"
        \/ agent = "idle" /\ controls # <<>> /\ Head(controls) = Cancel

\* The thread is gone for good: the run will not write to it, or has not been told to
\* stop and has yet to enter it.
Gone ==
    /\ session = "deleted" /\ checkpoint = "none"
    /\ run = "idle" \/ aborted \/ (cancelLost /\ run = "bootstrapped")

Excused == (cancelLost /\ late) \/ overran

\* Whatever says that the thread was deleted tells the truth.
NewsTrue ==
    /\ agent = "completed" => Gone \/ Excused
    /\ \A i \in DOMAIN results : results[i].ok => Gone \/ Excused
    /\ task.status = "COMPLETED" => Gone \/ Excused

CleanupInv ==
    CleanupTypeOK /\ RequestFirst /\ TaskFirst /\ LoopsBusy /\ LockHeld /\ CancelComes
    /\ NewsTrue

-----------------------------------------------------------------------------
(* Cleanup: operators.                                                     *)

USE DEF apiVars, agentVars, auxVars

Tasks == [status : {"none", "PENDING", "DISPATCHED", "FAILED", "COMPLETED"},
          attempts : 0 .. MaxAttempts, elapsed : BOOLEAN]
Claims == [step : {"idle", "publish", "fail"}, control : Controls]
Entries == [control : Controls, ok : BOOLEAN]
Others ==
    /\ session \in {"live", "deleted"} /\ request \in {"none", "cancel", "enqueue", "done"}
    /\ agent \in {"idle", "delete", "completed", "unlock", "abandon", "failed", "ack"}
    /\ consumer \in {"waiting", "applied", "dead"} /\ checkpoint \in {"none", "fresh", "old"}
    /\ run \in {"idle", "bootstrapped", "running"}
    /\ lock \in {"free", "run", "cleanup", "orphan"} /\ sweep \in {"idle", "listed"}
    /\ errors \in 0 .. MaxErrors /\ crashes \in 0 .. MaxCrashes
Flags ==
    /\ aborted \in BOOLEAN /\ cancelLost \in BOOLEAN /\ late \in BOOLEAN
    /\ overran \in BOOLEAN

\* A stream to which an entry was published, or not.
LEMMA Extended ==
    ASSUME NEW S, NEW s \in Seq(S), NEW e \in S, NEW t, t = s \/ t = Append(s, e)
    PROVE  /\ t \in Seq(S)
           /\ s # <<>> => t # <<>> /\ Head(t) = Head(s)
           /\ \A i \in DOMAIN t : t[i] = e \/ (i \in DOMAIN s /\ t[i] = s[i])
OBVIOUS

\* A stream whose first entry was acknowledged, and that entry.
LEMMA Acknowledged ==
    ASSUME NEW S, NEW s \in Seq(S), s # <<>>
    PROVE  /\ Tail(s) \in Seq(S) /\ Head(s) \in S /\ Head(s) = s[1] /\ 1 \in DOMAIN s
           /\ \A i \in DOMAIN Tail(s) : i + 1 \in DOMAIN s /\ Tail(s)[i] = s[i + 1]
OBVIOUS

\* What a publication of a control does.
LEMMA ControlPublished ==
    ASSUME CleanupTypeOK, NEW c \in Controls, NEW outcome \in {"made", "failed"},
           Published(controls, c, outcome)
    PROVE  /\ controls' \in Seq(Controls) /\ errors' \in 0 .. MaxErrors
           /\ controls # <<>> => controls' # <<>> /\ Head(controls') = Head(controls)
           /\ controls = <<>> /\ controls' # controls => controls' # <<>> /\ Head(controls') = c
           /\ \A i \in DOMAIN controls' :
                 controls'[i] = c \/ (i \in DOMAIN controls /\ controls'[i] = controls[i])
<1>1. /\ controls \in Seq(Controls) /\ controls' \in {controls, Append(controls, c)}
      /\ errors' \in 0 .. MaxErrors
  BY CleanupAssumption DEF CleanupTypeOK, Published, Fails
<1>2. controls = <<>> /\ controls' # controls => controls' = <<c>>
  BY <1>1
<1> QED
  BY <1>1, <1>2, Extended

\* What a publication of a result does.
LEMMA ResultPublished ==
    ASSUME CleanupTypeOK, NEW e \in Entries, NEW outcome \in {"made", "failed"},
           Published(results, e, outcome)
    PROVE  /\ results' \in Seq(Entries) /\ errors' \in 0 .. MaxErrors
           /\ results # <<>> => results' # <<>>
           /\ \A i \in DOMAIN results' :
                 results'[i] = e \/ (i \in DOMAIN results /\ results'[i] = results[i])
<1>1. /\ results \in Seq(Entries) /\ results' \in {results, Append(results, e)}
      /\ errors' \in 0 .. MaxErrors
  BY CleanupAssumption DEF CleanupTypeOK, Published, Fails, Entries
<1> QED
  BY <1>1, Extended

\* A result changes the task only when it awaits it, and then only its status.
LEMMA TaskChanges ==
    ASSUME CleanupTypeOK, NEW c
    PROVE  /\ {TaskCompleted(c), TaskFailed(c)} \subseteq Tasks
           /\ TaskCompleted(c) = task \/ (/\ task.status = "DISPATCHED"
                                          /\ TaskCompleted(c).status = "COMPLETED")
           /\ TaskFailed(c) = task \/ (/\ task.status = "DISPATCHED"
                                       /\ TaskFailed(c).status = "FAILED")
<1>1. task \in Tasks
  BY DEF CleanupTypeOK, Tasks
<1> QED
  BY <1>1 DEF TaskCompleted, TaskFailed, Awaits, Tasks

\* The heads of the streams.
LEMMA Heads ==
    ASSUME CleanupInv
    PROVE  /\ task \in Tasks /\ dispatcher \in Claims /\ dispatcher.control \in Controls /\ Others /\ Flags
           /\ controls \in Seq(Controls) /\ results \in Seq(Entries)
           /\ controls # <<>> =>
                 /\ Head(controls) \in Controls /\ Tail(controls) \in Seq(Controls)
                 /\ Head(controls) = controls[1] /\ 1 \in DOMAIN controls
                 /\ \A i \in DOMAIN Tail(controls) :
                       i + 1 \in DOMAIN controls /\ Tail(controls)[i] = controls[i + 1]
           /\ results # <<>> =>
                 /\ Head(results) \in Entries /\ Tail(results) \in Seq(Entries)
                 /\ Head(results) = results[1] /\ 1 \in DOMAIN results
                 /\ \A i \in DOMAIN Tail(results) :
                       i + 1 \in DOMAIN results /\ Tail(results)[i] = results[i + 1]
           /\ Cancel \in Controls
<1>1. /\ task \in Tasks /\ dispatcher \in Claims /\ controls \in Seq(Controls)
      /\ results \in Seq(Entries) /\ Cancel \in Controls
  BY CleanupAssumption DEF CleanupInv, CleanupTypeOK, Tasks, Claims, Entries, Controls, Cancel
<1>2. Others /\ Flags
  BY DEF CleanupInv, CleanupTypeOK, Others, Flags
<1>3. dispatcher.control \in Controls
  BY <1>1 DEF Claims
<1> QED
  BY <1>1, <1>2, <1>3, Acknowledged

\* The control stream after a publication of the API.
LEMMA ControlsAfter ==
    ASSUME CleanupInv, CancelDeletedRun \/ PublishDeleteControl
    PROVE  /\ controls' \in Seq(Controls) /\ errors' \in 0 .. MaxErrors
           /\ controls # <<>> => controls' # <<>> /\ Head(controls') = Head(controls)
           /\ CancelDeletedRun /\ controls = <<>> /\ controls' # controls =>
                 controls' # <<>> /\ Head(controls') = Cancel
           /\ \A i \in DOMAIN controls' :
                 \/ CancelDeletedRun /\ controls'[i] = Cancel
                 \/ PublishDeleteControl
                 \/ i \in DOMAIN controls /\ controls'[i] = controls[i]
<1>1. CASE CancelDeletedRun
  <2>1. PICK outcome \in {"made", "failed"} : Published(controls, Cancel, outcome)
    BY <1>1 DEF CancelDeletedRun
  <2> QED
    BY <1>1, <2>1, Heads, ControlPublished DEF CleanupInv
<1>2. CASE PublishDeleteControl
  <2>1. PICK outcome \in {"made", "failed"} :
           Published(controls, dispatcher.control, outcome)
    BY <1>2 DEF PublishDeleteControl
  <2>2. ~CancelDeletedRun
    BY <1>2 DEF CancelDeletedRun, PublishDeleteControl, CleanupInv, RequestFirst, TaskFirst
  <2> QED
    BY <1>2, <2>1, <2>2, Heads, ControlPublished DEF CleanupInv
<1> QED
  BY <1>1, <1>2

\* The result stream after a publication of the agent.
LEMMA ResultsAfter ==
    ASSUME CleanupInv, PublishCheckpointDeleteCompleted \/ PublishCheckpointDeleteFailed
    PROVE  /\ results' \in Seq(Entries) /\ errors' \in 0 .. MaxErrors
           /\ results # <<>> => results' # <<>>
           /\ \A i \in DOMAIN results' :
                 \/ ~results'[i].ok
                 \/ agent = "completed"
                 \/ i \in DOMAIN results /\ results'[i] = results[i]
<1>1. controls # <<>>
  BY DEF PublishCheckpointDeleteCompleted, PublishCheckpointDeleteFailed, CleanupInv, LoopsBusy
<1>2. CASE PublishCheckpointDeleteCompleted
  <2>1. PICK outcome \in {"made", "failed"} :
           Published(results, [control |-> Head(controls), ok |-> TRUE], outcome)
    BY <1>2 DEF PublishCheckpointDeleteCompleted
  <2>2. [control |-> Head(controls), ok |-> TRUE] \in Entries /\ agent = "completed"
    BY <1>1, <1>2, Heads DEF Entries, PublishCheckpointDeleteCompleted
  <2> QED
    BY <2>1, <2>2, ResultPublished DEF CleanupInv
<1>3. CASE PublishCheckpointDeleteFailed
  <2>1. PICK outcome \in {"made", "failed"} :
           Published(results, [control |-> Head(controls), ok |-> FALSE], outcome)
    BY <1>3 DEF PublishCheckpointDeleteFailed
  <2>2. [control |-> Head(controls), ok |-> FALSE] \in Entries
    BY <1>1, Heads DEF Entries
  <2> QED
    BY <2>1, <2>2, ResultPublished DEF CleanupInv
<1> QED
  BY <1>2, <1>3

-----------------------------------------------------------------------------
(* Cleanup: every step keeps each part of the invariant.                   *)

\* The row keeps its type.
LEMMA TaskTyped ==
    ASSUME CleanupInv, [CleanupNext]_cleanupVars
    PROVE  task' \in Tasks
<1>1. CASE EnqueueChatSessionCheckpointCleanup
  <2>1. EnqueuedTask \in Tasks
    BY CleanupAssumption DEF EnqueuedTask, Tasks
  <2> QED
    BY <1>1, <2>1, Heads DEF EnqueueChatSessionCheckpointCleanup
<1>2. CASE TaskTimePasses
  BY <1>2, Heads, CleanupAssumption DEF TaskTimePasses, Tasks
<1>3. CASE ClaimTask
  BY <1>3, Heads, CleanupAssumption DEF ClaimTask, Dispatchable, Tasks
<1>4. CASE MarkPublicationFailed \/ ApplyControlResult
  BY <1>4, Heads, CleanupAssumption, TaskChanges DEF MarkPublicationFailed,
     ApplyControlResult, CleanupInv
<1>5. CASE DeleteSession \/ CancelDeletedRun \/ PublishDeleteControl \/ AckControlResult
   \/ HandleCancel \/ TryDelete \/ DeleteThread \/ PublishCheckpointDeleteCompleted \/
   ReleaseLock \/ PublishCheckpointDeleteFailed \/ AckControl \/ BootstrapRun \/
   LockThread \/ WriteCheckpoint \/ EndRun \/ LockExpires \/ CheckpointAges \/
   ListExpiredThread \/ DeleteExpiredThread \/ ApiRestarts \/ AgentRestarts \/ UNCHANGED
   cleanupVars
  BY <1>5, Heads, CleanupAssumption DEF DeleteSession, CancelDeletedRun,
     PublishDeleteControl, AckControlResult, HandleCancel, TryDelete, DeleteThread,
     PublishCheckpointDeleteCompleted, ReleaseLock, PublishCheckpointDeleteFailed,
     AckControl, BootstrapRun, LockThread, WriteCheckpoint, EndRun, LockExpires,
     CheckpointAges, ListExpiredThread, DeleteExpiredThread, ApiRestarts, AgentRestarts,
     cleanupVars, Crash
<1> QED
  BY <1>1, <1>2, <1>3, <1>4, <1>5 DEF CleanupNext, DispatcherStep, ConsumerStep, ControlStep,
     SweepStep

\* The claim of the dispatcher keeps its type.
LEMMA ClaimTyped ==
    ASSUME CleanupInv, [CleanupNext]_cleanupVars
    PROVE  dispatcher' \in Claims
<1>1. CASE ClaimTask \/ PublishDeleteControl \/ MarkPublicationFailed
  BY <1>1, Heads, CleanupAssumption DEF ClaimTask, PublishDeleteControl,
     MarkPublicationFailed, Controls, Cancel, Dispatchable, Idle, Claims, Tasks
<1>2. CASE ApiRestarts
  BY <1>2, Heads, CleanupAssumption DEF ApiRestarts, Controls, Cancel, Idle, Claims
<1>3. CASE DeleteSession \/ CancelDeletedRun \/ EnqueueChatSessionCheckpointCleanup \/
   TaskTimePasses \/ ApplyControlResult \/ AckControlResult \/ HandleCancel \/ TryDelete
   \/ DeleteThread \/ PublishCheckpointDeleteCompleted \/ ReleaseLock \/
   PublishCheckpointDeleteFailed \/ AckControl \/ BootstrapRun \/ LockThread \/
   WriteCheckpoint \/ EndRun \/ LockExpires \/ CheckpointAges \/ ListExpiredThread \/
   DeleteExpiredThread \/ AgentRestarts \/ UNCHANGED cleanupVars
  BY <1>3, Heads, CleanupAssumption DEF DeleteSession, CancelDeletedRun,
     EnqueueChatSessionCheckpointCleanup, TaskTimePasses, ApplyControlResult,
     AckControlResult, HandleCancel, TryDelete, DeleteThread,
     PublishCheckpointDeleteCompleted, ReleaseLock, PublishCheckpointDeleteFailed,
     AckControl, BootstrapRun, LockThread, WriteCheckpoint, EndRun, LockExpires,
     CheckpointAges, ListExpiredThread, DeleteExpiredThread, AgentRestarts, cleanupVars, Crash,
     Controls, Cancel
<1> QED
  BY <1>1, <1>2, <1>3 DEF CleanupNext, DispatcherStep, ConsumerStep, ControlStep, SweepStep

\* The streams keep their types.
LEMMA StreamsTyped ==
    ASSUME CleanupInv, [CleanupNext]_cleanupVars
    PROVE  controls' \in Seq(Controls) /\ results' \in Seq(Entries)
<1>1. CASE CancelDeletedRun \/ PublishDeleteControl
  BY <1>1, Heads, ControlsAfter DEF CancelDeletedRun, PublishDeleteControl
<1>2. CASE PublishCheckpointDeleteCompleted \/ PublishCheckpointDeleteFailed
  BY <1>2, Heads, ResultsAfter DEF PublishCheckpointDeleteCompleted,
     PublishCheckpointDeleteFailed
<1>3. CASE AckControlResult \/ AckControl
  BY <1>3, Heads DEF AckControlResult, AckControl, CleanupInv, LoopsBusy
<1>4. CASE DeleteSession \/ EnqueueChatSessionCheckpointCleanup \/ ClaimTask \/
   MarkPublicationFailed \/ TaskTimePasses \/ ApplyControlResult \/ HandleCancel \/
   TryDelete \/ DeleteThread \/ ReleaseLock \/ BootstrapRun \/ LockThread \/
   WriteCheckpoint \/ EndRun \/ LockExpires \/ CheckpointAges \/ ListExpiredThread \/
   DeleteExpiredThread \/ ApiRestarts \/ AgentRestarts \/ UNCHANGED cleanupVars
  BY <1>4, Heads DEF DeleteSession, EnqueueChatSessionCheckpointCleanup, ClaimTask,
     MarkPublicationFailed, TaskTimePasses, ApplyControlResult, HandleCancel, TryDelete,
     DeleteThread, ReleaseLock, BootstrapRun, LockThread, WriteCheckpoint, EndRun,
     LockExpires, CheckpointAges, ListExpiredThread, DeleteExpiredThread, ApiRestarts,
     AgentRestarts, cleanupVars, Crash
<1> QED
  BY <1>1, <1>2, <1>3, <1>4 DEF CleanupNext, DispatcherStep, ConsumerStep, ControlStep,
     SweepStep

\* The other variables keep their types.
LEMMA OthersTyped ==
    ASSUME CleanupInv, [CleanupNext]_cleanupVars
    PROVE  Others'
<1>1. CASE CancelDeletedRun \/ PublishDeleteControl
  BY <1>1, Heads, CleanupAssumption, ControlsAfter, SMTT(60) DEF CancelDeletedRun,
     PublishDeleteControl, Others
<1>2. CASE PublishCheckpointDeleteCompleted \/ PublishCheckpointDeleteFailed
  BY <1>2, Heads, CleanupAssumption, ResultsAfter DEF PublishCheckpointDeleteCompleted,
     PublishCheckpointDeleteFailed, Others
<1>3. CASE EnqueueChatSessionCheckpointCleanup \/ MarkPublicationFailed \/
   ApplyControlResult \/ AckControlResult \/ AckControl \/ DeleteThread \/
   DeleteExpiredThread
  BY <1>3, Heads, CleanupAssumption DEF EnqueueChatSessionCheckpointCleanup,
     MarkPublicationFailed, ApplyControlResult, AckControlResult, AckControl,
     DeleteThread, DeleteExpiredThread, Others, Fails
<1>4. CASE TryDelete \/ ReleaseLock \/ EndRun
  BY <1>4, Heads, CleanupAssumption DEF TryDelete, ReleaseLock, EndRun, Others, Fails,
     Free
<1>5. CASE ApiRestarts \/ AgentRestarts
  BY <1>5, Heads, CleanupAssumption DEF ApiRestarts, AgentRestarts, Others, Crash
<1>6. CASE DeleteSession \/ ClaimTask \/ TaskTimePasses \/ HandleCancel \/ BootstrapRun
   \/ LockThread \/ WriteCheckpoint \/ LockExpires \/ CheckpointAges \/
   ListExpiredThread \/ UNCHANGED cleanupVars
  BY <1>6, Heads, CleanupAssumption DEF DeleteSession, ClaimTask, TaskTimePasses,
     HandleCancel, BootstrapRun, LockThread, WriteCheckpoint, LockExpires,
     CheckpointAges, ListExpiredThread, cleanupVars, Crash, Others
<1> QED
  BY <1>1, <1>2, <1>3, <1>4, <1>5, <1>6 DEF CleanupNext, DispatcherStep, ConsumerStep,
     ControlStep, SweepStep

\* The flags keep their types.
LEMMA FlagsTyped ==
    ASSUME CleanupInv, [CleanupNext]_cleanupVars
    PROVE  Flags'
<1>1. CASE CancelDeletedRun
  BY <1>1, Heads DEF CancelDeletedRun, Flags
<1>2. CASE HandleCancel
  BY <1>2, Heads DEF HandleCancel, Flags
<1>3. CASE LockThread
  BY <1>3, Heads DEF LockThread, Flags
<1>4. CASE LockExpires
  BY <1>4, Heads DEF LockExpires, Flags
<1>5. CASE BootstrapRun \/ ApiRestarts \/ AgentRestarts
  BY <1>5, Heads DEF BootstrapRun, ApiRestarts, AgentRestarts, Flags
<1>6. CASE DeleteSession \/ EnqueueChatSessionCheckpointCleanup \/ ClaimTask \/
   PublishDeleteControl \/ MarkPublicationFailed \/ TaskTimePasses \/ ApplyControlResult
   \/ AckControlResult \/ TryDelete \/ DeleteThread \/ PublishCheckpointDeleteCompleted
   \/ ReleaseLock \/ PublishCheckpointDeleteFailed \/ AckControl \/ WriteCheckpoint \/
   EndRun \/ CheckpointAges \/ ListExpiredThread \/ DeleteExpiredThread \/ UNCHANGED
   cleanupVars
  BY <1>6, Heads DEF DeleteSession, EnqueueChatSessionCheckpointCleanup, ClaimTask,
     PublishDeleteControl, MarkPublicationFailed, TaskTimePasses, ApplyControlResult,
     AckControlResult, TryDelete, DeleteThread, PublishCheckpointDeleteCompleted,
     ReleaseLock, PublishCheckpointDeleteFailed, AckControl, WriteCheckpoint, EndRun,
     CheckpointAges, ListExpiredThread, DeleteExpiredThread, cleanupVars, Crash, Flags
<1> QED
  BY <1>1, <1>2, <1>3, <1>4, <1>5, <1>6 DEF CleanupNext, DispatcherStep, ConsumerStep,
     ControlStep, SweepStep

\* The order of the request is kept.
LEMMA DeletionStep ==
    ASSUME CleanupInv, [CleanupNext]_cleanupVars
    PROVE  RequestFirst'
<1>1. CASE DeleteSession \/ CancelDeletedRun
  BY <1>1, ControlsAfter DEF DeleteSession, CancelDeletedRun, CleanupInv, RequestFirst
<1>2. CASE EnqueueChatSessionCheckpointCleanup
  BY <1>2 DEF EnqueueChatSessionCheckpointCleanup, CleanupInv, RequestFirst, EnqueuedTask
<1>3. CASE ClaimTask
  BY <1>3, Heads DEF ClaimTask, CleanupInv, RequestFirst, Dispatchable
<1>4. CASE PublishDeleteControl
  BY <1>4 DEF PublishDeleteControl, CleanupInv, RequestFirst, TaskFirst
<1>5. CASE MarkPublicationFailed \/ ApplyControlResult
  BY <1>5, TaskChanges DEF MarkPublicationFailed, ApplyControlResult, CleanupInv,
     RequestFirst, TaskFirst
<1>6. CASE TaskTimePasses
  BY <1>6, Heads DEF TaskTimePasses, CleanupInv, RequestFirst, Tasks
<1>7. CASE HandleCancel \/ TryDelete \/ PublishCheckpointDeleteCompleted \/
   PublishCheckpointDeleteFailed \/ DeleteThread \/ ReleaseLock \/ AckControl
  BY <1>7 DEF HandleCancel, TryDelete, PublishCheckpointDeleteCompleted,
     PublishCheckpointDeleteFailed, DeleteThread, ReleaseLock, AckControl, CleanupInv,
     RequestFirst, LoopsBusy
<1>8. CASE ApiRestarts \/ AgentRestarts
  <2>1. CASE ApiRestarts /\ request = "none"
    <3>1. ~cancelLost' /\ request' = "none"
      BY <2>1 DEF ApiRestarts, CleanupInv, RequestFirst
    <3> QED
      BY <2>1, <3>1 DEF ApiRestarts, CleanupInv, RequestFirst
  <2>2. CASE ApiRestarts /\ request # "none"
    BY <2>2 DEF ApiRestarts, CleanupInv, RequestFirst
  <2>3. CASE AgentRestarts
    BY <2>3 DEF AgentRestarts, CleanupInv, RequestFirst
  <2> QED
    BY <1>8, <2>1, <2>2, <2>3
<1>9. CASE AckControlResult \/ BootstrapRun \/ LockThread \/ WriteCheckpoint \/ EndRun
   \/ LockExpires \/ CheckpointAges \/ ListExpiredThread \/ DeleteExpiredThread \/
   UNCHANGED cleanupVars
  BY <1>9 DEF AckControlResult, BootstrapRun, LockThread, WriteCheckpoint, EndRun,
     LockExpires, CheckpointAges, ListExpiredThread, DeleteExpiredThread, cleanupVars, Crash,
     CleanupInv, RequestFirst
<1> QED
  BY <1>1, <1>2, <1>3, <1>4, <1>5, <1>6, <1>7, <1>8, <1>9 DEF CleanupNext, DispatcherStep,
     ConsumerStep, ControlStep, SweepStep

\* Without a task nothing is under way.
LEMMA TaskStep ==
    ASSUME CleanupInv, [CleanupNext]_cleanupVars
    PROVE  TaskFirst'
<1>1. CASE CancelDeletedRun \/ PublishDeleteControl
  BY <1>1, ControlsAfter DEF CancelDeletedRun, PublishDeleteControl, CleanupInv, TaskFirst
<1>2. CASE EnqueueChatSessionCheckpointCleanup
  BY <1>2 DEF EnqueueChatSessionCheckpointCleanup, CleanupInv, TaskFirst, EnqueuedTask,
     RequestFirst
<1>3. CASE ClaimTask
  BY <1>3, Heads DEF ClaimTask, CleanupInv, TaskFirst, Dispatchable
<1>4. CASE MarkPublicationFailed \/ ApplyControlResult
  BY <1>4, TaskChanges DEF MarkPublicationFailed, ApplyControlResult, CleanupInv, TaskFirst,
     Idle
<1>5. CASE TaskTimePasses
  BY <1>5, Heads DEF TaskTimePasses, CleanupInv, TaskFirst, Tasks
<1>6. CASE AckControlResult
  BY <1>6, Heads DEF AckControlResult, CleanupInv, TaskFirst, LoopsBusy
<1>7. CASE HandleCancel \/ TryDelete \/ DeleteThread \/ ReleaseLock
  BY <1>7, Heads DEF HandleCancel, TryDelete, DeleteThread, ReleaseLock, CleanupInv,
     TaskFirst, LoopsBusy
<1>8. CASE PublishCheckpointDeleteCompleted \/ PublishCheckpointDeleteFailed
  BY <1>8 DEF PublishCheckpointDeleteCompleted, PublishCheckpointDeleteFailed, CleanupInv,
     TaskFirst
<1>9. CASE AckControl
  BY <1>9, Heads DEF AckControl, CleanupInv, TaskFirst, LoopsBusy
<1>10. CASE ApiRestarts \/ AgentRestarts
  BY <1>10 DEF ApiRestarts, AgentRestarts, CleanupInv, TaskFirst, Crash, Idle
<1>11. CASE DeleteSession \/ BootstrapRun \/ LockThread \/ WriteCheckpoint \/ EndRun \/
   LockExpires \/ CheckpointAges \/ ListExpiredThread \/ DeleteExpiredThread \/
   UNCHANGED cleanupVars
  BY <1>11 DEF DeleteSession, BootstrapRun, LockThread, WriteCheckpoint, EndRun,
     LockExpires, CheckpointAges, ListExpiredThread, DeleteExpiredThread, cleanupVars, Crash,
     CleanupInv, TaskFirst
<1> QED
  BY <1>1, <1>2, <1>3, <1>4, <1>5, <1>6, <1>7, <1>8, <1>9, <1>10, <1>11 DEF CleanupNext,
     DispatcherStep, ConsumerStep, ControlStep, SweepStep

\* The loops work on the heads of their streams.
LEMMA LoopsStep ==
    ASSUME CleanupInv, [CleanupNext]_cleanupVars
    PROVE  LoopsBusy'
<1>1. CASE CancelDeletedRun \/ PublishDeleteControl
  BY <1>1, ControlsAfter DEF CancelDeletedRun, PublishDeleteControl, CleanupInv, LoopsBusy
<1>2. CASE PublishCheckpointDeleteCompleted \/ PublishCheckpointDeleteFailed
  BY <1>2, ResultsAfter DEF PublishCheckpointDeleteCompleted,
     PublishCheckpointDeleteFailed, CleanupInv, LoopsBusy
<1>3. CASE ApplyControlResult \/ AckControlResult
  BY <1>3, Heads DEF ApplyControlResult, AckControlResult, CleanupInv, LoopsBusy
<1>4. CASE HandleCancel \/ TryDelete \/ DeleteThread \/ ReleaseLock \/ AckControl
  BY <1>4, Heads DEF HandleCancel, TryDelete, DeleteThread, ReleaseLock, AckControl,
     CleanupInv, LoopsBusy
<1>5. CASE ApiRestarts \/ AgentRestarts
  BY <1>5 DEF ApiRestarts, AgentRestarts, CleanupInv, LoopsBusy, Crash
<1>6. CASE DeleteSession \/ EnqueueChatSessionCheckpointCleanup \/ ClaimTask \/
   MarkPublicationFailed \/ TaskTimePasses \/ BootstrapRun \/ LockThread \/
   WriteCheckpoint \/ EndRun \/ LockExpires \/ CheckpointAges \/ ListExpiredThread \/
   DeleteExpiredThread \/ UNCHANGED cleanupVars
  BY <1>6 DEF DeleteSession, EnqueueChatSessionCheckpointCleanup, ClaimTask,
     MarkPublicationFailed, TaskTimePasses, BootstrapRun, LockThread, WriteCheckpoint,
     EndRun, LockExpires, CheckpointAges, ListExpiredThread, DeleteExpiredThread, cleanupVars,
     Crash, CleanupInv, LoopsBusy
<1> QED
  BY <1>1, <1>2, <1>3, <1>4, <1>5, <1>6 DEF CleanupNext, DispatcherStep, ConsumerStep,
     ControlStep, SweepStep

\* The lock is held by the run or by the deletion until it expires.
LEMMA LockStep ==
    ASSUME CleanupInv, [CleanupNext]_cleanupVars
    PROVE  LockHeld'
<1>1. CASE HandleCancel \/ TryDelete \/ DeleteThread \/ PublishCheckpointDeleteCompleted
   \/ PublishCheckpointDeleteFailed \/ ReleaseLock \/ AckControl
  BY <1>1, Heads DEF HandleCancel, TryDelete, DeleteThread,
     PublishCheckpointDeleteCompleted, PublishCheckpointDeleteFailed, ReleaseLock,
     AckControl, CleanupInv, LockHeld, Free
<1>2. CASE BootstrapRun \/ LockThread \/ EndRun
  BY <1>2, Heads DEF BootstrapRun, LockThread, EndRun, CleanupInv, LockHeld, Free
<1>3. CASE LockExpires
  BY <1>3, Heads DEF LockExpires, CleanupInv, LockHeld
<1>4. CASE AgentRestarts
  BY <1>4, Heads DEF AgentRestarts, CleanupInv, LockHeld, Crash
<1>5. CASE DeleteSession \/ CancelDeletedRun \/ EnqueueChatSessionCheckpointCleanup \/
   ClaimTask \/ PublishDeleteControl \/ MarkPublicationFailed \/ TaskTimePasses \/
   ApplyControlResult \/ AckControlResult \/ WriteCheckpoint \/ CheckpointAges \/
   ListExpiredThread \/ DeleteExpiredThread \/ ApiRestarts \/ UNCHANGED cleanupVars
  BY <1>5, Heads DEF DeleteSession, CancelDeletedRun,
     EnqueueChatSessionCheckpointCleanup, ClaimTask, PublishDeleteControl,
     MarkPublicationFailed, TaskTimePasses, ApplyControlResult, AckControlResult,
     WriteCheckpoint, CheckpointAges, ListExpiredThread, DeleteExpiredThread,
     ApiRestarts, cleanupVars, Crash, CleanupInv, LockHeld
<1> QED
  BY <1>1, <1>2, <1>3, <1>4, <1>5 DEF CleanupNext, DispatcherStep, ConsumerStep, ControlStep,
     SweepStep

\* A cancellation that was published is handled before any deletion.
LEMMA CancelStep ==
    ASSUME CleanupInv, [CleanupNext]_cleanupVars
    PROVE  CancelComes'
<1>1. CASE DeleteSession
  BY <1>1, Heads DEF DeleteSession, CleanupInv, CancelComes, RequestFirst
<1>2. CASE CancelDeletedRun \/ PublishDeleteControl
  BY <1>2, Heads, ControlsAfter DEF CancelDeletedRun, PublishDeleteControl, CleanupInv,
     CancelComes, RequestFirst
<1>3. CASE HandleCancel
  BY <1>3, Heads DEF HandleCancel, CleanupInv, CancelComes
<1>4. CASE TryDelete \/ DeleteThread \/ PublishCheckpointDeleteCompleted \/
   PublishCheckpointDeleteFailed \/ ReleaseLock \/ AckControl
  BY <1>4, Heads DEF TryDelete, DeleteThread, PublishCheckpointDeleteCompleted,
     PublishCheckpointDeleteFailed, ReleaseLock, AckControl, CleanupInv, CancelComes,
     LoopsBusy
<1>5. CASE BootstrapRun \/ LockThread \/ EndRun
  BY <1>5, Heads DEF BootstrapRun, LockThread, EndRun, CleanupInv, CancelComes
<1>6. CASE ApiRestarts \/ AgentRestarts
  BY <1>6, Heads DEF ApiRestarts, AgentRestarts, CleanupInv, CancelComes, Crash
<1>7. CASE EnqueueChatSessionCheckpointCleanup \/ ClaimTask \/ MarkPublicationFailed \/
   TaskTimePasses \/ ApplyControlResult \/ AckControlResult \/ WriteCheckpoint \/
   LockExpires \/ CheckpointAges \/ ListExpiredThread \/ DeleteExpiredThread \/
   UNCHANGED cleanupVars
  BY <1>7, Heads DEF EnqueueChatSessionCheckpointCleanup, ClaimTask,
     MarkPublicationFailed, TaskTimePasses, ApplyControlResult, AckControlResult,
     WriteCheckpoint, LockExpires, CheckpointAges, ListExpiredThread,
     DeleteExpiredThread, cleanupVars, Crash, CleanupInv, CancelComes
<1> QED
  BY <1>1, <1>2, <1>3, <1>4, <1>5, <1>6, <1>7 DEF CleanupNext, DispatcherStep, ConsumerStep,
     ControlStep, SweepStep

\* A thread that is gone stays gone, except where that is excused.
LEMMA StaysGone ==
    ASSUME CleanupInv, [CleanupNext]_cleanupVars, Gone \/ Excused
    PROVE  (Gone \/ Excused)'
<1>1. CASE CancelDeletedRun
  BY <1>1, Heads DEF CancelDeletedRun, CleanupInv, Gone, Excused, RequestFirst
<1>2. CASE HandleCancel
  BY <1>2, Heads DEF HandleCancel, CleanupInv, Gone, Excused
<1>3. CASE LockThread
  BY <1>3, Heads DEF LockThread, CleanupInv, Gone, Excused
<1>4. CASE LockExpires
  BY <1>4, Heads DEF LockExpires, CleanupInv, Gone, Excused
<1>5. CASE EndRun \/ BootstrapRun
  BY <1>5, Heads DEF EndRun, BootstrapRun, CleanupInv, Gone, Excused
<1>6. CASE DeleteThread \/ DeleteExpiredThread
  BY <1>6, Heads DEF DeleteThread, DeleteExpiredThread, CleanupInv, Gone, Excused
<1>7. CASE ApiRestarts \/ AgentRestarts
  BY <1>7, Heads DEF ApiRestarts, AgentRestarts, CleanupInv, Gone, Excused, Crash
<1>8. CASE DeleteSession \/ EnqueueChatSessionCheckpointCleanup \/ ClaimTask \/
   PublishDeleteControl \/ MarkPublicationFailed \/ TaskTimePasses \/ ApplyControlResult
   \/ AckControlResult \/ TryDelete \/ PublishCheckpointDeleteCompleted \/ ReleaseLock
   \/ PublishCheckpointDeleteFailed \/ AckControl \/ WriteCheckpoint \/ CheckpointAges
   \/ ListExpiredThread \/ UNCHANGED cleanupVars
  BY <1>8, Heads DEF DeleteSession, EnqueueChatSessionCheckpointCleanup, ClaimTask,
     PublishDeleteControl, MarkPublicationFailed, TaskTimePasses, ApplyControlResult,
     AckControlResult, TryDelete, PublishCheckpointDeleteCompleted, ReleaseLock,
     PublishCheckpointDeleteFailed, AckControl, WriteCheckpoint, CheckpointAges,
     ListExpiredThread, cleanupVars, Crash, CleanupInv, Gone, Excused
<1> QED
  BY <1>1, <1>2, <1>3, <1>4, <1>5, <1>6, <1>7, <1>8 DEF CleanupNext, DispatcherStep,
     ConsumerStep, ControlStep, SweepStep

\* The news of a deletion are true.
LEMMA NewsStep ==
    ASSUME CleanupInv, [CleanupNext]_cleanupVars
    PROVE  NewsTrue'
<1>1. CASE EnqueueChatSessionCheckpointCleanup
  BY <1>1, Heads, StaysGone DEF EnqueueChatSessionCheckpointCleanup, CleanupInv, NewsTrue,
     EnqueuedTask
<1>2. CASE ClaimTask \/ TaskTimePasses
  BY <1>2, Heads, StaysGone DEF ClaimTask, TaskTimePasses, CleanupInv, NewsTrue, Tasks
<1>3. CASE MarkPublicationFailed
  BY <1>3, Heads, StaysGone, TaskChanges DEF MarkPublicationFailed, CleanupInv, NewsTrue
<1>4. CASE ApplyControlResult
  BY <1>4, Heads, StaysGone, TaskChanges DEF ApplyControlResult, CleanupInv, NewsTrue
<1>5. CASE AckControlResult
  BY <1>5, Heads, StaysGone DEF AckControlResult, CleanupInv, NewsTrue, LoopsBusy
<1>6. CASE HandleCancel \/ TryDelete \/ ReleaseLock \/ AckControl
  BY <1>6, Heads, StaysGone DEF HandleCancel, TryDelete, ReleaseLock, AckControl, CleanupInv,
     NewsTrue, LoopsBusy
<1>7. CASE DeleteThread
  <2>1. session = "deleted" /\ agent = "delete" /\ request \notin {"none", "cancel"}
    BY <1>7, Heads DEF DeleteThread, CleanupInv, RequestFirst, Others
  <2>2. run = "idle" \/ aborted \/ cancelLost
    BY <2>1 DEF CleanupInv, CancelComes
  <2>3. run = "running" => overran
    BY <2>1 DEF CleanupInv, LockHeld
  <2>4. checkpoint' = "none" => (Gone \/ Excused)'
    BY <1>7, <2>1, <2>2, <2>3, Heads DEF DeleteThread, Gone, Excused, Others
  <2>5. checkpoint' = "none" \/ agent' = "abandon"
    BY <1>7 DEF DeleteThread
  <2>6. /\ results' = results /\ task' = task
        /\ \A i \in DOMAIN results : results[i].ok => (Gone \/ Excused)'
        /\ task.status = "COMPLETED" => (Gone \/ Excused)'
    BY <1>7, StaysGone DEF DeleteThread, CleanupInv, NewsTrue
  <2> QED
    BY <2>4, <2>5, <2>6 DEF NewsTrue
<1>8. CASE PublishCheckpointDeleteCompleted \/ PublishCheckpointDeleteFailed
  BY <1>8, Heads, StaysGone, ResultsAfter DEF PublishCheckpointDeleteCompleted,
     PublishCheckpointDeleteFailed, CleanupInv, NewsTrue
<1>9. CASE ApiRestarts \/ AgentRestarts
  BY <1>9, Heads, StaysGone DEF ApiRestarts, AgentRestarts, CleanupInv, NewsTrue, Crash
<1>10. CASE DeleteSession \/ CancelDeletedRun \/ PublishDeleteControl \/ BootstrapRun \/
   LockThread \/ WriteCheckpoint \/ EndRun \/ LockExpires \/ CheckpointAges \/
   ListExpiredThread \/ DeleteExpiredThread \/ UNCHANGED cleanupVars
  BY <1>10, Heads, StaysGone DEF DeleteSession, CancelDeletedRun, PublishDeleteControl,
     BootstrapRun, LockThread, WriteCheckpoint, EndRun, LockExpires, CheckpointAges,
     ListExpiredThread, DeleteExpiredThread, cleanupVars, Crash, CleanupInv, NewsTrue
<1> QED
  BY <1>1, <1>2, <1>3, <1>4, <1>5, <1>6, <1>7, <1>8, <1>9, <1>10 DEF CleanupNext,
     DispatcherStep, ConsumerStep, ControlStep, SweepStep

-----------------------------------------------------------------------------
(* Cleanup: the theorems.                                                  *)

\* The invariant holds before anything has happened.
LEMMA CleanupInitInvariant == CleanupInit => CleanupInv
<1> SUFFICES ASSUME CleanupInit PROVE CleanupInv
  OBVIOUS
<1>1. task \in Tasks /\ dispatcher \in Claims
  BY CleanupAssumption DEF CleanupInit, Idle, Tasks, Claims, Controls, Cancel
<1>2. controls \in Seq(Controls) /\ results \in Seq(Entries) /\ DOMAIN controls = {}
  BY DEF CleanupInit
<1>3. Others
  <2>1. 0 \in 0 .. MaxErrors /\ 0 \in 0 .. MaxCrashes
    BY CleanupAssumption
  <2> QED
    BY <2>1 DEF CleanupInit, Others
<1>4. Flags
  BY DEF CleanupInit, Flags
<1>5. CleanupTypeOK
  BY <1>1, <1>2, <1>3, <1>4 DEF CleanupTypeOK, Tasks, Claims, Entries, Others, Flags
<1>6. RequestFirst /\ LoopsBusy /\ LockHeld /\ CancelComes
  BY DEF CleanupInit, RequestFirst, LoopsBusy, LockHeld, CancelComes
<1>7. TaskFirst
  BY <1>2 DEF CleanupInit, Idle, TaskFirst
<1>8. NewsTrue
  <2>1. DOMAIN results = {}
    BY DEF CleanupInit
  <2> QED
    BY <2>1 DEF CleanupInit, NewsTrue
<1> QED
  BY <1>5, <1>6, <1>7, <1>8 DEF CleanupInv

\* Every step keeps it.
LEMMA CleanupStepInvariant == CleanupInv /\ [CleanupNext]_cleanupVars => CleanupInv'
<1> SUFFICES ASSUME CleanupInv, [CleanupNext]_cleanupVars PROVE CleanupInv'
  OBVIOUS
<1>1. CleanupTypeOK'
  BY TaskTyped, ClaimTyped, StreamsTyped, OthersTyped, FlagsTyped
     DEF CleanupTypeOK, Tasks, Claims, Entries, Others, Flags
<1> QED
  BY <1>1, DeletionStep, TaskStep, LoopsStep, LockStep, CancelStep, NewsStep DEF CleanupInv

\* The inductive invariant holds in every state of the system.
THEOREM CleanupInvariant == CleanupSpec => []CleanupInv
BY CleanupInitInvariant, CleanupStepInvariant, PTL DEF CleanupSpec

\* A task is COMPLETED only when nothing is left of the thread, unless a run that was
\* not told to stop entered it afterwards or a lock expired under its holder.
THEOREM CompletedOnlyWhenGone == CleanupSpec => []CompletedMeansGone
<1>1. CleanupInv => CompletedMeansGone
  BY DEF CleanupInv, CompletedMeansGone, NewsTrue, Gone, Excused
<1> QED
  BY <1>1, CleanupInvariant, PTL

\* A completed task stays completed, and only the sweep, which had listed it as
\* expired, deletes the thread of a session that lives.
THEOREM NothingUndone == CleanupSpec => KeepsWhatCounts
<1>1. CleanupInv /\ [CleanupNext]_cleanupVars => (task.status = "COMPLETED" => task'.status = "COMPLETED")
  <2> SUFFICES ASSUME CleanupInv, [CleanupNext]_cleanupVars, task.status = "COMPLETED"
               PROVE  task'.status = "COMPLETED"
    OBVIOUS
  <2>1. CASE EnqueueChatSessionCheckpointCleanup
    BY <2>1 DEF EnqueueChatSessionCheckpointCleanup, CleanupInv, RequestFirst
  <2>2. CASE ClaimTask \/ TaskTimePasses
    BY <2>2 DEF ClaimTask, Dispatchable, TaskTimePasses
  <2>3. CASE MarkPublicationFailed \/ ApplyControlResult
    BY <2>3, TaskChanges DEF MarkPublicationFailed, ApplyControlResult, CleanupInv
  <2>4. CASE UNCHANGED task
    BY <2>4
  <2> QED
    BY <2>1, <2>2, <2>3, <2>4
       DEF CleanupNext, cleanupVars, DispatcherStep, ConsumerStep, ControlStep, SweepStep,
           DeleteSession, CancelDeletedRun, PublishDeleteControl, AckControlResult,
           HandleCancel, TryDelete, DeleteThread, PublishCheckpointDeleteCompleted,
           ReleaseLock, PublishCheckpointDeleteFailed, AckControl, BootstrapRun,
           LockThread, WriteCheckpoint, EndRun, LockExpires, CheckpointAges,
           ListExpiredThread, DeleteExpiredThread, ApiRestarts, AgentRestarts
<1>2. CleanupInv /\ [CleanupNext]_cleanupVars =>
         (session = "live" /\ checkpoint # "none" /\ checkpoint' = "none" => sweep = "listed")
  <2> SUFFICES ASSUME CleanupInv, [CleanupNext]_cleanupVars, session = "live", checkpoint # "none",
                      checkpoint' = "none"
               PROVE  sweep = "listed"
    OBVIOUS
  <2>1. ~DeleteThread
    BY DEF DeleteThread, CleanupInv, RequestFirst
  <2>2. CASE DeleteExpiredThread
    BY <2>2 DEF DeleteExpiredThread
  <2>3. ~UNCHANGED checkpoint /\ ~WriteCheckpoint /\ ~CheckpointAges
    BY DEF WriteCheckpoint, CheckpointAges
  <2> QED
    BY <2>1, <2>2, <2>3
       DEF CleanupNext, cleanupVars, DispatcherStep, ConsumerStep, ControlStep, SweepStep,
           DeleteSession, CancelDeletedRun, EnqueueChatSessionCheckpointCleanup, ClaimTask,
           PublishDeleteControl, MarkPublicationFailed, TaskTimePasses,
           ApplyControlResult, AckControlResult, HandleCancel, TryDelete,
           PublishCheckpointDeleteCompleted, ReleaseLock, PublishCheckpointDeleteFailed,
           AckControl, BootstrapRun, LockThread, EndRun, LockExpires,
           ListExpiredThread, ApiRestarts, AgentRestarts
<1> QED
  BY <1>1, <1>2, CleanupInvariant, PTL DEF CleanupSpec, KeepsWhatCounts
=============================================================================
