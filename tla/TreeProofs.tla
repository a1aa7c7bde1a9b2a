----------------------------- MODULE TreeProofs -----------------------------
(***************************************************************************)
(* Proofs about the two trees of the system, for any number of documents,  *)
(* messages, users, workspaces, requests and workers.  In DocumentTree the *)
(* documents stay a forest, removal takes subtrees whole, and the status   *)
(* of a job tells the truth.  In ChatSession the messages stay a tree that *)
(* grows below finished replies only and always has a selected path, and a *)
(* run is told the history it answers and completes where the session      *)
(* looks.                                                                  *)
(*                                                                         *)
(* What lies below a document, the path to a message and the path a        *)
(* session shows are recursive functions.  That they exist and what they   *)
(* compute are inductions, made here as the search for a least             *)
(* counterexample.                                                         *)
(***************************************************************************)
EXTENDS DocumentTree, ChatSession, FunctionTheorems, FiniteSetTheorems, WellFoundedInduction, TLAPS

-----------------------------------------------------------------------------
(* Induction over the natural numbers.                                     *)

\* Every set of natural numbers has a least one: the intervals below them are finite
\* sets, which strict inclusion orders well.
LEMMA LeastNumber ==
    ASSUME NEW S \in SUBSET Nat, S # {}
    PROVE  \E n \in S : \A m \in S : n <= m
<1> DEFINE Upto(n) == 0 .. n
           T == {Upto(n) : n \in S}
<1>1. IsWellFoundedOn(StrictSubsetOrdering(Nat), FiniteSubsetsOf(Nat))
  BY FS_StrictSubsetOrderingWellFounded
<1>2. T \subseteq FiniteSubsetsOf(Nat) /\ T # {}
  <2>1. \A n \in S : IsFiniteSet(Upto(n)) /\ Upto(n) \subseteq Nat BY FS_Interval
  <2> QED BY <2>1 DEF FiniteSubsetsOf
<1>3. PICK x \in T : \A y \in T : ~(<<y, x>> \in StrictSubsetOrdering(Nat))
  <2> HIDE DEF T
  <2> QED BY <1>1, <1>2, WFMin
<1>4. PICK n \in S : x = Upto(n) BY <1>3
<1>5. ASSUME NEW m \in S, ~(n <= m) PROVE FALSE
  <2>1. m \in Nat /\ n \in Nat /\ m < n BY <1>5
  <2>2. Upto(m) \subseteq Upto(n) /\ n \in Upto(n) /\ n \notin Upto(m) BY <2>1
  <2>3. Upto(m) \in SUBSET Nat /\ Upto(n) \in SUBSET Nat BY <2>1
  <2>4. Upto(m) # Upto(n) BY <2>2
  <2>5. <<Upto(m), Upto(n)>> \in StrictSubsetOrdering(Nat)
    BY <2>2, <2>3, <2>4 DEF StrictSubsetOrdering
  <2>6. Upto(m) \in T BY <1>5
  <2> QED BY <1>3, <1>4, <2>5, <2>6
<1> QED BY <1>5

\* Induction over the natural numbers, for a set instead of an operator.
LEMMA Induction ==
    ASSUME NEW S, 0 \in S, \A n \in Nat : n \in S => n + 1 \in S
    PROVE  Nat \subseteq S
<1> DEFINE Out == {n \in Nat : n \notin S}
<1>1. SUFFICES ASSUME Out # {} PROVE FALSE OBVIOUS
<1>2. PICK k \in Out : \A m \in Out : k <= m
  <2> HIDE DEF Out
  <2>1. Out \in SUBSET Nat BY DEF Out
  <2> QED BY <1>1, <2>1, LeastNumber
<1>3. k - 1 \in Nat /\ k - 1 \notin Out BY <1>2
<1>4. (k - 1) + 1 \in S BY <1>3
<1> QED BY <1>2, <1>4

-----------------------------------------------------------------------------
(* What lies below a document.                                             *)

\* One round of Descendants and Shown: the children in scope come in.
WithChildren(X, scope) == X \cup {c \in scope : doc[c].parent \in X}

\* f has the results of k rounds, beginning with top.
Rounds(f, top, scope, k) ==
    f = [n \in 0 .. k |-> IF n = 0 THEN top ELSE WithChildren(f[n - 1], scope)]

\* The recursive function of the rounds exists.
LEMMA RoundsExist ==
    ASSUME NEW top, NEW scope, NEW k \in Nat
    PROVE  \E f : Rounds(f, top, scope, k)
<1> DEFINE S == {n \in Nat : \E f : Rounds(f, top, scope, n)}
<1>1. 0 \in S
  <2> DEFINE f == [n \in 0 .. 0 |-> top]
  <2>1. Rounds(f, top, scope, 0) BY DEF Rounds
  <2> QED BY <2>1
<1>2. ASSUME NEW n \in Nat, n \in S PROVE n + 1 \in S
  <2>1. PICK f : Rounds(f, top, scope, n) BY <1>2
  <2> DEFINE g == [m \in 0 .. n + 1 |->
                      IF m = n + 1 THEN WithChildren(f[n], scope) ELSE f[m]]
             h == [m \in 0 .. n + 1 |->
                      IF m = 0 THEN top ELSE WithChildren(g[m - 1], scope)]
  <2>2. ASSUME NEW m \in 0 .. n + 1 PROVE g[m] = h[m]
    <3>1. CASE m = n + 1
      <4>1. m - 1 = n /\ g[n] = f[n] BY <3>1
      <4> QED BY <3>1, <4>1
    <3>2. CASE m = 0 BY <2>1, <3>2 DEF Rounds
    <3>3. CASE m # 0 /\ m # n + 1
      <4>1. m \in 0 .. n /\ m - 1 \in 0 .. n /\ m - 1 # n + 1 BY <3>3
      <4>2. g[m] = f[m] /\ g[m - 1] = f[m - 1] BY <3>3, <4>1
      <4> QED BY <2>1, <3>3, <4>1, <4>2 DEF Rounds
    <3> QED BY <3>1, <3>2, <3>3
  <2>3. g = h
    <3> HIDE DEF g, h
    <3>1. DOMAIN g = 0 .. n + 1 /\ DOMAIN h = 0 .. n + 1
          /\ g = [m \in DOMAIN g |-> g[m]] /\ h = [m \in DOMAIN h |-> h[m]] BY DEF g, h
    <3> QED BY <2>2, <3>1
  <2>4. Rounds(g, top, scope, n + 1) BY <2>3 DEF Rounds
  <2> QED BY <2>4
<1>3. Nat \subseteq S
  <2> HIDE DEF S
  <2> QED BY <1>1, <1>2, Induction
<1> QED BY <1>3

\* Every round adds the children of the one before, and no round leaves a set that
\* holds the top and the children of its members.
LEMMA RoundsGrow ==
    ASSUME NEW f, NEW top, NEW scope, NEW k \in Nat, Rounds(f, top, scope, k)
    PROVE  /\ \A n \in 0 .. k : top \subseteq f[n] /\ f[n] \subseteq top \cup scope
           /\ \A n \in 0 .. k : n # k => f[n + 1] = WithChildren(f[n], scope)
           /\ \A S : top \subseteq S /\ WithChildren(S, scope) \subseteq S
                  => \A n \in 0 .. k : f[n] \subseteq S
<1>1. f[0] = top BY DEF Rounds
<1>2. ASSUME NEW n \in 0 .. k, n # k PROVE f[n + 1] = WithChildren(f[n], scope)
  <2>1. n + 1 \in 0 .. k /\ n + 1 # 0 /\ (n + 1) - 1 = n BY <1>2
  <2> QED BY <2>1 DEF Rounds
<1>3. ASSUME NEW S, top \subseteq S, WithChildren(S, scope) \subseteq S
      PROVE  \A n \in 0 .. k : f[n] \subseteq S
  <2> DEFINE N == {n \in Nat : n <= k => f[n] \subseteq S}
  <2>1. 0 \in N BY <1>1, <1>3
  <2>2. ASSUME NEW n \in Nat, n \in N PROVE n + 1 \in N
    <3>1. SUFFICES ASSUME n + 1 <= k PROVE f[n + 1] \subseteq S OBVIOUS
    <3>2. n \in 0 .. k /\ n # k /\ f[n] \subseteq S BY <2>2, <3>1
    <3> QED BY <1>2, <1>3, <3>2 DEF WithChildren
  <2>3. Nat \subseteq N
    <3> HIDE DEF N
    <3> QED BY <2>1, <2>2, Induction
  <2> QED BY <2>3
<1>4. \A n \in 0 .. k : top \subseteq f[n]
  <2> DEFINE N == {n \in Nat : n <= k => top \subseteq f[n]}
  <2>1. 0 \in N BY <1>1
  <2>2. ASSUME NEW n \in Nat, n \in N PROVE n + 1 \in N
    <3>1. SUFFICES ASSUME n + 1 <= k PROVE top \subseteq f[n + 1] OBVIOUS
    <3>2. n \in 0 .. k /\ n # k /\ top \subseteq f[n] BY <2>2, <3>1
    <3> QED BY <1>2, <3>2 DEF WithChildren
  <2>3. Nat \subseteq N
    <3> HIDE DEF N
    <3> QED BY <2>1, <2>2, Induction
  <2> QED BY <2>3
<1>5. \A n \in 0 .. k : f[n] \subseteq top \cup scope
  <2>1. WithChildren(top \cup scope, scope) \subseteq top \cup scope
    BY DEF WithChildren
  <2> QED BY <1>3, <2>1
<1> QED BY <1>2, <1>3, <1>4, <1>5

\* Within as many rounds as the scope has members, nothing is left to come in.
LEMMA RoundsSettle ==
    ASSUME NEW f, NEW top, NEW scope, IsFiniteSet(scope),
           NEW k \in Nat, Cardinality(scope) <= k, Rounds(f, top, scope, k)
    PROVE  WithChildren(f[k], scope) = f[k]
<1>1. SUFFICES ASSUME WithChildren(f[k], scope) # f[k] PROVE FALSE OBVIOUS
<1>2. \A n \in 0 .. k : n # k => f[n + 1] = WithChildren(f[n], scope) BY RoundsGrow
<1>3. ASSUME NEW n \in 0 .. k, WithChildren(f[n], scope) = f[n] PROVE FALSE
  <2> DEFINE N == {i \in Nat : n + i <= k => f[n + i] = f[n]}
  <2>1. 0 \in N OBVIOUS
  <2>2. ASSUME NEW i \in Nat, i \in N PROVE i + 1 \in N
    <3>1. SUFFICES ASSUME n + (i + 1) <= k PROVE f[n + (i + 1)] = f[n] OBVIOUS
    <3>2. n + i \in 0 .. k /\ n + i # k /\ (n + i) + 1 = n + (i + 1) /\ f[n + i] = f[n]
      BY <2>2, <3>1
    <3> QED BY <1>2, <1>3, <3>2
  <2>3. Nat \subseteq N
    <3> HIDE DEF N
    <3> QED BY <2>1, <2>2, Induction
  <2>4. k - n \in Nat /\ n + (k - n) = k OBVIOUS
  <2>5. k - n \in N BY <2>3, <2>4
  <2>6. f[k] = f[n] BY <2>4, <2>5
  <2> QED BY <1>1, <1>3, <2>6
<1>4. \A X : X \in SUBSET scope => IsFiniteSet(X) /\ Cardinality(X) \in Nat
  BY FS_Subset, FS_CardinalityType
<1> DEFINE Within(n) == f[n] \cap scope
           N == {n \in Nat : n <= k => n <= Cardinality(Within(n))}
<1>5. 0 \in N
  <2>1. Within(0) \in SUBSET scope OBVIOUS
  <2> QED BY <1>4, <2>1
<1>6. ASSUME NEW n \in Nat, n \in N PROVE n + 1 \in N
  <2>1. SUFFICES ASSUME n + 1 <= k PROVE n + 1 <= Cardinality(Within(n + 1)) OBVIOUS
  <2>2. n \in 0 .. k /\ n # k /\ n <= Cardinality(Within(n)) BY <1>6, <2>1
  <2>3. f[n + 1] = WithChildren(f[n], scope) BY <1>2, <2>2
  <2>4. PICK c \in scope : c \notin f[n] /\ c \in f[n + 1] BY <1>3, <2>2, <2>3 DEF WithChildren
  <2>5. Within(n) \cup {c} \subseteq Within(n + 1) /\ c \notin Within(n)
    BY <2>3, <2>4 DEF WithChildren
  <2>6. IsFiniteSet(Within(n)) /\ IsFiniteSet(Within(n + 1)) /\ Cardinality(Within(n)) \in Nat
        /\ Cardinality(Within(n + 1)) \in Nat
    <3>1. Within(n) \in SUBSET scope /\ Within(n + 1) \in SUBSET scope OBVIOUS
    <3> QED BY <1>4, <3>1
  <2> HIDE DEF Within
  <2>7. Cardinality(Within(n) \cup {c}) = Cardinality(Within(n)) + 1 BY <2>5, <2>6, FS_AddElement
  <2>8. Cardinality(Within(n) \cup {c}) <= Cardinality(Within(n + 1)) BY <2>5, <2>6, FS_Subset
  <2> QED BY <2>2, <2>6, <2>7, <2>8
<1>7. k <= Cardinality(Within(k))
  <2> HIDE DEF N
  <2>1. Nat \subseteq N BY <1>5, <1>6, Induction
  <2>2. k \in N BY <2>1
  <2> QED BY <2>2 DEF N
<1>8. Within(k) = scope
  <2>1. Within(k) \in SUBSET scope /\ scope \in SUBSET scope OBVIOUS
  <2>2. Cardinality(Within(k)) <= Cardinality(scope) /\ Cardinality(scope) \in Nat
        /\ Cardinality(Within(k)) \in Nat
    <3> HIDE DEF Within
    <3> QED BY <1>4, <2>1, FS_Subset
  <2>3. Cardinality(Within(k)) = Cardinality(scope) BY <1>7, <2>2
  <2> HIDE DEF Within
  <2> QED BY <2>1, <2>3, FS_Subset
<1> QED BY <1>1, <1>8 DEF WithChildren

\* What k rounds reach is the least set with the top and with the children of its members.
LEMMA RoundsLeast ==
    ASSUME NEW f, NEW top, NEW scope, IsFiniteSet(scope),
           NEW k \in Nat, Cardinality(scope) <= k, Rounds(f, top, scope, k)
    PROVE  /\ top \subseteq f[k] /\ f[k] \subseteq top \cup scope
           /\ \A c \in scope : doc[c].parent \in f[k] => c \in f[k]
           /\ \A S : top \subseteq S /\ (\A c \in scope : doc[c].parent \in S => c \in S)
                  => f[k] \subseteq S
<1>1. k \in 0 .. k OBVIOUS
<1>2. top \subseteq f[k] /\ f[k] \subseteq top \cup scope BY <1>1, RoundsGrow
<1>3. \A c \in scope : doc[c].parent \in f[k] => c \in f[k]
  BY RoundsSettle DEF WithChildren
<1>4. ASSUME NEW S, top \subseteq S, \A c \in scope : doc[c].parent \in S => c \in S
      PROVE  f[k] \subseteq S
  <2>1. WithChildren(S, scope) \subseteq S BY <1>4 DEF WithChildren
  <2> QED BY <1>1, <1>4, <2>1, RoundsGrow
<1> QED BY <1>2, <1>3, <1>4

\* The documents below d are the least set with d and with the children of its members,
\* and what is in it but d hangs below another member.
LEMMA DescendantsLeast ==
    ASSUME NEW d, NEW scope, IsFiniteSet(scope)
    PROVE  LET D == Descendants(d, scope)
           IN  /\ d \in D /\ D \subseteq {d} \cup scope
               /\ \A c \in scope : doc[c].parent \in D => c \in D
               /\ \A c \in D : c # d => c \in scope /\ doc[c].parent \in D
<1> DEFINE k == Cardinality(scope)
           top == {d}
           f == CHOOSE f : Rounds(f, top, scope, k)
           D == Descendants(d, scope)
<1>1. k \in Nat BY FS_CardinalityType
<1>2. Rounds(f, top, scope, k)
  <2> HIDE DEF k, top
  <2> QED BY <1>1, RoundsExist
<1>3. D = f[k] BY DEF Descendants, Rounds, WithChildren
<1> HIDE DEF f, k, top
<1>4. /\ top \subseteq f[k] /\ f[k] \subseteq top \cup scope
      /\ \A c \in scope : doc[c].parent \in f[k] => c \in f[k]
      /\ \A S : top \subseteq S /\ (\A c \in scope : doc[c].parent \in S => c \in S)
                 => f[k] \subseteq S
  <2>1. Cardinality(scope) <= k BY <1>1 DEF k
  <2> QED BY <1>1, <1>2, <2>1, RoundsLeast
<1> USE DEF top
<1> DEFINE S == {c \in f[k] : c = d \/ (c \in scope /\ doc[c].parent \in f[k])}
<1>5. f[k] \subseteq S
  <2>1. top \subseteq S BY <1>4
  <2>2. \A c \in scope : doc[c].parent \in S => c \in S BY <1>4
  <2> HIDE DEF S
  <2> QED BY <1>4, <2>1, <2>2
<1>6. /\ d \in D /\ D \subseteq {d} \cup scope
      /\ \A c \in scope : doc[c].parent \in D => c \in D
      /\ \A c \in D : c # d => c \in scope /\ doc[c].parent \in D
  <2> HIDE DEF D
  <2> QED BY <1>3, <1>4, <1>5
<1> QED BY <1>6

\* A tree of Shown, likewise.
LEMMA ShownLeast ==
    ASSUME NEW u, NEW w, IsFiniteSet(CanEdit(u) \cap In(w))
    PROVE  LET scope == CanEdit(u) \cap In(w)
           IN  /\ \A d \in scope : doc[d].parent = Root => d \in Shown(u, w)
               /\ \A c \in scope :
                     doc[c].parent \in Shown(u, w) /\ doc[doc[c].parent].vis = doc[c].vis
                        => c \in Shown(u, w)
<1> DEFINE scope == CanEdit(u) \cap In(w)
           k == Cardinality(scope)
           top == {d \in scope : doc[d].parent = Root}
           alike == {c \in scope : doc[doc[c].parent].vis = doc[c].vis}
           f == CHOOSE f : Rounds(f, top, alike, k)
<1>1. k \in Nat BY FS_CardinalityType
<1>2. Rounds(f, top, alike, k)
  <2> HIDE DEF k, top, alike
  <2> QED BY <1>1, RoundsExist
<1> DEFINE Step(X) == X \cup {c \in scope : /\ doc[c].parent \in X
                                             /\ doc[doc[c].parent].vis = doc[c].vis}
           Shows(g) == g = [n \in 0 .. k |-> IF n = 0 THEN top ELSE Step(g[n - 1])]
<1>3. Shown(u, w) = f[k]
  <2>1. ASSUME NEW g PROVE Rounds(g, top, alike, k) <=> Shows(g)
    <3>1. \A X : WithChildren(X, alike) = Step(X) BY DEF WithChildren
    <3> HIDE DEF top, alike, k, Step
    <3> QED BY <3>1 DEF Rounds
  <2>2. (CHOOSE g : Rounds(g, top, alike, k)) = CHOOSE g : Shows(g)
    <3> HIDE DEF Shows, top, alike, k
    <3> QED BY <2>1
  <2>3. Shown(u, w) = (CHOOSE g : Shows(g))[k] BY DEF Shown
  <2> HIDE DEF Shows, top, alike, k
  <2> QED BY <2>2, <2>3
<1>4. IsFiniteSet(alike) /\ Cardinality(alike) <= k
  <2>1. alike \in SUBSET scope OBVIOUS
  <2> HIDE DEF alike
  <2> QED BY <2>1, FS_Subset
<1>5. top \subseteq f[k] /\ \A c \in alike : doc[c].parent \in f[k] => c \in f[k]
  <2> HIDE DEF f, k, top, alike
  <2> QED BY <1>1, <1>2, <1>4, RoundsLeast
<1> QED BY <1>3, <1>5

-----------------------------------------------------------------------------
(* The inductive invariant.                                                *)

\* The rows are typed and the foreign keys hold.
DocsOK ==
    /\ doc \in [Docs -> Rows \cup {Unused}]
    /\ \A d \in There : ParentThere(doc[d].parent)

Statuses == {"PENDING", "RUNNING", "SUCCEEDED", "FAILED"}
Queues == {"added", "doubtful", "lost", "none"}
FaultSets == SUBSET {"queue", "status", "restart"}
Jobs == [kind : {"move", "duplicate"}, user : Users, doc : Docs, ws : Workspaces,
         parent : Docs \cup {Root}, vis : Visibilities, status : Statuses, queue : Queues,
         writes : Nat, faults : FaultSets]

\* What Outcome relies on in a request, however old its plan is.
RequestOK(r) ==
    \/ r = Idle
    \/ /\ r.kind = "create" /\ r.user \in Users /\ r.ws \in Workspaces
       /\ r.parent \in Docs \cup {Root} /\ r.vis \in Visibilities
    \/ r.kind = "patch" /\ r.parent \in Docs \cup {Root} /\ r.vis \in Visibilities
    \/ r.kind \in {"trash", "restore", "remove"}

\* A worker knows its job; a plan is a tree, whose members but the root hang in it.
WorkOK(plan) ==
    \/ plan = Idle
    \/ plan.kind = "written" /\ plan.job \in DOMAIN jobs
    \/ /\ plan.kind = "planned" /\ plan.job \in DOMAIN jobs /\ plan.vis \in Visibilities
       /\ DOMAIN plan.rows \subseteq Docs /\ jobs[plan.job].doc \in DOMAIN plan.rows
       /\ \A d \in DOMAIN plan.rows :
             /\ plan.rows[d] \in Rows /\ plan.rows[d].life = "there"
             /\ d # jobs[plan.job].doc => plan.rows[d].parent \in DOMAIN plan.rows

Histories == [overlapped : BOOLEAN, patched : BOOLEAN]

Typed ==
    /\ DocsOK
    /\ jobs \in Seq(Jobs)
    /\ \A c \in Clients : RequestOK(request[c])
    /\ \A w \in Workers : WorkOK(worker[w])
    /\ request = [c \in Clients |-> request[c]]
    /\ worker = [w \in Workers |-> worker[w]]
    /\ history \in Histories

\* What the row j of a job says while its worker does p.
Truthful(j, p) ==
    /\ j.writes \in {0, 1}
    /\ j.status = "PENDING" => j.writes = 0 /\ p = Idle
    /\ j.status = "SUCCEEDED" => j.writes = 1
    /\ j.status = "FAILED" => j.faults # {} \/ (j.writes = 0 /\ p = Idle)
    /\ j.status = "RUNNING" /\ j.writes = 1 => j.faults # {} \/ p.kind = "written"
    /\ p.kind = "planned" => j.writes = 0
    /\ p.kind = "written" => j.writes = 1

\* A job is in the hands of one worker at most, and its row fits what that does.
At(w, i) == worker[w] # Idle /\ worker[w].job = i
Tracked ==
    \A i \in DOMAIN jobs :
        /\ \A v, w \in Workers : At(v, i) /\ At(w, i) => v = w
        /\ \A w \in Workers : At(w, i) => Truthful(jobs[i], worker[w])
        /\ (\A w \in Workers : ~At(w, i)) => Truthful(jobs[i], Idle)

\* What waits to be written is what would be planned now.
Fresh ==
    /\ \A c \in Clients : request[c] # Idle =>
          request[c].user \in Users /\ request[c] \in Plans(request[c].user)
    /\ \A w \in Workers : worker[w].kind = "planned" =>
          Runnable(jobs[worker[w].job]) /\ worker[w] = JobPlan(worker[w].job)

SameSpace ==
    \A d \in There : doc[d].parent # Root => doc[doc[d].parent].ws = doc[d].ws

\* A tree is shared with everyone, or private to one user.
Shared ==
    \A d \in There : doc[d].parent # Root =>
        /\ doc[doc[d].parent].vis = doc[d].vis
        /\ doc[d].vis = "PRIVATE" => doc[doc[d].parent].by = doc[d].by

LiveAbove == \A d \in Live : doc[d].parent \in {Root} \cup Live

\* In every set of documents one hangs below none of them: there is no cycle.
Grounded == \A S \in SUBSET There : S # {} => \E d \in S : doc[d].parent \notin S

Whole == Shared /\ LiveAbove /\ Grounded

IInv ==
    /\ Typed
    /\ Tracked
    /\ Undisturbed => SameSpace /\ Fresh
    /\ MovedByJobsOnly => Whole

-----------------------------------------------------------------------------
(* What the invariant says of the trees.                                   *)

\* There are finitely many documents.
LEMMA DocumentsFinite ==
    ASSUME NEW X, X \subseteq There
    PROVE  IsFiniteSet(X)
<1>1. MaxDocs \in Nat BY TreeAssumption
<1>2. IsFiniteSet(Docs) BY <1>1, FS_Interval DEF Docs
<1>3. X \in SUBSET Docs BY DEF There
<1> QED BY <1>2, <1>3, FS_Subset

\* DescendantsLeast for documents that are there.
LEMMA Below ==
    ASSUME NEW d, NEW scope, scope \subseteq There
    PROVE  LET D == Descendants(d, scope)
           IN  /\ d \in D /\ D \subseteq {d} \cup scope
               /\ \A c \in scope : doc[c].parent \in D => c \in D
               /\ \A c \in D : c # d => c \in scope /\ doc[c].parent \in D
BY DocumentsFinite, DescendantsLeast

\* The fields of a row that is there.
LEMMA RowThere ==
    ASSUME DocsOK, NEW d \in There
    PROVE  /\ d \in Docs /\ d # Root /\ doc[d] \in Rows /\ doc[d].life = "there"
           /\ doc[d].parent \in Docs \cup {Root} /\ doc[d].ws \in Workspaces
           /\ doc[d].vis \in Visibilities /\ doc[d].by \in Users /\ doc[d].trashed \in BOOLEAN
           /\ doc[d].parent = Root \/ doc[d].parent \in There
<1>1. d \in Docs /\ doc[d].life = "there" BY DEF There
<1>2. Unused.life # "there" BY DEF Unused
<1>3. doc[d] \in Rows BY <1>1, <1>2 DEF DocsOK
<1>4. d # Root
  <2>1. MaxDocs \in Nat BY TreeAssumption
  <2> QED BY <1>1, <2>1 DEF Docs, Root
<1> QED BY <1>1, <1>3, <1>4 DEF Rows, DocsOK, ParentThere

\* Without cycles no document is among what lies below it.
LEMMA NoCycleFromGrounded ==
    ASSUME DocsOK, Grounded, NEW d \in There
    PROVE  doc[d].parent \notin Descendants(d, There)
<1> DEFINE D == Descendants(d, There)
<1>1. SUFFICES ASSUME doc[d].parent \in D PROVE FALSE OBVIOUS
<1>2. d \in D /\ D \subseteq There /\ \A c \in D : c # d => doc[c].parent \in D
  BY Below
<1> HIDE DEF D
<1>3. PICK c \in D : doc[c].parent \notin D BY <1>2 DEF Grounded
<1> QED BY <1>1, <1>2, <1>3

\* Who may see a document sees the whole tree it lies in.
LEMMA SeesParent ==
    ASSUME DocsOK, SameSpace, Shared, NEW u \in Users, NEW d \in There, doc[d].parent # Root
    PROVE  /\ doc[d].parent \in There
           /\ doc[doc[d].parent].ws = doc[d].ws
           /\ d \in Visible(u) <=> doc[d].parent \in Visible(u)
<1>1. doc[d].parent \in There /\ doc[doc[d].parent].ws = doc[d].ws BY RowThere DEF SameSpace
<1>2. doc[d].vis \in {"PRIVATE", "WORKSPACE"} BY RowThere DEF Visibilities
<1> QED BY <1>1, <1>2 DEF Shared, Visible

\* Whoever may see a live document finds it in the tree of its workspace: of the
\* documents that are lost to a user, one would hang below none of them.
LEMMA ShowsLive ==
    ASSUME DocsOK, SameSpace, Whole, NEW u \in Users, NEW d \in Visible(u), d \in Live
    PROVE  d \in Shown(u, doc[d].ws)
<1> DEFINE Lost == {e \in CanEdit(u) : e \notin Shown(u, doc[e].ws)}
<1>1. Lost \in SUBSET There BY DEF CanEdit, Live
<1>2. SUFFICES ASSUME Lost # {} PROVE FALSE BY DEF CanEdit
<1>3. PICK e \in Lost : doc[e].parent \notin Lost
  <2> HIDE DEF Lost
  <2> QED BY <1>1, <1>2 DEF Whole, Grounded
<1> DEFINE w == doc[e].ws
           scope == CanEdit(u) \cap In(w)
<1>4. e \in There /\ e \in Live /\ e \in Visible(u) /\ e \in scope BY <1>1, <1>3 DEF CanEdit, In
<1>5. /\ \A x \in scope : doc[x].parent = Root => x \in Shown(u, w)
      /\ \A c \in scope :
            doc[c].parent \in Shown(u, w) /\ doc[doc[c].parent].vis = doc[c].vis
               => c \in Shown(u, w)
  <2>1. IsFiniteSet(scope)
    <3>1. scope \subseteq There BY DEF In
    <3> QED BY <3>1, DocumentsFinite
  <2> QED BY <2>1, ShownLeast
<1>6. CASE doc[e].parent = Root BY <1>3, <1>4, <1>5, <1>6
<1>7. CASE doc[e].parent # Root
  <2>1. doc[e].parent \in CanEdit(u) /\ doc[doc[e].parent].ws = w
    BY <1>4, <1>7, SeesParent DEF CanEdit, Whole, LiveAbove
  <2>2. doc[e].parent \in Shown(u, w) BY <1>3, <2>1
  <2>3. doc[doc[e].parent].vis = doc[e].vis BY <1>4, <1>7 DEF Whole, Shared
  <2> QED BY <1>3, <1>4, <1>5, <2>2, <2>3
<1> QED BY <1>6, <1>7

\* Whoever may see a trashed document finds it below an item of the trash that can be
\* restored, likewise.
LEMMA ShowsTrashed ==
    ASSUME DocsOK, SameSpace, Whole, NEW u \in Users, NEW d \in Visible(u), d \notin Live
    PROVE  \E t \in TrashItems(u, doc[d].ws) : TrashRoot(t) /\ d \in TrashedSubtree(t)
<1> DEFINE Found(e) == \E t \in TrashItems(u, doc[e].ws) : TrashRoot(t) /\ e \in TrashedSubtree(t)
           Lost == {e \in Visible(u) \ Live : ~Found(e)}
<1>1. Lost \in SUBSET There BY DEF Visible
<1>2. SUFFICES ASSUME Lost # {} PROVE FALSE OBVIOUS
<1>3. PICK e \in Lost : doc[e].parent \notin Lost
  <2> HIDE DEF Lost
  <2> QED BY <1>1, <1>2 DEF Whole, Grounded
<1> DEFINE w == doc[e].ws
           p == doc[e].parent
<1>4. e \in There /\ e \notin Live /\ e \in Visible(u) /\ ~Found(e) /\ e \in In(w)
  BY <1>1, <1>3 DEF In
<1>5. In(w) \subseteq There BY DEF In
<1>6. CASE p \in Visible(u) \ Live
  <2>1. p # Root BY <1>6, RowThere DEF Visible
  <2>2. doc[p].ws = w BY <1>4, <2>1, SeesParent DEF Whole
  <2>3. Found(p) BY <1>3, <1>6
  <2>4. PICK t \in TrashItems(u, w) : TrashRoot(t) /\ p \in TrashedSubtree(t)
    BY <2>2, <2>3
  <2>5. doc[t].ws = w BY <2>4 DEF TrashItems, In
  <2>6. e \in TrashedSubtree(t)
    <3>1. p \in Descendants(t, In(w)) BY <2>4, <2>5 DEF TrashedSubtree
    <3>2. e \in Descendants(t, In(w)) BY <1>4, <1>5, <3>1, Below
    <3> QED BY <1>4, <2>5, <3>2 DEF TrashedSubtree
  <2> QED BY <1>4, <2>4, <2>6
<1>7. CASE p \notin Visible(u) \ Live
  <2>1. e \in TrashItems(u, w) BY <1>4, <1>7 DEF TrashItems
  <2>2. TrashRoot(e)
    <3>1. SUFFICES ASSUME p \in In(w) \ Live PROVE FALSE BY DEF TrashRoot
    <3>2. p \in There BY <3>1 DEF In
    <3>3. p # Root BY <3>2, RowThere
    <3> QED BY <1>4, <1>7, <3>1, <3>3, SeesParent DEF Whole
  <2>3. e \in TrashedSubtree(e) BY <1>4, <1>5, Below DEF TrashedSubtree
  <2> QED BY <1>4, <2>1, <2>2, <2>3
<1> QED BY <1>6, <1>7

\* The invariant is strong enough for Forest.
LEMMA InvariantImpliesForest == IInv => Forest
<1> SUFFICES ASSUME IInv PROVE Forest OBVIOUS
<1>1. DocsOK BY DEF IInv, Typed
<1>2. TreeTypeOK
  <2>1. ASSUME NEW i \in DOMAIN jobs
        PROVE  jobs[i].status \in {"PENDING", "RUNNING", "SUCCEEDED", "FAILED"}
    <3>1. jobs[i] \in Jobs BY <2>1 DEF IInv, Typed
    <3> QED BY <3>1 DEF Jobs, Statuses
  <2>2. ASSUME NEW w \in Workers PROVE worker[w].kind \in {"idle", "planned", "written"}
    BY DEF IInv, Typed, WorkOK, Idle
  <2> QED BY <1>1, <2>1, <2>2 DEF TreeTypeOK, DocsOK
<1>3. OneWorkspace BY DEF OneWorkspace, IInv, SameSpace
<1>4. MovedByJobsOnly => SameSpace /\ Whole BY DEF IInv, MovedByJobsOnly, Undisturbed
<1>5. NoCycle BY <1>1, <1>4, NoCycleFromGrounded DEF NoCycle, Whole
<1>6. TrashedTogether BY <1>4 DEF TrashedTogether, Whole, LiveAbove
<1>7. Findable BY <1>1, <1>4, ShowsLive, ShowsTrashed DEF Findable
<1> QED BY <1>2, <1>3, <1>5, <1>6, <1>7 DEF Forest

-----------------------------------------------------------------------------
(* Writes keep the rows typed and the foreign keys.                        *)

\* A row that is there may take other values.
LEMMA NewParent ==
    ASSUME NEW r \in Rows, NEW p \in Docs \cup {Root}
    PROVE  LET q == [r EXCEPT !.parent = p]
           IN  q \in Rows /\ q.life = r.life /\ q.parent = p /\ q.ws = r.ws
               /\ q.vis = r.vis /\ q.by = r.by /\ q.trashed = r.trashed
BY DEF Rows

\* Likewise, its visibility,
LEMMA NewVisibility ==
    ASSUME NEW r \in Rows, NEW v \in Visibilities
    PROVE  LET q == [r EXCEPT !.vis = v]
           IN  q \in Rows /\ q.life = r.life /\ q.parent = r.parent /\ q.ws = r.ws
               /\ q.vis = v /\ q.by = r.by /\ q.trashed = r.trashed
BY DEF Rows

\* its workspace,
LEMMA NewSpace ==
    ASSUME NEW r \in Rows, NEW w \in Workspaces
    PROVE  LET q == [r EXCEPT !.ws = w]
           IN  q \in Rows /\ q.life = r.life /\ q.parent = r.parent /\ q.ws = w
               /\ q.vis = r.vis /\ q.by = r.by /\ q.trashed = r.trashed
BY DEF Rows

\* its creator,
LEMMA NewCreator ==
    ASSUME NEW r \in Rows, NEW u \in Users
    PROVE  LET q == [r EXCEPT !.by = u]
           IN  q \in Rows /\ q.life = r.life /\ q.parent = r.parent /\ q.ws = r.ws
               /\ q.vis = r.vis /\ q.by = u /\ q.trashed = r.trashed
BY DEF Rows

\* its mark in the trash,
LEMMA NewMark ==
    ASSUME NEW r \in Rows, NEW b \in BOOLEAN
    PROVE  LET q == [r EXCEPT !.trashed = b]
           IN  q \in Rows /\ q.life = r.life /\ q.parent = r.parent /\ q.ws = r.ws
               /\ q.vis = r.vis /\ q.by = r.by /\ q.trashed = b
BY DEF Rows

\* and its removal.
LEMMA NewRemoval ==
    ASSUME NEW r \in Rows
    PROVE  LET q == [r EXCEPT !.life = "removed", !.parent = Root]
           IN  q \in Rows /\ q.life = "removed"
BY DEF Rows

\* What every write of rows shows for DocsOK.
LEMMA DocsKept ==
    ASSUME doc' = [d \in Docs |-> doc'[d]],
           \A d \in Docs : doc'[d] \in Rows \cup {Unused},
           \A d \in Docs : doc'[d].life = "there" => doc'[d].parent \in {Root} \cup There'
    PROVE  DocsOK'
BY DEF DocsOK, There, ParentThere

\* Created adds one row.
LEMMA CreatedKeepsDocs ==
    ASSUME DocsOK, NEW r, r.user \in Users, r.ws \in Workspaces,
           r.parent \in Docs \cup {Root}, r.vis \in Visibilities, ParentThere(r.parent),
           \E d \in Docs : doc[d].life = "unused", doc' = Created(r)
    PROVE  /\ DocsOK'
           /\ \E fresh \in Docs :
                 /\ fresh \notin There /\ There' = There \cup {fresh}
                 /\ doc'[fresh] = [life |-> "there", parent |-> r.parent, ws |-> r.ws,
                                   vis |-> r.vis, by |-> r.user, trashed |-> FALSE]
                 /\ \A d \in There : doc'[d] = doc[d]
<1> DEFINE fresh == CHOOSE d \in Docs : doc[d].life = "unused"
           row == [life |-> "there", parent |-> r.parent, ws |-> r.ws,
                   vis |-> r.vis, by |-> r.user, trashed |-> FALSE]
<1>1. fresh \in Docs /\ doc[fresh].life = "unused" OBVIOUS
<1>2. doc' = [doc EXCEPT ![fresh] = row] BY DEF Created
<1> HIDE DEF fresh
<1>3. row \in Rows /\ row.life = "there" /\ row.parent = r.parent BY DEF Rows
<1> HIDE DEF row
<1>4. fresh \notin There BY <1>1 DEF There
<1>5. doc' = [d \in Docs |-> IF d = fresh THEN row ELSE doc[d]] BY <1>2 DEF DocsOK
<1>6. There' = There \cup {fresh} BY <1>1, <1>3, <1>5 DEF There
<1>7. DocsOK'
  <2>1. \A d \in Docs : doc'[d] \in Rows \cup {Unused} BY <1>3, <1>5 DEF DocsOK
  <2>2. ASSUME NEW d \in Docs, doc'[d].life = "there" PROVE doc'[d].parent \in {Root} \cup There'
    <3>1. CASE d = fresh BY <1>3, <1>5, <1>6, <3>1 DEF ParentThere
    <3>2. CASE d # fresh
      <4>1. d \in There /\ doc'[d] = doc[d] BY <1>5, <2>2, <3>2 DEF There
      <4> QED BY <1>6, <4>1 DEF ParentThere, DocsOK
    <3> QED BY <3>1, <3>2
  <2>3. doc' = [d \in Docs |-> doc'[d]] BY <1>5
  <2> QED BY <2>1, <2>2, <2>3, DocsKept
<1>8. doc'[fresh] = row /\ \A d \in There : doc'[d] = doc[d] BY <1>1, <1>4, <1>5 DEF There
<1> QED BY <1>1, <1>4, <1>6, <1>7, <1>8 DEF row

\* Patched hangs one document elsewhere and leaves the others where they are.
LEMMA PatchedKeepsDocs ==
    ASSUME DocsOK, NEW r, r.doc \in There, r.parent \in Docs \cup {Root}, r.vis \in Visibilities,
           ParentThere(r.parent), doc' = Patched(r)
    PROVE  /\ DocsOK' /\ There' = There
           /\ \A d \in There : /\ doc'[d].ws = doc[d].ws
                               /\ doc'[d].parent = IF d = r.doc THEN r.parent ELSE doc[d].parent
<1>1. doc' = [d \in Docs |->
                IF d = r.doc THEN [doc[d] EXCEPT !.parent = r.parent, !.vis = r.vis]
                ELSE IF d \in r.ids \cap There /\ r.vis # r.was THEN [doc[d] EXCEPT !.vis = r.vis]
                ELSE doc[d]] BY DEF Patched
<1>2. ASSUME NEW d \in There
      PROVE  /\ doc'[d] \in Rows /\ doc'[d].life = "there" /\ doc'[d].ws = doc[d].ws
             /\ doc'[d].parent = IF d = r.doc THEN r.parent ELSE doc[d].parent
  <2>1. d \in Docs /\ doc[d] \in Rows /\ doc[d].life = "there" BY RowThere
  <2>2. CASE d = r.doc
    <3>1. doc'[d] = [doc[d] EXCEPT !.parent = r.parent, !.vis = r.vis] BY <1>1, <2>1, <2>2
    <3>2. doc'[d] \in Rows /\ doc'[d].life = doc[d].life /\ doc'[d].parent = r.parent
          /\ doc'[d].ws = doc[d].ws
      <4> DEFINE row == doc[d]
                 p == r.parent
                 v == r.vis
      <4>1. doc'[d] = [row EXCEPT !.parent = p, !.vis = v] BY <3>1
      <4>2. row \in Rows /\ p \in Docs \cup {Root} /\ v \in Visibilities BY <2>1
      <4> HIDE DEF row, p, v
      <4> DEFINE moved == [row EXCEPT !.parent = p]
      <4>3. doc'[d] = [moved EXCEPT !.vis = v] BY <4>1
      <4>4. moved \in Rows /\ moved.life = row.life /\ moved.parent = p /\ moved.ws = row.ws
        BY <4>2, NewParent
      <4> HIDE DEF moved
      <4>5. doc'[d] \in Rows /\ doc'[d].life = row.life /\ doc'[d].parent = p
            /\ doc'[d].ws = row.ws
        BY <4>2, <4>3, <4>4, NewVisibility
      <4> QED BY <4>5 DEF row, p
    <3> QED BY <2>1, <2>2, <3>2
  <2>3. CASE d # r.doc /\ d \in r.ids /\ r.vis # r.was
    <3>1. doc'[d] = [doc[d] EXCEPT !.vis = r.vis] BY <1>1, <2>1, <2>3
    <3> QED BY <2>1, <2>3, <3>1, NewVisibility
  <2>4. CASE d # r.doc /\ ~(d \in r.ids /\ r.vis # r.was)
    <3>1. doc'[d] = doc[d] BY <1>1, <2>1, <2>4
    <3> QED BY <2>1, <2>4, <3>1
  <2> QED BY <2>2, <2>3, <2>4
<1>3. ASSUME NEW d \in Docs, d \notin There PROVE doc'[d] = doc[d] BY <1>1, <1>3
<1>4. There' = There BY <1>2, <1>3 DEF There
<1>5. DocsOK'
  <2>1. \A d \in Docs : doc'[d] \in Rows \cup {Unused} BY <1>2, <1>3 DEF DocsOK
  <2>2. ASSUME NEW d \in Docs, doc'[d].life = "there" PROVE doc'[d].parent \in {Root} \cup There'
    <3>1. d \in There BY <1>3, <2>2 DEF There
    <3> QED BY <1>2, <1>4, <3>1 DEF ParentThere, DocsOK
  <2>3. doc' = [d \in Docs |-> doc'[d]] BY <1>1
  <2> QED BY <2>1, <2>2, <2>3, DocsKept
<1> QED BY <1>2, <1>4, <1>5

\* Marked changes only who is in the trash.
LEMMA MarkedKeepsDocs ==
    ASSUME DocsOK, NEW ids, NEW mark \in BOOLEAN, doc' = Marked(ids, mark)
    PROVE  /\ DocsOK' /\ There' = There
           /\ \A d \in There :
                 /\ doc'[d].parent = doc[d].parent /\ doc'[d].ws = doc[d].ws
                 /\ doc'[d].vis = doc[d].vis /\ doc'[d].by = doc[d].by
                 /\ doc'[d].trashed = IF d \in ids THEN mark ELSE doc[d].trashed
<1>1. doc' = [d \in Docs |-> IF d \in ids \cap There
                             THEN [doc[d] EXCEPT !.trashed = mark] ELSE doc[d]] BY DEF Marked
<1>2. ASSUME NEW d \in There
      PROVE  /\ doc'[d] \in Rows /\ doc'[d].life = "there"
             /\ doc'[d].parent = doc[d].parent /\ doc'[d].ws = doc[d].ws
             /\ doc'[d].vis = doc[d].vis /\ doc'[d].by = doc[d].by
             /\ doc'[d].trashed = IF d \in ids THEN mark ELSE doc[d].trashed
  <2>1. d \in Docs /\ doc[d] \in Rows /\ doc[d].life = "there" BY RowThere
  <2>2. CASE d \in ids
    <3>1. doc'[d] = [doc[d] EXCEPT !.trashed = mark] BY <1>1, <2>1, <2>2
    <3> QED BY <2>1, <2>2, <3>1, NewMark
  <2>3. CASE d \notin ids BY <1>1, <2>1, <2>3
  <2> QED BY <2>2, <2>3
<1>3. ASSUME NEW d \in Docs, d \notin There PROVE doc'[d] = doc[d] BY <1>1, <1>3
<1>4. There' = There BY <1>2, <1>3 DEF There
<1>5. DocsOK'
  <2>1. \A d \in Docs : doc'[d] \in Rows \cup {Unused} BY <1>2, <1>3 DEF DocsOK
  <2>2. ASSUME NEW d \in Docs, doc'[d].life = "there" PROVE doc'[d].parent \in {Root} \cup There'
    <3>1. d \in There BY <1>3, <2>2 DEF There
    <3> QED BY <1>2, <1>4, <3>1 DEF ParentThere, DocsOK
  <2>3. doc' = [d \in Docs |-> doc'[d]] BY <1>1
  <2> QED BY <2>1, <2>2, <2>3, DocsKept
<1> QED BY <1>2, <1>4, <1>5

\* Removed takes the rows and lets go of their children.
LEMMA RemovedKeepsDocs ==
    ASSUME DocsOK, NEW ids, doc' = Removed(ids)
    PROVE  /\ DocsOK' /\ There' = There \ ids
           /\ \A d \in There' :
                 /\ doc'[d].parent = IF doc[d].parent \in ids THEN Root ELSE doc[d].parent
                 /\ doc'[d].ws = doc[d].ws /\ doc'[d].vis = doc[d].vis
                 /\ doc'[d].by = doc[d].by /\ doc'[d].trashed = doc[d].trashed
<1>1. doc' = [d \in Docs |->
                IF d \in ids \cap There THEN [doc[d] EXCEPT !.life = "removed", !.parent = Root]
                ELSE IF doc[d].parent \in ids THEN [doc[d] EXCEPT !.parent = Root]
                ELSE doc[d]] BY DEF Removed
<1>2. ASSUME NEW d \in There \ ids
      PROVE  /\ doc'[d] \in Rows /\ doc'[d].life = "there"
             /\ doc'[d].parent = IF doc[d].parent \in ids THEN Root ELSE doc[d].parent
             /\ doc'[d].ws = doc[d].ws /\ doc'[d].vis = doc[d].vis
             /\ doc'[d].by = doc[d].by /\ doc'[d].trashed = doc[d].trashed
  <2>1. d \in Docs /\ doc[d] \in Rows /\ doc[d].life = "there" BY RowThere
  <2>2. CASE doc[d].parent \in ids
    <3>1. doc'[d] = [doc[d] EXCEPT !.parent = Root] BY <1>1, <2>1, <2>2
    <3> QED BY <2>1, <2>2, <3>1, NewParent
  <2>3. CASE doc[d].parent \notin ids BY <1>1, <2>1, <2>3
  <2> QED BY <2>2, <2>3
<1>3. ASSUME NEW d \in There \cap ids PROVE doc'[d] \in Rows /\ doc'[d].life = "removed"
  <2>1. d \in Docs /\ doc[d] \in Rows /\ doc[d].life = "there" BY RowThere
  <2>2. doc'[d] = [doc[d] EXCEPT !.life = "removed", !.parent = Root] BY <1>1, <2>1
  <2> QED BY <2>1, <2>2, NewRemoval
<1>4. ASSUME NEW d \in Docs, d \notin There
      PROVE  doc'[d] \in Rows \cup {Unused} /\ doc'[d].life # "there"
  <2>1. doc[d] \in Rows \cup {Unused} /\ doc[d].life # "there" BY <1>4 DEF There, DocsOK
  <2>2. CASE doc[d].parent \notin ids BY <1>1, <1>4, <2>1, <2>2
  <2>3. CASE doc[d].parent \in ids
    <3>1. doc'[d] = [doc[d] EXCEPT !.parent = Root] BY <1>1, <1>4, <2>3
    <3>2. CASE doc[d] \in Rows
      <4>1. Root \in Docs \cup {Root} OBVIOUS
      <4> QED BY <2>1, <3>1, <3>2, <4>1, NewParent
    <3>3. CASE doc[d] = Unused BY <2>1, <3>1, <3>3 DEF Unused
    <3> QED BY <2>1, <3>2, <3>3
  <2> QED BY <2>2, <2>3
<1>5. There' = There \ ids
  <2>1. There \subseteq Docs BY DEF There
  <2> QED BY <1>2, <1>3, <1>4, <2>1 DEF There
<1>6. DocsOK'
  <2>1. \A d \in Docs : doc'[d] \in Rows \cup {Unused} BY <1>2, <1>3, <1>4
  <2>2. ASSUME NEW d \in Docs, doc'[d].life = "there" PROVE doc'[d].parent \in {Root} \cup There'
    <3>1. d \in There \ ids BY <1>5, <2>2 DEF There
    <3> QED BY <1>2, <1>5, <3>1, RowThere DEF ParentThere
  <2>3. doc' = [d \in Docs |-> doc'[d]] BY <1>1
  <2> QED BY <2>1, <2>2, <2>3, DocsKept
<1> QED BY <1>2, <1>5, <1>6

\* MovedTree hangs the root elsewhere and gives every row of the plan its place.
LEMMA MovedKeepsDocs ==
    ASSUME DocsOK, NEW j, NEW plan, j.doc \in There, j.doc \in DOMAIN plan.rows,
           j.parent \in Docs \cup {Root}, j.ws \in Workspaces, plan.vis \in Visibilities,
           ParentThere(j.parent), doc' = MovedTree(j, plan)
    PROVE  /\ DocsOK' /\ There' = There
           /\ \A d \in There :
                 /\ doc'[d].parent = IF d = j.doc THEN j.parent ELSE doc[d].parent
                 /\ doc'[d].ws = IF d \in DOMAIN plan.rows THEN j.ws ELSE doc[d].ws
                 /\ doc'[d].vis = IF d \in DOMAIN plan.rows THEN plan.vis ELSE doc[d].vis
                 /\ doc'[d].by = doc[d].by /\ doc'[d].trashed = doc[d].trashed
<1> DEFINE ids == DOMAIN plan.rows
           Place(d) == IF d = j.doc THEN j.parent ELSE doc[d].parent
<1>1. ASSUME NEW d \in There
      PROVE  /\ doc'[d] \in Rows /\ doc'[d].life = "there" /\ doc'[d].parent = Place(d)
             /\ doc'[d].ws = IF d \in ids THEN j.ws ELSE doc[d].ws
             /\ doc'[d].vis = IF d \in ids THEN plan.vis ELSE doc[d].vis
             /\ doc'[d].by = doc[d].by /\ doc'[d].trashed = doc[d].trashed
  <2>1. d \in Docs /\ doc[d] \in Rows /\ doc[d].life = "there" BY RowThere
  <2>2. CASE d \notin ids BY <2>1, <2>2 DEF MovedTree
  <2>3. CASE d \in ids
    <3> DEFINE row == doc[d]
               w == j.ws
               v == plan.vis
               p == Place(d)
               q1 == [row EXCEPT !.ws = w]
               q2 == [q1 EXCEPT !.vis = v]
               q3 == [q2 EXCEPT !.parent = p]
    <3>1. row \in Rows /\ w \in Workspaces /\ v \in Visibilities /\ p \in Docs \cup {Root}
      BY <2>1, RowThere
    <3>2. doc'[d] = [row EXCEPT !.ws = w, !.vis = v,
                                !.parent = IF d = j.doc THEN j.parent ELSE @]
      BY <2>1, <2>3 DEF MovedTree
    <3> HIDE DEF w, v
    <3>3. /\ q1 \in Rows /\ q1.life = row.life /\ q1.parent = row.parent /\ q1.ws = w
          /\ q1.vis = row.vis /\ q1.by = row.by /\ q1.trashed = row.trashed
      <4> HIDE DEF row
      <4> QED BY <3>1, NewSpace
    <3>4. q2 \in Rows /\ q2.life = row.life /\ q2.parent = row.parent /\ q2.ws = w
          /\ q2.vis = v /\ q2.by = row.by /\ q2.trashed = row.trashed
      <4> HIDE DEF row, q1
      <4> QED BY <3>1, <3>3, NewVisibility
    <3>5. q3 \in Rows /\ q3.life = row.life /\ q3.parent = p /\ q3.ws = w
          /\ q3.vis = v /\ q3.by = row.by /\ q3.trashed = row.trashed
      <4> HIDE DEF row, q2, p
      <4> QED BY <3>1, <3>4, NewParent
    <3>6. doc'[d] = q3
      <4>1. CASE d = j.doc BY <3>2, <4>1
      <4>2. CASE d # j.doc
        <5>1. doc'[d] = [q2 EXCEPT !.parent = q2.parent] BY <3>2, <4>2
        <5> HIDE DEF q2
        <5> QED BY <3>4, <4>2, <5>1
      <4> QED BY <4>1, <4>2
    <3> HIDE DEF q3, p
    <3> QED BY <2>1, <2>3, <3>5, <3>6 DEF w, v, p
  <2> QED BY <2>2, <2>3
<1>2. ASSUME NEW d \in Docs, d \notin There PROVE doc'[d] = doc[d] BY <1>2 DEF MovedTree
<1>3. There' = There BY <1>1, <1>2 DEF There
<1>4. DocsOK'
  <2>1. \A d \in Docs : doc'[d] \in Rows \cup {Unused} BY <1>1, <1>2 DEF DocsOK
  <2>2. ASSUME NEW d \in Docs, doc'[d].life = "there" PROVE doc'[d].parent \in {Root} \cup There'
    <3>1. d \in There BY <1>2, <2>2 DEF There
    <3> QED BY <1>1, <1>3, <3>1 DEF ParentThere, DocsOK
  <2>3. doc' = [d \in Docs |-> doc'[d]] BY DEF MovedTree
  <2> QED BY <2>1, <2>2, <2>3, DocsKept
<1> QED BY <1>1, <1>3, <1>4

\* When they fit, every document of a tree gets an unused id of its own.
LEMMA CopiesDiffer ==
    ASSUME NEW ids \in SUBSET Docs, Fits(ids)
    PROVE  /\ Copies(ids) \in [ids -> {d \in Docs : doc[d].life = "unused"}]
           /\ \A s, t \in ids : Copies(ids)[s] = Copies(ids)[t] => s = t
<1> DEFINE unused == {d \in Docs : doc[d].life = "unused"}
           Own(f) == \A s, t \in ids : f[s] = f[t] => s = t
           n == Cardinality(ids)
           m == Cardinality(unused)
<1>1. IsFiniteSet(ids) /\ IsFiniteSet(unused)
  <2>1. MaxDocs \in Nat BY TreeAssumption
  <2>2. IsFiniteSet(Docs) BY <2>1, FS_Interval DEF Docs
  <2>3. unused \in SUBSET Docs OBVIOUS
  <2> QED BY <2>2, <2>3, FS_Subset
<1>2. n \in Nat /\ m \in Nat /\ ExistsBijection(1 .. n, ids) /\ ExistsBijection(1 .. m, unused)
  <2> HIDE DEF unused
  <2> QED BY <1>1, FS_CardinalityType
<1>3. n <= m BY DEF Fits
<1> HIDE DEF unused, n, m
<1>4. ExistsBijection(ids, 1 .. n) BY <1>2, Fun_ExistsBijSymmetric
<1>5. ExistsInjection(ids, 1 .. n) BY <1>4 DEF ExistsBijection, Bijection, ExistsInjection
<1>6. ExistsInjection(1 .. m, unused) BY <1>2 DEF ExistsBijection, Bijection, ExistsInjection
<1>7. ExistsInjection(1 .. n, 1 .. m) BY <1>2, <1>3, Fun_NatInjLeq
<1>8. ExistsInjection(ids, 1 .. m) BY <1>5, <1>7, Fun_ExistsInjTransitive
<1>9. ExistsInjection(ids, unused) BY <1>6, <1>8, Fun_ExistsInjTransitive
<1>10. \E f \in [ids -> unused] : Own(f)
  <2>1. PICK f : f \in Injection(ids, unused) BY <1>9 DEF ExistsInjection
  <2> QED BY <2>1, Fun_InjectionProperties
<1>11. Copies(ids) = CHOOSE f \in [ids -> unused] : Own(f) BY DEF Copies, unused
<1> HIDE DEF Own
<1>12. Copies(ids) \in [ids -> unused] /\ Own(Copies(ids)) BY <1>10, <1>11
<1> QED BY <1>12 DEF Own, unused

\* The rows of a plan hang together below the document of its job.
TreeOf(j, plan) ==
    /\ j.user \in Users /\ j.doc \in DOMAIN plan.rows /\ DOMAIN plan.rows \in SUBSET Docs
    /\ \A d \in DOMAIN plan.rows :
          /\ plan.rows[d] \in Rows /\ plan.rows[d].life = "there"
          /\ d # j.doc => plan.rows[d].parent \in DOMAIN plan.rows

\* What a duplicate has added: a copy of every row, below the copy of its parent.
CopiedTo(j, plan, copy) ==
    /\ \A s \in DOMAIN plan.rows : copy[s] \in Docs /\ copy[s] \notin There
    /\ \A s, t \in DOMAIN plan.rows : copy[s] = copy[t] => s = t
    /\ There' = There \cup {copy[s] : s \in DOMAIN plan.rows}
    /\ \A d \in There : doc'[d] = doc[d]
    /\ \A s \in DOMAIN plan.rows :
          /\ doc'[copy[s]].parent = IF s = j.doc THEN plan.rows[s].parent
                                    ELSE copy[plan.rows[s].parent]
          /\ doc'[copy[s]].ws = plan.rows[s].ws /\ doc'[copy[s]].vis = plan.rows[s].vis
          /\ doc'[copy[s]].by = j.user /\ doc'[copy[s]].trashed = FALSE

\* CopiedTree adds a copy of every row of the plan.
LEMMA CopiedKeepsDocs ==
    ASSUME DocsOK, NEW j, NEW plan, TreeOf(j, plan), Fits(DOMAIN plan.rows),
           ParentThere(plan.rows[j.doc].parent),
           doc' = CopiedTree(j, plan, Copies(DOMAIN plan.rows))
    PROVE  DocsOK' /\ CopiedTo(j, plan, Copies(DOMAIN plan.rows))
<1>0. /\ j.user \in Users /\ j.doc \in DOMAIN plan.rows /\ DOMAIN plan.rows \in SUBSET Docs
      /\ \A d \in DOMAIN plan.rows :
            /\ plan.rows[d] \in Rows /\ plan.rows[d].life = "there"
            /\ d # j.doc => plan.rows[d].parent \in DOMAIN plan.rows
  BY DEF TreeOf
<1> DEFINE ids == DOMAIN plan.rows
           copy == Copies(ids)
           Place(s) == IF s = j.doc THEN plan.rows[s].parent ELSE copy[plan.rows[s].parent]
<1>1. /\ copy \in [ids -> {d \in Docs : doc[d].life = "unused"}]
      /\ \A s, t \in ids : copy[s] = copy[t] => s = t
  BY <1>0, CopiesDiffer
<1>2. \A s \in ids : copy[s] \in Docs /\ copy[s] \notin There /\ doc[copy[s]].life = "unused"
  BY <1>1 DEF There
<1>3. doc' = CopiedTree(j, plan, copy) OBVIOUS
<1> HIDE DEF copy
<1>4. ASSUME NEW s \in ids
      PROVE  /\ doc'[copy[s]] \in Rows /\ doc'[copy[s]].life = "there"
             /\ doc'[copy[s]].parent = Place(s)
             /\ doc'[copy[s]].ws = plan.rows[s].ws /\ doc'[copy[s]].vis = plan.rows[s].vis
             /\ doc'[copy[s]].by = j.user /\ doc'[copy[s]].trashed = FALSE
  <2> DEFINE row == plan.rows[s]
             u == j.user
             p == Place(s)
             q1 == [row EXCEPT !.by = u]
             q2 == [q1 EXCEPT !.trashed = FALSE]
             q3 == [q2 EXCEPT !.parent = p]
  <2>1. s = CHOOSE t \in ids : copy[t] = copy[s] BY <1>1
  <2>2. doc'[copy[s]] = q3
    <3>1. copy[s] \in Docs /\ \E t \in ids : copy[t] = copy[s] BY <1>2
    <3>2. doc'[copy[s]] =
            LET t == CHOOSE t \in ids : copy[t] = copy[s]
                parent == plan.rows[t].parent
            IN  [plan.rows[t] EXCEPT !.by = j.user, !.trashed = FALSE,
                                     !.parent = IF t = j.doc THEN parent ELSE copy[parent]]
      BY <1>3, <3>1 DEF CopiedTree
    <3> QED BY <2>1, <3>2
  <2>3. row \in Rows /\ row.life = "there" /\ u \in Users /\ p \in Docs \cup {Root}
    <3>1. row \in Rows /\ row.life = "there" /\ row.parent \in Docs \cup {Root} BY <1>0 DEF Rows
    <3> QED BY <1>0, <1>2, <3>1
  <2> HIDE DEF u
  <2>4. q1 \in Rows /\ q1.life = row.life /\ q1.parent = row.parent /\ q1.ws = row.ws
        /\ q1.vis = row.vis /\ q1.by = u /\ q1.trashed = row.trashed
    <3> HIDE DEF row
    <3> QED BY <2>3, NewCreator
  <2>5. q2 \in Rows /\ q2.life = row.life /\ q2.parent = row.parent /\ q2.ws = row.ws
        /\ q2.vis = row.vis /\ q2.by = u /\ q2.trashed = FALSE
    <3> HIDE DEF row, q1
    <3> QED BY <2>4, NewMark
  <2>6. q3 \in Rows /\ q3.life = row.life /\ q3.parent = p /\ q3.ws = row.ws
        /\ q3.vis = row.vis /\ q3.by = u /\ q3.trashed = FALSE
    <3> HIDE DEF row, q2, p
    <3> QED BY <2>3, <2>5, NewParent
  <2> HIDE DEF q3
  <2> QED BY <2>2, <2>3, <2>6 DEF u
<1>5. ASSUME NEW d \in Docs, \A s \in ids : copy[s] # d PROVE doc'[d] = doc[d]
  BY <1>3, <1>5 DEF CopiedTree
<1>6. There' = There \cup {copy[s] : s \in ids}
  <2>1. \A s \in ids : copy[s] \in There' BY <1>2, <1>4 DEF There
  <2>2. ASSUME NEW d \in Docs, \A s \in ids : copy[s] # d PROVE d \in There' <=> d \in There
    BY <1>5, <2>2 DEF There
  <2>3. There \subseteq Docs /\ There' \subseteq Docs BY DEF There
  <2>4. \A d \in There : \A s \in ids : copy[s] # d BY <1>2
  <2> QED BY <2>1, <2>2, <2>3, <2>4
<1>7. \A d \in There : doc'[d] = doc[d] BY <1>2, <1>5 DEF There
<1>8. DocsOK'
  <2>1. \A d \in Docs : doc'[d] \in Rows \cup {Unused} BY <1>4, <1>5 DEF DocsOK
  <2>2. ASSUME NEW d \in Docs, doc'[d].life = "there" PROVE doc'[d].parent \in {Root} \cup There'
    <3>1. CASE \E s \in ids : copy[s] = d
      <4>1. PICK s \in ids : copy[s] = d BY <3>1
      <4>2. Place(s) \in {Root} \cup There \cup {copy[t] : t \in ids} BY <1>0 DEF ParentThere
      <4> QED BY <1>4, <1>6, <4>1, <4>2
    <3>2. CASE \A s \in ids : copy[s] # d
      <4>1. d \in There /\ doc'[d] = doc[d] BY <1>5, <2>2, <3>2 DEF There
      <4> QED BY <1>6, <4>1 DEF ParentThere, DocsOK
    <3> QED BY <3>1, <3>2
  <2>3. doc' = [d \in Docs |-> doc'[d]] BY <1>3 DEF CopiedTree
  <2> QED BY <2>1, <2>2, <2>3, DocsKept
<1>9. \A s \in ids :
          /\ doc'[copy[s]].parent = Place(s)
          /\ doc'[copy[s]].ws = plan.rows[s].ws /\ doc'[copy[s]].vis = plan.rows[s].vis
          /\ doc'[copy[s]].by = j.user /\ doc'[copy[s]].trashed = FALSE
  BY <1>4
<1> QED BY <1>1, <1>2, <1>6, <1>7, <1>8, <1>9 DEF copy, CopiedTo

-----------------------------------------------------------------------------
(* What is planned, by kind.                                               *)

CreatesWell(u, r) ==
    /\ r.kind = "create" /\ r.user = u /\ r.ws \in Workspaces /\ r.vis \in Visibilities
    /\ \/ r.parent = Root
       \/ r.parent \in CanEdit(u) /\ r.ws = doc[r.parent].ws /\ r.vis = doc[r.parent].vis

PatchesWell(u, r) ==
    /\ r.kind = "patch" /\ r.user = u /\ r.doc \in CanEdit(u)
    /\ r.vis \in Visibilities
    /\ \/ r.parent = Root
       \/ r.parent \in CanEdit(u) /\ doc[r.parent].ws = doc[r.doc].ws

TrashesWell(u, r) ==
    /\ r.kind = "trash" /\ r.user = u
    /\ \E D \in SUBSET CanEdit(u) :
          r.ids = UNION {Descendants(d, CanEdit(u) \cap In(doc[d].ws)) : d \in D}

RestoresWell(u, r) ==
    /\ r.kind = "restore" /\ r.user = u
    /\ \E d \in There : d \notin Live /\ TrashRoot(d) /\ r.ids = TrashedSubtree(d)

RemovesWell(u, r) ==
    /\ r.kind = "remove" /\ r.user = u
    /\ \/ \E d \in There : d \notin Live /\ TrashRoot(d) /\ r.ids = TrashedSubtree(d)
       \/ \E d \in CanEdit(u) : r.ids = Descendants(d, Visible(u) \cap In(doc[d].ws))

\* A plan that was just made is well made for its kind.
LEMMA PlannedWell ==
    ASSUME DocsOK, NEW u \in Users, NEW r \in Plans(u)
    PROVE  CreatesWell(u, r) \/ PatchesWell(u, r) \/ TrashesWell(u, r)
           \/ RestoresWell(u, r) \/ RemovesWell(u, r)
<1>1. CanEdit(u) \subseteq There /\ Visible(u) \subseteq There BY DEF CanEdit, Visible
<1>2. \A d \in There : /\ d \in Docs /\ doc[d].ws \in Workspaces /\ doc[d].vis \in Visibilities
                       /\ d \in Live \/ d \notin Live
  BY RowThere
<1>3. CASE r \in PlanCreates(u) BY <1>1, <1>2, <1>3 DEF PlanCreates, CreatesWell
<1>4. CASE r \in PlanTrashes(u)
  <2>1. PICK D \in Deletable(u) :
            r = [kind |-> "trash", user |-> u,
                 ids |-> UNION {Descendants(d, CanEdit(u) \cap In(doc[d].ws)) : d \in D}]
    BY <1>4 DEF PlanTrashes
  <2>2. D \in SUBSET CanEdit(u) BY DEF Deletable
  <2>3. r.kind = "trash" /\ r.user = u
        /\ r.ids = UNION {Descendants(d, CanEdit(u) \cap In(doc[d].ws)) : d \in D}
    BY <2>1
  <2> QED BY <2>2, <2>3 DEF TrashesWell
<1>5. CASE r \in PlanRestores(u)
  <2>1. PICK d \in CanManageTrashed(u) :
            TrashRoot(d) /\ r = [kind |-> "restore", user |-> u, ids |-> TrashedSubtree(d)]
    BY <1>5 DEF PlanRestores
  <2>2. d \in There /\ d \notin Live BY <1>1 DEF CanManageTrashed
  <2>3. r.kind = "restore" /\ r.user = u /\ r.ids = TrashedSubtree(d) BY <2>1
  <2> QED BY <2>1, <2>2, <2>3 DEF RestoresWell
<1>6. CASE r \in PlanRemoves(u)
  <2>1. CASE \E d \in CanManageTrashed(u) :
                TrashRoot(d) /\ r = [kind |-> "remove", user |-> u, ids |-> TrashedSubtree(d)]
    <3>1. PICK d \in CanManageTrashed(u) :
            TrashRoot(d) /\ r = [kind |-> "remove", user |-> u, ids |-> TrashedSubtree(d)] BY <2>1
    <3>2. d \in There /\ d \notin Live BY <1>1 DEF CanManageTrashed
    <3>3. r.kind = "remove" /\ r.user = u /\ r.ids = TrashedSubtree(d) BY <3>1
    <3> QED BY <3>1, <3>2, <3>3 DEF RemovesWell
  <2>2. CASE \E d \in CanEdit(u) :
                r = [kind |-> "remove", user |-> u,
                     ids |-> Descendants(d, Visible(u) \cap In(doc[d].ws))]
    <3>1. PICK d \in CanEdit(u) :
                r = [kind |-> "remove", user |-> u,
                     ids |-> Descendants(d, Visible(u) \cap In(doc[d].ws))] BY <2>2
    <3>2. r.kind = "remove" /\ r.user = u
          /\ r.ids = Descendants(d, Visible(u) \cap In(doc[d].ws)) BY <3>1
    <3> QED BY <3>2 DEF RemovesWell
  <2> QED BY <1>6, <2>1, <2>2 DEF PlanRemoves
<1>7. CASE r \in PlanPatches(u)
  <2>0. PICK d \in CanEdit(u) : \E t \in PatchTargets(u, d) :
            r = [kind |-> "patch", user |-> u, doc |-> d, parent |-> t.parent, vis |-> t.vis,
                 was |-> doc[d].vis,
                 ids |-> Descendants(d, CanEdit(u) \cap In(doc[d].ws)) \ {d}]
    BY <1>7 DEF PlanPatches
  <2>1. PICK t \in PatchTargets(u, d) :
            r = [kind |-> "patch", user |-> u, doc |-> d, parent |-> t.parent, vis |-> t.vis,
                 was |-> doc[d].vis,
                 ids |-> Descendants(d, CanEdit(u) \cap In(doc[d].ws)) \ {d}]
    BY <2>0
  <2>2. /\ t.vis \in Visibilities
        /\ \/ t.parent = Root
           \/ t.parent \in CanEdit(u) /\ doc[t.parent].ws = doc[d].ws
    <3>1. \/ \E p \in CanEdit(u) : doc[p].ws = doc[d].ws /\ t = [parent |-> p, vis |-> doc[p].vis]
          \/ \E v \in Visibilities : t = [parent |-> Root, vis |-> v]
      BY DEF PatchTargets
    <3>2. CASE \E p \in CanEdit(u) :
                  doc[p].ws = doc[d].ws /\ t = [parent |-> p, vis |-> doc[p].vis]
      BY <1>1, <1>2, <3>2
    <3>3. CASE \E v \in Visibilities : t = [parent |-> Root, vis |-> v] BY <3>3
    <3> QED BY <3>1, <3>2, <3>3
  <2>4. /\ r.kind = "patch" /\ r.user = u /\ r.doc = d /\ r.parent = t.parent /\ r.vis = t.vis
    BY <2>1
  <2> QED BY <2>2, <2>4 DEF PatchesWell
<1> QED BY <1>3, <1>4, <1>5, <1>6, <1>7 DEF Plans

-----------------------------------------------------------------------------
(* A fresh plan keeps the trees whole.                                     *)

\* A created document takes over what its parent has.
LEMMA CreateKeepsTrees ==
    ASSUME DocsOK, SameSpace, NEW u \in Users, NEW r, CreatesWell(u, r),
           \E d \in Docs : doc[d].life = "unused", doc' = Created(r)
    PROVE  DocsOK' /\ SameSpace' /\ (Whole => Whole')
<1>1. r.parent = Root \/ r.parent \in There BY DEF CreatesWell, CanEdit, Live
<1>2. /\ r.user \in Users /\ r.ws \in Workspaces /\ r.parent \in Docs \cup {Root}
      /\ r.vis \in Visibilities /\ ParentThere(r.parent)
  BY <1>1 DEF CreatesWell, ParentThere, There
<1>3. DocsOK' BY <1>2, CreatedKeepsDocs
<1>4. PICK fresh \in Docs :
          /\ fresh \notin There /\ There' = There \cup {fresh}
          /\ doc'[fresh] = [life |-> "there", parent |-> r.parent, ws |-> r.ws,
                            vis |-> r.vis, by |-> r.user, trashed |-> FALSE]
          /\ \A d \in There : doc'[d] = doc[d]
  BY <1>2, CreatedKeepsDocs
<1>5. /\ doc'[fresh].parent = r.parent /\ doc'[fresh].ws = r.ws /\ doc'[fresh].vis = r.vis
      /\ doc'[fresh].by = u /\ doc'[fresh].trashed = FALSE
  BY <1>4 DEF CreatesWell
<1>6. \A d \in There : doc[d].parent = Root \/ doc[d].parent \in There BY RowThere
<1>7. fresh # Root
  <2>1. MaxDocs \in Nat BY TreeAssumption
  <2> QED BY <1>4, <2>1 DEF Docs, Root
<1>8. SameSpace' BY <1>1, <1>4, <1>5, <1>6 DEF SameSpace, CreatesWell
<1>9. ASSUME Whole PROVE Shared'
  <2>1. ASSUME r.parent # Root, r.vis = "PRIVATE" PROVE doc[r.parent].by = u
    BY <2>1 DEF CreatesWell, CanEdit, Visible
  <2> QED BY <1>1, <1>4, <1>5, <1>6, <1>9, <2>1 DEF Whole, Shared, CreatesWell
<1>10. ASSUME Whole PROVE LiveAbove'
  <2>1. Live' = Live \cup {fresh} BY <1>4, <1>5 DEF Live
  <2>2. r.parent \in {Root} \cup Live BY DEF CreatesWell, CanEdit
  <2>3. Live \subseteq There BY DEF Live
  <2> QED BY <1>4, <1>5, <1>10, <2>1, <2>2, <2>3 DEF Whole, LiveAbove
<1>11. ASSUME Whole PROVE Grounded'
  <2>1. ASSUME NEW S \in SUBSET There', S # {} PROVE \E d \in S : doc'[d].parent \notin S
    <3>1. CASE S = {fresh} BY <1>1, <1>4, <1>5, <1>7, <3>1
    <3>2. CASE S # {fresh}
      <4>1. S \ {fresh} \in SUBSET There /\ S \ {fresh} # {} BY <1>4, <2>1, <3>2
      <4>2. PICK d \in S \ {fresh} : doc[d].parent \notin S \ {fresh}
        BY <1>11, <4>1 DEF Whole, Grounded
      <4> QED BY <1>4, <1>6, <1>7, <4>1, <4>2
    <3> QED BY <3>1, <3>2
  <2> QED BY <2>1 DEF Grounded
<1> QED BY <1>3, <1>8, <1>9, <1>10, <1>11 DEF Whole

\* Patching may part what was shared, but keeps a tree in its workspace.
LEMMA PatchKeepsSpace ==
    ASSUME DocsOK, SameSpace, NEW u \in Users, NEW r, PatchesWell(u, r), doc' = Patched(r)
    PROVE  DocsOK' /\ SameSpace'
<1>1. CanEdit(u) \subseteq There BY DEF CanEdit, Live
<1>2. /\ r.doc \in There /\ r.vis \in Visibilities
      /\ r.parent \in Docs \cup {Root} /\ ParentThere(r.parent)
  BY <1>1 DEF PatchesWell, ParentThere, There
<1>3. /\ DocsOK' /\ There' = There
      /\ \A d \in There : /\ doc'[d].ws = doc[d].ws
                          /\ doc'[d].parent = IF d = r.doc THEN r.parent ELSE doc[d].parent
  BY <1>2, PatchedKeepsDocs
<1>4. SameSpace'
  <2>1. ASSUME NEW d \in There, doc'[d].parent # Root
        PROVE  doc'[doc'[d].parent].ws = doc'[d].ws
    <3>1. CASE d = r.doc BY <1>1, <1>3, <2>1, <3>1 DEF PatchesWell
    <3>2. CASE d # r.doc BY <1>3, <2>1, <3>2, RowThere DEF SameSpace
    <3> QED BY <3>1, <3>2
  <2> QED BY <1>3, <2>1 DEF SameSpace
<1> QED BY <1>3, <1>4

\* Documents that keep their place, visibility and creator are as whole as before.
LEMMA PlaceKept ==
    ASSUME DocsOK, There' = There,
           \A d \in There : /\ doc'[d].parent = doc[d].parent /\ doc'[d].ws = doc[d].ws
                            /\ doc'[d].vis = doc[d].vis /\ doc'[d].by = doc[d].by
    PROVE  /\ SameSpace => SameSpace'
           /\ Shared => Shared'
           /\ Grounded => Grounded'
<1>1. \A d \in There : doc[d].parent = Root \/ doc[d].parent \in There BY RowThere
<1>2. SameSpace => SameSpace' BY <1>1 DEF SameSpace
<1>3. Shared => Shared' BY <1>1 DEF Shared
<1>4. Grounded => Grounded' BY <1>1 DEF Grounded
<1> QED BY <1>2, <1>3, <1>4

\* Who trashes a tree sees all of it, and leaves nothing live below.
LEMMA TrashKeepsTrees ==
    ASSUME DocsOK, SameSpace, NEW u \in Users, NEW r, TrashesWell(u, r), doc' = Marked(r.ids, TRUE)
    PROVE  DocsOK' /\ SameSpace' /\ (Whole => Whole')
<1>1. /\ DocsOK' /\ There' = There
      /\ \A d \in There :
            /\ doc'[d].parent = doc[d].parent /\ doc'[d].ws = doc[d].ws
            /\ doc'[d].vis = doc[d].vis /\ doc'[d].by = doc[d].by
            /\ doc'[d].trashed = IF d \in r.ids THEN TRUE ELSE doc[d].trashed
  BY MarkedKeepsDocs
<1>2. SameSpace' /\ (Shared => Shared') /\ (Grounded => Grounded') BY <1>1, PlaceKept
<1>3. ASSUME Whole PROVE LiveAbove'
  <2>1. Live' = Live \ r.ids BY <1>1 DEF Live
  <2>2. ASSUME NEW c \in Live, c \notin r.ids, doc[c].parent # Root, doc[c].parent \in r.ids
        PROVE  FALSE
    <3>1. PICK D \in SUBSET CanEdit(u) :
              r.ids = UNION {Descendants(d, CanEdit(u) \cap In(doc[d].ws)) : d \in D}
      BY DEF TrashesWell
    <3>2. PICK d \in D : doc[c].parent \in Descendants(d, CanEdit(u) \cap In(doc[d].ws))
      BY <2>2, <3>1
    <3> DEFINE scope == CanEdit(u) \cap In(doc[d].ws)
               below == Descendants(d, scope)
    <3>3. scope \subseteq There /\ d \in scope BY <3>1, <3>2 DEF CanEdit, Live, In
    <3>4. below \subseteq scope /\ \A e \in scope : doc[e].parent \in below => e \in below
      BY <3>3, Below
    <3> HIDE DEF below
    <3>5. c \in There /\ doc[c].parent \in scope BY <3>2, <3>4 DEF below, Live
    <3>6. c \in Visible(u) /\ doc[c].ws = doc[d].ws
      BY <1>3, <2>2, <3>5, SeesParent DEF Whole, CanEdit, In
    <3>7. c \in scope BY <2>2, <3>5, <3>6 DEF CanEdit, In
    <3>8. c \in below BY <3>2, <3>4, <3>7 DEF below
    <3> QED BY <2>2, <3>1, <3>8 DEF below
  <2>3. Live \subseteq There BY DEF Live
  <2> QED BY <1>1, <1>3, <2>1, <2>2, <2>3 DEF Whole, LiveAbove
<1> QED BY <1>1, <1>2, <1>3 DEF Whole

\* A restored tree hangs below nothing trashed.
LEMMA RestoreKeepsTrees ==
    ASSUME DocsOK, SameSpace, NEW u \in Users, NEW r, RestoresWell(u, r), doc' = Marked(r.ids, FALSE)
    PROVE  DocsOK' /\ SameSpace' /\ (Whole => Whole')
<1>1. /\ DocsOK' /\ There' = There
      /\ \A d \in There :
            /\ doc'[d].parent = doc[d].parent /\ doc'[d].ws = doc[d].ws
            /\ doc'[d].vis = doc[d].vis /\ doc'[d].by = doc[d].by
            /\ doc'[d].trashed = IF d \in r.ids THEN FALSE ELSE doc[d].trashed
  BY MarkedKeepsDocs
<1>2. SameSpace' /\ (Shared => Shared') /\ (Grounded => Grounded') BY <1>1, PlaceKept
<1>3. ASSUME Whole PROVE LiveAbove'
  <2>1. PICK d \in There : TrashRoot(d) /\ r.ids = TrashedSubtree(d) BY DEF RestoresWell
  <2> DEFINE scope == In(doc[d].ws)
             below == Descendants(d, scope)
  <2>2. scope \subseteq There /\ d \in scope BY DEF In
  <2>3. /\ below \subseteq scope
        /\ \A e \in below : e # d => doc[e].parent \in below
    BY <2>2, Below
  <2>4. r.ids = below \ Live BY <2>1 DEF TrashedSubtree
  <2> HIDE DEF below
  <2>5. ASSUME NEW c \in r.ids PROVE doc[c].parent \in {Root} \cup Live \cup r.ids
    <3>1. CASE c # d BY <2>3, <2>4, <3>1
    <3>2. CASE c = d
      <4>1. CASE doc[c].parent = Root BY <4>1
      <4>2. CASE doc[c].parent # Root
        <5>1. doc[c].parent \in scope BY <3>2, <4>2, RowThere DEF In, SameSpace
        <5> QED BY <2>1, <3>2, <5>1 DEF TrashRoot
      <4> QED BY <4>1, <4>2
    <3> QED BY <3>1, <3>2
  <2>6. r.ids \subseteq There BY <2>2, <2>3, <2>4
  <2>7. Live' = Live \cup r.ids BY <1>1, <2>6 DEF Live
  <2>8. Live \subseteq There BY DEF Live
  <2> QED BY <1>1, <1>3, <2>5, <2>6, <2>7, <2>8 DEF Whole, LiveAbove
<1> QED BY <1>1, <1>2, <1>3 DEF Whole

\* A removal takes the children of what it removes.
LEMMA RemovesChildren ==
    ASSUME DocsOK, SameSpace, Whole, NEW u \in Users, NEW r, RemovesWell(u, r),
           NEW c \in There, doc[c].parent # Root, doc[c].parent \in r.ids
    PROVE  c \in r.ids
<1>1. CASE \E d \in There : d \notin Live /\ TrashRoot(d) /\ r.ids = TrashedSubtree(d)
  <2>1. PICK d \in There : r.ids = TrashedSubtree(d) BY <1>1
  <2> DEFINE scope == In(doc[d].ws)
             below == Descendants(d, scope)
  <2>2. scope \subseteq There /\ d \in scope BY DEF In
  <2>3. below \subseteq scope /\ \A e \in scope : doc[e].parent \in below => e \in below
    BY <2>2, Below
  <2>4. r.ids = below \ Live BY <2>1 DEF TrashedSubtree
  <2> HIDE DEF below
  <2>5. doc[c].parent \in below /\ doc[c].parent \notin Live /\ c \notin Live
    BY <2>4 DEF Whole, LiveAbove
  <2>6. c \in scope BY <2>3, <2>5 DEF In, SameSpace
  <2> QED BY <2>3, <2>4, <2>5, <2>6
<1>2. CASE \E d \in CanEdit(u) : r.ids = Descendants(d, Visible(u) \cap In(doc[d].ws))
  <2>1. PICK d \in CanEdit(u) : r.ids = Descendants(d, Visible(u) \cap In(doc[d].ws)) BY <1>2
  <2> DEFINE scope == Visible(u) \cap In(doc[d].ws)
             below == Descendants(d, scope)
  <2>2. scope \subseteq There /\ d \in scope BY DEF In, CanEdit, Visible
  <2>3. below \subseteq scope /\ \A e \in scope : doc[e].parent \in below => e \in below
    BY <2>2, Below
  <2> HIDE DEF below
  <2>4. doc[c].parent \in scope BY <2>1, <2>3 DEF below
  <2>5. c \in scope BY <2>4, SeesParent DEF Whole, In
  <2> QED BY <2>1, <2>3, <2>5 DEF below
<1> QED BY <1>1, <1>2 DEF RemovesWell

\* A removal leaves the trees beside it as they are.
LEMMA RemoveKeepsTrees ==
    ASSUME DocsOK, SameSpace, NEW u \in Users, NEW r, RemovesWell(u, r), doc' = Removed(r.ids)
    PROVE  DocsOK' /\ SameSpace' /\ (Whole => Whole')
<1>1. /\ DocsOK' /\ There' = There \ r.ids
      /\ \A d \in There' :
            /\ doc'[d].parent = IF doc[d].parent \in r.ids THEN Root ELSE doc[d].parent
            /\ doc'[d].ws = doc[d].ws /\ doc'[d].vis = doc[d].vis
            /\ doc'[d].by = doc[d].by /\ doc'[d].trashed = doc[d].trashed
  BY RemovedKeepsDocs
<1>2. \A d \in There : doc[d].parent = Root \/ doc[d].parent \in There BY RowThere
<1>3. \A d \in There' : doc'[d].parent # Root =>
          doc'[d].parent = doc[d].parent /\ doc[d].parent \in There'
  BY <1>1, <1>2
<1>4. SameSpace' BY <1>1, <1>3 DEF SameSpace
<1>5. Shared => Shared' BY <1>1, <1>3 DEF Shared
<1>6. ASSUME LiveAbove PROVE LiveAbove'
  <2>1. Live' = Live \ r.ids BY <1>1 DEF Live
  <2>2. Live \subseteq There BY DEF Live
  <2> QED BY <1>1, <1>3, <1>6, <2>1, <2>2 DEF LiveAbove
<1>7. ASSUME Grounded PROVE Grounded'
  <2>1. ASSUME NEW S \in SUBSET There', S # {} PROVE \E d \in S : doc'[d].parent \notin S
    <3>1. S \in SUBSET There BY <1>1
    <3>2. PICK d \in S : doc[d].parent \notin S BY <1>7, <2>1, <3>1 DEF Grounded
    <3>3. Root \notin S BY <3>1, RowThere
    <3> QED BY <1>1, <3>2, <3>3
  <2> QED BY <2>1 DEF Grounded
<1> QED BY <1>1, <1>4, <1>5, <1>6, <1>7 DEF Whole

\* A move: the tree below the root takes over the workspace and visibility of its target.
LEMMA MoveKeepsTrees ==
    ASSUME DocsOK, SameSpace, NEW i \in DOMAIN jobs, jobs[i] \in Jobs, jobs[i].kind = "move",
           Runnable(jobs[i]), NEW plan, plan = JobPlan(i), doc' = MovedTree(jobs[i], plan)
    PROVE  DocsOK' /\ SameSpace' /\ (Whole => Whole')
<1> DEFINE j == jobs[i]
           ids == DOMAIN plan.rows
           scope == In(doc[j.doc].ws)
<1>1. Movable(j) BY DEF Runnable
<1>2. /\ j.user \in Users /\ j.doc \in Docs /\ j.ws \in Workspaces
      /\ j.parent \in Docs \cup {Root} /\ j.vis \in Visibilities
  BY DEF Jobs
<1>3. /\ j.doc \in CanEdit(j.user) /\ j.doc \in There
      /\ j.parent # Root => /\ j.parent \in CanEdit(j.user) /\ j.parent \in Live
                            /\ j.parent \in There /\ doc[j.parent].ws = j.ws
                            /\ j.parent \notin Subtree(j.doc, TRUE)
      /\ MoveVisibility(j) = "PRIVATE" => \A d \in Subtree(j.doc, TRUE) : doc[d].by = j.user
  BY <1>1 DEF Movable, CanEdit, Live
<1>4. ids = Subtree(j.doc, TRUE) /\ plan.vis = MoveVisibility(j)
  <2>1. plan = [kind |-> "planned", job |-> i,
                rows |-> [d \in Subtree(j.doc, TRUE) |-> doc[d]], vis |-> MoveVisibility(j)]
    BY DEF JobPlan
  <2> QED BY <2>1
<1>5. scope \subseteq There /\ j.doc \in scope BY <1>3 DEF In
<1>6. ids = Descendants(j.doc, scope) BY <1>4 DEF Subtree
<1>7. /\ j.doc \in ids /\ ids \subseteq scope
      /\ \A c \in scope : doc[c].parent \in ids => c \in ids
      /\ \A c \in ids : c # j.doc => doc[c].parent \in ids
  BY <1>5, <1>6, Below
<1>8. plan.vis \in Visibilities /\ (j.parent # Root => plan.vis = doc[j.parent].vis)
  BY <1>2, <1>3, <1>4, RowThere DEF MoveVisibility
<1>9. ParentThere(j.parent) BY <1>3 DEF ParentThere
<1> HIDE DEF ids, scope
<1>10. /\ DocsOK' /\ There' = There
       /\ \A d \in There :
             /\ doc'[d].parent = IF d = j.doc THEN j.parent ELSE doc[d].parent
             /\ doc'[d].ws = IF d \in ids THEN j.ws ELSE doc[d].ws
             /\ doc'[d].vis = IF d \in ids THEN plan.vis ELSE doc[d].vis
             /\ doc'[d].by = doc[d].by /\ doc'[d].trashed = doc[d].trashed
  BY <1>2, <1>3, <1>7, <1>8, <1>9, MovedKeepsDocs DEF ids
<1> DEFINE p == j.parent
           top == j.doc
           w == j.ws
<1>11. \A d \in There : doc[d].parent = Root \/ doc[d].parent \in There BY RowThere
<1>12. ASSUME NEW d \in There, doc[d].parent # Root, d # top
       PROVE  d \in ids <=> doc[d].parent \in ids
  BY <1>5, <1>7, <1>11, <1>12 DEF SameSpace, scope, In
<1>13. p # Root => p \notin ids /\ p \in There /\ p \in Live /\ doc[p].ws = w
  BY <1>3, <1>4
<1>14. top \in ids /\ ids \subseteq There BY <1>5, <1>7
<1> HIDE DEF p, top, w, j
<1>15. SameSpace'
  <2>1. ASSUME NEW d \in There, doc'[d].parent # Root PROVE doc'[doc'[d].parent].ws = doc'[d].ws
    <3>1. CASE d = top BY <1>10, <1>13, <1>14, <2>1, <3>1 DEF p, top, w
    <3>2. CASE d # top BY <1>10, <1>11, <1>12, <2>1, <3>2 DEF SameSpace, p, top, w
    <3> QED BY <3>1, <3>2
  <2> QED BY <1>10, <2>1 DEF SameSpace
<1>16. ASSUME Whole PROVE Shared'
  <2>1. ASSUME NEW d \in There, doc'[d].parent # Root
        PROVE  /\ doc'[doc'[d].parent].vis = doc'[d].vis
               /\ doc'[d].vis = "PRIVATE" => doc'[doc'[d].parent].by = doc'[d].by
    <3>1. CASE d = top
      <4>1. p # Root /\ doc'[d].parent = p BY <1>10, <2>1, <3>1 DEF p, top
      <4>2. doc'[d].vis = plan.vis /\ doc'[p].vis = doc[p].vis /\ plan.vis = doc[p].vis
        BY <1>8, <1>10, <1>13, <1>14, <3>1, <4>1 DEF p, top
      <4>3. ASSUME plan.vis = "PRIVATE" PROVE doc'[p].by = j.user /\ doc'[d].by = j.user
        <5>1. p \in Visible(j.user) /\ doc[p].vis = "PRIVATE"
          BY <1>3, <4>1, <4>2, <4>3 DEF p, CanEdit
        <5>2. doc[p].by = j.user BY <5>1 DEF Visible
        <5>3. doc[d].by = j.user BY <1>3, <1>4, <1>14, <3>1, <4>3 DEF top
        <5> QED BY <1>10, <1>13, <4>1, <5>2, <5>3
      <4> QED BY <4>1, <4>2, <4>3
    <3>2. CASE d # top
      <4>1. doc'[d].parent = doc[d].parent /\ doc[d].parent \in There
        BY <1>10, <1>11, <2>1, <3>2 DEF p, top
      <4>2. CASE d \in ids
        <5>1. doc[d].parent \in ids BY <1>12, <2>1, <3>2, <4>1, <4>2
        <5>2. plan.vis = "PRIVATE" => doc[d].by = j.user /\ doc[doc[d].parent].by = j.user
          BY <1>3, <1>4, <4>2, <5>1
        <5> QED BY <1>10, <4>1, <4>2, <5>1, <5>2
      <4>3. CASE d \notin ids
        <5>1. doc[d].parent \notin ids BY <1>12, <2>1, <3>2, <4>1, <4>3
        <5> QED BY <1>10, <1>16, <2>1, <4>1, <4>3, <5>1 DEF Whole, Shared
      <4> QED BY <4>2, <4>3
    <3> QED BY <3>1, <3>2
  <2> QED BY <1>10, <2>1 DEF Shared
<1>17. ASSUME Whole PROVE LiveAbove'
  <2>1. Live' = Live BY <1>10 DEF Live
  <2>2. Live \subseteq There BY DEF Live
  <2> QED BY <1>10, <1>13, <1>17, <2>1, <2>2 DEF Whole, LiveAbove, p, top
<1>18. ASSUME Whole PROVE Grounded'
  <2>1. ASSUME NEW S \in SUBSET There, S # {} PROVE \E d \in S : doc'[d].parent \notin S
    <3>1. Root \notin S BY RowThere
    <3>2. ASSUME NEW T \in SUBSET There, T # {} PROVE \E d \in T : doc[d].parent \notin T
      BY <1>18, <3>2 DEF Whole, Grounded
    <3>3. CASE S \cap ids = {}
      <4>1. PICK d \in S : doc[d].parent \notin S BY <2>1, <3>2
      <4> QED BY <1>10, <1>14, <3>3, <4>1 DEF top
    <3>4. CASE S \cap ids # {}
      <4>1. PICK d \in S \cap ids : doc[d].parent \notin S \cap ids BY <3>2, <3>4
      <4>2. CASE d # top
        <5>1. doc[d].parent \in ids BY <1>7, <4>2 DEF top
        <5> QED BY <1>10, <4>1, <4>2, <5>1 DEF top
      <4>3. CASE d = top /\ p \notin S BY <1>10, <4>1, <4>3 DEF p, top
      <4>4. CASE d = top /\ p \in S
        <5>1. p \in S \ ids BY <1>13, <3>1, <4>4
        <5>2. PICK e \in S \ ids : doc[e].parent \notin S \ ids BY <3>2, <5>1
        <5>3. e # top BY <1>14, <5>2
        <5>4. doc'[e].parent = doc[e].parent BY <1>10, <5>3 DEF top
        <5>5. doc[e].parent = Root \/ doc[e].parent \notin ids BY <1>12, <5>3
        <5> QED BY <3>1, <5>2, <5>4, <5>5
      <4> QED BY <4>2, <4>3, <4>4
    <3> QED BY <3>3, <3>4
  <2> QED BY <1>10, <2>1 DEF Grounded
<1> QED BY <1>10, <1>15, <1>16, <1>17, <1>18 DEF Whole

\* The plan of a job that may run is a tree of documents, and knows its root.
LEMMA PlanIsTree ==
    ASSUME DocsOK, NEW i \in DOMAIN jobs, jobs[i] \in Jobs, Runnable(jobs[i])
    PROVE  LET plan == JobPlan(i)
               j == jobs[i]
               scope == IF j.kind = "move" THEN In(doc[j.doc].ws) ELSE In(doc[j.doc].ws) \cap Live
           IN  /\ plan.kind = "planned" /\ plan.job = i /\ plan.vis \in Visibilities
               /\ plan.rows = [d \in DOMAIN plan.rows |-> doc[d]]
               /\ scope \subseteq There /\ j.doc \in DOMAIN plan.rows
               /\ DOMAIN plan.rows \subseteq scope
               /\ \A d \in DOMAIN plan.rows : d # j.doc => doc[d].parent \in DOMAIN plan.rows
<1> DEFINE j == jobs[i]
           move == j.kind = "move"
           ids == Subtree(j.doc, move)
           vis == IF move THEN MoveVisibility(j) ELSE doc[j.doc].vis
           plan == JobPlan(i)
           scope == IF move THEN In(doc[j.doc].ws) ELSE In(doc[j.doc].ws) \cap Live
<1>1. plan = [kind |-> "planned", job |-> i, rows |-> [d \in ids |-> doc[d]], vis |-> vis]
  BY DEF JobPlan
<1>2. j.doc \in CanEdit(j.user) /\ (move /\ j.parent # Root => j.parent \in There)
      /\ j.vis \in Visibilities
  BY DEF Runnable, Movable, CanEdit, Live, Jobs
<1>3. j.doc \in There /\ j.doc \in scope BY <1>2 DEF CanEdit, In, Live
<1>4. scope \subseteq There BY DEF In
<1>5. ids = Descendants(j.doc, scope) BY DEF Subtree
<1>6. vis \in Visibilities BY <1>2, <1>3, RowThere DEF MoveVisibility
<1> HIDE DEF scope, vis
<1>7. j.doc \in ids /\ ids \subseteq scope
      /\ \A d \in ids : d # j.doc => doc[d].parent \in ids
  BY <1>3, <1>4, <1>5, Below
<1> HIDE DEF ids
<1>8. /\ plan.kind = "planned" /\ plan.job = i /\ plan.vis = vis
      /\ plan.rows = [d \in ids |-> doc[d]] /\ DOMAIN plan.rows = ids
  BY <1>1
<1> HIDE DEF plan
<1>9. plan.rows = [d \in DOMAIN plan.rows |-> doc[d]] BY <1>8
<1>10. /\ plan.kind = "planned" /\ plan.job = i /\ plan.vis \in Visibilities
       /\ scope \subseteq There /\ j.doc \in DOMAIN plan.rows
       /\ DOMAIN plan.rows \subseteq scope
       /\ \A d \in DOMAIN plan.rows : d # j.doc => doc[d].parent \in DOMAIN plan.rows
  BY <1>4, <1>6, <1>7, <1>8
<1> QED BY <1>9, <1>10 DEF plan, scope

\* A copy of a tree that may be read is a tree beside it.
LEMMA CopyKeepsTrees ==
    ASSUME DocsOK, SameSpace, NEW i \in DOMAIN jobs, jobs[i] \in Jobs, jobs[i].kind # "move",
           Runnable(jobs[i]), NEW plan, plan = JobPlan(i), Fits(DOMAIN plan.rows),
           doc' = CopiedTree(jobs[i], plan, Copies(DOMAIN plan.rows))
    PROVE  DocsOK' /\ SameSpace' /\ (Whole => Whole')
<1> DEFINE j == jobs[i]
           ids == DOMAIN plan.rows
           top == j.doc
           scope == In(doc[top].ws) \cap Live
           copy == Copies(ids)
           u == j.user
<1>1. /\ plan.rows = [d \in ids |-> doc[d]] /\ scope \subseteq There
      /\ top \in ids /\ ids \subseteq scope
      /\ \A d \in ids : d # top => doc[d].parent \in ids
  BY PlanIsTree
<1>2. top \in CanEdit(u) /\ u \in Users BY DEF Runnable, Jobs
<1>3. \A s \in ids : s \in There /\ s \in Live /\ plan.rows[s] = doc[s] /\ doc[s].ws = doc[top].ws
  BY <1>1 DEF In
<1>4. \A d \in There : /\ d \in Docs /\ d # Root /\ doc[d] \in Rows /\ doc[d].life = "there"
                       /\ doc[d].parent = Root \/ doc[d].parent \in There
  BY RowThere
<1>5. /\ ids \in SUBSET Docs /\ ParentThere(plan.rows[top].parent)
      /\ \A d \in ids : /\ plan.rows[d] \in Rows /\ plan.rows[d].life = "there"
                        /\ d # top => plan.rows[d].parent \in ids
  BY <1>1, <1>3, <1>4 DEF ParentThere
<1>6. /\ DocsOK'
      /\ \A s \in ids : copy[s] \in Docs /\ copy[s] \notin There
      /\ \A s, t \in ids : copy[s] = copy[t] => s = t
      /\ There' = There \cup {copy[s] : s \in ids}
      /\ \A d \in There : doc'[d] = doc[d]
      /\ \A s \in ids :
            /\ doc'[copy[s]].parent = IF s = top THEN plan.rows[s].parent
                                      ELSE copy[plan.rows[s].parent]
            /\ doc'[copy[s]].ws = plan.rows[s].ws /\ doc'[copy[s]].vis = plan.rows[s].vis
            /\ doc'[copy[s]].by = u /\ doc'[copy[s]].trashed = FALSE
  <2>1. TreeOf(j, plan) BY <1>1, <1>2, <1>5 DEF TreeOf
  <2>2. DocsOK' /\ CopiedTo(j, plan, copy) BY <1>5, <2>1, CopiedKeepsDocs
  <2> HIDE DEF copy
  <2> QED BY <2>2 DEF CopiedTo
<1>7. \A s \in ids :
          /\ doc'[copy[s]].parent = IF s = top THEN doc[s].parent ELSE copy[doc[s].parent]
          /\ doc'[copy[s]].ws = doc[s].ws /\ doc'[copy[s]].vis = doc[s].vis
          /\ doc'[copy[s]].by = u /\ doc'[copy[s]].trashed = FALSE
  BY <1>3, <1>6
<1>8. Root \notin Docs
  <2>1. MaxDocs \in Nat BY TreeAssumption
  <2> QED BY <2>1 DEF Docs, Root
<1> HIDE DEF copy, ids, top, scope, u
<1>9. ASSUME NEW d \in There', d \notin There PROVE \E s \in ids : d = copy[s] BY <1>6, <1>9
<1>10. SameSpace'
  <2>1. ASSUME NEW d \in There', doc'[d].parent # Root
        PROVE  doc'[doc'[d].parent].ws = doc'[d].ws
    <3>1. CASE d \in There BY <1>4, <1>6, <2>1, <3>1 DEF SameSpace
    <3>2. CASE d \notin There
      <4>1. PICK s \in ids : d = copy[s] BY <1>9, <3>2
      <4>2. CASE s = top
        <5>1. doc'[d].parent = doc[top].parent /\ doc[top].parent \in There
          BY <1>3, <1>4, <1>7, <2>1, <4>1, <4>2
        <5> QED BY <1>3, <1>6, <1>7, <2>1, <4>1, <4>2, <5>1 DEF SameSpace
      <4>3. CASE s # top
        <5>1. doc'[d].parent = copy[doc[s].parent] /\ doc[s].parent \in ids
          BY <1>1, <1>7, <4>1, <4>3
        <5> QED BY <1>3, <1>7, <4>1, <5>1
      <4> QED BY <4>2, <4>3
    <3> QED BY <3>1, <3>2
  <2> QED BY <2>1 DEF SameSpace
<1>11. ASSUME Whole PROVE Shared'
  <2>1. ASSUME NEW d \in There', doc'[d].parent # Root
        PROVE  /\ doc'[doc'[d].parent].vis = doc'[d].vis
               /\ doc'[d].vis = "PRIVATE" => doc'[doc'[d].parent].by = doc'[d].by
    <3>1. CASE d \in There BY <1>4, <1>6, <1>11, <2>1, <3>1 DEF Whole, Shared
    <3>2. CASE d \notin There
      <4>1. PICK s \in ids : d = copy[s] BY <1>9, <3>2
      <4>2. CASE s = top
        <5>1. doc'[d].parent = doc[top].parent /\ doc[top].parent \in There
              /\ doc[top].parent # Root
          BY <1>3, <1>4, <1>7, <2>1, <4>1, <4>2
        <5>2. doc[top].vis = "PRIVATE" => doc[top].by = u
          BY <1>2 DEF CanEdit, Visible
        <5>3. /\ doc[doc[top].parent].vis = doc[top].vis
              /\ doc[top].vis = "PRIVATE" => doc[doc[top].parent].by = doc[top].by
          BY <1>3, <1>11, <4>2, <5>1 DEF Whole, Shared
        <5> QED BY <1>6, <1>7, <4>1, <4>2, <5>1, <5>2, <5>3
      <4>3. CASE s # top
        <5>1. doc'[d].parent = copy[doc[s].parent] /\ doc[s].parent \in ids
          BY <1>1, <1>7, <4>1, <4>3
        <5>2. doc[doc[s].parent].vis = doc[s].vis
          BY <1>3, <1>4, <1>11, <5>1 DEF Whole, Shared
        <5> QED BY <1>7, <4>1, <5>1, <5>2
      <4> QED BY <4>2, <4>3
    <3> QED BY <3>1, <3>2
  <2> QED BY <2>1 DEF Shared
<1>12. ASSUME Whole PROVE LiveAbove'
  <2>1. Live' = Live \cup {copy[s] : s \in ids} BY <1>6, <1>7 DEF Live
  <2>2. Live \subseteq There BY DEF Live
  <2>3. ASSUME NEW s \in ids PROVE doc'[copy[s]].parent \in {Root} \cup Live'
    <3>1. CASE s = top
      <4>1. doc[s].parent \in {Root} \cup Live BY <1>3, <1>12 DEF Whole, LiveAbove
      <4> QED BY <1>7, <2>1, <3>1, <4>1
    <3>2. CASE s # top BY <1>1, <1>7, <2>1, <3>2
    <3> QED BY <3>1, <3>2
  <2>4. \A d \in Live : doc'[d].parent \in {Root} \cup Live'
    BY <1>6, <1>12, <2>1, <2>2 DEF Whole, LiveAbove
  <2> QED BY <2>1, <2>3, <2>4 DEF LiveAbove
<1>13. ASSUME Whole PROVE Grounded'
  <2>1. ASSUME NEW S \in SUBSET There', S # {} PROVE \E d \in S : doc'[d].parent \notin S
    <3>1. ASSUME NEW T \in SUBSET There, T # {} PROVE \E d \in T : doc[d].parent \notin T
      BY <1>13, <3>1 DEF Whole, Grounded
    <3>2. Root \notin S BY <1>4, <1>6, <1>8, <2>1
    <3>3. CASE S \cap There # {}
      <4>1. PICK d \in S \cap There : doc[d].parent \notin S \cap There BY <3>1, <3>3
      <4> QED BY <1>4, <1>6, <3>2, <4>1
    <3>4. CASE S \cap There = {}
      <4> DEFINE T == {s \in ids : copy[s] \in S}
      <4>1. T \in SUBSET There BY <1>3
      <4>2. T # {} BY <1>9, <2>1, <3>4
      <4>3. PICK s \in T : doc[s].parent \notin T
        <5> HIDE DEF T
        <5> QED BY <3>1, <4>1, <4>2
      <4>4. CASE s = top BY <1>3, <1>4, <1>7, <3>2, <3>4, <4>3, <4>4
      <4>5. CASE s # top BY <1>1, <1>7, <4>3, <4>5
      <4> QED BY <4>4, <4>5
    <3> QED BY <3>3, <3>4
  <2> QED BY <2>1 DEF Grounded
<1> QED BY <1>6, <1>10, <1>11, <1>12, <1>13 DEF Whole

-----------------------------------------------------------------------------
(* Steps: what is written.                                                 *)

\* A step that writes while nothing else waits leaves nothing waiting.
LEMMA AloneThere ==
    ASSUME ~Overlapping, NEW x \in Planned
    PROVE  Planned = {x}
<1>1. IsFiniteSet(Planned)
  <2>1. {c \in Clients : request[c] # Idle} \in SUBSET Clients
        /\ {w \in Workers : worker[w].kind = "planned"} \in SUBSET Workers OBVIOUS
  <2>2. IsFiniteSet({c \in Clients : request[c] # Idle})
        /\ IsFiniteSet({w \in Workers : worker[w].kind = "planned"})
    BY <2>1, TreeAssumption, FS_Subset
  <2> QED BY <2>2, FS_Union DEF Planned
<1>2. Cardinality(Planned) \in Nat /\ ~(Cardinality(Planned) > 1)
  BY <1>1, FS_CardinalityType DEF Overlapping
<1>3. {x} \in SUBSET Planned /\ Cardinality({x}) = 1 BY FS_Singleton
<1>4. Cardinality({x}) <= Cardinality(Planned) BY <1>1, <1>3, FS_Subset
<1>5. Cardinality({x}) = Cardinality(Planned) BY <1>2, <1>3, <1>4
<1> QED BY <1>1, <1>3, <1>5, FS_Subset

\* What a request writes keeps the rows typed; and the trees whole, unless another plan
\* waited when it was written.
LEMMA CommitKeepsTrees ==
    ASSUME IInv, NEW c \in Clients, Commit(c)
    PROVE  /\ DocsOK'
           /\ Undisturbed' => SameSpace' /\ Planned = {c}
           /\ MovedByJobsOnly' => Whole'
<1> DEFINE r == request[c]
<1>1. /\ DocsOK /\ RequestOK(r) /\ r # Idle /\ history \in Histories
      /\ Undisturbed => SameSpace /\ Fresh
      /\ MovedByJobsOnly => Whole
  BY DEF IInv, Typed, Commit
<1>2. /\ doc' = Outcome(r)
      /\ r.kind = "create" => \E d \in Docs : doc[d].life = "unused"
      /\ history' = [history EXCEPT !.overlapped = Overlapping,
                                    !.patched = @ \/ r.kind = "patch"]
  BY DEF Commit
<1>3. history'.overlapped = Overlapping /\ history'.patched = (history.patched \/ r.kind = "patch")
  BY <1>1, <1>2 DEF Histories
<1>4. /\ Undisturbed' => ~Overlapping /\ Undisturbed
      /\ MovedByJobsOnly' => ~Overlapping /\ r.kind # "patch" /\ MovedByJobsOnly
  BY <1>3 DEF Undisturbed, MovedByJobsOnly, Overlapping
<1> HIDE DEF r
<1>5. doc' = doc => DocsOK' /\ (SameSpace => SameSpace') /\ (Whole => Whole')
  <2> SUFFICES ASSUME doc' = doc PROVE DocsOK' /\ (SameSpace => SameSpace') /\ (Whole => Whole')
    OBVIOUS
  <2>1. There' = There /\ Live' = Live BY DEF There, Live
  <2>2. DocsOK' BY <1>1, <2>1 DEF DocsOK, ParentThere
  <2>3. (SameSpace => SameSpace') /\ (Shared => Shared') /\ (Grounded => Grounded')
    BY <1>1, <2>1, PlaceKept
  <2>4. LiveAbove => LiveAbove' BY <2>1 DEF LiveAbove
  <2> QED BY <2>2, <2>3, <2>4 DEF Whole
<1>6. DocsOK'
  <2>1. CASE r.kind = "create"
    <3>1. doc' = IF ParentThere(r.parent) THEN Created(r) ELSE doc BY <1>2, <2>1 DEF Outcome
    <3>2. /\ r.user \in Users /\ r.ws \in Workspaces /\ r.parent \in Docs \cup {Root}
          /\ r.vis \in Visibilities
      BY <1>1, <2>1 DEF RequestOK
    <3> QED BY <1>1, <1>2, <1>5, <2>1, <3>1, <3>2, CreatedKeepsDocs
  <2>2. CASE r.kind = "patch"
    <3>1. doc' = IF r.doc \in There /\ ParentThere(r.parent) THEN Patched(r) ELSE doc
      BY <1>2, <2>2 DEF Outcome
    <3>2. r.parent \in Docs \cup {Root} /\ r.vis \in Visibilities
      BY <1>1, <2>2 DEF RequestOK
    <3> QED BY <1>1, <1>5, <3>1, <3>2, PatchedKeepsDocs
  <2>3. CASE r.kind = "trash"
    <3>1. doc' = Marked(r.ids, TRUE) BY <1>2, <2>3 DEF Outcome
    <3> QED BY <1>1, <3>1, MarkedKeepsDocs
  <2>4. CASE r.kind = "restore"
    <3>1. doc' = Marked(r.ids, FALSE) BY <1>2, <2>4 DEF Outcome
    <3> QED BY <1>1, <3>1, MarkedKeepsDocs
  <2>5. CASE r.kind = "remove"
    <3>1. doc' = Removed(r.ids) BY <1>2, <2>5 DEF Outcome
    <3> QED BY <1>1, <3>1, RemovedKeepsDocs
  <2> QED BY <1>1, <2>1, <2>2, <2>3, <2>4, <2>5 DEF RequestOK
<1>7. ASSUME ~Overlapping PROVE Planned = {c}
  <2>1. c \in Planned BY <1>1 DEF Planned, r
  <2> QED BY <1>7, <2>1, AloneThere
<1>8. ASSUME ~Overlapping, Undisturbed
      PROVE  SameSpace' /\ (r.kind # "patch" /\ Whole => Whole')
  <2> DEFINE u == r.user
  <2>1. u \in Users /\ r \in Plans(u) BY <1>1, <1>8 DEF Fresh, r
  <2>2. DocsOK /\ SameSpace BY <1>1, <1>8
  <2> HIDE DEF u
  <2>3. CASE CreatesWell(u, r)
    <3>1. ParentThere(r.parent)
      BY <2>3 DEF CreatesWell, CanEdit, Live, ParentThere
    <3>2. doc' = Created(r) BY <1>2, <2>3, <3>1 DEF Outcome, CreatesWell
    <3>3. \E d \in Docs : doc[d].life = "unused" BY <1>2, <2>3 DEF CreatesWell
    <3> QED BY <2>1, <2>2, <2>3, <3>2, <3>3, CreateKeepsTrees
  <2>4. CASE PatchesWell(u, r)
    <3>1. r.doc \in There /\ ParentThere(r.parent)
      BY <2>4 DEF PatchesWell, CanEdit, Live, ParentThere
    <3>2. doc' = Patched(r) /\ r.kind = "patch" BY <1>2, <2>4, <3>1 DEF Outcome, PatchesWell
    <3> QED BY <2>1, <2>2, <2>4, <3>2, PatchKeepsSpace
  <2>5. CASE TrashesWell(u, r)
    <3>1. doc' = Marked(r.ids, TRUE) BY <1>2, <2>5 DEF Outcome, TrashesWell
    <3> QED BY <2>1, <2>2, <2>5, <3>1, TrashKeepsTrees
  <2>6. CASE RestoresWell(u, r)
    <3>1. doc' = Marked(r.ids, FALSE) BY <1>2, <2>6 DEF Outcome, RestoresWell
    <3> QED BY <2>1, <2>2, <2>6, <3>1, RestoreKeepsTrees
  <2>7. CASE RemovesWell(u, r)
    <3>1. doc' = Removed(r.ids) BY <1>2, <2>7 DEF Outcome, RemovesWell
    <3> QED BY <2>1, <2>2, <2>7, <3>1, RemoveKeepsTrees
  <2> QED BY <2>1, <2>2, <2>3, <2>4, <2>5, <2>6, <2>7, PlannedWell
<1>9. MovedByJobsOnly => Undisturbed BY DEF MovedByJobsOnly, Undisturbed
<1> QED BY <1>1, <1>4, <1>6, <1>7, <1>8, <1>9

\* So does what a worker writes.
LEMMA WriteKeepsTrees ==
    ASSUME IInv, NEW w \in Workers, Write(w)
    PROVE  /\ DocsOK'
           /\ Undisturbed' => SameSpace' /\ Planned = {w}
           /\ MovedByJobsOnly' => Whole'
<1> DEFINE plan == worker[w]
           i == plan.job
           j == jobs[i]
           parent == IF j.kind = "move" THEN j.parent ELSE plan.rows[j.doc].parent
           holds == ParentThere(parent) /\ (j.kind = "move" => j.doc \in There)
<1>1. /\ DocsOK /\ WorkOK(plan) /\ plan.kind = "planned" /\ history \in Histories
      /\ Undisturbed => SameSpace /\ Fresh
      /\ MovedByJobsOnly => Whole
  BY DEF IInv, Typed, Write
<1>2. /\ i \in DOMAIN jobs /\ j \in Jobs
      /\ plan.vis \in Visibilities /\ TreeOf(j, plan)
  <2>1. i \in DOMAIN jobs /\ jobs \in Seq(Jobs) BY <1>1 DEF WorkOK, Idle, IInv, Typed
  <2>2. j \in Jobs BY <2>1
  <2> QED BY <1>1, <2>1, <2>2 DEF WorkOK, Idle, TreeOf, Jobs
<1>3. /\ \/ /\ holds
            /\ j.kind = "duplicate" => Fits(DOMAIN plan.rows)
            /\ doc' = IF j.kind = "move" THEN MovedTree(j, plan)
                      ELSE CopiedTree(j, plan, Copies(DOMAIN plan.rows))
         \/ doc' = doc
      /\ history' = [history EXCEPT !.overlapped = Overlapping]
  BY DEF Write
<1>4. history'.overlapped = Overlapping /\ history'.patched = history.patched
  BY <1>1, <1>3 DEF Histories
<1>5. /\ Undisturbed' => ~Overlapping /\ Undisturbed
      /\ MovedByJobsOnly' => ~Overlapping /\ MovedByJobsOnly
  BY <1>4 DEF Undisturbed, MovedByJobsOnly, Overlapping
<1>6. doc' = doc => DocsOK' /\ (SameSpace => SameSpace') /\ (Whole => Whole')
  <2> SUFFICES ASSUME doc' = doc PROVE DocsOK' /\ (SameSpace => SameSpace') /\ (Whole => Whole')
    OBVIOUS
  <2>1. There' = There /\ Live' = Live BY DEF There, Live
  <2>2. DocsOK' BY <1>1, <2>1 DEF DocsOK, ParentThere
  <2>3. (SameSpace => SameSpace') /\ (Shared => Shared') /\ (Grounded => Grounded')
    BY <1>1, <2>1, PlaceKept
  <2>4. LiveAbove => LiveAbove' BY <2>1 DEF LiveAbove
  <2> QED BY <2>2, <2>3, <2>4 DEF Whole
<1> HIDE DEF plan, j, i
<1>7. j.kind \in {"move", "duplicate"} /\ j.parent \in Docs \cup {Root} /\ j.ws \in Workspaces
  BY <1>2 DEF Jobs
<1>8. DocsOK'
  <2>1. CASE doc' = doc BY <1>6, <2>1
  <2>2. CASE doc' # doc /\ holds /\ j.kind = "move"
    <3>1. doc' = MovedTree(j, plan) /\ j.doc \in There /\ ParentThere(j.parent) BY <1>3, <2>2
    <3>2. j.doc \in DOMAIN plan.rows BY <1>2 DEF TreeOf
    <3> QED BY <1>1, <1>2, <1>7, <3>1, <3>2, MovedKeepsDocs
  <2>3. CASE doc' # doc /\ holds /\ j.kind # "move"
    <3>1. /\ doc' = CopiedTree(j, plan, Copies(DOMAIN plan.rows)) /\ Fits(DOMAIN plan.rows)
          /\ ParentThere(plan.rows[j.doc].parent)
      BY <1>3, <1>7, <2>3
    <3> QED BY <1>1, <1>2, <3>1, CopiedKeepsDocs
  <2> QED BY <1>3, <2>1, <2>2, <2>3
<1>9. ASSUME ~Overlapping PROVE Planned = {w}
  <2>1. w \in Planned BY <1>1 DEF Planned, plan
  <2> QED BY <1>9, <2>1, AloneThere
<1>10. ASSUME Undisturbed PROVE SameSpace' /\ (Whole => Whole')
  <2>1. Runnable(jobs[i]) /\ plan = JobPlan(i) BY <1>1, <1>10 DEF Fresh, plan, i
  <2>2. DocsOK /\ SameSpace /\ jobs[i] \in Jobs BY <1>1, <1>2, <1>10 DEF j
  <2>3. CASE doc' = doc BY <1>6, <2>2, <2>3
  <2>4. CASE doc' # doc /\ holds /\ j.kind = "move"
    <3>1. doc' = MovedTree(jobs[i], plan) /\ jobs[i].kind = "move" BY <1>3, <2>4 DEF j
    <3> QED BY <1>2, <2>1, <2>2, <3>1, MoveKeepsTrees
  <2>5. CASE doc' # doc /\ holds /\ j.kind # "move"
    <3>1. /\ doc' = CopiedTree(jobs[i], plan, Copies(DOMAIN plan.rows)) /\ Fits(DOMAIN plan.rows)
          /\ jobs[i].kind # "move"
      BY <1>3, <1>7, <2>5 DEF j
    <3> QED BY <1>2, <2>1, <2>2, <3>1, CopyKeepsTrees
  <2> QED BY <1>3, <2>3, <2>4, <2>5
<1>11. MovedByJobsOnly => Undisturbed BY DEF MovedByJobsOnly, Undisturbed
<1> QED BY <1>1, <1>5, <1>8, <1>9, <1>10, <1>11

-----------------------------------------------------------------------------
(* Steps: what waits stays fresh, and the variables typed.                 *)

\* A job keeps what it was created with.
SameWork(j, k) ==
    /\ j.kind = k.kind /\ j.user = k.user /\ j.doc = k.doc
    /\ j.ws = k.ws /\ j.parent = k.parent /\ j.vis = k.vis

\* While no document changes, the checks and the plan of a job stay what they are.
LEMMA SameRunnable ==
    ASSUME doc' = doc, NEW i, SameWork(jobs[i], jobs'[i])
    PROVE  Runnable(jobs[i])' <=> Runnable(jobs[i])
<1>1. Subtree(jobs[i].doc, TRUE)' = Subtree(jobs[i].doc, TRUE)
  BY DEF Subtree, In, Live, There, Descendants, SameWork
<1>2. CanEdit(jobs[i].user)' = CanEdit(jobs[i].user)
  BY DEF CanEdit, Visible, Live, There, SameWork
<1>3. CanMove(jobs[i].user, jobs[i].doc)' <=> CanMove(jobs[i].user, jobs[i].doc)
  BY DEF CanMove, SameWork
<1>4. MoveVisibility(jobs[i])' = MoveVisibility(jobs[i]) BY DEF MoveVisibility, SameWork
<1>5. Movable(jobs[i])' <=> Movable(jobs[i])
  BY <1>1, <1>2, <1>3, <1>4 DEF Movable, SameWork
<1> QED BY <1>2, <1>5 DEF Runnable, SameWork

\* So does the plan of a job,
LEMMA SameJobPlan ==
    ASSUME doc' = doc, NEW i, SameWork(jobs[i], jobs'[i])
    PROVE  JobPlan(i)' = JobPlan(i)
BY DEF JobPlan, MoveVisibility, SameWork, Subtree, In, Live, There, Descendants

\* and so do the plans of a user.
LEMMA SamePlans ==
    ASSUME doc' = doc, NEW u
    PROVE  Plans(u)' = Plans(u)
<1>1. PlanCreates(u)' = PlanCreates(u)
  BY DEF PlanCreates, CanEdit, Visible, Live, There
<1>2. PlanTrashes(u)' = PlanTrashes(u)
  BY DEF PlanTrashes, Deletable, CanMove, CanEdit, Visible, In, Live, There, Descendants
<1>3. PlanRestores(u)' = PlanRestores(u)
  BY DEF PlanRestores, TrashRoot, TrashedSubtree, CanMove, CanManageTrashed, Visible, In, Live,
         There, Descendants
<1>4. PlanRemoves(u)' = PlanRemoves(u)
  BY DEF PlanRemoves, TrashRoot, TrashedSubtree, CanMove, CanManageTrashed, CanEdit, Visible,
         In, Live, There, Descendants
<1>5. PlanPatches(u)' = PlanPatches(u)
  BY DEF PlanPatches, PatchTargets, CanMove, CanEdit, Visible, In, Live, There, Descendants
<1> QED BY <1>1, <1>2, <1>3, <1>4, <1>5 DEF Plans

\* Jobs stay in the queue with the work they were created for.
WorkKept == \A i \in DOMAIN jobs : i \in DOMAIN jobs' /\ SameWork(jobs[i], jobs'[i])

\* A step leaves every client alone, idle or with a new plan.
ClientsStep ==
    \A c \in Clients :
        \/ request'[c] = request[c]
        \/ request'[c] = Idle
        \/ request'[c].user \in Users /\ request'[c] \in Plans(request'[c].user)

\* A step leaves every worker alone, idle, with a job that is written, or with a new plan.
WorkersStep ==
    \A w \in Workers :
        \/ worker'[w] = worker[w]
        \/ worker'[w] = Idle
        \/ worker'[w].kind = "written" /\ worker'[w].job \in DOMAIN jobs
        \/ \E i \in DOMAIN jobs : Runnable(jobs[i]) /\ worker'[w] = JobPlan(i)

\* A plan of a user is one that Outcome can write, and carries its user.
LEMMA PlannedRequestOK ==
    ASSUME DocsOK, NEW u \in Users, NEW r \in Plans(u)
    PROVE  RequestOK(r) /\ r.user = u
<1>1. Visible(u) \cap Live \subseteq There BY DEF Live
<1>2. CanEdit(u) \subseteq There /\ There \subseteq Docs BY <1>1 DEF CanEdit, There
<1> QED BY <1>2, PlannedWell DEF RequestOK, CreatesWell, PatchesWell, TrashesWell, RestoresWell,
           RemovesWell

\* A plan of a job that may run is one that Write can write, and carries its job.
LEMMA PlannedWorkOK ==
    ASSUME DocsOK, jobs \in Seq(Jobs), NEW i \in DOMAIN jobs, Runnable(jobs[i])
    PROVE  WorkOK(JobPlan(i)) /\ JobPlan(i).job = i /\ JobPlan(i).kind = "planned"
<1> DEFINE plan == JobPlan(i)
           j == jobs[i]
           scope == IF j.kind = "move" THEN In(doc[j.doc].ws) ELSE In(doc[j.doc].ws) \cap Live
<1>1. j \in Jobs OBVIOUS
<1>2. /\ plan.kind = "planned" /\ plan.job = i /\ plan.vis \in Visibilities
      /\ plan.rows = [d \in DOMAIN plan.rows |-> doc[d]]
      /\ scope \subseteq There /\ j.doc \in DOMAIN plan.rows
      /\ DOMAIN plan.rows \subseteq scope
      /\ \A d \in DOMAIN plan.rows : d # j.doc => doc[d].parent \in DOMAIN plan.rows
  BY <1>1, PlanIsTree
<1> HIDE DEF plan, j, scope
<1>3. \A d \in DOMAIN plan.rows : /\ d \in Docs /\ plan.rows[d] = doc[d]
                                  /\ doc[d] \in Rows /\ doc[d].life = "there"
  BY <1>2, RowThere
<1>4. WorkOK(plan) BY <1>2, <1>3 DEF WorkOK, j
<1> QED BY <1>2, <1>4 DEF plan

\* Requests and workers stay typed.
LEMMA HandsTyped ==
    ASSUME DocsOK, jobs \in Seq(Jobs), WorkKept, ClientsStep, WorkersStep,
           \A c \in Clients : RequestOK(request[c]), \A w \in Workers : WorkOK(worker[w])
    PROVE  /\ \A c \in Clients : RequestOK(request'[c])
           /\ \A w \in Workers : WorkOK(worker[w])'
<1>1. ASSUME NEW c \in Clients PROVE RequestOK(request'[c])
  <2>1. Idle \in {Idle} /\ RequestOK(Idle) BY DEF RequestOK
  <2> QED BY <2>1, PlannedRequestOK DEF ClientsStep
<1>2. ASSUME NEW w \in Workers PROVE WorkOK(worker[w])'
  <2> DEFINE plan == worker'[w]
  <2>1. WorkOK(plan)
    <3>1. plan = Idle => WorkOK(plan) BY DEF WorkOK
    <3>2. plan.kind = "written" /\ plan.job \in DOMAIN jobs => WorkOK(plan) BY DEF WorkOK
    <3> QED BY <3>1, <3>2, PlannedWorkOK DEF WorkersStep
  <2> HIDE DEF plan
  <2>2. plan.job \in DOMAIN jobs => /\ plan.job \in DOMAIN jobs'
                                    /\ jobs'[plan.job].doc = jobs[plan.job].doc
    BY DEF WorkKept, SameWork
  <2> QED BY <2>1, <2>2 DEF WorkOK, plan
<1> QED BY <1>1, <1>2

\* A step that changes no document leaves what waits fresh.
LEMMA FreshKept ==
    ASSUME DocsOK, jobs \in Seq(Jobs), WorkKept, ClientsStep, WorkersStep, Fresh, doc' = doc,
           \A w \in Workers : WorkOK(worker[w])
    PROVE  Fresh'
<1>1. ASSUME NEW c \in Clients, request'[c] # Idle
      PROVE  request'[c].user \in Users /\ request'[c] \in Plans(request[c].user)'
  <2>1. request'[c].user \in Users /\ request'[c] \in Plans(request'[c].user)
    BY <1>1 DEF ClientsStep, Fresh
  <2>2. PICK u \in Users : u = request'[c].user BY <2>1
  <2> QED BY <2>1, <2>2, SamePlans
<1>2. ASSUME NEW w \in Workers, worker'[w].kind = "planned"
      PROVE  Runnable(jobs[worker[w].job])' /\ worker'[w] = JobPlan(worker[w].job)'
  <2>1. PICK i \in DOMAIN jobs : /\ worker'[w].job = i
                                 /\ Runnable(jobs[i]) /\ worker'[w] = JobPlan(i)
    <3>1. CASE worker'[w] = worker[w]
      BY <1>2, <3>1 DEF Fresh, WorkOK, Idle
    <3>2. CASE \E k \in DOMAIN jobs : Runnable(jobs[k]) /\ worker'[w] = JobPlan(k)
      BY <3>2, PlannedWorkOK
    <3> QED BY <1>2, <3>1, <3>2 DEF WorkersStep, Idle
  <2>2. SameWork(jobs[i], jobs'[i]) BY DEF WorkKept
  <2>3. Runnable(jobs[i])' BY <2>1, <2>2, SameRunnable
  <2>4. JobPlan(i)' = JobPlan(i) BY <2>2, SameJobPlan
  <2> QED BY <2>1, <2>3, <2>4
<1> QED BY <1>1, <1>2 DEF Fresh

\* Steps that change no document keep everything but the bookkeeping of jobs.
LEMMA QuietStep ==
    ASSUME IInv, doc' = doc, history' \in Histories, history'.overlapped = history.overlapped,
           history'.patched = history.patched, jobs' \in Seq(Jobs), WorkKept, ClientsStep,
           WorkersStep, request' = [c \in Clients |-> request'[c]],
           worker' = [w \in Workers |-> worker'[w]]
    PROVE  /\ Typed'
           /\ Undisturbed' => SameSpace' /\ Fresh'
           /\ MovedByJobsOnly' => Whole'
<1>1. /\ DocsOK /\ jobs \in Seq(Jobs)
      /\ \A c \in Clients : RequestOK(request[c])
      /\ \A w \in Workers : WorkOK(worker[w])
  BY DEF IInv, Typed
<1>2. There' = There /\ Live' = Live BY DEF There, Live
<1>3. DocsOK' BY <1>1, <1>2 DEF DocsOK, ParentThere
<1>4. (SameSpace => SameSpace') /\ (Shared => Shared') /\ (Grounded => Grounded')
  BY <1>1, <1>2, PlaceKept
<1>5. LiveAbove => LiveAbove' BY <1>2 DEF LiveAbove
<1>6. /\ \A c \in Clients : RequestOK(request'[c])
      /\ \A w \in Workers : WorkOK(worker[w])'
  BY <1>1, HandsTyped
<1>7. Fresh => Fresh' BY <1>1, FreshKept
<1>8. Typed'
  <2>1. \A c \in Clients : RequestOK(request[c])' BY <1>6 DEF RequestOK
  <2> QED BY <1>3, <1>6, <2>1 DEF Typed
<1>9. (Undisturbed' => Undisturbed) /\ (MovedByJobsOnly' => MovedByJobsOnly)
  BY DEF Undisturbed, MovedByJobsOnly
<1> QED BY <1>4, <1>5, <1>7, <1>8, <1>9 DEF IInv, Whole

-----------------------------------------------------------------------------
(* Steps: jobs and their workers.                                          *)

\* A job takes another status,
LEMMA NewStatus ==
    ASSUME NEW j \in Jobs, NEW s \in Statuses
    PROVE  LET k == [j EXCEPT !.status = s]
           IN  /\ k \in Jobs /\ SameWork(j, k) /\ k.status = s /\ k.writes = j.writes
               /\ k.faults = j.faults
BY DEF Jobs, SameWork

\* or a status that its faults may belie,
WithFaults(j, s, F) == [j EXCEPT !.status = s, !.faults = F]
LEMMA NewFaults ==
    ASSUME NEW j \in Jobs, NEW s \in Statuses, NEW F \in FaultSets
    PROVE  /\ WithFaults(j, s, F) \in Jobs /\ SameWork(j, WithFaults(j, s, F))
           /\ WithFaults(j, s, F).status = s /\ WithFaults(j, s, F).writes = j.writes
           /\ WithFaults(j, s, F).faults = F
BY DEF Jobs, SameWork, WithFaults

\* or is written once more.
LEMMA NewWrites ==
    ASSUME NEW j \in Jobs
    PROVE  LET k == [j EXCEPT !.writes = @ + 1]
           IN  /\ k \in Jobs /\ SameWork(j, k) /\ k.status = j.status
               /\ k.writes = j.writes + 1 /\ k.faults = j.faults
<1> DEFINE k == [j EXCEPT !.writes = @ + 1]
<1>1. j.writes + 1 \in Nat BY DEF Jobs
<1> QED BY <1>1 DEF Jobs, SameWork

\* One job changes, and keeps its work.
LEMMA JobChanged ==
    ASSUME jobs \in Seq(Jobs), NEW i \in DOMAIN jobs, NEW k \in Jobs, SameWork(jobs[i], k),
           jobs' = [jobs EXCEPT ![i] = k]
    PROVE  /\ jobs' \in Seq(Jobs) /\ WorkKept /\ DOMAIN jobs' = DOMAIN jobs /\ jobs'[i] = k
           /\ \A n \in DOMAIN jobs : n # i => jobs'[n] = jobs[n]
<1>1. DOMAIN jobs' = DOMAIN jobs /\ jobs'[i] = k
      /\ \A n \in DOMAIN jobs : n # i => jobs'[n] = jobs[n]
  OBVIOUS
<1>2. jobs' \in Seq(Jobs) OBVIOUS
<1>3. WorkKept BY <1>1 DEF WorkKept, SameWork
<1> QED BY <1>1, <1>2, <1>3

\* No job changes.
LEMMA NoJobChanged ==
    ASSUME jobs \in Seq(Jobs), jobs' = jobs
    PROVE  jobs' \in Seq(Jobs) /\ WorkKept
BY DEF WorkKept, SameWork

\* The invariant is kept by Begin,
LEMMA BeginKeeps ==
    ASSUME IInv, NEW c \in Clients, Begin(c)
    PROVE  IInv'
<1>1. /\ DocsOK /\ jobs \in Seq(Jobs) /\ request = [e \in Clients |-> request[e]]
      /\ worker = [w \in Workers |-> worker[w]] /\ history \in Histories
  BY DEF IInv, Typed
<1>2. PICK u \in Users : \E r \in Plans(u) : request' = [request EXCEPT ![c] = r] BY DEF Begin
<1>3. PICK r \in Plans(u) : request' = [request EXCEPT ![c] = r] BY <1>2
<1>4. doc' = doc /\ jobs' = jobs /\ worker' = worker /\ history' = history BY DEF Begin
<1>5. request' = [e \in Clients |-> request'[e]] /\ request'[c] = r
      /\ \A e \in Clients : e # c => request'[e] = request[e]
  BY <1>1, <1>3
<1>6. r.user = u BY <1>1, PlannedRequestOK
<1>7. ClientsStep BY <1>5, <1>6 DEF ClientsStep
<1>8. WorkersStep BY <1>4 DEF WorkersStep
<1>9. jobs' \in Seq(Jobs) /\ WorkKept BY <1>1, <1>4, NoJobChanged
<1>10. /\ Typed'
       /\ Undisturbed' => SameSpace' /\ Fresh'
       /\ MovedByJobsOnly' => Whole'
  BY <1>1, <1>4, <1>5, <1>7, <1>8, <1>9, QuietStep
<1>11. Tracked' BY <1>4 DEF IInv, Tracked, At
<1> QED BY <1>10, <1>11 DEF IInv

\* by RequestJob, whose job no worker is at,
LEMMA RequestJobKeeps ==
    ASSUME IInv, RequestJob
    PROVE  IInv'
<1>1. /\ DocsOK /\ jobs \in Seq(Jobs) /\ request = [e \in Clients |-> request[e]]
      /\ worker = [w \in Workers |-> worker[w]] /\ history \in Histories
      /\ \A w \in Workers : WorkOK(worker[w])
  BY DEF IInv, Typed
<1>2. doc' = doc /\ request' = request /\ worker' = worker /\ history' = history BY DEF RequestJob
<1>3. PICK j \in Jobs : jobs' = Append(jobs, j) /\ j.status = "PENDING" /\ j.writes = 0
  <2> DEFINE Moves(u, d, q) ==
                 \E w \in Workspaces, v \in Visibilities, p \in {Root} \cup CanEdit(u) :
                    LET j == NewJob("move", u, d, w, p, v, q)
                    IN  Movable(j) /\ jobs' = Append(jobs, [j EXCEPT !.vis = MoveVisibility(j)])
             Copy(u, d, q) ==
                 NewJob("duplicate", u, d, doc[d].ws, doc[d].parent, doc[d].vis, q)
  <2>1. \E u \in Users, q \in {"added", "doubtful", "lost"} : \E d \in CanEdit(u) :
           Moves(u, d, q) \/ jobs' = Append(jobs, Copy(u, d, q))
    BY DEF RequestJob
  <2> HIDE DEF Moves, Copy
  <2>2. PICK u \in Users, q \in {"added", "doubtful", "lost"} : \E d \in CanEdit(u) :
           Moves(u, d, q) \/ jobs' = Append(jobs, Copy(u, d, q))
    BY <2>1
  <2>3. PICK d \in CanEdit(u) : Moves(u, d, q) \/ jobs' = Append(jobs, Copy(u, d, q))
    BY <2>2
  <2>4. \A e \in CanEdit(u) : e \in There /\ e \in Docs BY DEF CanEdit, Live, There
  <2>5. /\ doc[d].ws \in Workspaces /\ doc[d].parent \in Docs \cup {Root}
        /\ doc[d].vis \in Visibilities
    BY <1>1, <2>4, RowThere
  <2>6. CASE jobs' = Append(jobs, Copy(u, d, q))
    <3> DEFINE j == Copy(u, d, q)
    <3>1. j \in Jobs /\ j.status = "PENDING" /\ j.writes = 0
      BY <2>4, <2>5 DEF Copy, NewJob, Jobs, Statuses, Queues, FaultSets
    <3> HIDE DEF j
    <3> QED BY <2>6, <3>1 DEF j
  <2>7. CASE Moves(u, d, q)
    <3>1. PICK w \in Workspaces, v \in Visibilities, p \in {Root} \cup CanEdit(u) :
                LET j == NewJob("move", u, d, w, p, v, q)
                IN  jobs' = Append(jobs, [j EXCEPT !.vis = MoveVisibility(j)])
      BY <2>7 DEF Moves
    <3> DEFINE j == NewJob("move", u, d, w, p, v, q)
               vis == MoveVisibility(j)
               k == [j EXCEPT !.vis = vis]
    <3>2. vis \in Visibilities
      <4>1. j.parent = p /\ j.vis = v BY DEF NewJob
      <4>2. p # Root => doc[p].vis \in Visibilities BY <1>1, <2>4, RowThere
      <4> HIDE DEF j
      <4> QED BY <4>1, <4>2 DEF MoveVisibility
    <3>3. k = [kind |-> "move", user |-> u, doc |-> d, ws |-> w, parent |-> p, vis |-> vis,
               status |-> "PENDING", queue |-> q, writes |-> 0, faults |-> {}]
      <4> HIDE DEF vis
      <4> QED BY DEF NewJob
    <3>4. jobs' = Append(jobs, k) BY <3>1
    <3> HIDE DEF k, vis
    <3>5. k \in Jobs /\ k.status = "PENDING" /\ k.writes = 0
      BY <2>4, <3>2, <3>3 DEF Jobs, Statuses, Queues, FaultSets
    <3> QED BY <3>4, <3>5
  <2> QED BY <2>3, <2>6, <2>7
<1>4. /\ jobs' \in Seq(Jobs) /\ DOMAIN jobs' = DOMAIN jobs \cup {Len(jobs) + 1}
      /\ Len(jobs) + 1 \notin DOMAIN jobs
      /\ jobs'[Len(jobs) + 1] = j /\ \A i \in DOMAIN jobs : jobs'[i] = jobs[i]
  BY <1>1, <1>3
<1>5. WorkKept BY <1>4 DEF WorkKept, SameWork
<1>6. ClientsStep /\ WorkersStep BY <1>2 DEF ClientsStep, WorkersStep
<1>7. /\ Typed'
      /\ Undisturbed' => SameSpace' /\ Fresh'
      /\ MovedByJobsOnly' => Whole'
  BY <1>1, <1>2, <1>4, <1>5, <1>6, QuietStep
<1>8. Tracked'
  <2>1. \A w \in Workers : worker[w] # Idle => worker[w].job \in DOMAIN jobs BY <1>1 DEF WorkOK
  <2>2. \A w \in Workers : ~At(w, Len(jobs) + 1) BY <1>4, <2>1 DEF At
  <2>3. \A w \in Workers, i \in DOMAIN jobs' : At(w, i)' <=> At(w, i) BY <1>2 DEF At
  <2>4. Truthful(jobs'[Len(jobs) + 1], Idle)
    BY <1>3, <1>4 DEF Truthful, Idle
  <2>5. Tracked BY DEF IInv
  <2> HIDE DEF At
  <2>6. ASSUME NEW i \in DOMAIN jobs'
        PROVE  /\ \A v, w \in Workers : At(v, i) /\ At(w, i) => v = w
               /\ \A w \in Workers : At(w, i) => Truthful(jobs'[i], worker[w])
               /\ (\A w \in Workers : ~At(w, i)) => Truthful(jobs'[i], Idle)
    <3>1. CASE i \in DOMAIN jobs BY <1>4, <2>5, <3>1 DEF Tracked
    <3>2. CASE i = Len(jobs) + 1 BY <2>2, <2>4, <3>2
    <3> QED BY <1>4, <3>1, <3>2
  <2> QED BY <1>2, <2>3, <2>6 DEF Tracked, Truthful
<1> QED BY <1>2, <1>7, <1>8 DEF IInv

\* What a worker does to its job keeps jobs tracked, when it changes nothing else.
LEMMA WorkTracked ==
    ASSUME jobs \in Seq(Jobs), Tracked, NEW w \in Workers, NEW i \in DOMAIN jobs,
           DOMAIN jobs' = DOMAIN jobs, \A n \in DOMAIN jobs : n # i => jobs'[n] = jobs[n],
           \A v \in Workers : v # w => worker'[v] = worker[v],
           (worker[w] = Idle /\ jobs[i].status = "PENDING") \/ At(w, i),
           worker'[w] # Idle => worker'[w].job = i,
           Truthful(jobs'[i], worker'[w])
    PROVE  Tracked'
<1>1. \A v \in Workers : v # w => ~At(v, i)
  <2>1. CASE At(w, i) BY <2>1 DEF Tracked
  <2>2. CASE worker[w] = Idle /\ jobs[i].status = "PENDING"
    <3>1. \A v \in Workers : At(v, i) => worker[v] = Idle BY <2>2 DEF Tracked, Truthful
    <3> QED BY <3>1 DEF At
  <2> QED BY <2>1, <2>2
<1>2. \A v \in Workers, n \in DOMAIN jobs :
          /\ At(v, n)' <=> IF v # w THEN At(v, n) ELSE n = i /\ worker'[w] # Idle
          /\ v # w => worker'[v] = worker[v]
  BY DEF At
<1>3. \A n \in DOMAIN jobs : n # i => ~At(w, n) BY DEF At
<1> HIDE DEF At
<1>4. ASSUME NEW n \in DOMAIN jobs'
      PROVE  /\ \A v, x \in Workers : At(v, n)' /\ At(x, n)' => v = x
             /\ \A v \in Workers : At(v, n)' => Truthful(jobs'[n], worker'[v])
             /\ (\A v \in Workers : ~At(v, n)') => Truthful(jobs'[n], Idle)
  <2>1. CASE n = i
    <3>1. \A v \in Workers : At(v, i)' <=> v = w /\ worker'[w] # Idle BY <1>1, <1>2
    <3> QED BY <2>1, <3>1
  <2>2. CASE n # i
    <3>1. n \in DOMAIN jobs /\ jobs'[n] = jobs[n] BY <2>2
    <3>2. \A v \in Workers : /\ At(v, n)' <=> At(v, n)
                             /\ At(v, n) => worker'[v] = worker[v]
      BY <1>2, <1>3, <2>2, <3>1
    <3>3. /\ \A v, x \in Workers : At(v, n) /\ At(x, n) => v = x
          /\ \A v \in Workers : At(v, n) => Truthful(jobs[n], worker[v])
          /\ (\A v \in Workers : ~At(v, n)) => Truthful(jobs[n], Idle)
      BY <3>1 DEF Tracked
    <3> QED BY <3>1, <3>2, <3>3
  <2> QED BY <2>1, <2>2
<1>5. \A n \in DOMAIN jobs', v \in Workers :
         /\ Truthful(jobs[n], worker[v])' <=> Truthful(jobs'[n], worker'[v])
         /\ Truthful(jobs[n], Idle)' <=> Truthful(jobs'[n], Idle)
  BY DEF Truthful
<1> QED BY <1>4, <1>5 DEF Tracked

\* by EnqueueFails, which fails a job, whatever its worker does,
LEMMA EnqueueFailsKeeps ==
    ASSUME IInv, NEW i \in DOMAIN jobs, EnqueueFails(i)
    PROVE  IInv'
<1>1. /\ DocsOK /\ jobs \in Seq(Jobs) /\ request = [e \in Clients |-> request[e]]
      /\ worker = [v \in Workers |-> worker[v]] /\ history \in Histories /\ jobs[i] \in Jobs
  BY DEF IInv, Typed
<1>2. doc' = doc /\ request' = request /\ worker' = worker /\ history' = history
  BY DEF EnqueueFails
<1>3. PICK s \in {jobs[i].status, "FAILED"}, q \in {"added", "none"} :
         jobs' = [jobs EXCEPT ![i] = [jobs[i] EXCEPT !.queue = q, !.status = s,
                                                     !.faults = @ \cup {"queue"}]]
  <2>1. PICK s \in {jobs[i].status, "FAILED"} :
           jobs' = [jobs EXCEPT ![i].queue = IF @ = "doubtful" THEN "added" ELSE "none",
                                ![i].status = s, ![i].faults = @ \cup {"queue"}]
    BY DEF EnqueueFails
  <2>2. PICK q \in {"added", "none"} : q = IF jobs[i].queue = "doubtful" THEN "added" ELSE "none"
    OBVIOUS
  <2>3. jobs' = [jobs EXCEPT ![i] = [jobs[i] EXCEPT !.queue = q, !.status = s,
                                                    !.faults = @ \cup {"queue"}]]
    BY <2>1, <2>2
  <2> QED BY <2>3
<1>4. PICK k \in Jobs : /\ jobs' = [jobs EXCEPT ![i] = k] /\ SameWork(jobs[i], k)
                        /\ k.status \in {jobs[i].status, "FAILED"}
                        /\ k.writes = jobs[i].writes /\ k.faults # {}
  <2> DEFINE k == [jobs[i] EXCEPT !.queue = q, !.status = s, !.faults = @ \cup {"queue"}]
  <2>1. /\ jobs[i].faults \cup {"queue"} \in FaultSets /\ q \in Queues /\ s \in Statuses
    BY <1>1 DEF Jobs, FaultSets, Queues, Statuses
  <2>2. k \in Jobs /\ k.faults = jobs[i].faults \cup {"queue"} BY <1>1, <2>1 DEF Jobs
  <2>3. SameWork(jobs[i], k) /\ k.status = s /\ k.writes = jobs[i].writes
    BY <1>1 DEF SameWork, Jobs
  <2> HIDE DEF k
  <2>4. k.faults # {} BY <2>2
  <2>5. jobs' = [jobs EXCEPT ![i] = k] BY <1>3 DEF k
  <2> QED BY <2>2, <2>3, <2>4, <2>5
<1>5. /\ jobs' \in Seq(Jobs) /\ WorkKept /\ DOMAIN jobs' = DOMAIN jobs /\ jobs'[i] = k
      /\ \A n \in DOMAIN jobs : n # i => jobs'[n] = jobs[n]
  BY <1>1, <1>4, JobChanged
<1>6. ClientsStep /\ WorkersStep BY <1>2 DEF ClientsStep, WorkersStep
<1>7. /\ Typed'
      /\ Undisturbed' => SameSpace' /\ Fresh'
      /\ MovedByJobsOnly' => Whole'
  BY <1>1, <1>2, <1>5, <1>6, QuietStep
<1>8. Tracked'
  <2>1. Tracked BY DEF IInv
  <2>2. \A p : Truthful(jobs[i], p) => Truthful(jobs'[i], p) BY <1>4, <1>5 DEF Truthful
  <2>3. \A n \in DOMAIN jobs : \A p : Truthful(jobs[n], p) => Truthful(jobs'[n], p)
    BY <1>5, <2>2
  <2>4. \A w \in Workers, n \in DOMAIN jobs : At(w, n)' <=> At(w, n) BY <1>2 DEF At
  <2> HIDE DEF At
  <2>5. \A n \in DOMAIN jobs' :
           /\ \A v, w \in Workers : At(v, n)' /\ At(w, n)' => v = w
           /\ \A w \in Workers : At(w, n)' => Truthful(jobs'[n], worker'[w])
           /\ (\A w \in Workers : ~At(w, n)') => Truthful(jobs'[n], Idle)
    <3> SUFFICES ASSUME NEW n \in DOMAIN jobs
                 PROVE  /\ \A v, w \in Workers : At(v, n)' /\ At(w, n)' => v = w
                        /\ \A w \in Workers : At(w, n)' => Truthful(jobs'[n], worker'[w])
                        /\ (\A w \in Workers : ~At(w, n)') => Truthful(jobs'[n], Idle)
      BY <1>5
    <3>1. /\ \A v, w \in Workers : At(v, n) /\ At(w, n) => v = w
          /\ \A w \in Workers : At(w, n) => Truthful(jobs[n], worker[w])
          /\ (\A w \in Workers : ~At(w, n)) => Truthful(jobs[n], Idle)
      BY <2>1 DEF Tracked
    <3> QED BY <1>2, <2>3, <2>4, <3>1
  <2> QED BY <2>5 DEF Tracked, Truthful
<1> QED BY <1>7, <1>8 DEF IInv

\* by Claim, which takes a job that no worker is at,
LEMMA ClaimKeeps ==
    ASSUME IInv, NEW w \in Workers, NEW i \in DOMAIN jobs, Claim(w, i)
    PROVE  IInv'
<1>1. /\ DocsOK /\ jobs \in Seq(Jobs) /\ request = [e \in Clients |-> request[e]]
      /\ worker = [v \in Workers |-> worker[v]] /\ history \in Histories
  BY DEF IInv, Typed
<1>2. /\ worker[w] = Idle /\ jobs[i].status = "PENDING" /\ jobs[i] \in Jobs
      /\ doc' = doc /\ request' = request /\ history' = history
  BY <1>1 DEF Claim, Claimable
<1>3. ClientsStep BY <1>2 DEF ClientsStep
<1>4. \E s \in {"RUNNING", "FAILED"} :
         /\ jobs' = [jobs EXCEPT ![i] = [jobs[i] EXCEPT !.status = s]]
         /\ s = "RUNNING" => Runnable(jobs[i]) /\ worker' = [worker EXCEPT ![w] = JobPlan(i)]
         /\ s = "FAILED" => worker' = worker
  BY DEF Claim
<1>5. PICK s \in {"RUNNING", "FAILED"} :
         /\ jobs' = [jobs EXCEPT ![i] = [jobs[i] EXCEPT !.status = s]]
         /\ s = "RUNNING" => Runnable(jobs[i]) /\ worker' = [worker EXCEPT ![w] = JobPlan(i)]
         /\ s = "FAILED" => worker' = worker
  BY <1>4
<1>6. PICK k \in Jobs : /\ k = [jobs[i] EXCEPT !.status = s] /\ SameWork(jobs[i], k)
                        /\ k.status = s /\ k.writes = jobs[i].writes
  <2> DEFINE k == [jobs[i] EXCEPT !.status = s]
  <2>1. s \in Statuses BY DEF Statuses
  <2>2. /\ k \in Jobs /\ SameWork(jobs[i], k)
        /\ k.status = s /\ k.writes = jobs[i].writes
    BY <1>2, <2>1, NewStatus
  <2> QED BY <2>2
<1>7. /\ jobs' \in Seq(Jobs) /\ WorkKept /\ DOMAIN jobs' = DOMAIN jobs /\ jobs'[i] = k
      /\ \A n \in DOMAIN jobs : n # i => jobs'[n] = jobs[n]
  BY <1>1, <1>5, <1>6, JobChanged
<1>8. /\ worker' = [v \in Workers |-> worker'[v]]
      /\ \A v \in Workers : v # w => worker'[v] = worker[v]
      /\ s = "RUNNING" => Runnable(jobs[i]) /\ worker'[w] = JobPlan(i)
      /\ s = "FAILED" => worker'[w] = Idle
  BY <1>1, <1>2, <1>5
<1>9. WorkersStep BY <1>8 DEF WorkersStep
<1>10. /\ Typed'
       /\ Undisturbed' => SameSpace' /\ Fresh'
       /\ MovedByJobsOnly' => Whole'
  BY <1>1, <1>2, <1>3, <1>7, <1>8, <1>9, QuietStep
<1>11. Tracked'
  <2>1. Tracked BY DEF IInv
  <2>2. jobs[i].writes = 0
    <3>1. \/ \E v \in Workers : Truthful(jobs[i], worker[v])
          \/ Truthful(jobs[i], Idle)
      BY <2>1 DEF Tracked
    <3> QED BY <1>2, <3>1 DEF Truthful
  <2>3. jobs'[i].status = s /\ jobs'[i].writes = 0 BY <1>6, <1>7, <2>2
  <2>4. (worker'[w] # Idle => worker'[w].job = i) /\ Truthful(jobs'[i], worker'[w])
    <3>1. CASE s = "RUNNING"
      <4>1. worker'[w].kind = "planned" /\ worker'[w].job = i
        BY <1>1, <1>8, <3>1, PlannedWorkOK
      <4> QED BY <2>3, <3>1, <4>1 DEF Truthful
    <3>2. CASE s = "FAILED"
      <4>1. worker'[w] = Idle /\ Idle.kind = "idle" BY <1>8, <3>2 DEF Idle
      <4> QED BY <2>3, <3>2, <4>1 DEF Truthful
    <3> QED BY <3>1, <3>2
  <2> QED BY <1>1, <1>2, <1>7, <1>8, <2>1, <2>4, WorkTracked
<1> QED BY <1>10, <1>11 DEF IInv

\* by Finish, of a job that its worker has written,
LEMMA FinishKeeps ==
    ASSUME IInv, NEW w \in Workers, Finish(w)
    PROVE  IInv'
<1>1. /\ DocsOK /\ jobs \in Seq(Jobs) /\ request = [e \in Clients |-> request[e]]
      /\ worker = [v \in Workers |-> worker[v]] /\ history \in Histories /\ WorkOK(worker[w])
  BY DEF IInv, Typed
<1>2. worker[w].kind = "written" /\ worker[w] # Idle /\ worker[w].job \in DOMAIN jobs
  BY <1>1 DEF Finish, WorkOK, Idle
<1>3. PICK i \in DOMAIN jobs : i = worker[w].job BY <1>2
<1>4. /\ doc' = doc /\ request' = request /\ history' = history /\ jobs[i] \in Jobs
      /\ worker' = [worker EXCEPT ![w] = Idle]
  BY <1>1 DEF Finish
<1>5. PICK k \in Jobs :
         /\ jobs' = [jobs EXCEPT ![i] = k] /\ SameWork(jobs[i], k) /\ k.writes = jobs[i].writes
         /\ k.status = "SUCCEEDED" \/ (k.status \in {jobs[i].status, "FAILED"} /\ k.faults # {})
  <2>1. CASE jobs' = [jobs EXCEPT ![i].status = "SUCCEEDED"]
    <3>1. "SUCCEEDED" \in Statuses BY DEF Statuses
    <3>2. PICK k : k = [jobs[i] EXCEPT !.status = "SUCCEEDED"] OBVIOUS
    <3>3. /\ k \in Jobs /\ SameWork(jobs[i], k)
          /\ k.status = "SUCCEEDED" /\ k.writes = jobs[i].writes
      BY <1>4, <3>1, <3>2, NewStatus
    <3>4. jobs' = [jobs EXCEPT ![i] = k] BY <2>1, <3>2
    <3> QED BY <3>3, <3>4
  <2>2. CASE Caught(i, {"status"})
    <3>1. PICK s \in {jobs[i].status, "FAILED"} :
             jobs' = [jobs EXCEPT ![i].status = s, ![i].faults = @ \cup {"status"}]
      BY <2>2 DEF Caught
    <3>2. PICK F \in FaultSets : F = jobs[i].faults \cup {"status"}
      BY <1>4 DEF Jobs, FaultSets
    <3>3. PICK k : k = WithFaults(jobs[i], s, F) OBVIOUS
    <3>4. /\ k \in Jobs /\ SameWork(jobs[i], k) /\ k.status = s /\ k.writes = jobs[i].writes
          /\ k.faults = F
      <4>1. s \in Statuses BY <1>4 DEF Jobs, Statuses
      <4> QED BY <1>4, <3>3, <4>1, NewFaults
    <3>5. jobs' = [jobs EXCEPT ![i] = k] BY <3>1, <3>2, <3>3 DEF WithFaults
    <3>6. k.faults # {} BY <3>2, <3>4
    <3> QED BY <3>1, <3>4, <3>5, <3>6
  <2> QED BY <1>3, <2>1, <2>2 DEF Finish
<1>6. /\ jobs' \in Seq(Jobs) /\ WorkKept /\ DOMAIN jobs' = DOMAIN jobs /\ jobs'[i] = k
      /\ \A n \in DOMAIN jobs : n # i => jobs'[n] = jobs[n]
  BY <1>1, <1>5, JobChanged
<1>7. /\ worker' = [v \in Workers |-> worker'[v]] /\ worker'[w] = Idle
      /\ \A v \in Workers : v # w => worker'[v] = worker[v]
  BY <1>1, <1>4
<1>8. ClientsStep /\ WorkersStep BY <1>4, <1>7 DEF ClientsStep, WorkersStep
<1>9. /\ Typed'
      /\ Undisturbed' => SameSpace' /\ Fresh'
      /\ MovedByJobsOnly' => Whole'
  BY <1>1, <1>4, <1>6, <1>7, <1>8, QuietStep
<1>10. Tracked'
  <2>1. Tracked BY DEF IInv
  <2>2. At(w, i) BY <1>2, <1>3 DEF At
  <2>3. Truthful(jobs[i], worker[w]) BY <2>1, <2>2 DEF Tracked
  <2>4. Truthful(jobs'[i], worker'[w])
    <3>1. Idle.kind = "idle" BY DEF Idle
    <3>2. jobs[i].writes = 1 /\ jobs[i].status # "PENDING" BY <1>2, <2>3 DEF Truthful
    <3> QED BY <1>5, <1>6, <1>7, <3>1, <3>2 DEF Truthful
  <2> QED BY <1>1, <1>6, <1>7, <2>1, <2>2, <2>4, WorkTracked
<1> QED BY <1>9, <1>10 DEF IInv

\* by Restart, which lets go of the job of a worker and fails what runs,
LEMMA RestartKeeps ==
    ASSUME IInv, NEW w \in Workers, Restart(w)
    PROVE  IInv'
<1>1. /\ DocsOK /\ jobs \in Seq(Jobs) /\ request = [e \in Clients |-> request[e]]
      /\ worker = [v \in Workers |-> worker[v]] /\ history \in Histories
  BY DEF IInv, Typed
<1>2. /\ doc' = doc /\ request' = request /\ history' = history
      /\ worker' = [worker EXCEPT ![w] = Idle]
      /\ DOMAIN jobs' = DOMAIN jobs
      /\ \A i \in DOMAIN jobs : jobs'[i] =
            IF jobs[i].status = "RUNNING"
            THEN [jobs[i] EXCEPT !.status = "FAILED",
                                 !.faults = IF i \in Interrupted(w) THEN @ \cup {"restart"} ELSE @]
            ELSE jobs[i]
  BY DEF Restart
<1>3. /\ worker' = [v \in Workers |-> worker'[v]] /\ worker'[w] = Idle
      /\ \A v \in Workers : v # w => worker'[v] = worker[v]
  BY <1>1, <1>2
<1>4. ASSUME NEW i \in DOMAIN jobs
      PROVE  /\ jobs'[i] \in Jobs /\ SameWork(jobs[i], jobs'[i])
             /\ jobs[i].status # "RUNNING" => jobs'[i] = jobs[i]
             /\ jobs[i].status = "RUNNING" =>
                   /\ jobs'[i].status = "FAILED" /\ jobs'[i].writes = jobs[i].writes
                   /\ jobs'[i].faults # {} \/ (jobs[i].faults = {} /\ i \notin Interrupted(w))
  <2>1. jobs[i] \in Jobs BY <1>1
  <2>2. CASE jobs[i].status = "RUNNING"
    <3>1. PICK F \in FaultSets :
             F = IF i \in Interrupted(w) THEN jobs[i].faults \cup {"restart"} ELSE jobs[i].faults
      BY <2>1 DEF Jobs, FaultSets
    <3>2. PICK k : k = WithFaults(jobs[i], "FAILED", F) OBVIOUS
    <3>3. jobs'[i] = k BY <1>2, <2>2, <3>1, <3>2 DEF WithFaults
    <3>4. "FAILED" \in Statuses BY DEF Statuses
    <3>5. /\ k \in Jobs /\ SameWork(jobs[i], k) /\ k.status = "FAILED"
          /\ k.writes = jobs[i].writes /\ k.faults = F
      BY <2>1, <3>2, <3>4, NewFaults
    <3>6. k.faults # {} \/ (jobs[i].faults = {} /\ i \notin Interrupted(w)) BY <3>1, <3>5
    <3> QED BY <2>2, <3>3, <3>5, <3>6
  <2>3. CASE jobs[i].status # "RUNNING" BY <1>2, <2>1, <2>3 DEF SameWork
  <2> QED BY <2>2, <2>3
<1>5. jobs' \in Seq(Jobs)
  <2>1. DOMAIN jobs = 1 .. Len(jobs) /\ Len(jobs) \in Nat BY <1>1
  <2>2. jobs' = [i \in DOMAIN jobs |-> jobs'[i]] BY DEF Restart
  <2>3. jobs' \in [1 .. Len(jobs) -> Jobs] BY <1>4, <2>1, <2>2
  <2> QED BY <2>1, <2>3
<1>6. WorkKept BY <1>2, <1>4 DEF WorkKept
<1>7. ClientsStep /\ WorkersStep BY <1>2, <1>3 DEF ClientsStep, WorkersStep
<1>8. /\ Typed'
      /\ Undisturbed' => SameSpace' /\ Fresh'
      /\ MovedByJobsOnly' => Whole'
  BY <1>1, <1>2, <1>3, <1>5, <1>6, <1>7, QuietStep
<1>9. Tracked'
  <2>1. Tracked BY DEF IInv
  <2>2. Idle.kind = "idle" BY DEF Idle
  <2>3. ASSUME NEW i \in DOMAIN jobs'
        PROVE  /\ \A v, x \in Workers : At(v, i)' /\ At(x, i)' => v = x
               /\ \A v \in Workers : At(v, i)' => Truthful(jobs'[i], worker'[v])
               /\ (\A v \in Workers : ~At(v, i)') => Truthful(jobs'[i], Idle)
    <3>1. i \in DOMAIN jobs BY <1>2
    <3>2. \A v \in Workers : /\ At(v, i)' <=> v # w /\ At(v, i)
                             /\ At(v, i)' => worker'[v] = worker[v]
      BY <1>3 DEF At
    <3>3. /\ \A v, x \in Workers : At(v, i) /\ At(x, i) => v = x
          /\ \A v \in Workers : At(v, i) => Truthful(jobs[i], worker[v])
          /\ (\A v \in Workers : ~At(v, i)) => Truthful(jobs[i], Idle)
      BY <2>1, <3>1 DEF Tracked
    <3>4. \A v \in Workers : /\ At(v, i) /\ v # w => i \in Interrupted(w)
                             /\ At(v, i) /\ worker[v].kind = "written" => i \in Interrupted(w)
      BY DEF At, Interrupted
    <3> HIDE DEF At
    <3>5. ASSUME NEW v \in Workers, At(v, i)' PROVE Truthful(jobs'[i], worker'[v])
      <4>1. /\ Truthful(jobs[i], worker[v]) /\ i \in Interrupted(w) /\ worker'[v] = worker[v]
        BY <3>2, <3>3, <3>4, <3>5
      <4>2. CASE jobs[i].status = "RUNNING" BY <1>4, <3>1, <4>1, <4>2 DEF Truthful
      <4>3. CASE jobs[i].status # "RUNNING" BY <1>4, <3>1, <4>1, <4>3
      <4> QED BY <4>2, <4>3
    <3>6. Truthful(jobs'[i], Idle)
          \/ \E v \in Workers : At(v, i)'
      <4>1. CASE \E v \in Workers : At(v, i)
        <5>1. PICK v \in Workers : At(v, i) BY <4>1
        <5>2. Truthful(jobs[i], worker[v]) BY <3>3, <5>1
        <5>3. worker[v] # Idle BY <5>1 DEF At
        <5>4. CASE jobs[i].status = "RUNNING"
          <6>1. jobs[i].writes = 0 \/ jobs'[i].faults # {}
            BY <1>4, <3>1, <3>4, <5>1, <5>2, <5>4 DEF Truthful
          <6> QED BY <1>4, <2>2, <3>1, <5>2, <5>4, <6>1 DEF Truthful
        <5>5. CASE jobs[i].status # "RUNNING"
          <6>1. jobs'[i] = jobs[i] BY <1>4, <3>1, <5>5
          <6> QED BY <2>2, <5>2, <5>3, <5>5, <6>1 DEF Truthful
        <5> QED BY <5>4, <5>5
      <4>2. CASE ~\E v \in Workers : At(v, i)
        <5>1. Truthful(jobs[i], Idle) BY <3>3, <4>2
        <5> QED BY <1>4, <2>2, <3>1, <5>1 DEF Truthful
      <4> QED BY <4>1, <4>2
    <3>7. \A v, x \in Workers : At(v, i)' /\ At(x, i)' => v = x BY <3>2, <3>3
    <3> QED BY <3>5, <3>6, <3>7
  <2> QED BY <2>3 DEF Tracked, Truthful
<1> QED BY <1>8, <1>9 DEF IInv

\* Where the only plan that waited is written, all that waits is fresh.
LEMMA NothingWaits ==
    ASSUME NEW x, Planned = {x},
           \A c \in Clients : request'[c] = IF c = x THEN Idle ELSE request[c],
           \A w \in Workers : worker'[w] = worker[w] \/ worker'[w].kind # "planned",
           x \in Workers => worker'[x].kind # "planned"
    PROVE  Fresh'
<1>1. ASSUME NEW c \in Clients PROVE request'[c] = Idle
  <2>1. request[c] # Idle => c \in Planned BY DEF Planned
  <2> QED BY <2>1
<1>2. ASSUME NEW w \in Workers PROVE worker'[w].kind # "planned"
  <2>1. worker[w].kind = "planned" => w \in Planned BY DEF Planned
  <2> QED BY <2>1
<1> QED BY <1>1, <1>2 DEF Fresh

\* by Write, of a job that was not written before,
LEMMA WriteKeeps ==
    ASSUME IInv, NEW w \in Workers, Write(w)
    PROVE  IInv'
<1>1. /\ DocsOK /\ jobs \in Seq(Jobs) /\ request = [e \in Clients |-> request[e]]
      /\ worker = [v \in Workers |-> worker[v]] /\ history \in Histories
      /\ \A c \in Clients : RequestOK(request[c])
      /\ \A v \in Workers : WorkOK(worker[v])
  BY DEF IInv, Typed
<1>2. worker[w].kind = "planned" BY DEF Write
<1>3. worker[w] # Idle /\ worker[w].job \in DOMAIN jobs BY <1>1, <1>2 DEF WorkOK, Idle
<1>4. PICK i \in DOMAIN jobs : i = worker[w].job BY <1>3
<1>5. jobs[i] \in Jobs BY <1>1
<1>6. PICK k \in Jobs :
         /\ SameWork(jobs[i], k) /\ jobs' = [jobs EXCEPT ![i] = k] /\ k.faults = jobs[i].faults
         /\ \/ /\ worker' = [worker EXCEPT ![w] = [kind |-> "written", job |-> i]]
               /\ k.status = jobs[i].status /\ k.writes = jobs[i].writes + 1
            \/ /\ worker' = [worker EXCEPT ![w] = Idle]
               /\ k.status \in {jobs[i].status, "FAILED"} /\ k.writes = jobs[i].writes
  <2>1. PICK s \in {jobs[i].status, "FAILED"} :
        \/ /\ jobs' = [jobs EXCEPT ![i] = [jobs[i] EXCEPT !.writes = @ + 1]]
           /\ worker' = [worker EXCEPT ![w] = [kind |-> "written", job |-> i]]
        \/ /\ jobs' = [jobs EXCEPT ![i] = [jobs[i] EXCEPT !.status = s, !.faults = @]]
           /\ worker' = [worker EXCEPT ![w] = Idle]
    <3>1. jobs[i].faults \cup {} = jobs[i].faults OBVIOUS
    <3> QED BY <1>4, <3>1 DEF Write, Caught
  <2> DEFINE once == [jobs[i] EXCEPT !.writes = @ + 1]
             failed == WithFaults(jobs[i], s, jobs[i].faults)
  <2>2. /\ once \in Jobs /\ SameWork(jobs[i], once) /\ once.faults = jobs[i].faults
        /\ once.status = jobs[i].status /\ once.writes = jobs[i].writes + 1
    BY <1>5, NewWrites
  <2>3. /\ failed \in Jobs /\ SameWork(jobs[i], failed) /\ failed.faults = jobs[i].faults
        /\ failed.status = s /\ failed.writes = jobs[i].writes
    <3>1. s \in Statuses /\ jobs[i].faults \in FaultSets BY <1>5 DEF Jobs, Statuses
    <3> QED BY <1>5, <3>1, NewFaults
  <2>4. \/ /\ jobs' = [jobs EXCEPT ![i] = once]
           /\ worker' = [worker EXCEPT ![w] = [kind |-> "written", job |-> i]]
        \/ /\ jobs' = [jobs EXCEPT ![i] = failed]
           /\ worker' = [worker EXCEPT ![w] = Idle]
    BY <2>1 DEF WithFaults
  <2> HIDE DEF once, failed
  <2> QED BY <2>2, <2>3, <2>4
<1>7. /\ jobs' \in Seq(Jobs) /\ WorkKept /\ DOMAIN jobs' = DOMAIN jobs /\ jobs'[i] = k
      /\ \A n \in DOMAIN jobs : n # i => jobs'[n] = jobs[n]
  BY <1>1, <1>6, JobChanged
<1>8. /\ worker' = [v \in Workers |-> worker'[v]]
      /\ \A v \in Workers : v # w => worker'[v] = worker[v]
      /\ worker'[w].kind \in {"written", "idle"}
      /\ \/ /\ worker'[w].kind = "written" /\ worker'[w].job = i
            /\ k.status = jobs[i].status /\ k.writes = jobs[i].writes + 1
         \/ /\ worker'[w] = Idle /\ k.status \in {jobs[i].status, "FAILED"}
            /\ k.writes = jobs[i].writes
  BY <1>1, <1>6 DEF Idle
<1>9. request' = request /\ history' = [history EXCEPT !.overlapped = Overlapping] BY DEF Write
<1>10. history' \in Histories
  <2>1. Overlapping \in BOOLEAN BY <1>1 DEF Overlapping, Histories
  <2> QED BY <1>1, <1>9, <2>1 DEF Histories
<1>11. ClientsStep BY <1>9 DEF ClientsStep
<1>12. WorkersStep BY <1>8 DEF WorkersStep
<1>13. DocsOK' /\ (Undisturbed' => SameSpace' /\ Planned = {w}) /\ (MovedByJobsOnly' => Whole')
  BY WriteKeepsTrees
<1>14. Typed'
  <2>1. /\ \A c \in Clients : RequestOK(request'[c])
        /\ \A v \in Workers : WorkOK(worker[v])'
    BY <1>1, <1>7, <1>11, <1>12, HandsTyped
  <2>2. \A c \in Clients : RequestOK(request[c])' BY <2>1 DEF RequestOK
  <2> QED BY <1>1, <1>7, <1>8, <1>9, <1>10, <1>13, <2>1, <2>2 DEF Typed
<1>15. ASSUME Undisturbed' PROVE Fresh'
  <2>1. w \notin Clients BY TreeAssumption
  <2>2. \A c \in Clients : request'[c] = IF c = w THEN Idle ELSE request[c] BY <1>9, <2>1
  <2>3. worker'[w].kind # "planned" BY <1>8
  <2> QED BY <1>8, <1>13, <1>15, <2>2, <2>3, NothingWaits
<1>16. Tracked'
  <2>1. Tracked /\ At(w, i) BY <1>3, <1>4 DEF At, IInv
  <2>2. Truthful(jobs[i], worker[w]) BY <2>1 DEF Tracked
  <2>3. jobs[i].writes = 0 /\ jobs[i].status \notin {"PENDING", "SUCCEEDED"}
    BY <1>2, <1>3, <2>2 DEF Truthful
  <2>4. jobs[i].status = "FAILED" => jobs[i].faults # {} BY <1>3, <2>2 DEF Truthful
  <2>5. Idle.kind = "idle" BY DEF Idle
  <2>6. (worker'[w] # Idle => worker'[w].job = i) /\ Truthful(jobs'[i], worker'[w])
    <3>1. jobs'[i] = k /\ k.faults = jobs[i].faults BY <1>6, <1>7
    <3>2. CASE worker'[w].kind = "written"
      <4>1. worker'[w].job = i /\ k.status = jobs[i].status /\ k.writes = 1
        BY <1>8, <2>3, <2>5, <3>2
      <4> QED BY <2>3, <2>4, <3>1, <3>2, <4>1 DEF Truthful
    <3>3. CASE worker'[w] = Idle
      <4>1. k.status \in {jobs[i].status, "FAILED"} /\ k.writes = 0
        BY <1>8, <2>3, <2>5, <3>3
      <4> QED BY <2>3, <2>5, <3>1, <3>3, <4>1 DEF Truthful
    <3> QED BY <1>8, <3>2, <3>3
  <2> QED BY <1>1, <1>7, <1>8, <2>1, <2>6, WorkTracked
<1> QED BY <1>13, <1>14, <1>15, <1>16 DEF IInv

\* and by Commit.
LEMMA CommitKeeps ==
    ASSUME IInv, NEW c \in Clients, Commit(c)
    PROVE  IInv'
<1>1. /\ DocsOK /\ jobs \in Seq(Jobs) /\ request = [e \in Clients |-> request[e]]
      /\ worker = [v \in Workers |-> worker[v]] /\ history \in Histories
      /\ \A e \in Clients : RequestOK(request[e])
      /\ \A v \in Workers : WorkOK(worker[v])
  BY DEF IInv, Typed
<1>2. /\ request' = [request EXCEPT ![c] = Idle] /\ jobs' = jobs /\ worker' = worker
      /\ history' = [history EXCEPT !.overlapped = Overlapping,
                                    !.patched = @ \/ request[c].kind = "patch"]
  BY DEF Commit
<1>3. history' \in Histories
  <2>1. Overlapping \in BOOLEAN BY <1>1 DEF Overlapping, Histories
  <2>2. (history.patched \/ request[c].kind = "patch") \in BOOLEAN OBVIOUS
  <2> QED BY <1>1, <1>2, <2>1, <2>2 DEF Histories
<1>4. /\ request' = [e \in Clients |-> request'[e]]
      /\ \A e \in Clients : request'[e] = IF e = c THEN Idle ELSE request[e]
  BY <1>1, <1>2
<1>5. jobs' \in Seq(Jobs) /\ WorkKept BY <1>1, <1>2, NoJobChanged
<1>6. ClientsStep /\ WorkersStep BY <1>2, <1>4 DEF ClientsStep, WorkersStep
<1>7. DocsOK' /\ (Undisturbed' => SameSpace' /\ Planned = {c}) /\ (MovedByJobsOnly' => Whole')
  BY CommitKeepsTrees
<1>8. Typed'
  <2>1. /\ \A e \in Clients : RequestOK(request'[e])
        /\ \A v \in Workers : WorkOK(worker[v])'
    BY <1>1, <1>5, <1>6, HandsTyped
  <2>2. \A e \in Clients : RequestOK(request[e])' BY <2>1 DEF RequestOK
  <2> QED BY <1>1, <1>2, <1>3, <1>4, <1>5, <1>7, <2>1, <2>2 DEF Typed
<1>9. ASSUME Undisturbed' PROVE Fresh'
  <2>1. c \notin Workers BY TreeAssumption
  <2> QED BY <1>2, <1>4, <1>7, <1>9, <2>1, NothingWaits
<1>10. Tracked' BY <1>2 DEF IInv, Tracked, At
<1> QED BY <1>7, <1>8, <1>9, <1>10 DEF IInv

-----------------------------------------------------------------------------
(* Steps: who is removed.                                                  *)

\* A job removes no document.
LEMMA WriteKeepsAll ==
    ASSUME IInv, NEW w \in Workers, Write(w)
    PROVE  There \subseteq There'
<1> DEFINE plan == worker[w]
           i == plan.job
           j == jobs[i]
           parent == IF j.kind = "move" THEN j.parent ELSE plan.rows[j.doc].parent
           holds == ParentThere(parent) /\ (j.kind = "move" => j.doc \in There)
<1>1. DocsOK /\ WorkOK(plan) /\ plan.kind = "planned" BY DEF IInv, Typed, Write
<1>2. /\ j \in Jobs /\ plan.vis \in Visibilities /\ TreeOf(j, plan)
  <2>1. i \in DOMAIN jobs /\ jobs \in Seq(Jobs) BY <1>1 DEF WorkOK, Idle, IInv, Typed
  <2>2. j \in Jobs BY <2>1
  <2> QED BY <1>1, <2>1, <2>2 DEF WorkOK, Idle, TreeOf, Jobs
<1>3. /\ \/ /\ holds
            /\ j.kind = "duplicate" => Fits(DOMAIN plan.rows)
            /\ doc' = IF j.kind = "move" THEN MovedTree(j, plan)
                      ELSE CopiedTree(j, plan, Copies(DOMAIN plan.rows))
         \/ doc' = doc
  BY DEF Write
<1> HIDE DEF plan, j, i
<1>4. j.kind \in {"move", "duplicate"} /\ j.parent \in Docs \cup {Root} /\ j.ws \in Workspaces
  BY <1>2 DEF Jobs
<1>5. CASE doc' = doc BY <1>5 DEF There
<1>6. CASE doc' # doc /\ holds /\ j.kind = "move"
  <2>1. doc' = MovedTree(j, plan) /\ j.doc \in There /\ ParentThere(j.parent) BY <1>3, <1>6
  <2>2. j.doc \in DOMAIN plan.rows BY <1>2 DEF TreeOf
  <2> QED BY <1>1, <1>2, <1>4, <2>1, <2>2, MovedKeepsDocs
<1>7. CASE doc' # doc /\ holds /\ j.kind # "move"
  <2>1. /\ doc' = CopiedTree(j, plan, Copies(DOMAIN plan.rows)) /\ Fits(DOMAIN plan.rows)
        /\ ParentThere(plan.rows[j.doc].parent)
    BY <1>3, <1>4, <1>7
  <2>2. CopiedTo(j, plan, Copies(DOMAIN plan.rows)) BY <1>1, <1>2, <2>1, CopiedKeepsDocs
  <2> QED BY <2>2 DEF CopiedTo
<1> QED BY <1>3, <1>5, <1>6, <1>7

\* A request that was planned in the present forest leaves every child its parent.
LEMMA CommitKeepsParents ==
    ASSUME IInv, NEW c \in Clients, Commit(c), MovedByJobsOnly, NEW d \in There, d \in There',
           doc[d].parent # Root
    PROVE  doc[d].parent \in There'
<1> DEFINE r == request[c]
           u == r.user
           p == doc[d].parent
<1>1. /\ DocsOK /\ SameSpace /\ Fresh /\ Whole
  BY DEF IInv, Typed, MovedByJobsOnly, Undisturbed
<1>2. /\ doc' = Outcome(r) /\ r # Idle
      /\ r.kind = "create" => \E e \in Docs : doc[e].life = "unused"
  BY DEF Commit
<1>3. u \in Users /\ r \in Plans(u) BY <1>1, <1>2 DEF Fresh
<1>4. p \in There BY <1>1, RowThere
<1> HIDE DEF r, u
<1>5. CASE CreatesWell(u, r)
  <2>1. ParentThere(r.parent) BY <1>5 DEF CreatesWell, CanEdit, Live, ParentThere
  <2>2. doc' = Created(r) BY <1>2, <1>5, <2>1 DEF Outcome, CreatesWell
  <2>3. \E e \in Docs : doc[e].life = "unused" BY <1>2, <1>5 DEF CreatesWell
  <2>4. RequestOK(r) /\ r.user = u BY <1>1, <1>3, PlannedRequestOK
  <2>5. /\ r.user \in Users /\ r.ws \in Workspaces /\ r.parent \in Docs \cup {Root}
        /\ r.vis \in Visibilities
    BY <1>2, <1>5, <2>4 DEF RequestOK, CreatesWell
  <2>6. There \subseteq There' BY <1>1, <2>1, <2>2, <2>3, <2>5, CreatedKeepsDocs
  <2> QED BY <1>4, <2>6
<1>6. CASE PatchesWell(u, r)
  <2>1. r.doc \in There /\ ParentThere(r.parent) /\ r.vis \in Visibilities
        /\ r.parent \in Docs \cup {Root}
    BY <1>6 DEF PatchesWell, CanEdit, Live, There, ParentThere
  <2>2. doc' = Patched(r) BY <1>2, <1>6, <2>1 DEF Outcome, PatchesWell
  <2>3. There' = There BY <1>1, <2>1, <2>2, PatchedKeepsDocs
  <2> QED BY <1>4, <2>3
<1>7. CASE TrashesWell(u, r)
  <2>1. doc' = Marked(r.ids, TRUE) BY <1>2, <1>7 DEF Outcome, TrashesWell
  <2> QED BY <1>1, <1>4, <2>1, MarkedKeepsDocs
<1>8. CASE RestoresWell(u, r)
  <2>1. doc' = Marked(r.ids, FALSE) BY <1>2, <1>8 DEF Outcome, RestoresWell
  <2> QED BY <1>1, <1>4, <2>1, MarkedKeepsDocs
<1>9. CASE RemovesWell(u, r)
  <2>1. doc' = Removed(r.ids) BY <1>2, <1>9 DEF Outcome, RemovesWell
  <2>2. There' = There \ r.ids BY <1>1, <2>1, RemovedKeepsDocs
  <2>3. p \in r.ids => d \in r.ids BY <1>1, <1>3, <1>9, RemovesChildren
  <2> QED BY <1>4, <2>2, <2>3
<1> QED BY <1>1, <1>3, <1>5, <1>6, <1>7, <1>8, <1>9, PlannedWell

\* No step leaves a document without its parent because that was removed.
LEMMA StepRemovesWhole ==
    ASSUME IInv, [Next]_vars, MovedByJobsOnly, NEW d \in There, doc'[d].life = "there",
           doc[d].parent # Root, doc'[d].parent = Root
    PROVE  doc'[doc[d].parent].life = "there"
<1>1. DocsOK BY DEF IInv, Typed
<1>2. d \in There' /\ doc' # doc BY DEF There
<1>3. doc[d].parent \in There BY <1>1, RowThere
<1>4. SUFFICES doc[d].parent \in There' BY DEF There
<1>5. ASSUME NEW c \in Clients, Commit(c) PROVE doc[d].parent \in There'
  BY <1>2, <1>5, CommitKeepsParents
<1>6. ASSUME NEW w \in Workers, Write(w) PROVE doc[d].parent \in There'
  BY <1>3, <1>6, WriteKeepsAll
<1> QED BY <1>2, <1>5, <1>6 DEF Next, vars, Begin, RequestJob, EnqueueFails, Claim,
                                   Finish, Restart

-----------------------------------------------------------------------------
(* The invariant holds throughout.                                         *)

\* Documents that were only created so far hang below earlier ones.
LEMMA InitialForestWhole ==
    ASSUME Init
    PROVE  DocsOK /\ SameSpace /\ Whole
<1>1. PICK f \in [1 .. InitDocs -> {r \in Rows : r.life = "there" /\ ~r.trashed}] :
         InitialForest(f) /\ doc = [d \in Docs |-> IF d <= InitDocs THEN f[d] ELSE Unused]
  BY DEF Init
<1>2. MaxDocs \in Nat /\ InitDocs \in Nat BY TreeAssumption
<1>3. \A d \in Docs : d <= InitDocs => d \in 1 .. InitDocs BY <1>2 DEF Docs
<1>4. /\ There = {d \in Docs : d <= InitDocs} /\ Live = There
      /\ \A d \in There :
            /\ d \in 1 .. InitDocs /\ doc[d] = f[d] /\ doc[d] \in Rows
            /\ doc[d].parent \in Docs \cup {Root}
  <2>1. \A d \in Docs : d <= InitDocs => /\ doc[d] = f[d] /\ doc[d] \in Rows
                                         /\ doc[d].life = "there" /\ ~doc[d].trashed
    BY <1>1, <1>3
  <2>2. \A d \in Docs : ~(d <= InitDocs) => doc[d] = Unused BY <1>1
  <2>3. Unused.life # "there" BY DEF Unused
  <2>4. There = {d \in Docs : d <= InitDocs} BY <2>1, <2>2, <2>3 DEF There
  <2>5. Live = There BY <2>1, <2>4 DEF Live
  <2> QED BY <1>3, <2>1, <2>4, <2>5 DEF Rows
<1>5. ASSUME NEW d \in There
      PROVE  /\ doc[d].parent \in Nat /\ doc[d].parent < d
             /\ doc[d].parent # Root =>
                   /\ doc[d].parent \in There
                   /\ doc[doc[d].parent].ws = doc[d].ws /\ doc[doc[d].parent].vis = doc[d].vis
                   /\ doc[d].vis = "PRIVATE" => doc[doc[d].parent].by = doc[d].by
  <2>1. d \in 1 .. InitDocs /\ doc[d] = f[d] /\ doc[d].parent \in Docs \cup {Root} BY <1>4
  <2>2. doc[d].parent \in Nat /\ doc[d].parent < d
    BY <1>1, <1>2, <2>1 DEF InitialForest, Docs, Root
  <2>3. ASSUME doc[d].parent # Root PROVE doc[d].parent \in There
    BY <1>2, <1>4, <2>1, <2>2, <2>3
  <2>4. doc[d].parent # Root => doc[doc[d].parent] = f[f[d].parent] BY <1>4, <2>1, <2>3
  <2> QED BY <1>1, <2>1, <2>2, <2>3, <2>4 DEF InitialForest
<1>6. DocsOK
  <2>1. doc \in [Docs -> Rows \cup {Unused}] BY <1>1, <1>3
  <2> QED BY <1>5, <2>1 DEF DocsOK, ParentThere
<1>7. SameSpace /\ Shared BY <1>5 DEF SameSpace, Shared
<1>8. LiveAbove BY <1>4, <1>5 DEF LiveAbove
<1>9. Grounded
  <2>1. ASSUME NEW S \in SUBSET There, S # {} PROVE \E d \in S : doc[d].parent \notin S
    <3>1. S \in SUBSET Nat BY <1>4
    <3>2. PICK d \in S : \A e \in S : d <= e BY <2>1, <3>1, LeastNumber
    <3>3. d \in Nat /\ doc[d].parent \in Nat /\ doc[d].parent < d BY <1>5, <3>1
    <3>4. doc[d].parent \notin S BY <3>2, <3>3
    <3> QED BY <3>4
  <2> QED BY <2>1 DEF Grounded
<1> QED BY <1>6, <1>7, <1>8, <1>9 DEF Whole

\* The initial states satisfy the invariant.
LEMMA InitImpliesInvariant == Init => IInv
<1> SUFFICES ASSUME Init PROVE IInv OBVIOUS
<1>1. DocsOK /\ SameSpace /\ Whole BY InitialForestWhole
<1>2. /\ request = [c \in Clients |-> Idle] /\ jobs = <<>> /\ worker = [w \in Workers |-> Idle]
      /\ history = [overlapped |-> FALSE, patched |-> FALSE]
  BY DEF Init
<1>3. jobs \in Seq(Jobs) /\ DOMAIN jobs = {} BY <1>2
<1>4. /\ \A c \in Clients : request[c] = Idle /\ RequestOK(request[c])
      /\ \A w \in Workers : worker[w] = Idle /\ WorkOK(worker[w])
  BY <1>2 DEF RequestOK, WorkOK
<1>5. history \in Histories BY <1>2 DEF Histories
<1>6. Typed BY <1>1, <1>2, <1>3, <1>4, <1>5 DEF Typed
<1>7. Tracked BY <1>3 DEF Tracked
<1>8. Fresh BY <1>4 DEF Fresh, Idle
<1> QED BY <1>1, <1>6, <1>7, <1>8 DEF IInv

\* Every step keeps the invariant.
LEMMA StepKeepsInvariant == IInv /\ [Next]_vars => IInv'
<1> SUFFICES ASSUME IInv, [Next]_vars PROVE IInv' OBVIOUS
<1>1. CASE UNCHANGED vars
  <2>1. /\ doc' = doc /\ request' = request /\ jobs' = jobs /\ worker' = worker
        /\ history' = history
    BY <1>1 DEF vars
  <2>2. /\ jobs \in Seq(Jobs) /\ request = [e \in Clients |-> request[e]]
        /\ worker = [v \in Workers |-> worker[v]] /\ history \in Histories
    BY DEF IInv, Typed
  <2>3. jobs' \in Seq(Jobs) /\ WorkKept BY <2>1, <2>2, NoJobChanged
  <2>4. ClientsStep /\ WorkersStep BY <2>1 DEF ClientsStep, WorkersStep
  <2>5. /\ Typed'
        /\ Undisturbed' => SameSpace' /\ Fresh'
        /\ MovedByJobsOnly' => Whole'
    BY <2>1, <2>2, <2>3, <2>4, QuietStep
  <2>6. Tracked' BY <2>1 DEF IInv, Tracked, At
  <2> QED BY <2>5, <2>6 DEF IInv
<1>2. ASSUME NEW c \in Clients, Begin(c) PROVE IInv' BY <1>2, BeginKeeps
<1>3. ASSUME NEW c \in Clients, Commit(c) PROVE IInv' BY <1>3, CommitKeeps
<1>4. CASE RequestJob BY <1>4, RequestJobKeeps
<1>5. ASSUME NEW w \in Workers, NEW i \in DOMAIN jobs, Claim(w, i) PROVE IInv'
  BY <1>5, ClaimKeeps
<1>6. ASSUME NEW w \in Workers, Write(w) PROVE IInv' BY <1>6, WriteKeeps
<1>7. ASSUME NEW w \in Workers, Finish(w) PROVE IInv' BY <1>7, FinishKeeps
<1>8. ASSUME NEW w \in Workers, Restart(w) PROVE IInv' BY <1>8, RestartKeeps
<1>9. ASSUME NEW i \in DOMAIN jobs, EnqueueFails(i) PROVE IInv'
  BY <1>9, EnqueueFailsKeeps
<1> QED BY <1>1, <1>2, <1>3, <1>4, <1>5, <1>6, <1>7, <1>8, <1>9 DEF Next

\* The invariant is strong enough for JobTruthful.
LEMMA InvariantImpliesJobTruthful == IInv => JobTruthful
<1> SUFFICES ASSUME IInv, NEW i \in DOMAIN jobs
             PROVE  /\ jobs[i].writes <= 1
                    /\ jobs[i].status = "PENDING" => jobs[i].writes = 0
                    /\ jobs[i].status = "SUCCEEDED" => jobs[i].writes = 1
                    /\ jobs[i].status = "FAILED" /\ jobs[i].faults = {} => jobs[i].writes = 0
  BY DEF JobTruthful
<1>1. \E p : Truthful(jobs[i], p) BY DEF IInv, Tracked
<1> QED BY <1>1 DEF Truthful

-----------------------------------------------------------------------------
\* IInv is an invariant of every run.
THEOREM InvariantHolds == Spec => []IInv
<1>1. Init => IInv BY InitImpliesInvariant
<1>2. IInv /\ [Next]_vars => IInv' BY StepKeepsInvariant
<1> QED BY <1>1, <1>2, PTL DEF Spec

\* The documents are a forest in which trees are moved, shared and trashed whole,
\* nobody's document is its own ancestor, and whoever may see a document finds it
\* in the tree or in the trash, as long as requests and jobs do not overlap.
THEOREM AlwaysForest == Spec => []Forest
<1>1. IInv => Forest BY InvariantImpliesForest
<1> QED BY <1>1, InvariantHolds, PTL

\* A job is written once at most; it was written if it says that it succeeded, and not if
\* it waits, nor if it says that it failed, unless its status was overwritten or lost
\* by an error of queue.add or of the update to SUCCEEDED or by a restart.
THEOREM JobsAlwaysTruthful == Spec => []JobTruthful
<1>1. IInv => JobTruthful BY InvariantImpliesJobTruthful
<1> QED BY <1>1, InvariantHolds, PTL

\* A removal takes the whole tree below what it removes, in whatever part its user
\* can see and whatever was moved, trashed and restored before.
THEOREM AlwaysRemovedWhole == Spec => RemovedWhole
<1> DEFINE Keeps == (MovedByJobsOnly /\ ~history'.overlapped) =>
              \A d \in There :
                 (doc'[d].life = "there" /\ doc[d].parent # Root /\ doc'[d].parent = Root)
                     => doc'[doc[d].parent].life = "there"
<1>1. IInv /\ [Next]_vars => [Keeps]_vars BY StepRemovesWhole
<1> QED BY <1>1, InvariantHolds, PTL DEF Spec, RemovedWhole
-----------------------------------------------------------------------------
(* ChatSession: the inductive invariant.                                   *)

\* Users ask and assistants answer, in the order of creation; a question is asked in one
\* transaction with its first reply, and no branch order is beyond its message's number.
MessagesOK ==
    \A m \in DOMAIN messages :
        /\ messages[m].parent < m
        /\ messages[m].role = IF messages[m].parent = None THEN "user"
                              ELSE ReplyRole(messages[messages[m].parent].role)
        /\ messages[m].role = "user" =>
              messages[m].status = "completed" /\ messages[m].order <= m /\ m < Len(messages)
        /\ messages[m].role = "assistant" => messages[m].order < m

Over(m) == messages[m].status # "running"

\* What a request has read stays true: messages are never deleted, and a reply that was over
\* once is not written again.
PlanOK(req) ==
    /\ req.version <= session.version
    /\ req.pc = "repair" => req.repairs = {}
    /\ req.pc \in {"check", "write"} =>
          /\ req.op \in {"send", "edit"} /\ req.parent # None =>
                /\ req.parent \in DOMAIN messages /\ messages[req.parent].role = "assistant"
                /\ Over(req.parent)
          /\ req.op = "retry" =>
                req.parent \in DOMAIN messages /\ messages[req.parent].role = "user"
          /\ req.op = "switch" =>
                req.child \in DOMAIN messages /\ messages[req.child].parent = req.parent
          /\ req.op # "switch" => req.order # 0 /\ (req.order = 1 \/ req.order <= Len(messages))

\* A run is created for a version the session has reached, with a reply; only an agent that
\* was given the context of a run brings its outcome.
RunsOK ==
    /\ \A m \in 1 .. MaxMessages : expected[m] <= session.version
    /\ \A m \in 1 .. MaxMessages :
          runs[m] # "none" => m \in DOMAIN messages /\ messages[m].role = "assistant"
    /\ \A m \in told : runs[m] # "none"
    /\ \A m \in 1 .. MaxMessages : late[m] # {} => m \in told

\* A run that may still complete ends its branch, and if its agent was given the context, the
\* branch is the one that is shown.
OnShownPath(m) ==
    ActivePath(messages, PathRoot(PathTo(messages, m))) = PathTo(messages, m)
ToldWhereSelected ==
    \A m \in DOMAIN messages :
        expected[m] = session.version =>
            /\ NextOnPath(messages, m) = None
            /\ m \in told => OnShownPath(m)

\* The type of what the agents' outcomes change.
OutcomeTypes ==
    /\ runs \in [1 .. MaxMessages ->
                    {"none"} \cup activeRunStatuses \cup continuableAssistantStatuses]
    /\ late \in [1 .. MaxMessages -> SUBSET {"action", "completed"}]
    /\ told \in SUBSET (1 .. MaxMessages)

SessionInv ==
    /\ MessageTree
    /\ MessagesOK
    /\ \A q \in Requests : PlanOK(requests[q])
    /\ RunsOK
    /\ ToldWhereSelected
-----------------------------------------------------------------------------
(* Paths in the tree of messages.                                          *)

\* A member of a sequence over S is in S.
LEMMA SequenceMember ==
    ASSUME NEW S, NEW s \in Seq(S), NEW i \in 1 .. Len(s)
    PROVE  s[i] \in S
OBVIOUS

\* A sequence whose members are in T is one over T.
LEMMA SequenceWithin ==
    ASSUME NEW S, NEW T, NEW s \in Seq(S), \A i \in 1 .. Len(s) : s[i] \in T
    PROVE  s \in Seq(T)
<1>1. Len(s) \in Nat /\ s = [i \in 1 .. Len(s) |-> s[i]] OBVIOUS
<1>2. s \in [1 .. Len(s) -> T] BY <1>1
<1> QED BY <1>1, <1>2

\* f begins with a and goes on by a step, which may depend on the place.
Recurs(f, n, a, step) == f[0] = a /\ \A i \in 1 .. n : f[i] = step[<<i, f[i - 1]>>]

\* A function that is given by its first value and by a step exists.
LEMMA RecursionExists ==
    ASSUME NEW n \in Nat, NEW S, NEW a \in S, NEW step \in [(1 .. n) \X S -> S]
    PROVE  \E f \in [0 .. n -> S] : Recurs(f, n, a, step)
<1> DEFINE Good(f, k) == Recurs(f, k, a, step)
           N == {k \in Nat : k <= n => \E f \in [0 .. k -> S] : Good(f, k)}
<1>1. 0 \in N
  <2> DEFINE f == [i \in 0 .. 0 |-> a]
  <2>1. f \in [0 .. 0 -> S] /\ Good(f, 0) BY DEF Recurs
  <2> QED BY <2>1
<1>2. ASSUME NEW k \in Nat, k \in N PROVE k + 1 \in N
  <2>1. SUFFICES ASSUME k + 1 <= n PROVE \E f \in [0 .. k + 1 -> S] : Good(f, k + 1) OBVIOUS
  <2>2. PICK f \in [0 .. k -> S] : Good(f, k) BY <1>2, <2>1
  <2> DEFINE g == [i \in 0 .. k + 1 |-> IF i = k + 1 THEN step[<<k + 1, f[k]>>] ELSE f[i]]
  <2>3. <<k + 1, f[k]>> \in (1 .. n) \X S BY <2>1
  <2>4. step[<<k + 1, f[k]>>] \in S BY <2>3
  <2>5. g \in [0 .. k + 1 -> S] BY <2>4
  <2>6. g[0] = a BY <2>2 DEF Recurs
  <2>7. ASSUME NEW i \in 1 .. k + 1 PROVE g[i] = step[<<i, g[i - 1]>>]
    <3>1. i - 1 \in 0 .. k /\ i - 1 # k + 1 OBVIOUS
    <3>2. g[i - 1] = f[i - 1] BY <3>1
    <3>3. CASE i = k + 1 BY <3>2, <3>3
    <3>4. CASE i # k + 1
      <4>1. i \in 1 .. k /\ i \in 0 .. k + 1 BY <3>4
      <4>2. g[i] = f[i] BY <3>4, <4>1
      <4> QED BY <2>2, <3>2, <4>1, <4>2 DEF Recurs
    <3> QED BY <3>3, <3>4
  <2> HIDE DEF g
  <2>8. Good(g, k + 1) BY <2>6, <2>7 DEF Recurs
  <2> QED BY <2>5, <2>8
<1>3. Nat \subseteq N
  <2> HIDE DEF N
  <2> QED BY <1>1, <1>2, Induction
<1>4. n \in N BY <1>3
<1> QED BY <1>4

\* A walk that has come to its end stays there: what comes before is a prefix.
LEMMA PrefixBeforeEnd ==
    ASSUME NEW n \in Nat, NEW f \in [0 .. n -> 0 .. n], f[n] = None,
           \A i \in 1 .. n : f[i - 1] = None => f[i] = None
    PROVE  \E k \in 0 .. n : /\ {j \in 1 .. n : f[j - 1] # None} = 1 .. k
                             /\ f[k] = None
<1> DEFINE Ends == {i \in 0 .. n : f[i] = None}
<1>1. PICK k \in Ends : \A i \in Ends : k <= i
  <2>0. n \in Ends OBVIOUS
  <2>1. Ends \in SUBSET Nat
    <3>1. \A i \in Ends : i \in Nat OBVIOUS
    <3> QED BY <3>1
  <2> HIDE DEF Ends
  <2>2. Ends # {} BY <2>0
  <2> QED BY <2>1, <2>2, LeastNumber
<1> DEFINE N == {i \in Nat : k + i <= n => f[k + i] = None}
<1>2. 0 \in N OBVIOUS
<1>3. ASSUME NEW i \in Nat, i \in N PROVE i + 1 \in N
  <2>1. SUFFICES ASSUME k + (i + 1) <= n PROVE f[k + (i + 1)] = None OBVIOUS
  <2>2. k + i <= n /\ k + (i + 1) \in 1 .. n /\ (k + (i + 1)) - 1 = k + i BY <2>1
  <2>3. f[k + i] = None BY <1>3, <2>2
  <2> QED BY <2>2, <2>3
<1>4. Nat \subseteq N
  <2> HIDE DEF N
  <2> QED BY <1>2, <1>3, Induction
<1>5. ASSUME NEW j \in 1 .. n PROVE f[j - 1] # None <=> j <= k
  <2>1. CASE j <= k
    <3>1. j - 1 \in 0 .. n /\ ~(k <= j - 1) BY <2>1
    <3> QED BY <1>1, <2>1, <3>1
  <2>2. CASE ~(j <= k)
    <3>1. (j - 1) - k \in Nat /\ k + ((j - 1) - k) = j - 1 /\ j - 1 <= n BY <2>2
    <3>2. (j - 1) - k \in N BY <1>4, <3>1
    <3>3. f[j - 1] = None BY <3>1, <3>2
    <3> QED BY <2>2, <3>3
  <2> QED BY <2>1, <2>2
<1>6. {j \in 1 .. n : f[j - 1] # None} = 1 .. k
  <2>1. k \in Nat /\ k <= n BY <1>1
  <2>2. \A j \in 1 .. k : j \in 1 .. n /\ j <= k BY <2>1
  <2>3. \A j \in 1 .. n : j <= k => j \in 1 .. k BY <2>1
  <2> QED BY <1>5, <2>2, <2>3
<1> QED BY <1>1, <1>6

\* Rows whose parents are older than they are.
Tree(ms) == /\ ms \in Seq(MessageRows)
            /\ Len(ms) <= MaxMessages
            /\ \A m \in DOMAIN ms : ms[m].parent < m

\* What a row of such a tree has.
LEMMA TreeRows ==
    ASSUME NEW ms, Tree(ms)
    PROVE  /\ Len(ms) \in Nat /\ DOMAIN ms = 1 .. Len(ms) /\ None \notin DOMAIN ms
           /\ \A m \in DOMAIN ms : /\ ms[m] \in MessageRows
                                   /\ ms[m].parent \in 0 .. m - 1
                                   /\ ms[m].parent # None => ms[m].parent \in DOMAIN ms
                                   /\ ms[m].role \in {"user", "assistant"}
                                   /\ ms[m].order \in 1 .. MaxMessages
                                   /\ ms[m].selected \in Ids
<1>1. Len(ms) \in Nat /\ DOMAIN ms = 1 .. Len(ms) BY DEF Tree
<1>2. ASSUME NEW m \in DOMAIN ms
      PROVE  /\ ms[m] \in MessageRows /\ ms[m].parent \in 0 .. m - 1
             /\ ms[m].role \in {"user", "assistant"} /\ ms[m].order \in 1 .. MaxMessages
             /\ ms[m].selected \in Ids
  <2>1. ms[m] \in MessageRows /\ m \in Nat BY <1>1 DEF Tree
  <2>2. ms[m].parent \in Ids /\ ms[m].parent < m BY <2>1 DEF Tree, MessageRows
  <2>3. ms[m].parent \in 0 .. m - 1 BY <2>1, <2>2, ChatSessionAssumption DEF Ids
  <2> QED BY <2>1, <2>3 DEF MessageRows
<1> QED BY <1>1, <1>2 DEF None

\* The branch that was created last is one of them.
LEMMA LastBranchIsBranch ==
    ASSUME NEW ms, Tree(ms), NEW branch \in SUBSET DOMAIN ms, branch # {}
    PROVE  LastBranch(ms, branch) \in branch
<1> DEFINE Gaps == {MaxMessages - ms[b].order : b \in branch}
<1>1. \A b \in branch : ms[b].order \in 1 .. MaxMessages BY TreeRows
<1>2. Gaps \in SUBSET Nat /\ Gaps # {} BY <1>1, ChatSessionAssumption
<1>3. PICK g \in Gaps : \A h \in Gaps : g <= h
  <2> HIDE DEF Gaps
  <2> QED BY <1>2, LeastNumber
<1>4. PICK m \in branch : g = MaxMessages - ms[m].order BY <1>3
<1>5. ASSUME NEW b \in branch PROVE ms[b].order <= ms[m].order
  <2>1. MaxMessages - ms[m].order <= MaxMessages - ms[b].order BY <1>3, <1>4
  <2> QED BY <1>1, <2>1, ChatSessionAssumption
<1> QED BY <1>5 DEF LastBranch

\* The path goes on with a child, or ends where there is none.
LEMMA NextIsChild ==
    ASSUME NEW ms, Tree(ms), NEW m \in DOMAIN ms
    PROVE  LET next == NextOnPath(ms, m)
               children == Children(ms, m, ReplyRole(ms[m].role))
           IN  /\ next = None <=> children = {}
               /\ next # None => /\ next \in children /\ next \in DOMAIN ms
                                 /\ m < next /\ ms[next].parent = m
<1> DEFINE children == Children(ms, m, ReplyRole(ms[m].role))
<1>1. children \in SUBSET DOMAIN ms BY DEF Children
<1>2. None \notin children BY <1>1, TreeRows
<1>3. children # {} => LastBranch(ms, children) \in children BY <1>1, LastBranchIsBranch
<1>4. children = {} => LastBranch(ms, children) = None BY DEF LastBranch
<1>5. \A c \in children : c \in DOMAIN ms /\ ms[c].parent = m BY DEF Children
<1>6. \A c \in children : m < c BY <1>5 DEF Tree
<1> HIDE DEF children
<1>7. NextOnPath(ms, m) =
         IF ms[m].selected \in children THEN ms[m].selected ELSE LastBranch(ms, children)
  BY DEF NextOnPath, children
<1>8. /\ NextOnPath(ms, m) = None <=> children = {}
      /\ NextOnPath(ms, m) # None => NextOnPath(ms, m) \in children
  BY <1>2, <1>3, <1>4, <1>7
<1> QED BY <1>5, <1>6, <1>8 DEF children

\* The active path begins with a question that answers nothing.
LEMMA ActiveRootIsRoot ==
    ASSUME NEW ms, Tree(ms), NEW root
    PROVE  LET r == ActiveRoot(ms, root)
           IN  /\ r = None <=> Children(ms, None, "user") = {}
               /\ r # None => r \in Children(ms, None, "user") /\ r \in DOMAIN ms
                              /\ ms[r].parent = None
               /\ ActiveRoot(ms, r) = r
<1> DEFINE roots == Children(ms, None, "user")
<1>1. roots \in SUBSET DOMAIN ms /\ \A r \in roots : ms[r].parent = None BY DEF Children
<1>2. None \notin roots BY <1>1, TreeRows
<1>3. roots # {} => LastBranch(ms, roots) \in roots BY <1>1, LastBranchIsBranch
<1>4. roots = {} => LastBranch(ms, roots) = None BY DEF LastBranch
<1>5. \A r : ActiveRoot(ms, r) = IF r \in roots THEN r ELSE LastBranch(ms, roots)
  BY DEF ActiveRoot
<1> HIDE DEF roots
<1> QED BY <1>1, <1>2, <1>3, <1>4, <1>5 DEF roots
\* A path from a root along the children that are selected, to where it ends.
Descends(ms, path, root) ==
    /\ path \in Seq(DOMAIN ms)
    /\ path = <<>> => root = None
    /\ path # <<>> => path[1] = root
    /\ \A i \in 1 .. Len(path) :
          NextOnPath(ms, path[i]) = IF i = Len(path) THEN None ELSE path[i + 1]

\* A path to a message from above, along the parents.
Ascends(ms, path, m) ==
    /\ path \in Seq(DOMAIN ms) /\ path # <<>>
    /\ path[Len(path)] = m
    /\ \A i \in 1 .. Len(path) :
          ms[path[i]].parent = IF i = 1 THEN None ELSE path[i - 1]

\* What a walk that ends has been through is a sequence.
LEMMA WalkIsSequence ==
    ASSUME NEW n \in Nat, NEW f \in [0 .. n -> 0 .. n], f[n] = None,
           \A i \in 1 .. n : f[i - 1] = None => f[i] = None
    PROVE  LET path == [i \in {j \in 1 .. n : f[j - 1] # None} |-> f[i - 1]]
           IN  /\ path \in Seq(1 .. n) /\ Len(path) <= n
               /\ \A i \in 1 .. Len(path) : path[i] = f[i - 1]
               /\ path = <<>> <=> f[0] = None
               /\ f[Len(path)] = None
<1>1. PICK k \in 0 .. n : {j \in 1 .. n : f[j - 1] # None} = 1 .. k /\ f[k] = None
  BY PrefixBeforeEnd
<1> DEFINE path == [i \in {j \in 1 .. n : f[j - 1] # None} |-> f[i - 1]]
<1>2. path = [i \in 1 .. k |-> f[i - 1]] BY <1>1
<1>3. ASSUME NEW i \in 1 .. k PROVE f[i - 1] \in 1 .. n
  <2>1. i \in {j \in 1 .. n : f[j - 1] # None} BY <1>1
  <2>2. i - 1 \in 0 .. n /\ f[i - 1] # None BY <2>1
  <2>3. f[i - 1] \in 0 .. n /\ f[i - 1] # 0 BY <2>2 DEF None
  <2> QED BY <2>3
<1> HIDE DEF path
<1>4. path \in Seq(1 .. n) /\ Len(path) = k
  <2>1. k \in Nat BY <1>1
  <2>2. path \in [1 .. k -> 1 .. n] BY <1>2, <1>3
  <2> QED BY <2>1, <2>2
<1>5. \A i \in 1 .. k : path[i] = f[i - 1] BY <1>2
<1>6. path = <<>> <=> f[0] = None
  <2>1. path = <<>> <=> k = 0 BY <1>4
  <2>2. CASE k = 0 BY <1>1, <2>1, <2>2
  <2>3. CASE k # 0
    <3>1. 1 \in 1 .. k /\ 1 - 1 = 0 BY <2>3
    <3>2. 1 \in {j \in 1 .. n : f[j - 1] # None} BY <1>1, <3>1
    <3> QED BY <2>1, <2>3, <3>1, <3>2
  <2> QED BY <2>2, <2>3
<1>7. /\ path \in Seq(1 .. n) /\ Len(path) <= n
      /\ \A i \in 1 .. Len(path) : path[i] = f[i - 1]
      /\ path = <<>> <=> f[0] = None
      /\ f[Len(path)] = None
  <2>1. k <= n BY <1>1
  <2> QED BY <1>1, <1>4, <1>5, <1>6, <2>1
<1> QED BY <1>7 DEF path

\* The recursive function of ActivePath.
Walks(f, ms, r) ==
    f = [i \in 0 .. Len(ms) |->
            IF i = 0 THEN r
            ELSE IF f[i - 1] = None THEN None ELSE NextOnPath(ms, f[i - 1])]

\* The walk along the selected children exists, goes down and ends.
LEMMA WalkEnds ==
    ASSUME NEW ms, Tree(ms), NEW r \in {None} \cup DOMAIN ms
    PROVE  LET f == CHOOSE f : Walks(f, ms, r)
           IN  /\ f \in [0 .. Len(ms) -> 0 .. Len(ms)]
               /\ f[0] = r /\ f[Len(ms)] = None
               /\ \A i \in 1 .. Len(ms) :
                     f[i] = IF f[i - 1] = None THEN None ELSE NextOnPath(ms, f[i - 1])
<1> DEFINE n == Len(ms)
           Onward(m) == IF m = None THEN None ELSE NextOnPath(ms, m)
           step == [x \in (1 .. n) \X (0 .. n) |-> Onward(x[2])]
           f == CHOOSE f : Walks(f, ms, r)
<1>1. n \in Nat /\ DOMAIN ms = 1 .. n BY TreeRows
<1>2. r \in 0 .. n BY <1>1 DEF None
<1>3. ASSUME NEW m \in 0 .. n PROVE Onward(m) \in 0 .. n /\ (Onward(m) # None => m < Onward(m))
  <2>1. CASE m = None BY <1>1, <2>1 DEF None
  <2>2. CASE m # None
    <3>1. m \in DOMAIN ms BY <1>1, <2>2 DEF None
    <3>2. NextOnPath(ms, m) # None => m < NextOnPath(ms, m) /\ NextOnPath(ms, m) \in 1 .. n
      BY <1>1, <3>1, NextIsChild
    <3> QED BY <1>1, <2>2, <3>2 DEF None
  <2> QED BY <2>1, <2>2
<1> HIDE DEF Onward
<1>4. step \in [(1 .. n) \X (0 .. n) -> 0 .. n] BY <1>3
<1>5. PICK g \in [0 .. n -> 0 .. n] : Recurs(g, n, r, step)
  <2> HIDE DEF step, n
  <2> QED BY <1>1, <1>2, <1>4, RecursionExists
<1>6. ASSUME NEW i \in 1 .. n PROVE g[i] = Onward(g[i - 1])
  <2>1. g[i - 1] \in 0 .. n BY <1>1
  <2> QED BY <1>5, <2>1 DEF Recurs
<1>7. Walks(g, ms, r)
  <2>1. g = [i \in 0 .. n |-> IF i = 0 THEN r ELSE Onward(g[i - 1])]
    <3>1. \A i \in 0 .. n : g[i] = IF i = 0 THEN r ELSE Onward(g[i - 1])
      <4>1. \A i \in 0 .. n : i = 0 \/ i \in 1 .. n BY <1>1
      <4> QED BY <1>5, <1>6, <4>1 DEF Recurs
    <3> HIDE DEF n
    <3> QED BY <3>1
  <2> QED BY <2>1 DEF Walks, Onward
<1>8. Walks(f, ms, r) BY <1>7
<1> HIDE DEF f
<1>9. f[0] = r /\ DOMAIN f = 0 .. n /\ \A i \in 1 .. n : f[i] = Onward(f[i - 1])
  <2>1. DOMAIN f = 0 .. n BY <1>8 DEF Walks
  <2>2. f[0] = r BY <1>1, <1>8 DEF Walks
  <2>3. ASSUME NEW i \in 1 .. n PROVE f[i] = Onward(f[i - 1])
    <3>1. i \in 0 .. n /\ i # 0 BY <1>1
    <3> QED BY <1>8, <3>1 DEF Walks, Onward
  <2> QED BY <2>1, <2>2, <2>3
<1> DEFINE N == {i \in Nat : i <= n => f[i] \in 0 .. n /\ (f[i] # None => i < f[i])}
<1>10. 0 \in N BY <1>1, <1>2, <1>9 DEF None
<1>11. ASSUME NEW i \in Nat, i \in N PROVE i + 1 \in N
  <2>1. SUFFICES ASSUME i + 1 <= n
                 PROVE  f[i + 1] \in 0 .. n /\ (f[i + 1] # None => i + 1 < f[i + 1])
    OBVIOUS
  <2>2. f[i] \in 0 .. n /\ (f[i] # None => i < f[i]) BY <1>1, <1>11, <2>1
  <2>3. i + 1 \in 1 .. n /\ (i + 1) - 1 = i BY <2>1
  <2>4. f[i + 1] = Onward(f[i]) BY <1>9, <2>3
  <2>5. f[i + 1] \in 0 .. n /\ (f[i + 1] # None => f[i] < f[i + 1]) BY <1>3, <2>2, <2>4
  <2>6. f[i] = None => f[i + 1] = None BY <2>4 DEF Onward
  <2> QED BY <1>1, <2>2, <2>5, <2>6
<1>12. Nat \subseteq N
  <2> HIDE DEF N
  <2> QED BY <1>10, <1>11, Induction
<1>13. \A i \in 0 .. n : f[i] \in 0 .. n /\ (f[i] # None => i < f[i]) BY <1>1, <1>12
<1>14. f \in [0 .. n -> 0 .. n]
  <2>1. f = [i \in 0 .. n |-> f[i]] BY <1>8, <1>9 DEF Walks
  <2> QED BY <1>13, <2>1
<1>15. f[n] = None
  <2>1. n \in 0 .. n BY <1>1
  <2>2. f[n] \in 0 .. n /\ (f[n] # None => n < f[n]) BY <1>13, <2>1
  <2> QED BY <1>1, <2>2
<1> QED BY <1>9, <1>14, <1>15 DEF f, Onward

\* The active path descends from its root.
LEMMA ActivePathDescends ==
    ASSUME NEW ms, Tree(ms), NEW root
    PROVE  Descends(ms, ActivePath(ms, root), ActiveRoot(ms, root))
<1> DEFINE n == Len(ms)
           r == ActiveRoot(ms, root)
           f == CHOOSE f : Walks(f, ms, r)
           path == [i \in {j \in 1 .. n : f[j - 1] # None} |-> f[i - 1]]
<1>1. n \in Nat /\ DOMAIN ms = 1 .. n BY TreeRows
<1>2. ActivePath(ms, root) = path BY DEF ActivePath, Walks
<1>3. r \in {None} \cup DOMAIN ms BY ActiveRootIsRoot
<1> HIDE DEF r
<1>4. /\ f \in [0 .. n -> 0 .. n] /\ f[0] = r /\ f[n] = None
      /\ \A i \in 1 .. n : f[i] = IF f[i - 1] = None THEN None ELSE NextOnPath(ms, f[i - 1])
  BY <1>3, WalkEnds
<1> HIDE DEF f
<1>5. /\ path \in Seq(1 .. n) /\ Len(path) <= n
      /\ \A i \in 1 .. Len(path) : path[i] = f[i - 1]
      /\ path = <<>> <=> f[0] = None
      /\ f[Len(path)] = None
  <2> HIDE DEF n
  <2> QED BY <1>1, <1>4, WalkIsSequence
<1> HIDE DEF path
<1>6. path # <<>> => path[1] = r
  <2>1. path # <<>> => 1 \in 1 .. Len(path) BY <1>5
  <2> QED BY <1>4, <1>5, <2>1
<1>7. ASSUME NEW i \in 1 .. Len(path)
      PROVE  NextOnPath(ms, path[i]) = IF i = Len(path) THEN None ELSE path[i + 1]
  <2>1. Len(path) \in Nat /\ path[i] \in 1 .. n BY <1>5
  <2>2. i \in 1 .. n /\ path[i] = f[i - 1] /\ path[i] # None BY <1>1, <1>5, <2>1 DEF None
  <2>3. f[i] = NextOnPath(ms, path[i]) BY <1>4, <2>2
  <2>4. i # Len(path) => i + 1 \in 1 .. Len(path) /\ (i + 1) - 1 = i BY <2>1
  <2>5. i # Len(path) => path[i + 1] = f[i] BY <1>5, <2>4
  <2> QED BY <1>5, <2>3, <2>5
<1>8. Descends(ms, path, r) BY <1>1, <1>4, <1>5, <1>6, <1>7 DEF Descends
<1> QED BY <1>2, <1>8 DEF r

\* A root has one path: q goes as far as p.
LEMMA DescendsAligned ==
    ASSUME NEW ms, Tree(ms), NEW root, NEW p, Descends(ms, p, root), NEW q, Descends(ms, q, root)
    PROVE  \A i \in 1 .. Len(p) : i <= Len(q) /\ p[i] = q[i]
<1>1. None \notin DOMAIN ms BY TreeRows
<1>2. Len(p) \in Nat /\ Len(q) \in Nat /\ p \in Seq(DOMAIN ms) /\ q \in Seq(DOMAIN ms) BY DEF Descends
<1> DEFINE N == {k \in Nat : k + 1 <= Len(p) => k + 1 <= Len(q) /\ p[k + 1] = q[k + 1]}
<1>3. 0 \in N
  <2>1. SUFFICES ASSUME 1 <= Len(p) PROVE 1 <= Len(q) /\ p[1] = q[1] OBVIOUS
  <2>2. p # <<>> /\ p[1] \in DOMAIN ms BY <1>2, <2>1
  <2>3. root # None BY <1>1, <2>2 DEF Descends
  <2>4. q # <<>> BY <2>3 DEF Descends
  <2> QED BY <1>2, <2>2, <2>4 DEF Descends
<1>4. ASSUME NEW k \in Nat, k \in N PROVE k + 1 \in N
  <2>1. SUFFICES ASSUME (k + 1) + 1 <= Len(p)
                 PROVE  (k + 1) + 1 <= Len(q) /\ p[(k + 1) + 1] = q[(k + 1) + 1] OBVIOUS
  <2>2. k + 1 \in 1 .. Len(p) /\ k + 1 # Len(p) /\ (k + 1) + 1 \in 1 .. Len(p) BY <1>2, <2>1
  <2>3. k + 1 \in 1 .. Len(q) /\ p[k + 1] = q[k + 1] BY <1>2, <1>4, <2>2
  <2>4. NextOnPath(ms, p[k + 1]) = p[(k + 1) + 1] BY <2>2 DEF Descends
  <2>5. p[(k + 1) + 1] # None BY <1>1, <1>2, <2>2
  <2>6. NextOnPath(ms, q[k + 1]) = IF k + 1 = Len(q) THEN None ELSE q[(k + 1) + 1]
    BY <2>3 DEF Descends
  <2>7. k + 1 # Len(q) BY <2>3, <2>4, <2>5, <2>6
  <2> QED BY <1>2, <2>3, <2>4, <2>6, <2>7
<1>5. Nat \subseteq N
  <2> HIDE DEF N
  <2> QED BY <1>3, <1>4, Induction
<1>6. ASSUME NEW i \in 1 .. Len(p) PROVE i <= Len(q) /\ p[i] = q[i]
  <2>1. i - 1 \in Nat /\ (i - 1) + 1 = i /\ i <= Len(p) BY <1>2
  <2>2. i - 1 \in N BY <1>5, <2>1
  <2> QED BY <2>1, <2>2
<1> QED BY <1>6

\* Sequences that are each a prefix of the other are equal.
LEMMA SameSequence ==
    ASSUME NEW S, NEW p \in Seq(S), NEW q \in Seq(S),
           \A i \in 1 .. Len(p) : i <= Len(q) /\ p[i] = q[i],
           \A i \in 1 .. Len(q) : i <= Len(p)
    PROVE  p = q
<1>1. Len(p) \in Nat /\ Len(q) \in Nat OBVIOUS
<1>2. Len(p) <= Len(q)
  <2>1. CASE Len(p) = 0 BY <1>1, <2>1
  <2>2. CASE Len(p) # 0
    <3>1. Len(p) \in 1 .. Len(p) BY <1>1, <2>2
    <3> QED BY <3>1
  <2> QED BY <2>1, <2>2
<1>3. Len(q) <= Len(p)
  <2>1. CASE Len(q) = 0 BY <1>1, <2>1
  <2>2. CASE Len(q) # 0
    <3>1. Len(q) \in 1 .. Len(q) BY <1>1, <2>2
    <3> QED BY <3>1
  <2> QED BY <2>1, <2>2
<1>4. Len(p) = Len(q) BY <1>1, <1>2, <1>3
<1> QED BY <1>4

\* A root has one path.
LEMMA DescendsUnique ==
    ASSUME NEW ms, Tree(ms), NEW root, NEW p, Descends(ms, p, root), NEW q, Descends(ms, q, root)
    PROVE  p = q
<1>1. \A i \in 1 .. Len(p) : i <= Len(q) /\ p[i] = q[i] BY DescendsAligned
<1>2. \A i \in 1 .. Len(q) : i <= Len(p) BY DescendsAligned
<1>3. p \in Seq(DOMAIN ms) /\ q \in Seq(DOMAIN ms) BY DEF Descends
<1> QED BY <1>1, <1>2, <1>3, SameSequence
\* The recursive function of PathTo.
Climbs(f, ms, m) ==
    f = [i \in 0 .. Len(ms) |->
            IF i = 0 THEN m
            ELSE IF f[i - 1] = None THEN None ELSE ms[f[i - 1]].parent]

\* The climb along the parents exists and comes to an end.
LEMMA ClimbEnds ==
    ASSUME NEW ms, Tree(ms), NEW m \in DOMAIN ms
    PROVE  LET f == CHOOSE f : Climbs(f, ms, m)
           IN  /\ f \in [0 .. Len(ms) -> 0 .. Len(ms)]
               /\ f[0] = m /\ f[Len(ms)] = None
               /\ \A i \in 1 .. Len(ms) :
                     f[i] = IF f[i - 1] = None THEN None ELSE ms[f[i - 1]].parent
<1> DEFINE n == Len(ms)
           Above(x) == IF x = None THEN None ELSE ms[x].parent
           step == [x \in (1 .. n) \X (0 .. n) |-> Above(x[2])]
           f == CHOOSE f : Climbs(f, ms, m)
<1>1. n \in Nat /\ DOMAIN ms = 1 .. n BY TreeRows
<1>2. m \in 0 .. n BY <1>1
<1>3. ASSUME NEW x \in 0 .. n PROVE Above(x) \in 0 .. n /\ (Above(x) # None => Above(x) < x)
  <2>1. CASE x = None BY <1>1, <2>1 DEF None
  <2>2. CASE x # None
    <3>1. x \in DOMAIN ms BY <1>1, <2>2 DEF None
    <3>2. ms[x].parent \in 0 .. x - 1 BY <3>1, TreeRows
    <3> QED BY <1>1, <2>2, <3>2 DEF None
  <2> QED BY <2>1, <2>2
<1> HIDE DEF Above
<1>4. step \in [(1 .. n) \X (0 .. n) -> 0 .. n] BY <1>3
<1>5. PICK g \in [0 .. n -> 0 .. n] : Recurs(g, n, m, step)
  <2> HIDE DEF step, n
  <2> QED BY <1>1, <1>2, <1>4, RecursionExists
<1>6. ASSUME NEW i \in 1 .. n PROVE g[i] = Above(g[i - 1])
  <2>1. g[i - 1] \in 0 .. n BY <1>1
  <2> QED BY <1>5, <2>1 DEF Recurs
<1>7. Climbs(g, ms, m)
  <2>1. g = [i \in 0 .. n |-> IF i = 0 THEN m ELSE Above(g[i - 1])]
    <3>1. \A i \in 0 .. n : g[i] = IF i = 0 THEN m ELSE Above(g[i - 1])
      <4>1. \A i \in 0 .. n : i = 0 \/ i \in 1 .. n BY <1>1
      <4> QED BY <1>5, <1>6, <4>1 DEF Recurs
    <3> HIDE DEF n
    <3> QED BY <3>1
  <2> QED BY <2>1 DEF Climbs, Above
<1>8. Climbs(f, ms, m) BY <1>7
<1> HIDE DEF f
<1>9. f[0] = m /\ DOMAIN f = 0 .. n /\ \A i \in 1 .. n : f[i] = Above(f[i - 1])
  <2>1. DOMAIN f = 0 .. n BY <1>8 DEF Climbs
  <2>2. f[0] = m BY <1>1, <1>8 DEF Climbs
  <2>3. ASSUME NEW i \in 1 .. n PROVE f[i] = Above(f[i - 1])
    <3>1. i \in 0 .. n /\ i # 0 BY <1>1
    <3> QED BY <1>8, <3>1 DEF Climbs, Above
  <2> QED BY <2>1, <2>2, <2>3
<1> DEFINE N == {i \in Nat : i <= n => f[i] \in 0 .. n /\ (f[i] # None => f[i] <= n - i)}
<1>10. 0 \in N BY <1>1, <1>2, <1>9 DEF None
<1>11. ASSUME NEW i \in Nat, i \in N PROVE i + 1 \in N
  <2>1. SUFFICES ASSUME i + 1 <= n
                 PROVE  f[i + 1] \in 0 .. n /\ (f[i + 1] # None => f[i + 1] <= n - (i + 1))
    OBVIOUS
  <2>2. f[i] \in 0 .. n /\ (f[i] # None => f[i] <= n - i) BY <1>1, <1>11, <2>1
  <2>3. i + 1 \in 1 .. n /\ (i + 1) - 1 = i BY <2>1
  <2>4. f[i + 1] = Above(f[i]) BY <1>9, <2>3
  <2>5. f[i + 1] \in 0 .. n /\ (f[i + 1] # None => f[i + 1] < f[i]) BY <1>3, <2>2, <2>4
  <2>6. f[i] = None => f[i + 1] = None BY <2>4 DEF Above
  <2> QED BY <1>1, <2>2, <2>5, <2>6
<1>12. Nat \subseteq N
  <2> HIDE DEF N
  <2> QED BY <1>10, <1>11, Induction
<1>13. \A i \in 0 .. n : f[i] \in 0 .. n /\ (f[i] # None => f[i] <= n - i) BY <1>1, <1>12
<1>14. f \in [0 .. n -> 0 .. n]
  <2>1. f = [i \in 0 .. n |-> f[i]] BY <1>8, <1>9 DEF Climbs
  <2> QED BY <1>13, <2>1
<1>15. f[n] = None
  <2>1. n \in 0 .. n BY <1>1
  <2>2. f[n] \in 0 .. n /\ (f[n] # None => f[n] <= n - n) BY <1>13, <2>1
  <2> QED BY <1>1, <2>2 DEF None
<1> QED BY <1>9, <1>14, <1>15 DEF f, Above

\* The path to a message ascends from it.
LEMMA PathToAscends ==
    ASSUME NEW ms, Tree(ms), NEW m \in DOMAIN ms
    PROVE  Ascends(ms, PathTo(ms, m), m)
<1> DEFINE n == Len(ms)
           f == CHOOSE f : Climbs(f, ms, m)
           up == [i \in {j \in 1 .. n : f[j - 1] # None} |-> f[i - 1]]
           path == Reverse(up)
           l == Len(up)
<1>1. n \in Nat /\ DOMAIN ms = 1 .. n BY TreeRows
<1>2. PathTo(ms, m) = path BY DEF PathTo, Climbs
<1>3. /\ f \in [0 .. n -> 0 .. n] /\ f[0] = m /\ f[n] = None
      /\ \A i \in 1 .. n : f[i] = IF f[i - 1] = None THEN None ELSE ms[f[i - 1]].parent
  BY ClimbEnds
<1> HIDE DEF f
<1>4. /\ up \in Seq(1 .. n) /\ Len(up) <= n
      /\ \A i \in 1 .. Len(up) : up[i] = f[i - 1]
      /\ up = <<>> <=> f[0] = None
      /\ f[Len(up)] = None
  <2> HIDE DEF n
  <2> QED BY <1>1, <1>3, WalkIsSequence
<1> HIDE DEF up
<1>5. l \in Nat /\ l # 0 /\ l <= n
  <2>1. m # None BY <1>1 DEF None
  <2> QED BY <1>3, <1>4, <2>1
<1>6. path = [i \in 1 .. l |-> up[(l - i) + 1]] BY DEF Reverse
<1>7. ASSUME NEW i \in 1 .. l PROVE (l - i) + 1 \in 1 .. l /\ path[i] = up[(l - i) + 1]
  BY <1>5, <1>6
<1>8. path \in Seq(1 .. n) /\ Len(path) = l
  <2>1. path \in [1 .. l -> 1 .. n] BY <1>4, <1>6, <1>7
  <2> HIDE DEF path
  <2> QED BY <1>5, <2>1
<1>9. path[l] = m
  <2>1. l \in 1 .. l /\ (l - l) + 1 = 1 /\ 1 \in 1 .. l BY <1>5
  <2>2. path[l] = up[1] BY <1>7, <2>1
  <2> QED BY <1>3, <1>4, <2>1, <2>2
<1>10. ASSUME NEW i \in 1 .. l
       PROVE  ms[path[i]].parent = IF i = 1 THEN None ELSE path[i - 1]
  <2> DEFINE j == (l - i) + 1
  <2>1. j \in 1 .. l /\ j \in 1 .. n /\ path[i] = up[j] BY <1>5, <1>7
  <2> HIDE DEF j, n
  <2>6. up[j] \in 1 .. n
    <3>1. up \in Seq(1 .. n) BY <1>4
    <3>2. j \in 1 .. Len(up) BY <2>1
    <3> QED BY <3>1, <3>2, SequenceMember
  <2>7. up[j] = f[j - 1] BY <1>4, <2>1
  <2>2. up[j] \in 1 .. n /\ up[j] = f[j - 1] /\ f[j - 1] # None BY <1>1, <2>6, <2>7 DEF None, n
  <2> USE DEF j, n
  <2>3. f[j] = ms[path[i]].parent BY <1>3, <2>1, <2>2
  <2>4. CASE i = 1
    <3>1. j = l BY <1>5, <2>4
    <3> QED BY <1>4, <2>3, <2>4, <3>1
  <2>5. CASE i # 1
    <3>1. i - 1 \in 1 .. l /\ (l - (i - 1)) + 1 = j + 1 /\ j + 1 \in 1 .. l /\ (j + 1) - 1 = j
      BY <1>5, <2>5
    <3>2. path[i - 1] = up[j + 1] BY <1>7, <3>1
    <3>3. up[j + 1] = f[j] BY <1>4, <3>1
    <3> QED BY <2>3, <2>5, <3>2, <3>3
  <2> QED BY <2>4, <2>5
<1> HIDE DEF path, l
<1>11. Ascends(ms, path, m)
  <2>1. path # <<>> BY <1>5, <1>8
  <2> QED BY <1>1, <1>8, <1>9, <1>10, <2>1 DEF Ascends
<1> QED BY <1>2, <1>11

\* A message has one path: q goes as far up as p.
LEMMA AscendsAligned ==
    ASSUME NEW ms, Tree(ms), NEW m, NEW p, Ascends(ms, p, m), NEW q, Ascends(ms, q, m)
    PROVE  \A k \in Nat : k < Len(p) => k < Len(q) /\ p[Len(p) - k] = q[Len(q) - k]
<1>1. None \notin DOMAIN ms BY TreeRows
<1>2. Len(p) \in Nat /\ Len(q) \in Nat /\ p \in Seq(DOMAIN ms) /\ q \in Seq(DOMAIN ms)
      /\ Len(q) # 0 /\ p[Len(p)] = m /\ q[Len(q)] = m BY DEF Ascends
<1> DEFINE N == {k \in Nat : k < Len(p) => k < Len(q) /\ p[Len(p) - k] = q[Len(q) - k]}
<1>3. 0 \in N BY <1>2
<1>4. ASSUME NEW k \in Nat, k \in N PROVE k + 1 \in N
  <2> DEFINE i == Len(p) - k
             j == Len(q) - k
  <2>1. SUFFICES ASSUME k + 1 < Len(p)
                 PROVE  k + 1 < Len(q) /\ p[Len(p) - (k + 1)] = q[Len(q) - (k + 1)] OBVIOUS
  <2>2. i \in 1 .. Len(p) /\ i # 1 /\ i - 1 \in 1 .. Len(p) /\ i - 1 = Len(p) - (k + 1)
    BY <1>2, <2>1
  <2>3. j \in 1 .. Len(q) /\ p[i] = q[j] BY <1>2, <1>4, <2>1
  <2>4. ms[p[i]].parent = p[i - 1] BY <2>2 DEF Ascends
  <2>5. p[i - 1] # None
    <3> HIDE DEF i
    <3>1. p[i - 1] \in DOMAIN ms BY <1>2, <2>2
    <3> QED BY <1>1, <3>1
  <2>6. ms[q[j]].parent = IF j = 1 THEN None ELSE q[j - 1] BY <2>3 DEF Ascends
  <2>7. j # 1 /\ p[i - 1] = q[j - 1] BY <2>3, <2>4, <2>5, <2>6
  <2>8. k + 1 < Len(q) /\ j - 1 = Len(q) - (k + 1) BY <1>2, <2>3, <2>7
  <2> QED BY <2>2, <2>7, <2>8
<1>5. Nat \subseteq N
  <2> HIDE DEF N
  <2> QED BY <1>3, <1>4, Induction
<1> QED BY <1>5

\* A message has one path.
LEMMA AscendsUnique ==
    ASSUME NEW ms, Tree(ms), NEW m, NEW p, Ascends(ms, p, m), NEW q, Ascends(ms, q, m)
    PROVE  p = q
<1>1. p \in Seq(DOMAIN ms) /\ q \in Seq(DOMAIN ms) /\ Len(p) \in Nat /\ Len(q) \in Nat
      /\ Len(p) # 0 /\ Len(q) # 0 BY DEF Ascends
<1>2. \A k \in Nat : k < Len(p) => k < Len(q) /\ p[Len(p) - k] = q[Len(q) - k]
  BY AscendsAligned
<1>3. \A k \in Nat : k < Len(q) => k < Len(p) BY AscendsAligned
<1>4. Len(p) = Len(q)
  <2>1. Len(p) - 1 \in Nat /\ Len(q) - 1 \in Nat BY <1>1
  <2>2. Len(p) - 1 < Len(q) BY <1>1, <1>2, <2>1
  <2>3. Len(q) - 1 < Len(p) BY <1>1, <1>3, <2>1
  <2> QED BY <1>1, <2>2, <2>3
<1>5. ASSUME NEW i \in 1 .. Len(p) PROVE i <= Len(q) /\ p[i] = q[i]
  <2>1. Len(p) - i \in Nat /\ Len(p) - i < Len(p) /\ Len(p) - (Len(p) - i) = i BY <1>1
  <2>2. p[Len(p) - (Len(p) - i)] = q[Len(q) - (Len(p) - i)] BY <1>2, <2>1
  <2> QED BY <1>1, <1>4, <2>1, <2>2
<1>6. \A i \in 1 .. Len(q) : i <= Len(p) BY <1>1, <1>4
<1> QED BY <1>1, <1>5, <1>6, SameSequence

\* The path to a message is what ascends from it.
LEMMA PathToIs ==
    ASSUME NEW ms, Tree(ms), NEW m \in DOMAIN ms, NEW p, Ascends(ms, p, m)
    PROVE  PathTo(ms, m) = p
BY PathToAscends, AscendsUnique

\* Where a path to a message begins and ends.
LEMMA PathToTyped ==
    ASSUME NEW ms, Tree(ms), NEW m \in DOMAIN ms
    PROVE  /\ PathTo(ms, m) \in Seq(DOMAIN ms)
           /\ PathRoot(PathTo(ms, m)) \in DOMAIN ms
<1> DEFINE p == PathTo(ms, m)
<1>1. Ascends(ms, p, m) BY PathToAscends
<1> HIDE DEF p
<1>2. p \in Seq(DOMAIN ms) /\ p # <<>> BY <1>1 DEF Ascends
<1>3. 1 \in 1 .. Len(p) BY <1>2
<1>4. p[1] \in DOMAIN ms BY <1>2, <1>3
<1>5. p \in Seq(DOMAIN ms) /\ PathRoot(p) \in DOMAIN ms BY <1>2, <1>4 DEF PathRoot
<1> QED BY <1>5 DEF p

\* Where the active path begins and ends.
LEMMA ActivePathTyped ==
    ASSUME NEW ms, Tree(ms), NEW root
    PROVE  /\ ActivePath(ms, root) \in Seq(DOMAIN ms)
           /\ PathRoot(ActivePath(ms, root)) = ActiveRoot(ms, root)
           /\ PathRoot(ActivePath(ms, root)) \in {None} \cup DOMAIN ms
           /\ PathLeaf(ActivePath(ms, root)) \in {None} \cup DOMAIN ms
           /\ PathLeaf(ActivePath(ms, root)) = None <=> ActiveRoot(ms, root) = None
<1> DEFINE p == ActivePath(ms, root)
           r == ActiveRoot(ms, root)
<1>1. Descends(ms, p, r) BY ActivePathDescends
<1>2. r \in {None} \cup DOMAIN ms BY ActiveRootIsRoot
<1>3. None \notin DOMAIN ms BY TreeRows
<1> HIDE DEF p, r
<1>4. p \in Seq(DOMAIN ms) BY <1>1 DEF Descends
<1>5. CASE p = <<>> BY <1>1, <1>2, <1>4, <1>5 DEF Descends, PathRoot, PathLeaf, p, r
<1>6. CASE p # <<>>
  <2>1. 1 \in 1 .. Len(p) /\ Len(p) \in 1 .. Len(p) BY <1>4, <1>6
  <2>2. p[1] \in DOMAIN ms /\ p[Len(p)] \in DOMAIN ms /\ p[1] = r
    BY <1>1, <1>4, <1>6, <2>1 DEF Descends
  <2> QED BY <1>3, <1>4, <1>6, <2>2 DEF PathRoot, PathLeaf, p, r
<1> QED BY <1>5, <1>6
\* ns has the messages of ms, below the same parents, and perhaps more.
Extends(ns, ms) == /\ DOMAIN ms \subseteq DOMAIN ns
                   /\ \A m \in DOMAIN ms : ns[m].parent = ms[m].parent

\* A message keeps its path when others are created.
LEMMA PathToKept ==
    ASSUME NEW ms, Tree(ms), NEW ns, Tree(ns), Extends(ns, ms), NEW m \in DOMAIN ms
    PROVE  PathTo(ns, m) = PathTo(ms, m)
<1> DEFINE p == PathTo(ms, m)
<1>1. Ascends(ms, p, m) BY PathToAscends
<1> HIDE DEF p
<1>2. p \in Seq(DOMAIN ms) /\ p \in Seq(DOMAIN ns)
  <2>1. p \in Seq(DOMAIN ms) BY <1>1 DEF Ascends
  <2>2. \A i \in 1 .. Len(p) : p[i] \in DOMAIN ns BY <2>1, SequenceMember DEF Extends
  <2> QED BY <2>1, <2>2, SequenceWithin
<1>3. \A i \in 1 .. Len(p) : ns[p[i]].parent = ms[p[i]].parent
  BY <1>2, SequenceMember DEF Extends
<1>4. Ascends(ns, p, m) BY <1>1, <1>2, <1>3 DEF Ascends
<1>5. m \in DOMAIN ns BY DEF Extends
<1>6. PathTo(ns, m) = p BY <1>4, <1>5, PathToIs
<1> QED BY <1>6 DEF p

\* ms and ns differ in the status of messages only.
SameShape(ns, ms) ==
    /\ DOMAIN ns = DOMAIN ms
    /\ \A m \in DOMAIN ms : /\ ns[m].role = ms[m].role /\ ns[m].parent = ms[m].parent
                            /\ ns[m].selected = ms[m].selected /\ ns[m].order = ms[m].order

\* The choice of a child does not depend on the status.
LEMMA NextKept ==
    ASSUME NEW ms, Tree(ms), NEW ns, SameShape(ns, ms)
    PROVE  /\ \A p, role : Children(ns, p, role) = Children(ms, p, role)
           /\ \A m \in DOMAIN ms : NextOnPath(ns, m) = NextOnPath(ms, m)
           /\ \A root : ActiveRoot(ns, root) = ActiveRoot(ms, root)
<1>1. \A p, role : Children(ns, p, role) = Children(ms, p, role) BY DEF Children, SameShape
<1>2. \A p, role : Children(ms, p, role) \in SUBSET DOMAIN ms BY DEF Children
<1>3. ASSUME NEW branch \in SUBSET DOMAIN ms
      PROVE  LastBranch(ns, branch) = LastBranch(ms, branch)
  <2>1. \A b \in branch : ns[b].order = ms[b].order BY DEF SameShape
  <2>2. \A m \in branch : (\A b \in branch : ns[b].order <= ns[m].order)
                      <=> (\A b \in branch : ms[b].order <= ms[m].order) BY <2>1
  <2>3. (CHOOSE m \in branch : \A b \in branch : ns[b].order <= ns[m].order)
      = (CHOOSE m \in branch : \A b \in branch : ms[b].order <= ms[m].order) BY <2>2
  <2>4. CASE branch = {} BY <2>4 DEF LastBranch
  <2>5. CASE branch # {}
    <3>1. LastBranch(ns, branch) = CHOOSE m \in branch : \A b \in branch : ns[b].order <= ns[m].order
      BY <2>5, Zenon DEF LastBranch
    <3>2. LastBranch(ms, branch) = CHOOSE m \in branch : \A b \in branch : ms[b].order <= ms[m].order
      BY <2>5, Zenon DEF LastBranch
    <3> QED BY <2>3, <3>1, <3>2, Zenon
  <2> QED BY <2>4, <2>5
<1>4. ASSUME NEW m \in DOMAIN ms PROVE NextOnPath(ns, m) = NextOnPath(ms, m)
  <2>1. ns[m].role = ms[m].role /\ ns[m].selected = ms[m].selected BY DEF SameShape
  <2> DEFINE children == Children(ms, m, ReplyRole(ms[m].role))
  <2>2. children \in SUBSET DOMAIN ms BY <1>2
  <2>3. Children(ns, m, ReplyRole(ns[m].role)) = children BY <1>1, <2>1
  <2> HIDE DEF children
  <2>4. LastBranch(ns, children) = LastBranch(ms, children) BY <1>3, <2>2
  <2> QED BY <2>1, <2>3, <2>4 DEF NextOnPath, children
<1>5. ASSUME NEW root PROVE ActiveRoot(ns, root) = ActiveRoot(ms, root)
  <2> DEFINE roots == Children(ms, None, "user")
  <2>1. roots \in SUBSET DOMAIN ms /\ Children(ns, None, "user") = roots BY <1>1, <1>2
  <2> HIDE DEF roots
  <2>2. LastBranch(ns, roots) = LastBranch(ms, roots) BY <1>3, <2>1
  <2> QED BY <2>1, <2>2 DEF ActiveRoot, roots
<1> QED BY <1>1, <1>4, <1>5

\* The active path does not depend on the status of messages.
LEMMA ActivePathKept ==
    ASSUME NEW ms, Tree(ms), NEW ns, Tree(ns), SameShape(ns, ms), NEW root
    PROVE  ActivePath(ns, root) = ActivePath(ms, root)
<1> DEFINE p == ActivePath(ms, root)
           r == ActiveRoot(ms, root)
<1>1. Descends(ms, p, r) BY ActivePathDescends
<1>2. r = ActiveRoot(ns, root) BY NextKept
<1>3. Descends(ns, ActivePath(ns, root), r) BY <1>2, ActivePathDescends
<1> HIDE DEF p, r
<1>4. p \in Seq(DOMAIN ms) /\ DOMAIN ns = DOMAIN ms BY <1>1 DEF Descends, SameShape
<1>5. \A i \in 1 .. Len(p) : NextOnPath(ns, p[i]) = NextOnPath(ms, p[i])
  BY <1>4, SequenceMember, NextKept
<1>6. Descends(ns, p, r) BY <1>1, <1>4, <1>5 DEF Descends
<1> HIDE DEF Descends
<1>7. ActivePath(ns, root) = p BY <1>3, <1>6, DescendsUnique
<1> QED BY <1>7 DEF p

-----------------------------------------------------------------------------
(* The steps that read.                                                    *)

\* What the invariant says of the rows.
LEMMA SessionRowsOK ==
    ASSUME SessionInv
    PROVE  /\ Tree(messages)
           /\ \A m \in DOMAIN messages :
                 /\ m \in 1 .. Len(messages) /\ m \in 1 .. MaxMessages
                 /\ messages[m].status \in {"running"} \cup continuableAssistantStatuses
                 /\ messages[m].parent \in Ids
                 /\ messages[m].role = "user" =>
                       /\ messages[m].status = "completed" /\ Over(m)
                       /\ messages[m].order <= m /\ m < Len(messages)
                       /\ messages[m].parent # None =>
                             messages[messages[m].parent].role = "assistant"
                 /\ messages[m].role # "user" =>
                       /\ messages[m].role = "assistant" /\ messages[m].order < m
                       /\ messages[m].parent \in DOMAIN messages
                       /\ messages[messages[m].parent].role = "user"
<1>1. Tree(messages)
  BY DEF SessionInv, MessageTree, SessionTypeOK, MessagesOK, Tree
<1>2. ASSUME NEW m \in DOMAIN messages
      PROVE  /\ m \in 1 .. Len(messages) /\ m \in 1 .. MaxMessages
             /\ messages[m] \in MessageRows
  <2>1. DOMAIN messages = 1 .. Len(messages) /\ Len(messages) \in Nat /\ messages[m] \in MessageRows
    BY <1>1, TreeRows
  <2>2. Len(messages) <= MaxMessages BY <1>1 DEF Tree
  <2> QED BY <2>1, <2>2, ChatSessionAssumption
<1>3. ASSUME NEW m \in DOMAIN messages, messages[m].role = "user"
      PROVE  /\ messages[m].status = "completed" /\ Over(m)
             /\ messages[m].order <= m /\ m < Len(messages)
             /\ messages[m].parent # None => messages[messages[m].parent].role = "assistant"
  <2>1. messages[m].status = "completed" /\ messages[m].order <= m /\ m < Len(messages)
    BY <1>3 DEF SessionInv, MessagesOK
  <2>2. messages[m].parent # None => ReplyRole(messages[messages[m].parent].role) = "user"
    BY <1>3 DEF SessionInv, MessagesOK
  <2>3. messages[m].parent # None =>
           messages[messages[m].parent].role \in {"user", "assistant"} BY <1>1, TreeRows
  <2> QED BY <2>1, <2>2, <2>3 DEF Over, ReplyRole
<1>4. ASSUME NEW m \in DOMAIN messages, messages[m].role # "user"
      PROVE  /\ messages[m].role = "assistant" /\ messages[m].order < m
             /\ messages[m].parent \in DOMAIN messages
             /\ messages[messages[m].parent].role = "user"
  <2>1. messages[m].role = "assistant" BY <1>1, <1>4, TreeRows
  <2>2. messages[m].order < m BY <2>1 DEF SessionInv, MessagesOK
  <2>3. messages[m].role = IF messages[m].parent = None THEN "user"
                           ELSE ReplyRole(messages[messages[m].parent].role)
    BY DEF SessionInv, MessagesOK
  <2>4. messages[m].parent # None BY <2>1, <2>3
  <2>5. messages[m].parent \in DOMAIN messages BY <1>1, <2>4, TreeRows
  <2>6. messages[messages[m].parent].role = "user" BY <2>1, <2>3, <2>4 DEF ReplyRole
  <2> QED BY <2>1, <2>2, <2>5, <2>6
<1>5. \A m \in DOMAIN messages :
         /\ messages[m].status \in {"running"} \cup continuableAssistantStatuses
         /\ messages[m].parent \in Ids BY <1>2 DEF MessageRows
<1> QED BY <1>1, <1>2, <1>3, <1>4, <1>5

\* The next branch order is that of a message that could exist.
LEMMA NextOrderOK ==
    ASSUME SessionInv
    PROVE  \A p, role :
              LET order == NextBranchOrder(messages, p, role)
              IN  /\ order \in Ids /\ order # 0
                  /\ order = 1 \/ order <= Len(messages)
<1>1. Tree(messages) BY SessionRowsOK
<1>2. SUFFICES ASSUME NEW p, NEW role
               PROVE  LET order == NextBranchOrder(messages, p, role)
                      IN  /\ order \in Ids /\ order # 0
                          /\ order = 1 \/ order <= Len(messages)
  OBVIOUS
<1> DEFINE branch == Children(messages, p, role)
           last == LastBranch(messages, branch)
           order == NextBranchOrder(messages, p, role)
<1>3. branch \in SUBSET DOMAIN messages BY DEF Children
<1>4. order = IF last = None THEN 1 ELSE messages[last].order + 1 BY DEF NextBranchOrder
<1>5. branch # {} => last \in branch
  <2> HIDE DEF branch
  <2> QED BY <1>1, <1>3, LastBranchIsBranch
<1>6. branch = {} => last = None BY DEF LastBranch
<1>7. 1 \in Ids BY ChatSessionAssumption DEF Ids
<1> HIDE DEF branch, last, order
<1>8. ASSUME last = None PROVE order \in Ids /\ order = 1 BY <1>4, <1>7, <1>8
<1>9. ASSUME last # None PROVE order \in Ids /\ order # 0 /\ order <= Len(messages)
  <2>1. last \in DOMAIN messages BY <1>3, <1>5, <1>6, <1>9
  <2>2. messages[last].order \in 1 .. MaxMessages /\ last \in 1 .. Len(messages) /\ Len(messages) \in Nat
        /\ Len(messages) <= MaxMessages
    BY <1>1, <2>1, TreeRows DEF Tree
  <2>3. messages[last].order < Len(messages)
    <3>1. CASE messages[last].role = "user"
      <4>1. messages[last].order <= last /\ last < Len(messages) BY <2>1, <3>1, SessionRowsOK
      <4> QED BY <2>2, <4>1, ChatSessionAssumption
    <3>2. CASE messages[last].role # "user"
      <4>1. messages[last].order < last BY <2>1, <3>2, SessionRowsOK
      <4> QED BY <2>2, <4>1, ChatSessionAssumption
    <3> QED BY <3>1, <3>2
  <2>4. order = messages[last].order + 1 BY <1>4, <1>9
  <2> QED BY <2>2, <2>3, <2>4, ChatSessionAssumption DEF Ids
<1>10. order \in Ids /\ order # 0 /\ (order = 1 \/ order <= Len(messages)) BY <1>8, <1>9
<1> QED BY <1>10 DEF order

\* A step that changes one request, and at most where the session's path begins and ends.
LEMMA RequestStep ==
    ASSUME SessionInv, NEW q \in Requests,
           UNCHANGED <<messages, runs, expected, late, told, switches>>,
           session' \in SessionRows, session'.version = session.version,
           NEW r \in RequestStates, requests' = [requests EXCEPT ![q] = r], PlanOK(r)
    PROVE  SessionInv'
<1>1. requests' \in [Requests -> RequestStates] BY DEF SessionInv, MessageTree, SessionTypeOK
<1>2. ASSUME NEW p \in Requests PROVE PlanOK(requests[p])'
  <2>1. requests'[p] = IF p = q THEN r ELSE requests[p]
    BY DEF SessionInv, MessageTree, SessionTypeOK
  <2>2. PlanOK(requests[p]) BY DEF SessionInv
  <2> QED BY <2>1, <2>2 DEF PlanOK, Over
<1>3. MessageTree'
  BY <1>1 DEF SessionInv, MessageTree, SessionTypeOK, UnfinishedIsLeaf, SelectionsValid
<1>4. MessagesOK' /\ RunsOK' BY DEF SessionInv, MessagesOK, RunsOK
<1>5. ToldWhereSelected' BY DEF SessionInv, ToldWhereSelected, OnShownPath
<1> QED BY <1>2, <1>3, <1>4, <1>5 DEF SessionInv

\* What a request plans is typed and true of the session.
AskedWell(op, p, order, child, root, leaf) ==
    /\ op \in Operations \ {"get"} /\ {p, order, child, root, leaf} \subseteq Ids
    /\ op \in {"send", "edit"} /\ p # None =>
          p \in DOMAIN messages /\ messages[p].role = "assistant" /\ Over(p)
    /\ op = "retry" => p \in DOMAIN messages /\ messages[p].role = "user"
    /\ op = "switch" => child \in DOMAIN messages /\ messages[child].parent = p
    /\ op # "switch" => order # 0 /\ (order = 1 \/ order <= Len(messages))

\* Planning keeps the invariant.
LEMMA PlanStep ==
    ASSUME SessionInv, NEW q \in Requests, NEW op, NEW p, NEW order, NEW child, NEW root, NEW leaf,
           AskedWell(op, p, order, child, root, leaf),
           Plan(q, op, p, order, child, root, leaf)
    PROVE  SessionInv'
<1>1. session.version \in Nat BY DEF SessionInv, MessageTree, SessionTypeOK, SessionRows
<1>2. PICK v \in Nat : v = session.version BY <1>1
<1> DEFINE r == [pc |-> "check", op |-> op, parent |-> p, order |-> order, child |-> child,
                 root |-> root, leaf |-> leaf, repairs |-> {}, version |-> v]
<1>3. r \in RequestStates BY DEF AskedWell, RequestStates
<1>4. PlanOK(r) BY <1>2 DEF AskedWell, PlanOK
<1>5. requests' = [requests EXCEPT ![q] = r]
      /\ UNCHANGED <<messages, session, runs, expected, late, told, switches>>
  BY <1>2 DEF Plan
<1>6. session' \in SessionRows /\ session'.version = session.version
  BY <1>5 DEF SessionInv, MessageTree, SessionTypeOK
<1> HIDE DEF r
<1> QED BY <1>3, <1>4, <1>5, <1>6, RequestStep

\* Messages and None are identifiers.
LEMMA MessagesAreIds ==
    ASSUME SessionInv
    PROVE  DOMAIN messages \subseteq Ids /\ None \in Ids
BY SessionRowsOK, ChatSessionAssumption DEF Ids, None

\* PlanSend keeps the invariant.
LEMMA PlanSendStep ==
    ASSUME SessionInv, NEW q \in Requests, PlanSend(q)
    PROVE  SessionInv'
<1> DEFINE path == ActivePath(messages, session.root)
           leaf == PathLeaf(path)
           order == IF leaf # None THEN 1 ELSE NextBranchOrder(messages, None, "user")
<1>1. Tree(messages) BY SessionRowsOK
<1>2. leaf \in {None} \cup DOMAIN messages /\ PathRoot(path) \in {None} \cup DOMAIN messages
  BY <1>1, ActivePathTyped
<1>3. leaf # None => messages[leaf].role = "assistant" /\ Over(leaf)
  <2>1. leaf # None => messages[leaf].role = "assistant"
                       /\ messages[leaf].status \in continuableAssistantStatuses
    BY DEF PlanSend
  <2> QED BY <2>1 DEF Over, continuableAssistantStatuses
<1>4. order \in Ids /\ order # 0 /\ (order = 1 \/ order <= Len(messages))
  <2>1. 1 \in Ids BY ChatSessionAssumption DEF Ids
  <2> QED BY <2>1, NextOrderOK
<1>5. Plan(q, "send", leaf, order, None, PathRoot(path), None) BY DEF PlanSend
<1> HIDE DEF path, leaf, order
<1>6. AskedWell("send", leaf, order, None, PathRoot(path), None)
  BY <1>2, <1>3, <1>4, MessagesAreIds DEF AskedWell, Operations
<1>7. PICK p, o, r : p = leaf /\ o = order /\ r = PathRoot(path) OBVIOUS
<1>8. AskedWell("send", p, o, None, r, None) BY <1>6, <1>7
<1>9. Plan(q, "send", p, o, None, r, None) BY <1>5, <1>7
<1> QED BY <1>8, <1>9, PlanStep

\* PlanEdit keeps the invariant: what hangs below a reply hangs below one that is over.
LEMMA PlanEditStep ==
    ASSUME SessionInv, NEW q \in Requests, NEW t \in DOMAIN messages, PlanEdit(q, t)
    PROVE  SessionInv'
<1> DEFINE parent == messages[t].parent
           order == NextBranchOrder(messages, parent, "user")
           root == IF parent = None THEN None ELSE PathRoot(PathTo(messages, parent))
<1>1. Tree(messages) BY SessionRowsOK
<1>2. messages[t].role = "user" /\ Plan(q, "edit", parent, order, None, root, None) BY DEF PlanEdit
<1>3. parent # None => /\ parent \in DOMAIN messages /\ messages[parent].role = "assistant"
                       /\ Over(parent)
  <2>1. parent # None => parent \in DOMAIN messages BY <1>1, TreeRows
  <2>2. parent # None => messages[parent].role = "assistant" BY <1>2, SessionRowsOK
  <2>3. parent # None => Over(parent)
    BY DEF SessionInv, MessageTree, UnfinishedIsLeaf, Over
  <2> QED BY <2>1, <2>2, <2>3
<1>4. parent \in Ids /\ order \in Ids /\ order # 0 /\ (order = 1 \/ order <= Len(messages))
  BY SessionRowsOK, NextOrderOK
<1>5. root \in Ids
  <2>1. parent # None => PathRoot(PathTo(messages, parent)) \in DOMAIN messages
    <3>1. \A m \in DOMAIN messages : PathRoot(PathTo(messages, m)) \in DOMAIN messages
      BY <1>1, PathToTyped
    <3> QED BY <1>3, <3>1
  <2> QED BY <2>1, MessagesAreIds
<1> HIDE DEF parent, order, root
<1>6. AskedWell("edit", parent, order, None, root, None)
  BY <1>3, <1>4, <1>5, MessagesAreIds DEF AskedWell, Operations
<1>7. PICK p, o, r : p = parent /\ o = order /\ r = root OBVIOUS
<1>8. AskedWell("edit", p, o, None, r, None) BY <1>6, <1>7
<1>9. Plan(q, "edit", p, o, None, r, None) BY <1>2, <1>7
<1> QED BY <1>8, <1>9, PlanStep

\* PlanRetry keeps the invariant.
LEMMA PlanRetryStep ==
    ASSUME SessionInv, NEW q \in Requests, NEW t \in DOMAIN messages, PlanRetry(q, t)
    PROVE  SessionInv'
<1> DEFINE parent == messages[t].parent
           order == NextBranchOrder(messages, parent, "assistant")
           root == PathRoot(PathTo(messages, parent))
<1>1. Tree(messages) BY SessionRowsOK
<1>2. /\ parent # None /\ messages[parent].role = "user"
      /\ Plan(q, "retry", parent, order, None, root, None)
  BY DEF PlanRetry
<1>3. parent \in DOMAIN messages BY <1>1, <1>2, TreeRows
<1>4. order \in Ids /\ order # 0 /\ (order = 1 \/ order <= Len(messages)) BY NextOrderOK
<1>5. root \in DOMAIN messages
  <2>1. \A m \in DOMAIN messages : PathRoot(PathTo(messages, m)) \in DOMAIN messages
    BY <1>1, PathToTyped
  <2> QED BY <1>3, <2>1
<1> HIDE DEF parent, order, root
<1>6. AskedWell("retry", parent, order, None, root, None)
  BY <1>2, <1>3, <1>4, <1>5, MessagesAreIds DEF AskedWell, Operations
<1>7. PICK p, o, r : p = parent /\ o = order /\ r = root OBVIOUS
<1>8. AskedWell("retry", p, o, None, r, None) BY <1>6, <1>7
<1>9. Plan(q, "retry", p, o, None, r, None) BY <1>2, <1>7
<1> QED BY <1>8, <1>9, PlanStep

\* ns is the tree ms in which p selects child.
Reselected(ns, ms, p, child) ==
    /\ Tree(ns) /\ DOMAIN ns = DOMAIN ms /\ Len(ns) = Len(ms)
    /\ \A m \in DOMAIN ms :
          /\ ns[m].role = ms[m].role /\ ns[m].status = ms[m].status
          /\ ns[m].parent = ms[m].parent /\ ns[m].order = ms[m].order
          /\ ns[m].selected = IF m = p THEN child ELSE ms[m].selected

\* Selecting a message leaves a tree.
LEMMA SelectTree ==
    ASSUME NEW ms, Tree(ms), NEW p \in {None} \cup DOMAIN ms, NEW child \in Ids
    PROVE  Reselected(Select(ms, p, child), ms, p, child)
<1> DEFINE ns == [m \in DOMAIN ms |->
                     IF m = p THEN [ms[m] EXCEPT !.selected = child] ELSE ms[m]]
<1>1. Len(ms) \in Nat /\ DOMAIN ms = 1 .. Len(ms) /\ None \notin DOMAIN ms
      /\ \A m \in DOMAIN ms : ms[m] \in MessageRows BY TreeRows
<1>2. Select(ms, p, child) = ns
  <2>1. CASE p = None
    <3>1. ms = [m \in DOMAIN ms |-> ms[m]] BY DEF Tree
    <3>2. \A m \in DOMAIN ms : m # p BY <1>1, <2>1
    <3> QED BY <2>1, <3>1, <3>2 DEF Select
  <2>2. CASE p # None
    <3>1. [ms EXCEPT ![p].selected = child] = ns BY <1>1, <2>2
    <3> QED BY <2>2, <3>1 DEF Select
  <2> QED BY <2>1, <2>2
<1>3. ASSUME NEW m \in DOMAIN ms
      PROVE  /\ ns[m] \in MessageRows
             /\ ns[m].role = ms[m].role /\ ns[m].status = ms[m].status
             /\ ns[m].parent = ms[m].parent /\ ns[m].order = ms[m].order
             /\ ns[m].selected = IF m = p THEN child ELSE ms[m].selected
  <2>1. ms[m] \in MessageRows BY <1>1
  <2>2. ns[m] = IF m = p THEN [ms[m] EXCEPT !.selected = child] ELSE ms[m] OBVIOUS
  <2> HIDE DEF ns
  <2> QED BY <2>1, <2>2 DEF MessageRows
<1>4. DOMAIN ns = DOMAIN ms OBVIOUS
<1> HIDE DEF ns
<1>5. ns \in Seq(MessageRows) /\ Len(ns) = Len(ms)
  <2>1. ns = [m \in 1 .. Len(ms) |-> ns[m]]
    <3>1. ns = [m \in DOMAIN ns |-> ns[m]] BY DEF ns
    <3> QED BY <1>1, <1>4, <3>1
  <2>2. ns \in [1 .. Len(ms) -> MessageRows] BY <1>1, <1>3, <2>1
  <2> QED BY <1>1, <2>2
<1>6. Tree(ns) BY <1>3, <1>4, <1>5 DEF Tree
<1>7. Reselected(ns, ms, p, child) BY <1>3, <1>4, <1>5, <1>6 DEF Reselected
<1> QED BY <1>2, <1>7

\* PlanSwitch keeps the invariant.
LEMMA PlanSwitchStep ==
    ASSUME SessionInv, NEW q \in Requests, NEW t \in DOMAIN messages, PlanSwitch(q, t)
    PROVE  SessionInv'
<1> DEFINE parent == messages[t].parent
           root == PathRoot(PathTo(messages, t))
           leaf == PathLeaf(ActivePath(Select(messages, parent, t), root))
<1>1. Tree(messages) BY SessionRowsOK
<1>2. Plan(q, "switch", parent, 0, t, root, leaf) BY DEF PlanSwitch
<1>3. parent \in {None} \cup DOMAIN messages /\ parent \in Ids /\ t \in Ids
  BY <1>1, TreeRows, SessionRowsOK, MessagesAreIds
<1>4. root \in DOMAIN messages BY <1>1, PathToTyped
<1>5. leaf \in {None} \cup DOMAIN messages
  <2>1. \A p \in {None} \cup DOMAIN messages :
           Tree(Select(messages, p, t)) /\ DOMAIN Select(messages, p, t) = DOMAIN messages
    BY <1>1, <1>3, SelectTree DEF Reselected
  <2> DEFINE ms == Select(messages, parent, t)
  <2>2. Tree(ms) /\ DOMAIN ms = DOMAIN messages BY <1>3, <2>1
  <2>3. PICK ns, r : ns = ms /\ r = root OBVIOUS
  <2>4. Tree(ns) /\ DOMAIN ns = DOMAIN messages BY <2>2, <2>3
  <2>5. PathLeaf(ActivePath(ns, r)) \in {None} \cup DOMAIN ns BY <2>4, ActivePathTyped
  <2> QED BY <2>3, <2>4, <2>5
<1>6. PICK p, r, l : p = parent /\ r = root /\ l = leaf OBVIOUS
<1>7. messages[t].parent = p BY <1>6
<1>8. Plan(q, "switch", p, 0, t, r, l) BY <1>2, <1>6
<1> HIDE DEF parent, root, leaf
<1>9. AskedWell("switch", p, 0, t, r, l)
  <2>1. 0 \in Ids /\ {p, 0, t, r, l} \subseteq Ids
    BY <1>3, <1>4, <1>5, <1>6, MessagesAreIds DEF None
  <2> QED BY <1>7, <2>1 DEF AskedWell, Operations
<1> QED BY <1>8, <1>9, PlanStep
\* A request that waits for nothing, or for its answer, has no plan.
LEMMA IdlePlanOK ==
    ASSUME SessionInv
    PROVE  /\ IdleRequest \in RequestStates /\ PlanOK(IdleRequest)
           /\ [IdleRequest EXCEPT !.pc = "respond"] \in RequestStates
           /\ PlanOK([IdleRequest EXCEPT !.pc = "respond"])
<1>1. session.version \in Nat BY DEF SessionInv, MessageTree, SessionTypeOK, SessionRows
<1>2. 0 \in Ids BY MessagesAreIds DEF None
<1> QED BY <1>1, <1>2 DEF IdleRequest, RequestStates, PlanOK, Operations, None

\* Check keeps the invariant.
LEMMA CheckStep ==
    ASSUME SessionInv, NEW q \in Requests, Check(q)
    PROVE  SessionInv'
<1>1. PICK r : r = requests[q] OBVIOUS
<1>2. r \in RequestStates /\ PlanOK(r) /\ r.pc = "check"
  BY <1>1 DEF SessionInv, MessageTree, SessionTypeOK, Check
<1> DEFINE w == [r EXCEPT !.pc = "write"]
<1>3. w \in RequestStates BY <1>2 DEF RequestStates
<1>4. PlanOK(w)
  <2>1. /\ w.pc = "write" /\ w.op = r.op /\ w.parent = r.parent /\ w.order = r.order
        /\ w.child = r.child /\ w.version = r.version BY <1>2 DEF RequestStates
  <2> HIDE DEF w
  <2> QED BY <1>2, <2>1 DEF PlanOK
<1>5. PICK n \in {w, IdleRequest} : requests' = [requests EXCEPT ![q] = n]
  <2>1. requests' = [requests EXCEPT ![q] = w] \/ requests' = [requests EXCEPT ![q] = IdleRequest]
    BY <1>1 DEF Check, SessionInv, MessageTree, SessionTypeOK
  <2> QED BY <2>1
<1>6. n \in RequestStates /\ PlanOK(n)
  <2> HIDE DEF w
  <2> QED BY <1>3, <1>4, <1>5, IdlePlanOK
<1>7. /\ session' \in SessionRows /\ session'.version = session.version
      /\ UNCHANGED <<messages, runs, expected, late, told, switches>>
  BY DEF Check, SessionInv, MessageTree, SessionTypeOK
<1> HIDE DEF w
<1> QED BY <1>5, <1>6, <1>7, RequestStep

\* The path the session shows needs no repair: it follows the selections.
LEMMA NothingToRepair ==
    ASSUME SessionInv
    PROVE  SelectedChildUpdates(messages, ActivePath(messages, session.root)) = {}
<1> DEFINE path == ActivePath(messages, session.root)
<1>1. Tree(messages) BY SessionRowsOK
<1>2. path \in Seq(DOMAIN messages) BY <1>1, ActivePathTyped
<1>3. ASSUME NEW m \in DOMAIN messages PROVE messages[m].selected = NextOnPath(messages, m)
  <2> DEFINE children == Children(messages, m, ReplyRole(messages[m].role))
  <2>1. IF children = {} THEN messages[m].selected = None ELSE messages[m].selected \in children
    BY DEF SessionInv, MessageTree, SelectionsValid
  <2>2. children = {} => NextOnPath(messages, m) = None BY <1>1, NextIsChild
  <2>3. messages[m].selected \in children => NextOnPath(messages, m) = messages[m].selected
    BY DEF NextOnPath
  <2> HIDE DEF children
  <2> QED BY <2>1, <2>2, <2>3
<1> HIDE DEF path
<1>4. \A i \in DOMAIN path : path[i] \in DOMAIN messages BY <1>2
<1>5. SelectedChildUpdates(messages, path) = {} BY <1>3, <1>4 DEF SelectedChildUpdates
<1> QED BY <1>5 DEF path

\* ReadDetail keeps the invariant.
LEMMA ReadDetailStep ==
    ASSUME SessionInv, NEW q \in Requests, ReadDetail(q)
    PROVE  SessionInv'
<1> DEFINE path == ActivePath(messages, session.root)
<1>1. Tree(messages) BY SessionRowsOK
<1>2. PathRoot(path) \in Ids /\ PathLeaf(path) \in Ids BY <1>1, ActivePathTyped, MessagesAreIds
<1>3. SelectedChildUpdates(messages, path) = {} BY NothingToRepair
<1>4. PICK root \in Ids, leaf \in Ids : root = PathRoot(path) /\ leaf = PathLeaf(path) BY <1>2
<1> DEFINE r == [IdleRequest EXCEPT !.pc = "repair", !.root = root, !.leaf = leaf,
                                    !.repairs = {}]
<1>5. requests' = [requests EXCEPT ![q] = r] \/ requests' = [requests EXCEPT ![q] = IdleRequest]
  BY <1>3, <1>4 DEF ReadDetail
<1>6. r \in RequestStates /\ PlanOK(r)
  <2>1. PICK x : x = IdleRequest OBVIOUS
  <2>2. x \in RequestStates /\ PlanOK(x) BY <2>1, IdlePlanOK
  <2> DEFINE x1 == [x EXCEPT !.pc = "repair"]
             x2 == [x1 EXCEPT !.root = root]
             x3 == [x2 EXCEPT !.leaf = leaf]
             x4 == [x3 EXCEPT !.repairs = {}]
  <2>3. x1 \in RequestStates /\ x1.pc = "repair" /\ x1.version = x.version
    BY <2>2 DEF RequestStates
  <2>4. r = x4 BY <2>1
  <2> HIDE DEF x1
  <2>5. x2 \in RequestStates /\ x2.pc = x1.pc /\ x2.version = x1.version
    BY <2>3 DEF RequestStates
  <2> HIDE DEF x2
  <2>6. x3 \in RequestStates /\ x3.pc = x2.pc /\ x3.version = x2.version
    BY <2>5 DEF RequestStates
  <2> HIDE DEF x3
  <2>7. x4 \in RequestStates /\ x4.pc = x3.pc /\ x4.version = x3.version /\ x4.repairs = {}
    BY <2>6 DEF RequestStates
  <2> HIDE DEF x4, r
  <2> QED BY <2>2, <2>3, <2>4, <2>5, <2>6, <2>7 DEF PlanOK
<1>7. /\ session' \in SessionRows /\ session'.version = session.version
      /\ UNCHANGED <<messages, runs, expected, late, told, switches>>
  BY DEF ReadDetail, SessionInv, MessageTree, SessionTypeOK
<1> HIDE DEF r
<1>8. PICK n \in {r, IdleRequest} : requests' = [requests EXCEPT ![q] = n] BY <1>5
<1>9. n \in RequestStates /\ PlanOK(n) BY <1>6, <1>8, IdlePlanOK
<1> QED BY <1>7, <1>8, <1>9, RequestStep

\* Repair keeps the invariant, and changes no message.
LEMMA RepairStep ==
    ASSUME SessionInv, NEW q \in Requests, Repair(q)
    PROVE  SessionInv' /\ messages' = messages
<1>1. requests[q] \in RequestStates /\ requests[q].pc = "repair" /\ requests[q].repairs = {}
  BY DEF Repair, SessionInv, MessageTree, SessionTypeOK, PlanOK
<1>2. messages' = messages
  <2>1. messages' = [m \in DOMAIN messages |-> messages[m]] BY <1>1 DEF Repair
  <2>2. messages \in Seq(MessageRows) BY DEF SessionInv, MessageTree, SessionTypeOK
  <2> QED BY <2>1, <2>2
<1>3. session' \in SessionRows /\ session'.version = session.version
  <2>1. session \in SessionRows BY DEF SessionInv, MessageTree, SessionTypeOK
  <2>2. requests[q].root \in Ids /\ requests[q].leaf \in Ids BY <1>1 DEF RequestStates
  <2>3. session' = [session EXCEPT !.root = requests[q].root, !.leaf = requests[q].leaf]
    BY DEF Repair
  <2> QED BY <2>1, <2>2, <2>3 DEF SessionRows
<1>4. requests' = [requests EXCEPT ![q] = IdleRequest]
      /\ UNCHANGED <<runs, expected, late, told, switches>>
  BY DEF Repair, Done
<1>5. PICK n : n = IdleRequest OBVIOUS
<1>6. n \in RequestStates /\ PlanOK(n) BY <1>5, IdlePlanOK
<1>7. SessionInv' BY <1>2, <1>3, <1>4, <1>5, <1>6, RequestStep
<1> QED BY <1>2, <1>7
-----------------------------------------------------------------------------
(* What steps that write leave alone.                                      *)

\* Messages stay, with their place in the tree, and a reply that is over stays over.
Grown ==
    /\ DOMAIN messages \subseteq DOMAIN messages'
    /\ Len(messages) <= Len(messages')
    /\ session.version <= session'.version
    /\ \A m \in DOMAIN messages :
          /\ messages'[m].role = messages[m].role
          /\ messages'[m].parent = messages[m].parent
          /\ messages'[m].order = messages[m].order
          /\ Over(m) => messages'[m].status # "running"

\* What requests have read stays true.
LEMMA PlansKept ==
    ASSUME SessionInv, Grown, Tree(messages'), session' \in SessionRows,
           \A q \in Requests : requests'[q] \in {requests[q], IdleRequest,
                                                 [IdleRequest EXCEPT !.pc = "respond"]}
    PROVE  \A q \in Requests : PlanOK(requests[q])'
<1>1. session.version \in Nat /\ session'.version \in Nat
  BY DEF SessionInv, MessageTree, SessionTypeOK, SessionRows
<1>2. Len(messages) \in Nat /\ Len(messages') \in Nat BY SessionRowsOK, TreeRows
<1>3. ASSUME NEW q \in Requests, requests'[q] = requests[q] PROVE PlanOK(requests[q])'
  <2>1. PICK r : r = requests[q] OBVIOUS
  <2>2. r \in RequestStates /\ PlanOK(r)
    BY <2>1 DEF SessionInv, MessageTree, SessionTypeOK
  <2>3. r.version \in Nat /\ r.order \in Nat
    BY <2>2, ChatSessionAssumption DEF RequestStates, Ids
  <2>4. r.version <= session'.version BY <1>1, <2>2, <2>3 DEF PlanOK, Grown
  <2>5. r.order <= Len(messages) => r.order <= Len(messages')
    BY <1>2, <2>3 DEF Grown
  <2>6. \A m \in DOMAIN messages : Over(m) => Over(m)' BY DEF Grown, Over
  <2>7. PlanOK(r)' BY <2>2, <2>4, <2>5, <2>6 DEF PlanOK, Grown
  <2> QED BY <1>3, <2>1, <2>7
<1>4. PlanOK(IdleRequest)' /\ PlanOK([IdleRequest EXCEPT !.pc = "respond"])'
  BY <1>1 DEF IdleRequest, PlanOK
<1>5. ASSUME NEW q \in Requests, requests'[q] = IdleRequest PROVE PlanOK(requests[q])'
  BY <1>4, <1>5 DEF PlanOK, IdleRequest
<1>6. ASSUME NEW q \in Requests, requests'[q] = [IdleRequest EXCEPT !.pc = "respond"]
      PROVE  PlanOK(requests[q])'
  BY <1>4, <1>6 DEF PlanOK, IdleRequest
<1> QED BY <1>3, <1>5, <1>6

-----------------------------------------------------------------------------
(* The steps of the runs.                                                  *)

\* A step that changes only runs, and what is known of their outcomes.
LEMMA OutcomeStep ==
    ASSUME SessionInv, UNCHANGED <<messages, session, expected, requests, switches>>,
           OutcomeTypes',
           \A m \in 1 .. MaxMessages : runs'[m] = "none" <=> runs[m] = "none",
           \A m \in told' : /\ runs[m] # "none"
                            /\ m \notin told /\ expected[m] = session.version => OnShownPath(m),
           \A m \in 1 .. MaxMessages : late'[m] # {} => m \in told'
    PROVE  SessionInv'
<1>1. MessageTree'
  BY DEF SessionInv, MessageTree, SessionTypeOK, UnfinishedIsLeaf, SelectionsValid, OutcomeTypes
<1>2. MessagesOK' BY DEF SessionInv, MessagesOK
<1>3. \A q \in Requests : PlanOK(requests[q])' BY DEF SessionInv, PlanOK, Over
<1>4. told' \in SUBSET (1 .. MaxMessages) BY DEF OutcomeTypes
<1>5. RunsOK' BY <1>4 DEF SessionInv, RunsOK
<1>6. ToldWhereSelected' BY DEF SessionInv, ToldWhereSelected, OnShownPath
<1> QED BY <1>1, <1>2, <1>3, <1>5, <1>6 DEF SessionInv

\* The end of a run is written over a reply, which keeps its place in the tree.
LEMMA StatusStep ==
    ASSUME SessionInv, NEW m \in DOMAIN messages, messages[m].role = "assistant",
           NEW to \in continuableAssistantStatuses,
           messages' = [messages EXCEPT ![m].status = to],
           OutcomeTypes', \A k \in 1 .. MaxMessages : runs'[k] = "none" <=> runs[k] = "none",
           \A k \in 1 .. MaxMessages : late'[k] # {} => late[k] # {},
           UNCHANGED <<expected, told, requests, switches>>,
           session' \in SessionRows, session'.version \in {session.version, session.version + 1}
    PROVE  SessionInv'
<1>1. Tree(messages) BY SessionRowsOK
<1>2. PICK ms, ns : ms = messages /\ ns = messages' OBVIOUS
<1>3. /\ Tree(ms) /\ m \in DOMAIN ms /\ ms[m].role = "assistant" /\ to # "running"
      /\ ns = [ms EXCEPT ![m].status = to]
  BY <1>1, <1>2 DEF continuableAssistantStatuses
<1>4. /\ Len(ms) \in Nat /\ DOMAIN ms = 1 .. Len(ms)
      /\ \A x \in DOMAIN ms : ms[x] \in MessageRows
  BY <1>3, TreeRows
<1>5. ASSUME NEW x \in DOMAIN ms
      PROVE  /\ ns[x] \in MessageRows
             /\ ns[x].role = ms[x].role /\ ns[x].parent = ms[x].parent
             /\ ns[x].selected = ms[x].selected /\ ns[x].order = ms[x].order
             /\ ns[x].status = IF x = m THEN to ELSE ms[x].status
  <2>1. ns[x] = IF x = m THEN [ms[x] EXCEPT !.status = to] ELSE ms[x] BY <1>3
  <2> QED BY <1>4, <2>1 DEF MessageRows
<1>6. DOMAIN ns = DOMAIN ms BY <1>3
<1>7. SameShape(ns, ms) BY <1>5, <1>6 DEF SameShape
<1>8. ns \in Seq(MessageRows) /\ Len(ns) = Len(ms)
  <2>1. ns = [x \in 1 .. Len(ms) |-> ns[x]] BY <1>3, <1>4
  <2>2. ns \in [1 .. Len(ms) -> MessageRows] BY <1>4, <1>5, <2>1
  <2> QED BY <1>4, <2>2
<1>9. Tree(ns) BY <1>3, <1>5, <1>6, <1>8 DEF Tree
<1>10. session.version \in Nat BY DEF SessionInv, MessageTree, SessionTypeOK, SessionRows
<1>12. Grown
  <2>1. \A x \in DOMAIN messages : /\ messages'[x].role = messages[x].role
                                   /\ messages'[x].parent = messages[x].parent
                                   /\ messages'[x].order = messages[x].order
                                   /\ Over(x) => messages'[x].status # "running"
    BY <1>2, <1>3, <1>5 DEF Over
  <2> QED BY <1>2, <1>6, <1>8, <1>4, <1>10, <2>1 DEF Grown
<1>13. SessionTypeOK'
  BY <1>2, <1>3, <1>8 DEF SessionInv, MessageTree, SessionTypeOK, Tree, OutcomeTypes
<1>14. UnfinishedIsLeaf'
  <2>1. SUFFICES ASSUME NEW x \in DOMAIN ns, ns[x].parent # None
                 PROVE  ns[ns[x].parent].status # "running"
    BY <1>2 DEF UnfinishedIsLeaf
  <2>2. x \in DOMAIN ms /\ ns[x].parent = ms[x].parent /\ ms[x].parent \in DOMAIN ms
    BY <1>3, <1>5, <1>6, <2>1, TreeRows
  <2>3. ms[ms[x].parent].status # "running"
    BY <1>2, <2>1, <2>2 DEF SessionInv, MessageTree, UnfinishedIsLeaf
  <2> QED BY <1>3, <1>5, <2>2, <2>3
<1>15. SelectionsValid'
  <2>1. \A p, role : Children(ns, p, role) = Children(ms, p, role) BY <1>3, <1>7, NextKept
  <2>2. ASSUME NEW x \in DOMAIN ns
        PROVE  LET children == Children(ns, x, ReplyRole(ns[x].role))
               IN  IF children = {} THEN ns[x].selected = None
                   ELSE ns[x].selected \in children
    <3>1. x \in DOMAIN ms /\ ns[x].role = ms[x].role /\ ns[x].selected = ms[x].selected
      BY <1>5, <1>6
    <3>2. LET children == Children(ms, x, ReplyRole(ms[x].role))
          IN  IF children = {} THEN ms[x].selected = None
              ELSE ms[x].selected \in children
      BY <1>2, <3>1 DEF SessionInv, MessageTree, SelectionsValid
    <3> QED BY <2>1, <3>1, <3>2
  <2> QED BY <1>2, <2>2 DEF SelectionsValid
<1>16. MessagesOK'
  <2>1. ASSUME NEW x \in DOMAIN ns
        PROVE  /\ ns[x].parent < x
               /\ ns[x].role = IF ns[x].parent = None THEN "user"
                               ELSE ReplyRole(ns[ns[x].parent].role)
               /\ ns[x].role = "user" =>
                     ns[x].status = "completed" /\ ns[x].order <= x /\ x < Len(ns)
               /\ ns[x].role = "assistant" => ns[x].order < x
    <3>1. /\ x \in DOMAIN ms /\ ns[x].role = ms[x].role /\ ns[x].parent = ms[x].parent
          /\ ns[x].order = ms[x].order /\ ns[x].status = IF x = m THEN to ELSE ms[x].status
      BY <1>5, <1>6
    <3>2. ms[x].parent # None => ms[x].parent \in DOMAIN ms BY <1>3, <3>1, TreeRows
    <3>3. ms[x].parent # None => ns[ms[x].parent].role = ms[ms[x].parent].role BY <1>5, <3>2
    <3>4. /\ ms[x].parent < x
          /\ ms[x].role = IF ms[x].parent = None THEN "user"
                          ELSE ReplyRole(ms[ms[x].parent].role)
          /\ ms[x].role = "user" =>
                ms[x].status = "completed" /\ ms[x].order <= x /\ x < Len(ms)
          /\ ms[x].role = "assistant" => ms[x].order < x
      BY <1>2, <3>1 DEF SessionInv, MessagesOK
    <3>5. ms[x].role = "user" => x # m BY <1>3
    <3> QED BY <1>8, <3>1, <3>3, <3>4, <3>5
  <2> QED BY <1>2, <2>1 DEF MessagesOK
<1>17. \A q \in Requests : PlanOK(requests[q])'
  <2>1. Tree(messages') BY <1>2, <1>9
  <2> QED BY <1>12, <2>1, PlansKept
<1>18. RunsOK'
  <2>1. \A k \in 1 .. MaxMessages : expected[k] \in Nat
    BY DEF SessionInv, MessageTree, SessionTypeOK
  <2>2. \A k \in 1 .. MaxMessages : expected'[k] <= session'.version
    BY <1>10, <2>1 DEF SessionInv, RunsOK
  <2>3. \A k \in DOMAIN messages : k \in DOMAIN messages' /\ messages'[k].role = messages[k].role
    BY <1>12 DEF Grown
  <2>4. told' = told /\ told \in SUBSET (1 .. MaxMessages)
    BY DEF SessionInv, MessageTree, SessionTypeOK
  <2> QED BY <2>2, <2>3, <2>4 DEF SessionInv, RunsOK
<1>19. ToldWhereSelected'
  <2>1. SUFFICES ASSUME NEW k \in DOMAIN ns, expected[k] = session'.version
                 PROVE  NextOnPath(ns, k) = None /\ (k \in told => OnShownPath(k)')
    BY <1>2 DEF ToldWhereSelected
  <2>2. k \in DOMAIN messages /\ k \in DOMAIN ms BY <1>2, <1>6
  <2>4. expected[k] \in Nat /\ expected[k] <= session.version
    <3>1. k \in 1 .. MaxMessages BY <2>2, SessionRowsOK
    <3> QED BY <3>1 DEF SessionInv, MessageTree, SessionTypeOK, RunsOK
  <2>5. expected[k] = session.version BY <1>10, <2>1, <2>4
  <2>6. /\ NextOnPath(ms, k) = None
        /\ k \in told => ActivePath(ms, PathRoot(PathTo(ms, k))) = PathTo(ms, k)
    BY <1>2, <2>2, <2>5 DEF SessionInv, ToldWhereSelected, OnShownPath
  <2>7. PathTo(ns, k) = PathTo(ms, k)
    <3>1. Extends(ns, ms) BY <1>7 DEF SameShape, Extends
    <3> QED BY <1>3, <1>9, <2>2, <3>1, PathToKept
  <2>8. \A root : ActivePath(ns, root) = ActivePath(ms, root)
    BY <1>3, <1>7, <1>9, ActivePathKept
  <2>9. k \in told => ActivePath(ns, PathRoot(PathTo(ns, k))) = PathTo(ns, k)
    BY <2>6, <2>7, <2>8
  <2>10. NextOnPath(ns, k) = None BY <1>3, <1>7, <2>2, <2>6, NextKept
  <2> QED BY <1>2, <2>9, <2>10 DEF OnShownPath
<1> QED BY <1>13, <1>14, <1>15, <1>16, <1>17, <1>18, <1>19 DEF SessionInv, MessageTree

\* The path that shows a message nothing follows is the path to it.
LEMMA ShownPathIsPathTo ==
    ASSUME NEW ms, Tree(ms), NEW m \in DOMAIN ms, NextOnPath(ms, m) = None, NEW stored,
           NEW k \in DOMAIN ActivePath(ms, stored), ActivePath(ms, stored)[k] = m
    PROVE  /\ ActivePath(ms, stored) = PathTo(ms, m)
           /\ ActivePath(ms, PathRoot(PathTo(ms, m))) = PathTo(ms, m)
<1> DEFINE path == ActivePath(ms, stored)
           root == ActiveRoot(ms, stored)
<1>3. k \in DOMAIN path /\ path[k] = m OBVIOUS
<1>4. Descends(ms, path, root) BY ActivePathDescends
<1>5. root # None => ms[root].parent = None BY ActiveRootIsRoot
<1>6. ActiveRoot(ms, root) = root BY ActiveRootIsRoot
<1>7. ActivePath(ms, root) = path BY <1>6 DEF ActivePath
<1> HIDE DEF path, root
<1>8. path \in Seq(DOMAIN ms) /\ DOMAIN path = 1 .. Len(path) /\ Len(path) \in Nat
  BY <1>4 DEF Descends
<1>9. None \notin DOMAIN ms BY TreeRows
<1>11. k = Len(path)
  <2>1. SUFFICES ASSUME k # Len(path) PROVE FALSE OBVIOUS
  <2>2. k + 1 \in 1 .. Len(path) BY <1>3, <1>8, <2>1
  <2>3. path[k + 1] \in DOMAIN ms BY <1>8, <2>2, SequenceMember
  <2>4. NextOnPath(ms, m) = path[k + 1] BY <1>3, <1>4, <1>8, <2>1 DEF Descends
  <2> QED BY <1>9, <2>3, <2>4
<1>12. ASSUME NEW i \in 1 .. Len(path)
       PROVE  ms[path[i]].parent = IF i = 1 THEN None ELSE path[i - 1]
  <2>1. path[i] \in DOMAIN ms /\ path[i] # None BY <1>8, <1>9, SequenceMember
  <2>2. CASE i = 1
    <3>1. path # <<>> BY <1>8
    <3>2. path[1] = root BY <1>4, <3>1 DEF Descends
    <3> QED BY <1>5, <2>1, <2>2, <3>2
  <2>3. CASE i # 1
    <3>1. i - 1 \in 1 .. Len(path) /\ i - 1 # Len(path) /\ (i - 1) + 1 = i BY <1>8, <2>3
    <3>2. NextOnPath(ms, path[i - 1]) = path[i] BY <1>4, <3>1 DEF Descends
    <3>3. path[i - 1] \in DOMAIN ms BY <1>8, <3>1, SequenceMember
    <3>4. \A x \in DOMAIN ms : NextOnPath(ms, x) # None =>
                                  ms[NextOnPath(ms, x)].parent = x
      BY NextIsChild
    <3> QED BY <2>1, <2>3, <3>2, <3>3, <3>4
  <2> QED BY <2>2, <2>3
<1>13. Ascends(ms, path, m)
  <2>1. path # <<>> BY <1>3, <1>8
  <2> QED BY <1>3, <1>8, <1>11, <1>12, <2>1 DEF Ascends
<1>14. PathTo(ms, m) = path
  <2>1. PICK p : p = path OBVIOUS
  <2>2. Ascends(ms, p, m) BY <1>13, <2>1
  <2>3. PathTo(ms, m) = p BY <2>2, PathToIs
  <2> QED BY <2>1, <2>3
<1>15. PathRoot(path) = root
  <2>1. path # <<>> BY <1>13 DEF Ascends
  <2> QED BY <1>4, <2>1 DEF Descends, PathRoot
<1> QED BY <1>7, <1>14, <1>15 DEF path

\* Where nothing follows a reply, its agent is given the history of the path to it, which is
\* shown.
LEMMA ContextShown ==
    ASSUME SessionInv, NEW m \in DOMAIN messages, NextOnPath(messages, m) = None,
           Context(m) # <<>>
    PROVE  OnShownPath(m) /\ Context(m) = History(messages, PathTo(messages, m))
<1> DEFINE path == ActivePath(messages, session.root)
<1>1. Context(m) = History(messages, path) /\ \E i \in DOMAIN path : path[i] = m BY DEF Context
<1>2. PICK k \in DOMAIN path : path[k] = m BY <1>1
<1>3. PICK ms, stored : ms = messages /\ stored = session.root OBVIOUS
<1>4. /\ Tree(ms) /\ m \in DOMAIN ms /\ NextOnPath(ms, m) = None
      /\ k \in DOMAIN ActivePath(ms, stored) /\ ActivePath(ms, stored)[k] = m
  BY <1>2, <1>3, SessionRowsOK
<1>5. /\ ActivePath(ms, stored) = PathTo(ms, m)
      /\ ActivePath(ms, PathRoot(PathTo(ms, m))) = PathTo(ms, m)
  BY <1>4, ShownPathIsPathTo
<1> QED BY <1>1, <1>3, <1>5 DEF OnShownPath

\* Nothing follows a reply that is not over, so that its agent is given its own history.
LEMMA OwnContext == SessionInv => ContextIsOwnHistory
<1>1. SUFFICES ASSUME SessionInv, NEW m \in DOMAIN messages, messages[m].status = "running"
               PROVE  Context(m) \in {<<>>, History(messages, PathTo(messages, m))}
  BY DEF ContextIsOwnHistory
<1>2. Tree(messages) BY <1>1, SessionRowsOK
<1>3. NextOnPath(messages, m) = None
  <2>1. SUFFICES ASSUME NextOnPath(messages, m) # None PROVE FALSE OBVIOUS
  <2>2. PICK ms, next : ms = messages /\ next = NextOnPath(messages, m) OBVIOUS
  <2>3. next \in DOMAIN ms /\ ms[next].parent = m /\ m # None
    BY <1>2, <2>1, <2>2, NextIsChild, TreeRows
  <2> QED BY <1>1, <2>2, <2>3 DEF SessionInv, MessageTree, UnfinishedIsLeaf
<1> QED BY <1>1, <1>3, ContextShown

\* Bootstrap keeps the invariant: while the history is the one of the run, the path that
\* shows its reply ends there.
LEMMA BootstrapStep ==
    ASSUME SessionInv, NEW m \in DOMAIN messages, Bootstrap(m)
    PROVE  SessionInv'
<1>1. /\ runs[m] # "none" /\ Context(m) # <<>> /\ told' = told \cup {m}
      /\ UNCHANGED <<messages, session, runs, expected, late, requests, switches>>
  BY DEF Bootstrap
<1>2. m \in 1 .. MaxMessages BY SessionRowsOK
<1>3. OutcomeTypes' BY <1>1, <1>2 DEF SessionInv, MessageTree, SessionTypeOK, OutcomeTypes
<1>4. expected[m] = session.version => OnShownPath(m)
  BY <1>1, ContextShown DEF SessionInv, ToldWhereSelected
<1>5. \A k \in told' : /\ runs[k] # "none"
                       /\ k \notin told /\ expected[k] = session.version => OnShownPath(k)
  BY <1>1, <1>4 DEF SessionInv, RunsOK
<1>6. \A k \in 1 .. MaxMessages : late'[k] # {} => k \in told' BY <1>1 DEF SessionInv, RunsOK
<1> QED BY <1>1, <1>3, <1>5, <1>6, OutcomeStep

\* What the projector reads and writes of a run keeps the invariant.
LEMMA RunStep ==
    ASSUME SessionInv, NEW m \in DOMAIN messages,
           \/ \E outcome \in {"action", "completed"} : ProjectOutcome(m, outcome)
           \/ RequireAction(m) \/ Resume(m)
    PROVE  SessionInv'
<1>1. OutcomeTypes /\ m \in 1 .. MaxMessages
  BY SessionRowsOK DEF SessionInv, MessageTree, SessionTypeOK, OutcomeTypes
<1>2. /\ UNCHANGED <<messages, session, expected, requests, switches>> /\ told' = told
  BY DEF ProjectOutcome, RequireAction, Resume
<1>3. \A k \in told : /\ runs[k] # "none"
                      /\ k \notin told /\ expected[k] = session.version => OnShownPath(k)
  BY DEF SessionInv, RunsOK
<1>4. \A k \in 1 .. MaxMessages : late[k] # {} => k \in told /\ runs[k] # "none"
  BY DEF SessionInv, RunsOK
<1>5. CASE \E outcome \in {"action", "completed"} : ProjectOutcome(m, outcome)
  <2>1. PICK outcome \in {"action", "completed"} : ProjectOutcome(m, outcome) BY <1>5
  <2>2. m \in told /\ runs' = runs /\ late' = [late EXCEPT ![m] = late[m] \cup {outcome}]
    BY <2>1 DEF ProjectOutcome
  <2>3. OutcomeTypes' BY <1>1, <1>2, <2>2 DEF OutcomeTypes
  <2>4. \A k \in 1 .. MaxMessages : late'[k] # {} => k \in told' BY <1>1, <1>2, <1>4, <2>2 DEF OutcomeTypes
  <2> QED BY <1>2, <1>3, <2>2, <2>3, <2>4, OutcomeStep
<1>6. CASE RequireAction(m)
  <2>1. /\ "action" \in late[m] /\ runs' = [runs EXCEPT ![m] = "requires_action"]
        /\ late' = [late EXCEPT ![m] = late[m] \ {"action"}]
    BY <1>6 DEF RequireAction
  <2>2. OutcomeTypes' BY <1>1, <1>2, <2>1 DEF OutcomeTypes, activeRunStatuses
  <2>3. \A k \in 1 .. MaxMessages : late'[k] # {} => k \in told' BY <1>1, <1>2, <1>4, <2>1 DEF OutcomeTypes
  <2>4. \A k \in 1 .. MaxMessages : runs'[k] = "none" <=> runs[k] = "none"
    BY <1>1, <1>4, <2>1 DEF OutcomeTypes
  <2> QED BY <1>2, <1>3, <2>2, <2>3, <2>4, OutcomeStep
<1>7. CASE Resume(m)
  <2>1. runs[m] = "requires_action" /\ runs' = [runs EXCEPT ![m] = "running"] /\ late' = late
    BY <1>7 DEF Resume
  <2>2. OutcomeTypes' BY <1>1, <1>2, <2>1 DEF OutcomeTypes, activeRunStatuses
  <2>3. \A k \in 1 .. MaxMessages : runs'[k] = "none" <=> runs[k] = "none"
    BY <1>1, <2>1 DEF OutcomeTypes
  <2> QED BY <1>2, <1>3, <1>4, <2>1, <2>2, <2>3, OutcomeStep
<1> QED BY <1>5, <1>6, <1>7

\* What ends a run keeps the invariant.
LEMMA EndStep ==
    ASSUME SessionInv, NEW m \in DOMAIN messages, Complete(m) \/ Stop(m)
    PROVE  SessionInv'
<1>1. /\ OutcomeTypes /\ m \in 1 .. MaxMessages
      /\ session \in SessionRows /\ session.version \in Nat
  BY SessionRowsOK DEF SessionInv, MessageTree, SessionTypeOK, OutcomeTypes, SessionRows
<1>2. UNCHANGED <<expected, told, requests, switches>> BY DEF Complete, Stop
<1>3. \A k \in 1 .. MaxMessages : late[k] # {} => k \in told /\ runs[k] # "none"
  BY DEF SessionInv, RunsOK
<1>4. runs[m] # "none" BY <1>1, <1>3 DEF Complete, Stop
<1>5. messages[m].role = "assistant" BY <1>1, <1>4 DEF SessionInv, RunsOK
<1>6. ASSUME NEW to \in continuableAssistantStatuses, runs' = [runs EXCEPT ![m] = to]
      PROVE  \A k \in 1 .. MaxMessages : runs'[k] = "none" <=> runs[k] = "none"
  BY <1>1, <1>4, <1>6 DEF OutcomeTypes, continuableAssistantStatuses
<1>7. CASE Complete(m)
  <2>1. late' = [late EXCEPT ![m] = late[m] \ {"completed"}] BY <1>7 DEF Complete
  <2>2. /\ late' \in [1 .. MaxMessages -> SUBSET {"action", "completed"}]
        /\ \A k \in 1 .. MaxMessages : late'[k] # {} => late[k] # {}
    BY <1>1, <2>1 DEF OutcomeTypes
  <2>3. CASE session.version = expected[m]
    <3>1. /\ messages' = [messages EXCEPT ![m].status = "completed"]
          /\ runs' = [runs EXCEPT ![m] = "completed"]
          /\ session' = [session EXCEPT !.version = session.version + 1]
      BY <1>7, <2>3 DEF Complete
    <3>2. session' \in SessionRows /\ session'.version = session.version + 1
      BY <1>1, <3>1 DEF SessionRows
    <3>3. OutcomeTypes'
      BY <1>1, <1>2, <2>2, <3>1 DEF OutcomeTypes, continuableAssistantStatuses
    <3>4. "completed" \in continuableAssistantStatuses BY DEF continuableAssistantStatuses
    <3>5. \A k \in 1 .. MaxMessages : runs'[k] = "none" <=> runs[k] = "none" BY <1>6, <3>1, <3>4
    <3> QED BY <1>2, <1>5, <2>2, <3>1, <3>2, <3>3, <3>4, <3>5, StatusStep
  <2>4. CASE session.version # expected[m]
    <3>1. UNCHANGED <<messages, runs, session>> BY <1>7, <2>4 DEF Complete
    <3>2. OutcomeTypes' BY <1>1, <1>2, <2>2, <3>1 DEF OutcomeTypes
    <3>3. \A k \in told' : /\ runs[k] # "none"
                           /\ k \notin told /\ expected[k] = session.version => OnShownPath(k)
      BY <1>2 DEF SessionInv, RunsOK
    <3>4. \A k \in 1 .. MaxMessages : late'[k] # {} => k \in told' BY <1>2, <1>3, <2>2
    <3> QED BY <1>2, <3>1, <3>2, <3>3, <3>4, OutcomeStep
  <2> QED BY <2>3, <2>4
<1>8. CASE Stop(m)
  <2>1. /\ messages' = [messages EXCEPT ![m].status = "stopped"]
        /\ runs' = [runs EXCEPT ![m] = "stopped"] /\ UNCHANGED <<session, late>>
    BY <1>8 DEF Stop
  <2>2. OutcomeTypes' BY <1>1, <1>2, <2>1 DEF OutcomeTypes, continuableAssistantStatuses
  <2>3. "stopped" \in continuableAssistantStatuses BY DEF continuableAssistantStatuses
  <2>4. \A k \in 1 .. MaxMessages : runs'[k] = "none" <=> runs[k] = "none" BY <1>6, <2>1, <2>3
  <2>5. session' \in SessionRows /\ session'.version = session.version BY <1>1, <2>1
  <2> QED BY <1>2, <1>5, <2>1, <2>2, <2>3, <2>4, <2>5, StatusStep
<1> QED BY <1>7, <1>8
-----------------------------------------------------------------------------
(* The transactions of requests.                                           *)

\* A transaction moves the history on: of the runs only one that it creates can complete, and
\* that run's reply is the end of its branch.
LEMMA MovedFrame ==
    ASSUME SessionInv, Grown, Tree(messages'), NEW q \in Requests, Answer(q),
           session' \in SessionRows, session'.version = session.version + 1,
           UNCHANGED <<late, told>>, OutcomeTypes', expected' \in [1 .. MaxMessages -> Nat],
           \A m \in 1 .. MaxMessages :
              runs'[m] # runs[m] => /\ runs'[m] # "none" /\ m \in DOMAIN messages'
                                    /\ messages'[m].role = "assistant",
           \A m \in 1 .. MaxMessages :
              expected'[m] # expected[m] => /\ m \notin DOMAIN messages
                                            /\ expected'[m] <= session'.version
                                            /\ NextOnPath(messages', m) = None,
           switches' \in Nat, UnfinishedIsLeaf', SelectionsValid', MessagesOK'
    PROVE  SessionInv'
<1>1. session.version \in Nat /\ requests \in [Requests -> RequestStates]
      /\ expected \in [1 .. MaxMessages -> Nat]
  BY DEF SessionInv, MessageTree, SessionTypeOK, SessionRows
<1>2. PICK r : r = [IdleRequest EXCEPT !.pc = "respond"] OBVIOUS
<1>3. r \in RequestStates /\ requests' = [requests EXCEPT ![q] = r] BY <1>2, IdlePlanOK DEF Answer
<1>4. requests' \in [Requests -> RequestStates] BY <1>1, <1>3
<1>5. \A p \in Requests : requests'[p] = requests[p] \/ requests'[p] = r BY <1>1, <1>3
<1>6. \A p \in Requests : PlanOK(requests[p])' BY <1>2, <1>5, PlansKept
<1>7. messages' \in Seq(MessageRows) /\ Len(messages') <= MaxMessages BY DEF Tree
<1>8. MessageTree' BY <1>4, <1>7 DEF MessageTree, SessionTypeOK, OutcomeTypes
<1>9. /\ \A m \in DOMAIN messages' : m \in 1 .. MaxMessages
      /\ \A m \in DOMAIN messages :
            m \in DOMAIN messages' /\ messages'[m].role = messages[m].role
  <2>1. Len(messages') \in Nat /\ DOMAIN messages' = 1 .. Len(messages') BY TreeRows
  <2> QED BY <1>7, <2>1, ChatSessionAssumption DEF Grown
<1>10. ASSUME NEW m \in 1 .. MaxMessages PROVE expected[m] <= session.version /\ expected[m] \in Nat
  BY <1>1 DEF SessionInv, RunsOK
<1>11. told \in SUBSET (1 .. MaxMessages) /\ \A m \in told : m \in DOMAIN messages
  BY DEF SessionInv, MessageTree, SessionTypeOK, RunsOK
<1>12. RunsOK'
  <2>1. ASSUME NEW m \in 1 .. MaxMessages PROVE expected'[m] <= session'.version
    BY <1>1, <1>10
  <2>2. ASSUME NEW m \in 1 .. MaxMessages, runs'[m] # "none"
        PROVE  m \in DOMAIN messages' /\ messages'[m].role = "assistant"
    BY <1>9, <2>2 DEF SessionInv, RunsOK
  <2>3. ASSUME NEW m \in told' PROVE runs'[m] # "none"
    BY <1>11, <2>3 DEF SessionInv, RunsOK
  <2>4. \A m \in 1 .. MaxMessages : late'[m] # {} => m \in told' BY DEF SessionInv, RunsOK
  <2> QED BY <2>1, <2>2, <2>3, <2>4 DEF RunsOK
<1>13. ToldWhereSelected'
  <2>1. SUFFICES ASSUME NEW m \in DOMAIN messages', expected'[m] = session'.version
                 PROVE  NextOnPath(messages', m) = None /\ m \notin told
    BY DEF ToldWhereSelected
  <2>2. m \in 1 .. MaxMessages BY <1>9
  <2>3. expected'[m] # expected[m] BY <1>1, <1>10, <2>1, <2>2
  <2> QED BY <1>11, <2>2, <2>3
<1> QED BY <1>6, <1>8, <1>12, <1>13 DEF SessionInv

\* A transaction that creates no run.
LEMMA MoveFrame ==
    ASSUME SessionInv, Grown, Tree(messages'), NEW q \in Requests, Answer(q),
           session' \in SessionRows, session'.version = session.version + 1,
           UNCHANGED <<runs, expected, late, told>>,
           switches' \in Nat, UnfinishedIsLeaf', SelectionsValid', MessagesOK'
    PROVE  SessionInv'
<1>1. OutcomeTypes' /\ expected' \in [1 .. MaxMessages -> Nat]
  BY DEF OutcomeTypes, SessionInv, MessageTree, SessionTypeOK
<1> QED BY <1>1, MovedFrame

\* A transaction that creates a run with its reply a.
LEMMA WriteFrame ==
    ASSUME SessionInv, Grown, Tree(messages'), NEW q \in Requests, Answer(q),
           session' \in SessionRows, session'.version = session.version + 1,
           NEW a \in 1 .. MaxMessages, NEW v \in Nat, v <= session'.version, NewRun(a, v),
           UNCHANGED <<late, told>>, a \notin DOMAIN messages, a \in DOMAIN messages',
           messages'[a].role = "assistant", Children(messages', a, "user") = {},
           switches' \in Nat, UnfinishedIsLeaf', SelectionsValid', MessagesOK'
    PROVE  SessionInv'
<1>1. OutcomeTypes /\ expected \in [1 .. MaxMessages -> Nat]
  BY DEF OutcomeTypes, SessionInv, MessageTree, SessionTypeOK
<1>2. OutcomeTypes' /\ expected' \in [1 .. MaxMessages -> Nat]
  BY <1>1 DEF NewRun, OutcomeTypes, activeRunStatuses
<1>3. /\ \A m \in 1 .. MaxMessages : runs'[m] # runs[m] => m = a /\ runs'[m] = "running"
      /\ \A m \in 1 .. MaxMessages : expected'[m] # expected[m] => m = a /\ expected'[m] = v
  BY <1>1 DEF NewRun, OutcomeTypes
<1>4. NextOnPath(messages', a) = None
  <2>1. PICK ns : ns = messages' OBVIOUS
  <2>2. Children(ns, a, ReplyRole(ns[a].role)) = {} BY <2>1 DEF ReplyRole
  <2>3. Tree(ns) /\ a \in DOMAIN ns BY <2>1
  <2>4. NextOnPath(ns, a) = None BY <2>2, <2>3, NextIsChild
  <2> QED BY <2>1, <2>4
<1>5. \A m \in 1 .. MaxMessages :
         runs'[m] # runs[m] => /\ runs'[m] # "none" /\ m \in DOMAIN messages'
                               /\ messages'[m].role = "assistant"
  BY <1>3
<1>6. \A m \in 1 .. MaxMessages :
         expected'[m] # expected[m] => /\ m \notin DOMAIN messages
                                       /\ expected'[m] <= session'.version
                                       /\ NextOnPath(messages', m) = None
  BY <1>3, <1>4
<1> QED BY <1>2, <1>5, <1>6, MovedFrame

\* A request that finds a conflict, or an active run, ends without an effect.
LEMMA DoneStep ==
    ASSUME SessionInv, NEW q \in Requests, Done(q),
           UNCHANGED <<messages, session, runs, expected, late, told, switches>>
    PROVE  SessionInv'
<1>1. PICK n : n = IdleRequest OBVIOUS
<1>2. n \in RequestStates /\ PlanOK(n) BY <1>1, IdlePlanOK
<1>3. requests' = [requests EXCEPT ![q] = n] BY <1>1 DEF Done
<1>4. session' \in SessionRows /\ session'.version = session.version
  BY DEF SessionInv, MessageTree, SessionTypeOK
<1> QED BY <1>2, <1>3, <1>4, RequestStep

\* ns has the rows of ms, but for what p selects.
Placed(ns, ms, p, child) ==
    /\ DOMAIN ms \subseteq DOMAIN ns /\ Len(ms) <= Len(ns)
    /\ \A m \in DOMAIN ms :
          /\ ns[m].role = ms[m].role /\ ns[m].status = ms[m].status
          /\ ns[m].parent = ms[m].parent /\ ns[m].order = ms[m].order
          /\ ns[m].selected = IF m = p THEN child ELSE ms[m].selected

\* What the invariant says of one message.
RowOK(ms, m) ==
    /\ ms[m].parent < m
    /\ ms[m].role = IF ms[m].parent = None THEN "user" ELSE ReplyRole(ms[ms[m].parent].role)
    /\ ms[m].role = "user" => ms[m].status = "completed" /\ ms[m].order <= m /\ m < Len(ms)
    /\ ms[m].role = "assistant" => ms[m].order < m
    /\ ms[m].parent # None => ms[ms[m].parent].status # "running"
    /\ LET children == Children(ms, m, ReplyRole(ms[m].role))
       IN  IF children = {} THEN ms[m].selected = None ELSE ms[m].selected \in children

\* What the invariant says of all messages, after a step.
LEMMA RowsMakeTree ==
    ASSUME NEW ns, ns = messages', \A m \in DOMAIN ns : RowOK(ns, m)
    PROVE  UnfinishedIsLeaf' /\ SelectionsValid' /\ MessagesOK'
<1>1. UnfinishedIsLeaf' BY DEF RowOK, UnfinishedIsLeaf
<1>2. SelectionsValid' BY DEF RowOK, SelectionsValid
<1>3. MessagesOK' BY DEF RowOK, MessagesOK
<1> QED BY <1>1, <1>2, <1>3

\* No status changes.
StatusesKept == \A m \in DOMAIN messages : messages'[m].status = messages[m].status

\* What holds of a message that was there before.
LEMMA OldRows ==
    ASSUME SessionInv, NEW ns, Tree(ns), NEW p, NEW child,
           Placed(ns, messages, p, child),
           p \in DOMAIN messages =>
              /\ child \in DOMAIN ns /\ ns[child].parent = p
              /\ ns[child].role = ReplyRole(messages[p].role),
           \A c \in DOMAIN ns : c \notin DOMAIN messages =>
              ns[c].parent = p \/ ns[c].parent \notin DOMAIN messages
    PROVE  \A m \in DOMAIN messages : RowOK(ns, m)
<1>1. Tree(messages) BY SessionRowsOK
<1>2. SUFFICES ASSUME NEW m \in DOMAIN messages PROVE RowOK(ns, m) OBVIOUS
<1>3. /\ ns[m].role = messages[m].role /\ ns[m].status = messages[m].status
      /\ ns[m].parent = messages[m].parent /\ ns[m].order = messages[m].order
      /\ ns[m].selected = IF m = p THEN child ELSE messages[m].selected
  BY DEF Placed
<1>4. messages[m].parent # None =>
         /\ messages[m].parent \in DOMAIN messages
         /\ ns[messages[m].parent].role = messages[messages[m].parent].role
         /\ ns[messages[m].parent].status = messages[messages[m].parent].status
  BY <1>1, TreeRows DEF Placed
<1>5. /\ messages[m].parent < m
      /\ messages[m].role = IF messages[m].parent = None THEN "user"
                            ELSE ReplyRole(messages[messages[m].parent].role)
      /\ messages[m].role = "user" =>
            messages[m].status = "completed" /\ messages[m].order <= m /\ m < Len(messages)
      /\ messages[m].role = "assistant" => messages[m].order < m
  BY DEF SessionInv, MessagesOK
<1>6. Len(messages) \in Nat /\ Len(ns) \in Nat /\ m \in Nat /\ Len(messages) <= Len(ns)
  BY <1>1, TreeRows DEF Placed
<1>7. m < Len(messages) => m < Len(ns) BY <1>6
<1>8. messages[m].parent # None => messages[messages[m].parent].status # "running"
  BY DEF SessionInv, MessageTree, UnfinishedIsLeaf
<1> DEFINE old == Children(messages, m, ReplyRole(messages[m].role))
           new == Children(ns, m, ReplyRole(ns[m].role))
<1>9. IF old = {} THEN messages[m].selected = None ELSE messages[m].selected \in old
  BY DEF SessionInv, MessageTree, SelectionsValid
<1>10. CASE m = p
  <2>1. child \in new BY <1>3, <1>10 DEF Children
  <2> HIDE DEF new
  <2>2. IF new = {} THEN ns[m].selected = None ELSE ns[m].selected \in new BY <1>3, <1>10, <2>1
  <2> QED BY <1>3, <1>4, <1>5, <1>7, <1>8, <2>2 DEF new, RowOK
<1>11. CASE m # p
  <2>1. new = old
    <3>1. \A c \in DOMAIN ns : ns[c].parent = m => c \in DOMAIN messages BY <1>11
    <3>2. \A c \in DOMAIN messages : /\ c \in DOMAIN ns /\ ns[c].parent = messages[c].parent
                                     /\ ns[c].role = messages[c].role BY DEF Placed
    <3> QED BY <1>3, <3>1, <3>2 DEF Children
  <2>2. IF new = {} THEN ns[m].selected = None ELSE ns[m].selected \in new
    <3> HIDE DEF new, old
    <3> QED BY <1>3, <1>9, <1>11, <2>1
  <2> HIDE DEF old, new
  <2> QED BY <1>3, <1>4, <1>5, <1>7, <1>8, <2>2 DEF new, RowOK
<1> QED BY <1>10, <1>11
\* Adding a row at the end of a tree.
LEMMA AppendTree ==
    ASSUME NEW ms, Tree(ms), NEW row \in MessageRows,
           Len(ms) + 1 <= MaxMessages, row.parent < Len(ms) + 1
    PROVE  LET ns == Append(ms, row)
           IN  /\ Tree(ns) /\ Len(ns) = Len(ms) + 1 /\ DOMAIN ns = 1 .. Len(ms) + 1
               /\ \A m \in DOMAIN ms : ns[m] = ms[m]
               /\ ns[Len(ms) + 1] = row
<1> DEFINE ns == Append(ms, row)
<1>1. ms \in Seq(MessageRows) /\ Len(ms) \in Nat /\ DOMAIN ms = 1 .. Len(ms) BY TreeRows DEF Tree
<1>2. /\ ns \in Seq(MessageRows) /\ Len(ns) = Len(ms) + 1 /\ DOMAIN ns = 1 .. Len(ms) + 1
      /\ \A m \in DOMAIN ms : ns[m] = ms[m]
      /\ ns[Len(ms) + 1] = row
  BY <1>1
<1> HIDE DEF ns
<1>3. \A m \in DOMAIN ns : ns[m].parent < m
  <2>1. \A m \in DOMAIN ns : m \in DOMAIN ms \/ m = Len(ms) + 1 BY <1>1, <1>2
  <2> QED BY <1>2, <2>1 DEF Tree
<1>4. Tree(ns) BY <1>2, <1>3 DEF Tree
<1> QED BY <1>2, <1>4 DEF ns

\* WriteRetry keeps the invariant, and changes no status.
LEMMA WriteRetryStep ==
    ASSUME SessionInv, NEW q \in Requests, WriteRetry(q)
    PROVE  SessionInv' /\ StatusesKept
<1>1. PICK r, ms, ns : r = requests[q] /\ ms = messages /\ ns = messages' OBVIOUS
<1> DEFINE a == Len(ms) + 1
           row == NewMessage("assistant", "running", r.parent, r.order)
           created == Append(ms, row)
<1>2. /\ r \in RequestStates /\ PlanOK(r) /\ r.pc = "write" /\ r.op = "retry"
      /\ Tree(ms) /\ a <= MaxMessages
  BY <1>1, SessionRowsOK DEF WriteRetry, SessionInv, MessageTree, SessionTypeOK
<1>3. CASE NoIndexConflict(r.parent, "assistant", r.order)
  <2>1. /\ ns = Select(created, r.parent, a)
        /\ session' = [root |-> r.root, leaf |-> a, version |-> session.version + 1]
        /\ NewRun(a, r.version + 1)
        /\ Answer(q) /\ UNCHANGED <<late, told, switches>>
    BY <1>1, <1>3 DEF WriteRetry
  <2>2. /\ r.parent \in DOMAIN ms /\ ms[r.parent].role = "user" /\ r.order # 0
        /\ r.order = 1 \/ r.order <= Len(ms)
        /\ r.version <= session.version
    BY <1>1, <1>2 DEF PlanOK
  <2>3. /\ Len(ms) \in Nat /\ DOMAIN ms = 1 .. Len(ms) /\ None \notin DOMAIN ms
        /\ \A m \in DOMAIN ms : ms[m].parent # None => ms[m].parent \in DOMAIN ms
    BY <1>2, TreeRows
  <2>4. r.order \in 1 .. MaxMessages /\ r.parent \in Ids /\ r.version \in Nat /\ r.root \in Ids
        /\ a \in Ids /\ 0 \in Ids
    BY <1>2, <2>2, <2>3, ChatSessionAssumption DEF RequestStates, Ids
  <2>5. /\ row \in MessageRows /\ row.role = "assistant" /\ row.status = "running"
        /\ row.parent = r.parent /\ row.selected = None /\ row.order = r.order
    BY <2>4 DEF NewMessage, MessageRows, None
  <2> HIDE DEF row
  <2>6. /\ Tree(created) /\ Len(created) = a /\ DOMAIN created = 1 .. a
        /\ \A m \in DOMAIN ms : created[m] = ms[m]
        /\ created[a] = row
    <3>1. row.parent < a BY <2>2, <2>3, <2>5
    <3> QED BY <1>2, <2>5, <3>1, AppendTree
  <2> HIDE DEF created
  <2>7. /\ Tree(ns) /\ DOMAIN ns = 1 .. a /\ Len(ns) = a
        /\ \A m \in 1 .. a :
              /\ ns[m].role = created[m].role /\ ns[m].status = created[m].status
              /\ ns[m].parent = created[m].parent /\ ns[m].order = created[m].order
              /\ ns[m].selected = IF m = r.parent THEN a ELSE created[m].selected
    <3>1. r.parent \in {None} \cup DOMAIN created BY <2>2, <2>3, <2>6
    <3> HIDE DEF a
    <3>2. Reselected(ns, created, r.parent, a) BY <2>1, <2>4, <2>6, <3>1, SelectTree
    <3> QED BY <2>6, <3>2 DEF Reselected
  <2>8. a \in 1 .. a /\ a \notin DOMAIN ms /\ (\A m \in DOMAIN ms : m \in 1 .. a)
        /\ (\A m \in 1 .. a : m \in DOMAIN ms \/ m = a) BY <2>3
  <2>9. Placed(ns, messages, r.parent, a)
    <3>1. Len(ms) <= Len(ns) BY <2>3, <2>7
    <3> QED BY <1>1, <2>6, <2>7, <2>8, <3>1 DEF Placed
  <2>10. /\ ns[a].role = "assistant" /\ ns[a].parent = r.parent /\ ns[a].order = r.order
         /\ ns[a].selected = None
    BY <2>2, <2>5, <2>6, <2>7, <2>8
  <2>11. \A m \in DOMAIN messages : RowOK(ns, m)
    <3>1. ns[a].role = ReplyRole(messages[r.parent].role) BY <1>1, <2>2, <2>10 DEF ReplyRole
    <3>2. \A c \in DOMAIN ns : c \notin DOMAIN messages => ns[c].parent = r.parent
      BY <1>1, <2>7, <2>8, <2>10
    <3> QED BY <2>7, <2>8, <2>9, <2>10, <3>1, <3>2, OldRows
  <2>23. Children(ns, a, "user") = {}
    <3>1. \A m \in 1 .. a : ns[m].parent < m BY <2>7 DEF Tree
    <3>2. \A m \in 1 .. a : ns[m].parent # a
      <4>1. \A m \in 1 .. a : m <= a /\ ns[m].parent \in Nat BY <2>3, <2>7, TreeRows
      <4> QED BY <2>3, <3>1, <4>1
    <3> QED BY <2>7, <3>2 DEF Children
  <2>12. RowOK(ns, a)
    <3>1. ns[r.parent].role = "user" /\ ns[r.parent].status # "running"
      <4>1. ms[r.parent].status # "running" BY <1>1, <2>2, SessionRowsOK DEF Over
      <4> QED BY <1>1, <2>2, <2>9, <4>1 DEF Placed
    <3>2. r.parent # None /\ r.parent < a BY <2>2, <2>3
    <3>3. r.order < a
      <4>1. Len(ms) # 0 BY <2>2, <2>3
      <4> QED BY <2>2, <2>3, <2>4, <4>1
    <3>4. Children(ns, a, ReplyRole(ns[a].role)) = {} BY <2>10, <2>23 DEF ReplyRole
    <3> QED BY <2>10, <3>1, <3>2, <3>3, <3>4 DEF RowOK, ReplyRole
  <2>13. UnfinishedIsLeaf' /\ SelectionsValid' /\ MessagesOK'
    <3>1. \A m \in DOMAIN ns : RowOK(ns, m) BY <1>1, <2>7, <2>8, <2>11, <2>12
    <3> QED BY <1>1, <3>1, RowsMakeTree
  <2>14. session.version \in Nat /\ session' \in SessionRows
         /\ session'.version = session.version + 1
    BY <2>1, <2>4 DEF SessionInv, MessageTree, SessionTypeOK, SessionRows
  <2>15. Grown BY <1>1, <2>9, <2>14 DEF Grown, Placed, Over
  <2>16. switches \in Nat /\ a \in 1 .. MaxMessages
    BY <1>2, <2>3, ChatSessionAssumption DEF SessionInv, MessageTree, SessionTypeOK
  <2>17. r.version + 1 \in Nat /\ r.version + 1 <= session'.version BY <2>2, <2>4, <2>14
  <2>18. /\ a \notin DOMAIN messages /\ a \in DOMAIN messages'
         /\ messages'[a].role = "assistant" /\ Children(messages', a, "user") = {}
    BY <1>1, <2>7, <2>8, <2>10, <2>23
  <2>20. Tree(messages') BY <1>1, <2>7
  <2>19. PICK v : v = r.version + 1 OBVIOUS
  <2>24. NewRun(a, v) BY <2>1, <2>19
  <2> HIDE DEF a
  <2>21. SessionInv'
    BY <2>1, <2>13, <2>14, <2>15, <2>16, <2>17, <2>18, <2>19, <2>20, <2>24, WriteFrame
  <2>22. StatusesKept BY <1>1, <2>9 DEF Placed, StatusesKept
  <2> QED BY <2>21, <2>22
<1>4. CASE ~NoIndexConflict(r.parent, "assistant", r.order)
  <2>1. Done(q) /\ UNCHANGED <<messages, session, runs, expected, late, told, switches>>
    BY <1>1, <1>4 DEF WriteRetry
  <2> QED BY <2>1, DoneStep DEF StatusesKept
<1> QED BY <1>3, <1>4
\* Two rows are added one after the other.
LEMMA ConcatIsAppends ==
    ASSUME NEW S, NEW s \in Seq(S), NEW x \in S, NEW y \in S
    PROVE  s \o <<x, y>> = Append(Append(s, x), y)
<1> DEFINE l == s \o <<x, y>>
           r == Append(Append(s, x), y)
<1>1. Len(s) \in Nat /\ l \in Seq(S) /\ r \in Seq(S) /\ Len(l) = Len(s) + 2 /\ Len(r) = Len(s) + 2
  OBVIOUS
<1>2. ASSUME NEW i \in 1 .. Len(s) + 2 PROVE l[i] = r[i]
  <2>1. CASE i \in 1 .. Len(s) BY <2>1
  <2>2. CASE i = Len(s) + 1 BY <1>1, <2>2
  <2>3. CASE i = Len(s) + 2 BY <1>1, <2>3
  <2> QED BY <1>1, <2>1, <2>2, <2>3
<1> HIDE DEF l, r
<1>3. l = r BY <1>1, <1>2
<1> QED BY <1>3 DEF l, r

\* WriteUserMessage keeps the invariant, and changes no status.
LEMMA WriteUserMessageStep ==
    ASSUME SessionInv, NEW q \in Requests, WriteUserMessage(q)
    PROVE  SessionInv' /\ StatusesKept
<1>1. PICK r, ms, ns : r = requests[q] /\ ms = messages /\ ns = messages' OBVIOUS
<1> DEFINE n == Len(ms)
           u == Len(ms) + 1
           a == u + 1
           p == r.parent
           ask == NewMessage("user", "completed", p, r.order)
           reply == NewMessage("assistant", "running", u, 1)
           asked == Append(ms, ask)
           created == Append(asked, reply)
           linked == Select(created, u, a)
<1>2. /\ r \in RequestStates /\ PlanOK(r) /\ r.pc = "write" /\ r.op \in {"send", "edit"}
      /\ Tree(ms) /\ a <= MaxMessages
  BY <1>1, SessionRowsOK DEF WriteUserMessage, SessionInv, MessageTree, SessionTypeOK
<1>3. CASE NoIndexConflict(p, "user", r.order)
  <2>1. /\ ns = Select(Select(ms \o <<ask, reply>>, u, a), p, u)
        /\ session' = [root |-> IF r.root = None THEN u ELSE r.root,
                       leaf |-> a, version |-> session.version + 1]
        /\ NewRun(a, r.version + 1)
        /\ Answer(q) /\ UNCHANGED <<late, told, switches>>
    BY <1>1, <1>3 DEF WriteUserMessage
  <2>2. /\ p # None => p \in DOMAIN ms /\ ms[p].role = "assistant"
                       /\ ms[p].status # "running"
        /\ r.order # 0 /\ (r.order = 1 \/ r.order <= n)
        /\ r.version <= session.version
    BY <1>1, <1>2 DEF PlanOK, Over
  <2>3. /\ n \in Nat /\ DOMAIN ms = 1 .. n /\ None \notin DOMAIN ms /\ ms \in Seq(MessageRows)
        /\ \A m \in DOMAIN ms : ms[m].parent # None => ms[m].parent \in DOMAIN ms
    BY <1>2, TreeRows DEF Tree
  <2>4. /\ r.order \in 1 .. MaxMessages /\ p \in Ids /\ r.version \in Nat /\ r.root \in Ids
        /\ u \in Ids /\ a \in Ids /\ 0 \in Ids /\ 1 \in 1 .. MaxMessages
    BY <1>2, <2>2, <2>3, ChatSessionAssumption DEF RequestStates, Ids
  <2>5. /\ ask \in MessageRows /\ ask.role = "user" /\ ask.status = "completed"
        /\ ask.parent = p /\ ask.selected = None /\ ask.order = r.order
    BY <2>4 DEF NewMessage, MessageRows, continuableAssistantStatuses, None
  <2>6. /\ reply \in MessageRows /\ reply.role = "assistant" /\ reply.status = "running"
        /\ reply.parent = u /\ reply.selected = None /\ reply.order = 1
    <3> HIDE DEF u
    <3> QED BY <2>4 DEF NewMessage, MessageRows, None
  <2> HIDE DEF ask, reply
  <2>7. ms \o <<ask, reply>> = created BY <2>3, <2>5, <2>6, ConcatIsAppends
  <2>8. /\ Tree(asked) /\ Len(asked) = u /\ DOMAIN asked = 1 .. u
        /\ \A m \in DOMAIN ms : asked[m] = ms[m]
        /\ asked[u] = ask
    <3>1. ask.parent < u BY <2>2, <2>3, <2>5 DEF None
    <3>2. Len(ms) + 1 <= MaxMessages BY <1>2, <2>3, ChatSessionAssumption
    <3> QED BY <1>2, <2>5, <3>1, <3>2, AppendTree
  <2> HIDE DEF asked
  <2>9. /\ Tree(created) /\ Len(created) = a /\ DOMAIN created = 1 .. a
        /\ \A m \in DOMAIN asked : created[m] = asked[m]
        /\ created[a] = reply
    <3>1. reply.parent < Len(asked) + 1 BY <2>3, <2>6, <2>8
    <3>2. Len(asked) + 1 <= MaxMessages /\ Len(asked) + 1 = a BY <1>2, <2>8
    <3> HIDE DEF a, u
    <3> QED BY <2>6, <2>8, <3>1, <3>2, AppendTree
  <2> HIDE DEF created
  <2>10. Reselected(linked, created, u, a)
    <3>1. u \in {None} \cup DOMAIN created BY <2>3, <2>9
    <3> HIDE DEF a, u
    <3> QED BY <2>4, <2>9, <3>1, SelectTree
  <2> HIDE DEF linked
  <2>11. Reselected(ns, linked, p, u)
    <3>1. ns = Select(linked, p, u) BY <2>1, <2>7 DEF linked
    <3>2. p \in {None} \cup DOMAIN linked /\ Tree(linked)
      <4>1. DOMAIN linked = 1 .. a /\ Tree(linked) BY <2>9, <2>10 DEF Reselected
      <4>2. p # None => p \in 1 .. a BY <2>2, <2>3
      <4> QED BY <4>1, <4>2
    <3> HIDE DEF a, u, p
    <3> QED BY <2>4, <3>1, <3>2, SelectTree
  <2>12. Tree(ns) /\ DOMAIN ns = 1 .. a /\ Len(ns) = a BY <2>9, <2>10, <2>11 DEF Reselected
  <2>13. /\ u \in 1 .. a /\ a \in 1 .. a /\ u # a /\ u \notin DOMAIN ms /\ a \notin DOMAIN ms
         /\ (\A m \in DOMAIN ms : m \in 1 .. u /\ m \in 1 .. a /\ m # u)
         /\ (\A m \in 1 .. a : m \in DOMAIN ms \/ m = u \/ m = a)
         /\ u \in 1 .. u /\ n <= a /\ u \in Nat /\ a \in Nat /\ u < a /\ u # None /\ a # None
    BY <2>3 DEF None
  <2>14. p # u /\ p # a BY <2>2, <2>13
  <2> HIDE DEF a, u, p
  <2>15. /\ ns[u].role = "user" /\ ns[u].status = "completed" /\ ns[u].parent = p
         /\ ns[u].order = r.order /\ ns[u].selected = a
    BY <2>5, <2>8, <2>9, <2>10, <2>11, <2>13, <2>14 DEF Reselected
  <2>16. /\ ns[a].role = "assistant" /\ ns[a].parent = u
         /\ ns[a].order = 1 /\ ns[a].selected = None
    BY <2>6, <2>9, <2>10, <2>11, <2>13, <2>14 DEF Reselected
  <2>17. Placed(ns, messages, p, u)
    <3>1. ASSUME NEW m \in DOMAIN ms
          PROVE  /\ ns[m].role = ms[m].role /\ ns[m].status = ms[m].status
                 /\ ns[m].parent = ms[m].parent /\ ns[m].order = ms[m].order
                 /\ ns[m].selected = IF m = p THEN u ELSE ms[m].selected
      <4>1. created[m] = ms[m] BY <2>8, <2>9, <2>13
      <4> QED BY <2>9, <2>10, <2>11, <2>13, <4>1 DEF Reselected
    <3> QED BY <1>1, <2>12, <2>13, <3>1 DEF Placed
  <2>18. \A m \in DOMAIN messages : RowOK(ns, m)
    <3>1. p \in DOMAIN messages => ns[u].role = ReplyRole(messages[p].role)
      BY <1>1, <2>2, <2>3, <2>15 DEF ReplyRole
    <3>2. \A c \in DOMAIN ns : c \notin DOMAIN messages =>
             ns[c].parent = p \/ ns[c].parent \notin DOMAIN messages
      BY <1>1, <2>12, <2>13, <2>15, <2>16
    <3> QED BY <2>12, <2>13, <2>15, <2>17, <3>1, <3>2, OldRows
  <2>19. \A m \in 1 .. a : ns[m].parent < m /\ ns[m].parent \in Nat /\ m <= a
    BY <2>12, <2>13, TreeRows
  <2>20. RowOK(ns, u)
    <3>1. p # None => ns[p].role = "assistant" /\ ns[p].status # "running"
      BY <1>1, <2>2, <2>17 DEF Placed
    <3>2. r.order <= u BY <2>2, <2>3, <2>4 DEF u
    <3>3. a \in Children(ns, u, ReplyRole(ns[u].role))
      BY <2>12, <2>13, <2>15, <2>16 DEF Children, ReplyRole
    <3>4. ns[u].parent < u /\ u < Len(ns) BY <2>12, <2>13, <2>19
    <3>5. ns[u].role = IF ns[u].parent = None THEN "user" ELSE ReplyRole(ns[ns[u].parent].role)
      BY <2>15, <3>1 DEF ReplyRole
    <3> QED BY <2>15, <3>1, <3>2, <3>3, <3>4, <3>5 DEF RowOK
  <2>32. Children(ns, a, "user") = {}
    <3>1. \A m \in 1 .. a : ns[m].parent # a BY <2>13, <2>19
    <3> QED BY <2>12, <3>1 DEF Children
  <2>21. RowOK(ns, a)
    <3>1. Children(ns, a, ReplyRole(ns[a].role)) = {} BY <2>16, <2>32 DEF ReplyRole
    <3>2. 1 < a /\ ns[a].parent < a BY <2>3, <2>13, <2>16 DEF a, u
    <3>3. ns[u].status # "running" BY <2>15
    <3> QED BY <2>13, <2>15, <2>16, <3>1, <3>2, <3>3 DEF RowOK, ReplyRole
  <2>22. UnfinishedIsLeaf' /\ SelectionsValid' /\ MessagesOK'
    <3>1. \A m \in DOMAIN ns : RowOK(ns, m) BY <1>1, <2>12, <2>13, <2>18, <2>20, <2>21
    <3> QED BY <1>1, <3>1, RowsMakeTree
  <2>23. session.version \in Nat /\ session' \in SessionRows
         /\ session'.version = session.version + 1
    BY <2>1, <2>4 DEF SessionInv, MessageTree, SessionTypeOK, SessionRows
  <2>24. Grown BY <1>1, <2>17, <2>23 DEF Grown, Placed, Over
  <2>25. switches \in Nat /\ a \in 1 .. MaxMessages
    BY <1>2, <2>13, ChatSessionAssumption DEF SessionInv, MessageTree, SessionTypeOK
  <2>26. r.version + 1 \in Nat /\ r.version + 1 <= session'.version BY <2>2, <2>4, <2>23
  <2>27. /\ a \notin DOMAIN messages /\ a \in DOMAIN messages'
         /\ messages'[a].role = "assistant" /\ Children(messages', a, "user") = {}
    BY <1>1, <2>12, <2>13, <2>16, <2>32
  <2>28. PICK v : v = r.version + 1 OBVIOUS
  <2>29. Tree(messages') BY <1>1, <2>12
  <2>33. NewRun(a, v) BY <2>1, <2>28
  <2>30. SessionInv'
    BY <2>1, <2>22, <2>23, <2>24, <2>25, <2>26, <2>27, <2>28, <2>29, <2>33, WriteFrame
  <2>31. StatusesKept BY <1>1, <2>17 DEF Placed, StatusesKept
  <2> QED BY <2>30, <2>31
<1>4. CASE ~NoIndexConflict(p, "user", r.order)
  <2>1. Done(q) /\ UNCHANGED <<messages, session, runs, expected, late, told, switches>>
    BY <1>1, <1>4 DEF WriteUserMessage
  <2> QED BY <2>1, DoneStep DEF StatusesKept
<1> QED BY <1>3, <1>4

\* WriteSwitch keeps the invariant, and changes no status.
LEMMA WriteSwitchStep ==
    ASSUME SessionInv, NEW q \in Requests, WriteSwitch(q)
    PROVE  SessionInv' /\ StatusesKept
<1>1. PICK r, ms, ns : r = requests[q] /\ ms = messages /\ ns = messages' OBVIOUS
<1>2. /\ r \in RequestStates /\ PlanOK(r) /\ r.pc = "write" /\ r.op = "switch" /\ Tree(ms)
      /\ ns = Select(ms, r.parent, r.child)
      /\ session' = [root |-> r.root, leaf |-> r.leaf, version |-> session.version + 1]
      /\ switches' = switches + 1 /\ Answer(q)
      /\ UNCHANGED <<runs, expected, late, told>>
  BY <1>1, SessionRowsOK DEF WriteSwitch, SessionInv, MessageTree, SessionTypeOK
<1>3. r.child \in DOMAIN ms /\ ms[r.child].parent = r.parent BY <1>1, <1>2 DEF PlanOK
<1>4. r.parent \in {None} \cup DOMAIN ms BY <1>2, <1>3, TreeRows
<1>5. r.child \in Ids /\ r.root \in Ids /\ r.leaf \in Ids BY <1>2 DEF RequestStates
<1>6. Reselected(ns, ms, r.parent, r.child) BY <1>2, <1>4, <1>5, SelectTree
<1>7. Tree(ns) /\ DOMAIN ns = DOMAIN ms /\ Len(ns) = Len(ms) BY <1>6 DEF Reselected
<1>8. Placed(ns, messages, r.parent, r.child)
  <2>1. Len(ms) <= Len(ns) BY <1>2, <1>7, TreeRows
  <2> QED BY <1>1, <1>6, <2>1 DEF Reselected, Placed
<1>9. r.parent \in DOMAIN ms =>
         /\ r.child \in DOMAIN ns /\ ns[r.child].parent = r.parent
         /\ ns[r.child].role = ReplyRole(ms[r.parent].role)
  <2>1. SUFFICES ASSUME r.parent \in DOMAIN ms
                 PROVE  /\ r.child \in DOMAIN ns /\ ns[r.child].parent = r.parent
                        /\ ns[r.child].role = ReplyRole(ms[r.parent].role)
    OBVIOUS
  <2>2. r.parent # None BY <1>2, <2>1, TreeRows
  <2>3. ms[r.child].role = ReplyRole(ms[r.parent].role)
    BY <1>1, <1>3, <2>2 DEF SessionInv, MessagesOK
  <2> QED BY <1>3, <1>6, <1>7, <2>3 DEF Reselected
<1>10. \A m \in DOMAIN messages : RowOK(ns, m)
  <2>1. \A c \in DOMAIN ns : c \in DOMAIN messages BY <1>1, <1>7
  <2> QED BY <1>1, <1>7, <1>8, <1>9, <2>1, OldRows
<1>11. UnfinishedIsLeaf' /\ SelectionsValid' /\ MessagesOK'
  <2>1. \A m \in DOMAIN ns : RowOK(ns, m) BY <1>1, <1>7, <1>10
  <2> QED BY <1>1, <2>1, RowsMakeTree
<1>12. session.version \in Nat /\ session' \in SessionRows
       /\ session'.version = session.version + 1
  BY <1>2, <1>5 DEF SessionInv, MessageTree, SessionTypeOK, SessionRows
<1>13. Grown BY <1>1, <1>8, <1>12 DEF Grown, Placed, Over
<1>14. switches' \in Nat BY <1>2 DEF SessionInv, MessageTree, SessionTypeOK
<1>15. Tree(messages') BY <1>1, <1>7
<1>16. SessionInv' BY <1>2, <1>11, <1>12, <1>13, <1>14, <1>15, MoveFrame
<1>17. StatusesKept BY <1>1, <1>8 DEF Placed, StatusesKept
<1> QED BY <1>16, <1>17

-----------------------------------------------------------------------------
(* The theorems about ChatSession.                                         *)

\* The initial state satisfies the invariant.
LEMMA SessionInitInvariant == SessionInit => SessionInv
<1>1. SUFFICES ASSUME SessionInit PROVE SessionInv OBVIOUS
<1>2. messages = <<>> /\ DOMAIN messages = {} /\ Len(messages) = 0 BY <1>1 DEF SessionInit
<1>3. SessionTypeOK
  <2>1. 0 \in Ids BY ChatSessionAssumption DEF Ids
  <2>2. IdleRequest \in RequestStates
    BY <2>1 DEF IdleRequest, RequestStates, Operations, None
  <2>3. session \in SessionRows BY <1>1, <2>1 DEF SessionInit, SessionRows, None
  <2>4. Len(messages) <= MaxMessages BY <1>2, ChatSessionAssumption
  <2>5. messages \in Seq(MessageRows) BY <1>2
  <2>6. /\ runs \in [1 .. MaxMessages ->
                       {"none"} \cup activeRunStatuses \cup continuableAssistantStatuses]
        /\ late \in [1 .. MaxMessages -> SUBSET {"action", "completed"}]
        /\ told \subseteq 1 .. MaxMessages
    BY <1>1 DEF SessionInit
  <2>7. /\ expected \in [1 .. MaxMessages -> Nat] /\ requests \in [Requests -> RequestStates]
        /\ switches \in Nat
    BY <1>1, <2>2 DEF SessionInit
  <2> QED BY <2>3, <2>4, <2>5, <2>6, <2>7 DEF SessionTypeOK
<1>4. MessageTree BY <1>2, <1>3 DEF MessageTree, UnfinishedIsLeaf, SelectionsValid
<1>5. MessagesOK /\ ToldWhereSelected BY <1>2 DEF MessagesOK, ToldWhereSelected
<1>6. RunsOK BY <1>1 DEF SessionInit, RunsOK
<1>7. \A q \in Requests : PlanOK(requests[q]) BY <1>1 DEF SessionInit, PlanOK, IdleRequest
<1> QED BY <1>4, <1>5, <1>6, <1>7 DEF SessionInv

\* Every step keeps the invariant.
LEMMA SessionStepInvariant == SessionInv /\ [SessionNext]_sessionVars => SessionInv'
<1>1. SUFFICES ASSUME SessionInv, [SessionNext]_sessionVars PROVE SessionInv' OBVIOUS
<1>2. CASE UNCHANGED sessionVars
  BY <1>1, <1>2 DEF sessionVars, SessionInv, MessageTree, SessionTypeOK, UnfinishedIsLeaf,
        SelectionsValid, MessagesOK, PlanOK, Over, RunsOK, ToldWhereSelected, OnShownPath
<1>3. ASSUME NEW q \in Requests, PlanSend(q) PROVE SessionInv' BY <1>1, <1>3, PlanSendStep
<1>4. ASSUME NEW q \in Requests, NEW t \in DOMAIN messages, PlanEdit(q, t) PROVE SessionInv'
  BY <1>1, <1>4, PlanEditStep
<1>5. ASSUME NEW q \in Requests, NEW t \in DOMAIN messages, PlanRetry(q, t) PROVE SessionInv'
  BY <1>1, <1>5, PlanRetryStep
<1>6. ASSUME NEW q \in Requests, NEW t \in DOMAIN messages, PlanSwitch(q, t) PROVE SessionInv'
  BY <1>1, <1>6, PlanSwitchStep
<1>7. ASSUME NEW q \in Requests, Check(q) PROVE SessionInv' BY <1>1, <1>7, CheckStep
<1>8. ASSUME NEW q \in Requests, WriteUserMessage(q) PROVE SessionInv'
  BY <1>1, <1>8, WriteUserMessageStep
<1>9. ASSUME NEW q \in Requests, WriteRetry(q) PROVE SessionInv' BY <1>1, <1>9, WriteRetryStep
<1>10. ASSUME NEW q \in Requests, WriteSwitch(q) PROVE SessionInv' BY <1>1, <1>10, WriteSwitchStep
<1>11. ASSUME NEW q \in Requests, ReadDetail(q) PROVE SessionInv' BY <1>1, <1>11, ReadDetailStep
<1>12. ASSUME NEW q \in Requests, Repair(q) PROVE SessionInv' BY <1>1, <1>12, RepairStep
<1>13. ASSUME NEW m \in DOMAIN messages, Bootstrap(m) PROVE SessionInv'
  BY <1>1, <1>13, BootstrapStep
<1>14. ASSUME NEW m \in DOMAIN messages,
              \/ \E outcome \in {"action", "completed"} : ProjectOutcome(m, outcome)
              \/ RequireAction(m) \/ Resume(m)
       PROVE  SessionInv'
  BY <1>1, <1>14, RunStep
<1>15. ASSUME NEW m \in DOMAIN messages, Complete(m) \/ Stop(m) PROVE SessionInv'
  BY <1>1, <1>15, EndStep
<1> QED BY <1>1, <1>2, <1>3, <1>4, <1>5, <1>6, <1>7, <1>8, <1>9, <1>10, <1>11, <1>12, <1>13,
           <1>14, <1>15 DEF SessionNext

\* The invariant of ChatSession always holds.
THEOREM SessionInvariant == SessionSpec => []SessionInv
BY SessionInitInvariant, SessionStepInvariant, PTL DEF SessionSpec

\* Nothing is put below a reply before it was over, and every message with answers selects
\* one of them, however requests, late outcomes and cancellations interleave: the tree that
\* createRunFromUserMessage and its siblings grow is one resolveActivePathState can read.
THEOREM AlwaysMessageTree == SessionSpec => []MessageTree
<1>1. SessionInv => MessageTree BY DEF SessionInv
<1> QED BY <1>1, SessionInvariant, PTL

\* What getAgentGenerationBootstrap hands to the agent of a reply that is not over is the
\* history of that reply, whatever path the session shows by then.
THEOREM AlwaysOwnHistory == SessionSpec => []ContextIsOwnHistory
<1>1. SessionInv => ContextIsOwnHistory BY OwnContext
<1> QED BY <1>1, SessionInvariant, PTL

\* The action behind CompletesWhereSelected.
CompletingStep ==
    \A m \in DOMAIN messages :
        messages[m].status # "completed" /\ messages'[m].status = "completed" =>
            ActivePath(messages, PathRoot(PathTo(messages, m))) = PathTo(messages, m)

\* The statuses after a run's step.
LEMMA StatusesSet ==
    ASSUME SessionInv, NEW k \in DOMAIN messages, NEW to,
           messages' = [messages EXCEPT ![k].status = to]
    PROVE  \A m \in DOMAIN messages :
              messages'[m].status = IF m = k THEN to ELSE messages[m].status
<1>1. \A m \in DOMAIN messages : messages[m] \in MessageRows BY SessionRowsOK, TreeRows
<1>3. ASSUME NEW m \in DOMAIN messages
      PROVE  messages'[m].status = IF m = k THEN to ELSE messages[m].status
  <2>1. messages'[m] = IF m = k THEN [messages[m] EXCEPT !.status = to] ELSE messages[m]
    OBVIOUS
  <2> QED BY <1>1, <2>1 DEF MessageRows
<1> QED BY <1>3

\* Only completeRun completes a reply, on the version its run was created for.
LEMMA CompletingStepHolds == SessionInv /\ [SessionNext]_sessionVars => CompletingStep
<1>1. SUFFICES ASSUME SessionInv, [SessionNext]_sessionVars, NEW m \in DOMAIN messages,
                      messages[m].status # "completed", messages'[m].status = "completed"
               PROVE  OnShownPath(m)
  BY DEF CompletingStep, OnShownPath
<1>2. ASSUME NEW q \in Requests, WriteUserMessage(q) \/ WriteRetry(q) \/ WriteSwitch(q) PROVE FALSE
  <2>1. StatusesKept
    BY <1>1, <1>2, WriteUserMessageStep, WriteRetryStep, WriteSwitchStep
  <2> QED BY <1>1, <2>1 DEF StatusesKept
<1>3. messages' # messages BY <1>1
<1>4. ASSUME NEW q \in Requests, Repair(q) PROVE FALSE BY <1>1, <1>3, <1>4, RepairStep
<1>5. ASSUME NEW q \in Requests,
             \/ PlanSend(q) \/ Check(q) \/ ReadDetail(q)
             \/ \E t \in DOMAIN messages : PlanEdit(q, t) \/ PlanRetry(q, t) \/ PlanSwitch(q, t)
      PROVE  FALSE
  BY <1>3, <1>5 DEF PlanSend, Check, ReadDetail, PlanEdit, PlanRetry, PlanSwitch, Plan
<1>6. ASSUME NEW k \in DOMAIN messages,
             \/ Bootstrap(k) \/ RequireAction(k) \/ Resume(k)
             \/ \E outcome \in {"action", "completed"} : ProjectOutcome(k, outcome)
      PROVE  FALSE
  BY <1>3, <1>6 DEF Bootstrap, RequireAction, Resume, ProjectOutcome
<1>7. ASSUME NEW k \in DOMAIN messages, Stop(k) PROVE FALSE
  <2>1. messages' = [messages EXCEPT ![k].status = "stopped"] BY <1>7 DEF Stop
  <2> QED BY <1>1, <2>1, StatusesSet
<1>8. ASSUME NEW k \in DOMAIN messages, Complete(k) PROVE OnShownPath(m)
  <2>1. /\ "completed" \in late[k] /\ session.version = expected[k]
        /\ messages' = [messages EXCEPT ![k].status = "completed"]
    BY <1>3, <1>8 DEF Complete
  <2>2. m = k BY <1>1, <2>1, StatusesSet
  <2>3. k \in told
    <3>1. k \in 1 .. MaxMessages BY <1>1, SessionRowsOK
    <3> QED BY <1>1, <2>1, <3>1 DEF SessionInv, RunsOK
  <2> QED BY <1>1, <2>1, <2>2, <2>3 DEF SessionInv, ToldWhereSelected
<1>9. ~(UNCHANGED sessionVars) BY <1>3 DEF sessionVars
<1> QED BY <1>1, <1>2, <1>4, <1>5, <1>6, <1>7, <1>8, <1>9 DEF SessionNext

\* A reply completes only where the user still looks: completeRun's check of the history
\* version makes every change of the selected path since the request fail the run.
THEOREM AlwaysCompletesWhereSelected == SessionSpec => CompletesWhereSelected
<1>1. SessionInv /\ [SessionNext]_sessionVars => [CompletingStep]_sessionVars
  BY CompletingStepHolds
<1> QED BY <1>1, SessionInvariant, PTL DEF SessionSpec, CompletesWhereSelected, CompletingStep

=============================================================================
