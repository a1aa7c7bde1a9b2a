---------------------------- MODULE DocumentProofs ----------------------------
(***************************************************************************)
(* Proofs about DocumentContent for every set of pages and every bound:    *)
(* what pages and history say is what was stored, and no edit is lost in   *)
(* silence.                                                                *)
(***************************************************************************)
EXTENDS DocumentContent, TLAPS

-----------------------------------------------------------------------------
(* The inductive invariant.                                                *)

Saves == [kind : {"save"}, page : Pages, base : Nat, key : Nat, content : SUBSET Marks,
          live : BOOLEAN]
Restores == [kind : {"restore"}, page : Pages, base : Nat, target : Nat, live : BOOLEAN]
Projections == [content : SUBSET Marks, key : Marks \cup {NoKey}]
Snapshots == [base : Nat, content : SUBSET Marks, from : Nat,
              source : {"INITIAL", "AUTO", "MANUAL", "RESTORE"}]
Counts == [edits : 0 .. MaxEdits, restores : Nat, snapshots : Nat, giveUps : Nat, rejects : Nat]

Typed ==
    /\ projections \in Seq(Projections) /\ projections # <<>>
    /\ snapshots \in Seq(Snapshots) /\ snapshots # <<>>
    /\ page \in [Pages -> PageStates]
    /\ wire \subseteq Saves \cup Restores
    /\ undone \subseteq Marks
    /\ count \in Counts

\* A page keeps every edit, in its document and in the attempt it has made of it.
Keeps(pg, projs, u) ==
    /\ pg.persisted <= pg.edited
    /\ pg.open =>
          /\ pg.base \in 1 .. Len(projs)
          /\ projs[pg.base].content \ u \subseteq pg.doc
          /\ pg.edited = pg.persisted => projs[pg.base].content = pg.doc
    /\ pg.attempt # NoAttempt =>
          /\ pg.attempt.version \in pg.persisted + 1 .. pg.edited
          /\ pg.attempt.base = pg.base
          /\ pg.attempt.version = pg.edited => pg.attempt.content = pg.doc
          /\ pg.attempt.content \ u \subseteq pg.doc
          /\ projs[pg.base].content \ u \subseteq pg.attempt.content

\* What a page shows.
Shows(pg, projs) ==
    /\ ~pg.open => pg = Closed
    /\ pg.saving <=> pg.state = "SAVING"
    /\ pg.saving => pg.attempt # NoAttempt
    /\ pg.state \in {"IDLE", "SAVED"} => pg.edited = pg.persisted
    /\ pg.state = "ERROR" /\ pg.failure = "conflict" =>
          \E i \in pg.attempt.base + 1 .. Len(projs) : projs[i].key # pg.attempt.version
    /\ pg.failure \in {"conflict", "refused", "invalid"} => pg.state = "ERROR"
    /\ pg.restoring = "request" => pg.state = "SAVED" /\ ~pg.timer

\* The request a page waits for.
Waits(p, pg, w) ==
    /\ \A r \in w : r.live /\ r.page = p =>
          \/ pg.saving /\ r = SaveRequest(p, pg.attempt)
          \/ pg.restoring = "request" /\ r = RestoreRequest(p, pg)
    /\ pg.saving => SaveRequest(p, pg.attempt) \in w
    /\ pg.restoring = "request" => RestoreRequest(p, pg) \in w

\* An idempotency key stands for one attempt: the same base and content wherever it is.
OwnKey(pg, projs, w) ==
    /\ pg.attempt # NoAttempt =>
          /\ \A r \in w : r.kind = "save" /\ r.key = pg.attempt.version =>
                r.base = pg.attempt.base /\ r.content = pg.attempt.content
          /\ \A i \in 1 .. Len(projs) : projs[i].key = pg.attempt.version =>
                i = pg.attempt.base + 1 /\ projs[i].content = pg.attempt.content
    /\ pg.edited > pg.persisted /\ pg.attempt.version # pg.edited =>
          /\ \A r \in w : r.kind = "save" => r.key # pg.edited
          /\ \A i \in 1 .. Len(projs) : projs[i].key # pg.edited

PageOK(p, pg, projs, snaps, w, u, n) ==
    /\ Keeps(pg, projs, u) /\ Shows(pg, projs) /\ Waits(p, pg, w) /\ OwnKey(pg, projs, w)
    /\ pg.restoring = "flush" => pg.target \in 1 .. Len(snaps)
    /\ pg.edited <= n

\* The numbers a page uses, now or in its attempt, are its own.
Numbers(pg) == {pg.edited, pg.attempt.version} \ {0}

\* A request refers to what there is, and to its key alone.
RequestOK(r, projs, snaps, w, u, n) ==
    /\ r.base \in 1 .. Len(projs)
    /\ r.kind = "restore" => r.target \in 1 .. Len(snaps)
    /\ r.kind = "save" =>
          /\ r.key \in 1 .. n
          /\ projs[r.base].content \ u \subseteq r.content
          /\ \A i \in 1 .. Len(projs) : projs[i].key = r.key =>
                i = r.base + 1 /\ projs[i].content = r.content
          /\ \A s \in w : s.kind = "save" /\ s.key = r.key =>
                s.base = r.base /\ s.content = r.content

\* What is stored.
History(projs, snaps) ==
    /\ \A v \in 1 .. Len(snaps) :
          snaps[v].base \in 1 .. Len(projs) /\ snaps[v].content = projs[snaps[v].base].content
    /\ \A v, w \in 1 .. Len(snaps) : v < w => snaps[v].base <= snaps[w].base
    /\ \A i \in 2 .. Len(projs) : projs[i].key = NoKey =>
          \E v \in 1 .. Len(snaps) :
             /\ snaps[v].source = "RESTORE" /\ snaps[v].base = i
             /\ snaps[v].from \in 1 .. Len(snaps)
             /\ snaps[v].content = snaps[snaps[v].from].content
    /\ snaps[1].base = 1 /\ snaps[1].source = "INITIAL"
    /\ Len(projs) > 1 => Len(snaps) > 1

KeysOnce(projs, n) ==
    /\ \A i, j \in 1 .. Len(projs) :
          projs[i].key = projs[j].key /\ projs[i].key # NoKey => i = j
    /\ \A i \in 1 .. Len(projs) : projs[i].key <= n

IInv ==
    /\ Typed
    /\ \A p \in Pages : PageOK(p, page[p], projections, snapshots, wire, undone, count.edits)
    /\ \A p, q \in Pages : p # q => Numbers(page[p]) \cap Numbers(page[q]) = {}
    /\ \A r \in wire : RequestOK(r, projections, snapshots, wire, undone, count.edits)
    /\ History(projections, snapshots)
    /\ KeysOnce(projections, count.edits)

-----------------------------------------------------------------------------
(* Sequences, requests and pages.                                          *)

\* What Append returns.
LEMMA Appending ==
    ASSUME NEW S, NEW s \in Seq(S), NEW x \in S
    PROVE  /\ Append(s, x) \in Seq(S) /\ Append(s, x) # <<>>
           /\ Len(Append(s, x)) = Len(s) + 1 /\ Len(s) \in Nat
           /\ Append(s, x)[Len(s) + 1] = x
           /\ \A i \in 1 .. Len(s) : Append(s, x)[i] = s[i]
OBVIOUS

\* A sequence that only grows.
Extends(s, t) == Len(s) <= Len(t) /\ \A i \in 1 .. Len(s) : t[i] = s[i]

\* A request that is the same but for the page's waiting.
Copy(r, s) ==
    /\ r.kind = s.kind /\ r.page = s.page /\ r.base = s.base
    /\ r.kind = "save" => r.key = s.key /\ r.content = s.content
    /\ r.kind = "restore" => r.target = s.target

\* What a step of page p, which becomes q, may do to the requests.
Moved(p, q, projs, snaps, w, x) ==
    /\ x \subseteq Saves \cup Restores
    /\ \A r \in x :
          \/ \E s \in w : Copy(r, s) /\ (r.page # p => r = s)
          \/ q.attempt # NoAttempt /\ r = SaveRequest(p, q.attempt)
          \/ /\ r.kind = "restore" /\ r.page = p
             /\ r.base \in 1 .. Len(projs) /\ r.target \in 1 .. Len(snaps)
    /\ \A s \in w : s.page # p => s \in x

\* A projection that is added is a restored one or holds what a request asked for.
Grown(projs, next, w) ==
    /\ Extends(projs, next)
    /\ \A i \in Len(projs) + 1 .. Len(next) :
          next[i].key = NoKey \/ \E r \in w : /\ r.kind = "save" /\ r.key = next[i].key
                                              /\ r.content = next[i].content /\ i = r.base + 1

\* The fields of requests.
LEMMA RequestFields ==
    ASSUME NEW p \in Pages
    PROVE  /\ \A a \in Attempts :
                 /\ SaveRequest(p, a) \in Saves /\ SaveRequest(p, a).kind = "save"
                 /\ SaveRequest(p, a).page = p /\ SaveRequest(p, a).live
                 /\ SaveRequest(p, a).base = a.base /\ SaveRequest(p, a).key = a.version
                 /\ SaveRequest(p, a).content = a.content
           /\ \A pg \in PageStates :
                 /\ RestoreRequest(p, pg) \in Restores /\ RestoreRequest(p, pg).kind = "restore"
                 /\ RestoreRequest(p, pg).page = p /\ RestoreRequest(p, pg).live
                 /\ RestoreRequest(p, pg).base = pg.base /\ RestoreRequest(p, pg).target = pg.target
BY DEF SaveRequest, RestoreRequest, Attempts, PageStates, Saves, Restores

\* A request nobody waits for any more.
LEMMA DeadRequest ==
    ASSUME NEW r \in Saves \cup Restores
    PROVE  /\ [r EXCEPT !.live = FALSE] \in Saves \cup Restores
           /\ ~[r EXCEPT !.live = FALSE].live
           /\ Copy([r EXCEPT !.live = FALSE], r)
BY DEF Saves, Restores, Copy

\* A page that leaves its requests behind.
LEMMA Detached ==
    ASSUME NEW p \in Pages, NEW w \in SUBSET (Saves \cup Restores)
    PROVE  /\ Detach(p, w) \subseteq Saves \cup Restores
           /\ \A r \in Detach(p, w) : /\ r.page = p => ~r.live
                                      /\ \E s \in w : Copy(r, s) /\ (r.page # p => r = s)
           /\ \A s \in w : s.page # p => s \in Detach(p, w)
<1>1. ASSUME NEW r \in Detach(p, w)
      PROVE  /\ r \in Saves \cup Restores /\ (r.page = p => ~r.live)
             /\ \E s \in w : Copy(r, s) /\ (r.page # p => r = s)
  <2>1. PICK s \in w : r = IF s.page = p THEN [s EXCEPT !.live = FALSE] ELSE s
    BY DEF Detach
  <2>2. CASE s.page = p
    <3>1. r \in Saves \cup Restores /\ ~r.live /\ Copy(r, s)
      BY <2>1, <2>2, DeadRequest
    <3>2. r.page = p
      BY <2>2, <3>1 DEF Copy
    <3> QED
      BY <3>1, <3>2
  <2>3. CASE s.page # p
    BY <2>1, <2>3 DEF Copy
  <2> QED
    BY <2>2, <2>3
<1>2. ASSUME NEW s \in w, s.page # p PROVE s \in Detach(p, w)
  BY <1>2 DEF Detach
<1> QED
  BY <1>1, <1>2

\* A closed page.
LEMMA ClosedPage ==
    /\ Closed \in PageStates /\ ~Closed.open /\ Closed.attempt = NoAttempt /\ ~Closed.saving
    /\ Closed.edited = 0 /\ Closed.persisted = 0 /\ Closed.restoring = "no" /\ ~Closed.timer
    /\ Closed.state = "IDLE" /\ Closed.failure = None /\ Closed.leaving = "no"
    /\ NoAttempt.version = 0 /\ NoAttempt \in Attempts
BY DEF Closed, Fresh, PageStates, Attempts, NoAttempt, None

\* A closed page is in order when none of its requests is waited for.
LEMMA ClosedOK ==
    ASSUME NEW p, NEW projs, NEW snaps, NEW w, NEW u, NEW n \in Nat,
           \A r \in w : ~(r.live /\ r.page = p)
    PROVE  PageOK(p, Closed, projs, snaps, w, u, n) /\ Numbers(Closed) = {}
BY ClosedPage DEF PageOK, Keeps, Shows, Waits, OwnKey, Numbers, None

-----------------------------------------------------------------------------
(* What a step leaves to the other pages and requests.                     *)

\* Another page keeps its edits and shows what it did.
LEMMA OthersKeep ==
    ASSUME NEW pg \in PageStates, NEW projs, NEW next, NEW u, NEW v,
           Len(projs) \in Nat, Len(next) \in Nat,
           Keeps(pg, projs, u), Shows(pg, projs), Extends(projs, next), u \subseteq v
    PROVE  Keeps(pg, next, v) /\ Shows(pg, next)
<1>1. pg.attempt # NoAttempt => pg.open
  BY ClosedPage DEF Shows
<1>2. pg.open => next[pg.base] = projs[pg.base] /\ pg.base \in 1 .. Len(next)
  BY DEF Keeps, Extends
<1>3. Keeps(pg, next, v)
  BY <1>1, <1>2 DEF Keeps
<1>4. ASSUME NEW i \in pg.attempt.base + 1 .. Len(projs), pg.attempt.base \in Nat
      PROVE  i \in pg.attempt.base + 1 .. Len(next) /\ next[i] = projs[i]
  BY <1>4 DEF Extends
<1>5. pg.attempt.base \in Nat
  BY DEF PageStates, Attempts
<1>6. Shows(pg, next)
  BY <1>4, <1>5 DEF Shows
<1> QED
  BY <1>3, <1>6

\* The keys of a page stay its own.
LEMMA OthersKeys ==
    ASSUME NEW pg \in PageStates, NEW projs, NEW next, NEW w, NEW x,
           Len(projs) \in Nat, Len(next) \in Nat,
           OwnKey(pg, projs, w), Grown(projs, next, w), pg.persisted <= pg.edited,
           pg.attempt # NoAttempt => pg.attempt.version > 0,
           \A r \in x : r.kind = "save" =>
              \/ \E s \in w : s.kind = "save" /\ s.key = r.key /\ s.base = r.base /\ s.content = r.content
              \/ r.key \notin Numbers(pg)
    PROVE  OwnKey(pg, next, x)
<1>1. \A i \in 1 .. Len(next) : i \in 1 .. Len(projs) \/ i \in Len(projs) + 1 .. Len(next)
  OBVIOUS
<1>2. \A i \in 1 .. Len(projs) : next[i] = projs[i]
  BY DEF Grown, Extends
<1>3. /\ pg.edited \in Nat /\ pg.persisted \in Nat /\ pg.attempt.version \in Nat
      /\ pg.attempt.base \in Nat
  BY DEF PageStates, Attempts
<1>4. ASSUME pg.attempt # NoAttempt
      PROVE  /\ \A r \in x : r.kind = "save" /\ r.key = pg.attempt.version =>
                   r.base = pg.attempt.base /\ r.content = pg.attempt.content
             /\ \A i \in 1 .. Len(next) : next[i].key = pg.attempt.version =>
                   i = pg.attempt.base + 1 /\ next[i].content = pg.attempt.content
  <2>1. pg.attempt.version \in Numbers(pg)
    BY <1>3, <1>4 DEF Numbers
  <2>2. ASSUME NEW r \in x, r.kind = "save", r.key = pg.attempt.version
        PROVE  r.base = pg.attempt.base /\ r.content = pg.attempt.content
    BY <1>4, <2>1, <2>2 DEF OwnKey
  <2>3. ASSUME NEW i \in Len(projs) + 1 .. Len(next), next[i].key = pg.attempt.version
        PROVE  i = pg.attempt.base + 1 /\ next[i].content = pg.attempt.content
    <3>1. PICK r \in w : r.kind = "save" /\ r.key = next[i].key /\ r.content = next[i].content
                         /\ i = r.base + 1
      BY <1>3, <1>4, <2>3 DEF Grown, NoKey
    <3> QED
      BY <1>4, <2>3, <3>1 DEF OwnKey
  <2>4. \A i \in 1 .. Len(projs) : projs[i].key = pg.attempt.version =>
                   i = pg.attempt.base + 1 /\ projs[i].content = pg.attempt.content
    BY <1>4 DEF OwnKey
  <2> QED
    BY <1>1, <1>2, <2>2, <2>3, <2>4
<1>5. ASSUME pg.edited > pg.persisted, pg.attempt.version # pg.edited
      PROVE  /\ \A r \in x : r.kind = "save" => r.key # pg.edited
             /\ \A i \in 1 .. Len(next) : next[i].key # pg.edited
  <2>1. pg.edited \in Numbers(pg) /\ pg.edited # NoKey
    BY <1>3, <1>5 DEF Numbers, NoKey
  <2>2. /\ \A r \in w : r.kind = "save" => r.key # pg.edited
        /\ \A i \in 1 .. Len(projs) : projs[i].key # pg.edited
    BY <1>5 DEF OwnKey
  <2>3. \A i \in Len(projs) + 1 .. Len(next) : next[i].key # pg.edited
    BY <2>1, <2>2 DEF Grown
  <2>4. \A r \in x : r.kind = "save" => r.key # pg.edited
    BY <2>1, <2>2
  <2> QED
    BY <1>1, <1>2, <2>2, <2>3, <2>4
<1> QED
  BY <1>4, <1>5 DEF OwnKey

\* A step of page p in general: what the page and the storage do suffices.
LEMMA StepOfPage ==
    ASSUME IInv, Typed', NEW p \in Pages, NEW q \in PageStates, page' = [page EXCEPT ![p] = q],
           PageOK(p, q, projections', snapshots', wire', undone', count'.edits),
           Numbers(q) \subseteq Numbers(page[p]) \cup (count.edits + 1 .. count'.edits),
           Moved(p, q, projections', snapshots', wire, wire'),
           Grown(projections, projections', wire), Len(snapshots) <= Len(snapshots'),
           undone \subseteq undone', count.edits <= count'.edits,
           History(projections', snapshots'), KeysOnce(projections', count'.edits)
    PROVE  IInv'
<1>1. /\ count.edits \in Nat /\ count'.edits \in Nat /\ Len(projections) \in Nat
      /\ Len(projections') \in Nat /\ Len(snapshots) \in Nat /\ Len(snapshots') \in Nat
  BY DEF IInv, Typed, Counts
<1>2. page'[p] = q /\ \A o \in Pages \ {p} : page'[o] = page[o] /\ page[o] \in PageStates
  BY DEF IInv, Typed
<1>3. Extends(projections, projections')
  BY DEF Grown
<1>4. q.attempt # NoAttempt =>
         /\ q.open /\ q.base \in 1 .. Len(projections') /\ q.attempt.base = q.base
         /\ q.attempt.version \in 1 .. count'.edits
         /\ projections'[q.base].content \ undone' \subseteq q.attempt.content
  <2>1. q.persisted \in Nat /\ q.edited \in Nat /\ q.attempt.version \in Nat
    BY DEF PageStates, Attempts
  <2>2. q.attempt # NoAttempt => q.open
    BY ClosedPage DEF PageOK, Shows
  <2> QED
    BY <1>1, <2>1, <2>2, SMTT(60) DEF PageOK, Keeps
<1>5. ASSUME NEW o \in Pages \ {p}
      PROVE  PageOK(o, page'[o], projections', snapshots', wire', undone', count'.edits)
  <2> PICK pg \in PageStates : pg = page[o]
    BY <1>2
  <2>1. /\ PageOK(o, pg, projections, snapshots, wire, undone, count.edits)
        /\ Numbers(pg) \cap Numbers(page[p]) = {}
    BY DEF IInv
  <2>2. Keeps(pg, projections', undone') /\ Shows(pg, projections')
    BY <1>1, <1>3, <2>1, OthersKeep DEF PageOK
  <2>3. Waits(o, pg, wire')
    <3>1. \A r \in wire' : r.page = o => r \in wire
      <4> SUFFICES ASSUME NEW r \in wire', r.page = o PROVE r \in wire
        OBVIOUS
      <4>1. q.attempt \in Attempts
        BY DEF PageStates
      <4> QED
        BY <4>1, RequestFields DEF Moved
    <3>2. \A r \in wire : r.page = o => r \in wire'
      BY DEF Moved
    <3>3. pg.attempt \in Attempts
      BY DEF PageStates
    <3> QED
      BY <2>1, <3>1, <3>2, <3>3, RequestFields DEF PageOK, Waits
  <2>4. OwnKey(pg, projections', wire')
    <3>1. pg.edited \in Nat /\ pg.persisted \in Nat /\ pg.attempt.version \in Nat
      BY DEF PageStates, Attempts
    <3>2. pg.attempt # NoAttempt => pg.attempt.version > 0 /\ pg.attempt.version <= count.edits
      BY <1>1, <2>1, <3>1, SMTT(60) DEF PageOK, Keeps
    <3>3. \A k \in Numbers(pg) : k <= count.edits
      BY <2>1, <3>1, <3>2, <1>1, ClosedPage DEF Numbers, PageOK
    <3>4. q.attempt # NoAttempt => q.attempt.version \in Numbers(q)
      BY <1>4 DEF Numbers
    <3>5. Numbers(q) \cap Numbers(pg) = {}
      BY <2>1, <3>3, <1>1
    <3>6. \A r \in wire' : r.kind = "save" =>
              \/ \E s \in wire : s.kind = "save" /\ s.key = r.key /\ s.base = r.base /\ s.content = r.content
              \/ r.key \notin Numbers(pg)
      <4> SUFFICES ASSUME NEW r \in wire', r.kind = "save"
                   PROVE  \/ \E s \in wire : /\ s.kind = "save" /\ s.key = r.key /\ s.base = r.base
                                             /\ s.content = r.content
                          \/ r.key \notin Numbers(pg)
        OBVIOUS
      <4>1. CASE \E s \in wire : Copy(r, s)
        BY <4>1 DEF Copy
      <4>2. CASE q.attempt # NoAttempt /\ r = SaveRequest(p, q.attempt)
        <5>1. r.key = q.attempt.version
          BY <4>2, RequestFields DEF PageStates
        <5> QED
          BY <4>2, <5>1, <3>4, <3>5
      <4> QED
        BY <4>1, <4>2 DEF Moved
    <3> QED
      BY <1>1, <2>1, <3>2, <3>6, OthersKeys DEF PageOK, Keeps
  <2>5. pg.edited \in Nat
    BY DEF PageStates
  <2> QED
    BY <1>1, <1>2, <2>1, <2>2, <2>3, <2>4, <2>5 DEF PageOK
<1>6. \A o \in Pages : PageOK(o, page'[o], projections', snapshots', wire', undone', count'.edits)
  BY <1>2, <1>5
<1>7. \A o, r \in Pages : o # r => Numbers(page'[o]) \cap Numbers(page'[r]) = {}
  <2>1. ASSUME NEW o \in Pages \ {p} PROVE Numbers(page'[o]) \cap Numbers(q) = {}
    <3> PICK pg \in PageStates : pg = page[o]
      BY <1>2
    <3>1. /\ PageOK(o, pg, projections, snapshots, wire, undone, count.edits)
          /\ Numbers(pg) \cap Numbers(page[p]) = {}
      BY DEF IInv
    <3>2. pg.edited \in Nat /\ pg.persisted \in Nat /\ pg.attempt.version \in Nat
      BY DEF PageStates, Attempts
    <3>3. \A k \in Numbers(pg) : k <= count.edits
      BY <3>1, <3>2, <1>1, ClosedPage DEF Numbers, PageOK, Keeps
    <3> QED
      BY <1>1, <1>2, <3>1, <3>3
  <2>2. \A o, r \in Pages \ {p} : o # r => Numbers(page'[o]) \cap Numbers(page'[r]) = {}
    BY <1>2 DEF IInv
  <2> QED
    BY <1>2, <2>1, <2>2
<1>8. ASSUME NEW r \in wire'
      PROVE  RequestOK(r, projections', snapshots', wire', undone', count'.edits)
  <2>1. OwnKey(q, projections', wire')
    BY DEF PageOK
  <2>2. CASE q.attempt # NoAttempt /\ r = SaveRequest(p, q.attempt)
    <3>1. /\ r.kind = "save" /\ r.base = q.attempt.base /\ r.key = q.attempt.version
          /\ r.content = q.attempt.content
      BY <2>2, RequestFields DEF PageStates
    <3> QED
      BY <1>4, <2>1, <2>2, <3>1 DEF RequestOK, OwnKey
  <2>3. CASE r.kind = "restore" /\ r.base \in 1 .. Len(projections') /\ r.target \in 1 .. Len(snapshots')
    BY <2>3 DEF RequestOK
  <2>4. CASE \E s \in wire : Copy(r, s)
    <3>1. PICK s \in wire : Copy(r, s)
      BY <2>4
    <3>2. RequestOK(s, projections, snapshots, wire, undone, count.edits)
      BY DEF IInv
    <3>3. r.base \in 1 .. Len(projections') /\ projections'[r.base] = projections[r.base]
      BY <1>1, <1>3, <3>1, <3>2 DEF RequestOK, Copy, Extends
    <3>4. r.kind = "restore" => r.target \in 1 .. Len(snapshots')
      BY <1>1, <3>1, <3>2 DEF RequestOK, Copy
    <3>5. ASSUME r.kind = "save"
          PROVE  /\ r.key \in 1 .. count'.edits
                 /\ projections'[r.base].content \ undone' \subseteq r.content
                 /\ \A i \in 1 .. Len(projections') : projections'[i].key = r.key =>
                       i = r.base + 1 /\ projections'[i].content = r.content
                 /\ \A t \in wire' : t.kind = "save" /\ t.key = r.key =>
                       t.base = r.base /\ t.content = r.content
      <4>1. /\ s.kind = "save" /\ s.key = r.key /\ s.base = r.base /\ s.content = r.content
            /\ r.key \in 1 .. count.edits
        BY <3>1, <3>2, <3>5 DEF Copy, RequestOK
      <4>2. r.key \in 1 .. count'.edits
        BY <1>1, <4>1
      <4>3. projections'[r.base].content \ undone' \subseteq r.content
        BY <3>2, <3>3, <4>1 DEF RequestOK
      <4>4. \A t \in wire : t.kind = "save" /\ t.key = r.key => t.base = r.base /\ t.content = r.content
        BY <3>2, <4>1 DEF RequestOK
      <4>5. ASSUME NEW i \in 1 .. Len(projections'), projections'[i].key = r.key
            PROVE  i = r.base + 1 /\ projections'[i].content = r.content
        <5>1. CASE i \in 1 .. Len(projections)
          BY <1>3, <3>2, <4>1, <4>5, <5>1 DEF RequestOK, Extends
        <5>2. CASE i \in Len(projections) + 1 .. Len(projections')
          BY <4>1, <4>4, <4>5, <5>2 DEF Grown, NoKey
        <5> QED
          BY <1>1, <5>1, <5>2
      <4>6. ASSUME NEW t \in wire', t.kind = "save", t.key = r.key
            PROVE  t.base = r.base /\ t.content = r.content
        <5>1. CASE \E o \in wire : Copy(t, o)
          BY <4>4, <4>6, <5>1 DEF Copy
        <5>2. CASE q.attempt # NoAttempt /\ t = SaveRequest(p, q.attempt)
          <6>1. t.key = q.attempt.version /\ t.base = q.attempt.base /\ t.content = q.attempt.content
            BY <5>2, RequestFields DEF PageStates
          <6> QED
            BY <2>1, <3>5, <4>6, <5>2, <6>1 DEF OwnKey
        <5> QED
          BY <4>6, <5>1, <5>2 DEF Moved
      <4> QED
        BY <4>2, <4>3, <4>5, <4>6
    <3> QED
      BY <3>3, <3>4, <3>5 DEF RequestOK
  <2> QED
    BY <2>2, <2>3, <2>4 DEF Moved
<1> QED
  BY <1>6, <1>7, <1>8 DEF IInv

-----------------------------------------------------------------------------
(* The save loop.                                                          *)

\* What a step leaves of page pg, which becomes q: closed only when stored.
Left(p, pg, q, projs, snaps, w, x, u, n) ==
    /\ PageOK(p, q, projs, snaps, x, u, n)
    /\ Numbers(q) \subseteq Numbers(pg)
    /\ Moved(p, q, projs, snaps, w, x)
    /\ q.open => q.doc = pg.doc
    /\ ~q.open => pg.base \in 1 .. Len(projs) /\ projs[pg.base].content = pg.doc

\* A page that waits for nothing, or for a restore, with what it has to save.
Steady(p, pg, projs, snaps, w, u, n) ==
    /\ pg.open /\ Keeps(pg, projs, u) /\ OwnKey(pg, projs, w) /\ pg.edited <= n
    /\ pg.failure \in {None, "network"}
    /\ pg.restoring = "flush" => pg.target \in 1 .. Len(snaps)
    /\ \A r \in w : r.live /\ r.page = p => pg.restoring = "request" /\ r = RestoreRequest(p, pg)
    /\ pg.restoring = "request" => /\ RestoreRequest(p, pg) \in w
                                   /\ pg.edited = pg.persisted

\* The restore or navigation that waited for a save goes on.
LEMMA FlushedLeaves ==
    ASSUME NEW p \in Pages, NEW pg \in PageStates, NEW projs, NEW snaps, NEW w, NEW u, NEW n \in Nat,
           Len(projs) \in Nat, w \subseteq Saves \cup Restores, page \in [Pages -> PageStates],
           Steady(p, pg, projs, snaps, w, u, n), Flushed(p, pg, w),
           pg.state = "SAVED", ~pg.saving, ~pg.timer, pg.edited = pg.persisted
    PROVE  \E q \in PageStates : /\ page' = [page EXCEPT ![p] = q]
                                 /\ Left(p, pg, q, projs, snaps, w, wire', u, n)
<1>0. /\ pg.edited \in Nat /\ pg.attempt.version \in Nat /\ pg.attempt \in Attempts
      /\ pg.persisted \in Nat
  BY DEF PageStates, Attempts
<1>1. pg.attempt = NoAttempt
  BY <1>0 DEF Steady, Keeps
<1>2. PICK rq : rq = RestoreRequest(p, pg)
  OBVIOUS
<1>3. /\ rq \in Restores /\ rq.kind = "restore" /\ rq.page = p /\ rq.live
      /\ rq.base = pg.base /\ rq.target = pg.target
  BY <1>2, RequestFields
<1>4. PICK sent : sent = IF pg.restoring = "flush" THEN w \cup {rq} ELSE w
  OBVIOUS
<1>5. sent \subseteq Saves \cup Restores
  BY <1>3, <1>4
<1>6. pg.base \in 1 .. Len(projs) /\ projs[pg.base].content = pg.doc
  BY DEF Steady, Keeps
<1>7. \A r \in sent :
         \/ r \in w
         \/ r.kind = "restore" /\ r.page = p /\ r.base \in 1 .. Len(projs) /\ r.target \in 1 .. Len(snaps)
  BY <1>3, <1>4, <1>6 DEF Steady
<1>8. CASE page' = [page EXCEPT ![p] = Closed] /\ wire' = Detach(p, sent)
  <2>1. /\ wire' \subseteq Saves \cup Restores
        /\ \A r \in wire' : /\ r.page = p => ~r.live
                            /\ \E s \in sent : Copy(r, s) /\ (r.page # p => r = s)
        /\ \A s \in sent : s.page # p => s \in wire'
    BY <1>5, <1>8, Detached
  <2>2. PageOK(p, Closed, projs, snaps, wire', u, n) /\ Numbers(Closed) = {}
    BY <2>1, ClosedOK
  <2>3. Moved(p, Closed, projs, snaps, w, wire')
    <3>1. \A s \in w : s.page # p => s \in wire'
      BY <1>4, <2>1
    <3>2. ASSUME NEW r \in wire'
          PROVE  \/ \E s \in w : Copy(r, s) /\ (r.page # p => r = s)
                 \/ /\ r.kind = "restore" /\ r.page = p
                    /\ r.base \in 1 .. Len(projs) /\ r.target \in 1 .. Len(snaps)
      <4>1. PICK s \in sent : Copy(r, s) /\ (r.page # p => r = s)
        BY <2>1
      <4>2. CASE s \in w
        BY <4>1, <4>2
      <4>3. CASE s.kind = "restore" /\ s.page = p /\ s.base \in 1 .. Len(projs) /\ s.target \in 1 .. Len(snaps)
        BY <4>1, <4>3 DEF Copy
      <4> QED
        BY <1>7, <4>2, <4>3
    <3> QED
      BY <2>1, <3>1, <3>2 DEF Moved
  <2> QED
    BY <1>6, <1>8, <2>2, <2>3, ClosedPage DEF Left
<1>9. CASE /\ wire' = sent
           /\ page' = [page EXCEPT ![p] = [pg EXCEPT
                          !.restoring = IF @ = "flush" THEN "request" ELSE @,
                          !.leaving = IF @ = "flush" THEN "gap" ELSE @]]
  <2>1. PICK q : q = [pg EXCEPT !.restoring = IF @ = "flush" THEN "request" ELSE @,
                                !.leaving = IF @ = "flush" THEN "gap" ELSE @]
    OBVIOUS
  <2>2. /\ q \in PageStates /\ q.open = pg.open /\ q.doc = pg.doc /\ q.base = pg.base
        /\ q.edited = pg.edited /\ q.persisted = pg.persisted /\ q.attempt = pg.attempt
        /\ q.state = pg.state /\ q.failure = pg.failure /\ q.saving = pg.saving
        /\ q.timer = pg.timer /\ q.target = pg.target
        /\ q.restoring = IF pg.restoring = "flush" THEN "request" ELSE pg.restoring
    BY <2>1 DEF PageStates
  <2>3. Keeps(q, projs, u) /\ Shows(q, projs)
    BY <1>1, <2>2 DEF Steady, Keeps, Shows, None
  <2>4. RestoreRequest(p, q) = rq
    BY <1>2, <2>2 DEF RestoreRequest
  <2>5. Waits(p, q, wire')
    BY <1>2, <1>3, <1>4, <1>9, <2>2, <2>4 DEF Steady, Waits
  <2>6. OwnKey(q, projs, wire')
    BY <1>1, <1>3, <1>4, <1>9, <2>2 DEF Steady, OwnKey
  <2>7. PageOK(p, q, projs, snaps, wire', u, n)
    BY <2>2, <2>3, <2>5, <2>6 DEF PageOK, Steady
  <2>8. Moved(p, q, projs, snaps, w, wire')
    BY <1>4, <1>5, <1>7, <1>9 DEF Moved, Copy
  <2> QED
    BY <1>9, <2>1, <2>2, <2>7, <2>8 DEF Left, Steady, Numbers
<1> QED
  BY <1>2, <1>4, <1>8, <1>9 DEF Flushed

\* The next request, or the end of the loop.
LEMMA SaveLoopLeaves ==
    ASSUME NEW p \in Pages, NEW pg \in PageStates, NEW projs, NEW snaps, NEW w, NEW u, NEW n \in Nat,
           Len(projs) \in Nat, w \subseteq Saves \cup Restores, page \in [Pages -> PageStates],
           Steady(p, pg, projs, snaps, w, u, n), SaveLoop(p, pg, w), u \subseteq Marks
    PROVE  \E q \in PageStates : /\ page' = [page EXCEPT ![p] = q]
                                 /\ Left(p, pg, q, projs, snaps, w, wire', u, n)
<1>0. /\ pg.edited \in Nat /\ pg.attempt.version \in Nat /\ pg.attempt \in Attempts
      /\ pg.persisted \in Nat /\ pg.base \in Nat /\ pg.doc \in SUBSET Marks
      /\ pg.attempt.base \in Nat
  BY DEF PageStates, Attempts
<1>1. PICK a : a = NextAttempt(pg)
  OBVIOUS
<1>2. CASE a = NoAttempt
  <2>1. pg.attempt = NoAttempt /\ pg.edited = pg.persisted
    <3>1. ASSUME pg.attempt = NoAttempt, pg.edited > pg.persisted PROVE FALSE
      <4>1. a.version = pg.edited
        BY <1>1, <3>1 DEF NextAttempt
      <4> QED
        BY <1>0, <1>2, <3>1, <4>1, ClosedPage
    <3>2. pg.attempt = NoAttempt
      BY <1>1, <1>2 DEF NextAttempt
    <3> QED
      BY <1>0, <3>1, <3>2 DEF Steady, Keeps
  <2>2. PICK q : q = [pg EXCEPT !.state = "SAVED", !.saving = FALSE, !.timer = FALSE]
    OBVIOUS
  <2>3. /\ q \in PageStates /\ q.open = pg.open /\ q.doc = pg.doc /\ q.base = pg.base
        /\ q.edited = pg.edited /\ q.persisted = pg.persisted /\ q.attempt = pg.attempt
        /\ q.state = "SAVED" /\ q.failure = pg.failure /\ ~q.saving /\ ~q.timer
        /\ q.target = pg.target /\ q.restoring = pg.restoring
    BY <2>2 DEF PageStates
  <2>4. RestoreRequest(p, q) = RestoreRequest(p, pg)
    BY <2>3 DEF RestoreRequest
  <2>5. Steady(p, q, projs, snaps, w, u, n)
    BY <2>3, <2>4 DEF Steady, Keeps, OwnKey
  <2>6. Flushed(p, q, w)
    BY <1>1, <1>2, <2>2 DEF SaveLoop
  <2>7. PICK o \in PageStates : /\ page' = [page EXCEPT ![p] = o]
                                /\ Left(p, q, o, projs, snaps, w, wire', u, n)
    BY <2>1, <2>3, <2>5, <2>6, FlushedLeaves
  <2>8. Left(p, pg, o, projs, snaps, w, wire', u, n)
    BY <2>3, <2>7 DEF Left, Numbers
  <2> QED
    BY <2>7, <2>8
<1>3. CASE a # NoAttempt
  <2>1. /\ a \in Attempts /\ a.version \in pg.persisted + 1 .. pg.edited /\ a.base = pg.base
        /\ a.version = pg.edited => a.content = pg.doc
        /\ a.content \ u \subseteq pg.doc
        /\ projs[pg.base].content \ u \subseteq a.content
        /\ pg.attempt # NoAttempt => a = pg.attempt
        /\ pg.attempt = NoAttempt => a.version = pg.edited
    <3>1. CASE pg.attempt # NoAttempt
      BY <1>0, <1>1, <3>1 DEF NextAttempt, Steady, Keeps
    <3>2. CASE pg.attempt = NoAttempt
      <4>1. pg.edited > pg.persisted /\ a = [version |-> pg.edited, base |-> pg.base, content |-> pg.doc]
        BY <1>1, <1>3, <3>2 DEF NextAttempt
      <4>2. a.version = pg.edited /\ a.base = pg.base /\ a.content = pg.doc /\ a \in Attempts
        BY <1>0, <4>1 DEF Attempts
      <4> QED
        BY <1>0, <3>2, <4>1, <4>2 DEF Steady, Keeps
    <3> QED
      BY <3>1, <3>2
  <2>2. PICK q : q = [pg EXCEPT !.attempt = a, !.state = "SAVING", !.saving = TRUE, !.timer = FALSE]
    OBVIOUS
  <2>3. /\ q \in PageStates /\ q.open = pg.open /\ q.doc = pg.doc /\ q.base = pg.base
        /\ q.edited = pg.edited /\ q.persisted = pg.persisted /\ q.attempt = a
        /\ q.state = "SAVING" /\ q.failure = pg.failure /\ q.saving /\ ~q.timer
        /\ q.target = pg.target /\ q.restoring = pg.restoring
    BY <2>1, <2>2 DEF PageStates
  <2>4. PICK rq : rq = SaveRequest(p, a)
    OBVIOUS
  <2>5. /\ rq \in Saves /\ rq.kind = "save" /\ rq.page = p /\ rq.base = a.base /\ rq.key = a.version
        /\ rq.content = a.content
    BY <2>1, <2>4, RequestFields
  <2>6. page' = [page EXCEPT ![p] = q] /\ wire' = w \cup {rq}
    BY <1>1, <1>3, <2>2, <2>4 DEF SaveLoop
  <2>7. pg.restoring # "request"
    <3>1. pg.edited > pg.persisted
      BY <1>0, <2>1
    <3> QED
      BY <1>0, <3>1 DEF Steady
  <2>8. Keeps(q, projs, u) /\ Shows(q, projs)
    BY <1>0, <1>3, <2>1, <2>3, <2>7 DEF Steady, Keeps, Shows, None
  <2>9. Waits(p, q, wire')
    BY <2>3, <2>4, <2>6, <2>7 DEF Steady, Waits
  <2>10. OwnKey(q, projs, wire')
    <3>1. CASE pg.attempt # NoAttempt
      BY <1>0, <1>3, <2>1, <2>3, <2>5, <2>6, <3>1, SMTT(60) DEF Steady, OwnKey
    <3>2. CASE pg.attempt = NoAttempt
      <4>1. pg.edited > pg.persisted /\ pg.attempt.version # pg.edited
        BY <1>0, <2>1, <3>2, ClosedPage
      <4> QED
        BY <1>0, <2>1, <2>3, <2>5, <2>6, <3>2, <4>1 DEF Steady, OwnKey
    <3> QED
      BY <3>1, <3>2
  <2>11. PageOK(p, q, projs, snaps, wire', u, n)
    BY <2>3, <2>7, <2>8, <2>9, <2>10 DEF PageOK, Steady
  <2>12. Numbers(q) \subseteq Numbers(pg)
    BY <2>1, <2>3 DEF Numbers
  <2>13. Moved(p, q, projs, snaps, w, wire')
    BY <1>3, <2>3, <2>4, <2>5, <2>6 DEF Moved, Copy
  <2> QED
    BY <2>3, <2>6, <2>11, <2>12, <2>13 DEF Left, Steady
<1> QED
  BY <1>2, <1>3

\* A step that leaves the requests alone.
LEMMA NothingMoved ==
    ASSUME NEW p, NEW q, NEW projs, NEW snaps, NEW w \in SUBSET (Saves \cup Restores)
    PROVE  Moved(p, q, projs, snaps, w, w)
BY DEF Moved, Copy

\* flush.
LEMMA FlushLeaves ==
    ASSUME NEW p \in Pages, NEW pg \in PageStates, NEW projs, NEW snaps, NEW u, NEW n \in Nat,
           Len(projs) \in Nat, wire \subseteq Saves \cup Restores, page \in [Pages -> PageStates],
           PageOK(p, pg, projs, snaps, wire, u, n), pg.open, Flush(p, pg), u \subseteq Marks
    PROVE  \E q \in PageStates : /\ page' = [page EXCEPT ![p] = q]
                                 /\ Left(p, pg, q, projs, snaps, wire, wire', u, n)
<1>1. CASE pg.saving
  <2>1. PICK q : q = [pg EXCEPT !.timer = FALSE]
    OBVIOUS
  <2>2. /\ q \in PageStates /\ q.open = pg.open /\ q.doc = pg.doc /\ q.base = pg.base
        /\ q.edited = pg.edited /\ q.persisted = pg.persisted /\ q.attempt = pg.attempt
        /\ q.state = pg.state /\ q.failure = pg.failure /\ q.saving = pg.saving /\ ~q.timer
        /\ q.target = pg.target /\ q.restoring = pg.restoring
    BY <2>1 DEF PageStates
  <2>3. page' = [page EXCEPT ![p] = q] /\ wire' = wire
    BY <1>1, <2>1 DEF Flush
  <2>4. pg.restoring # "request"
    BY <1>1 DEF PageOK, Shows
  <2>5. PageOK(p, q, projs, snaps, wire, u, n)
    BY <1>1, <2>2, <2>4 DEF PageOK, Keeps, Shows, Waits, OwnKey
  <2> QED
    BY <2>2, <2>3, <2>5, NothingMoved DEF Left, Numbers
<1>2. CASE ~pg.saving /\ pg.state = "ERROR" /\ ~CanRetry(pg)
  <2>1. PICK q : q = FlushFailed([pg EXCEPT !.timer = FALSE])
    OBVIOUS
  <2>2. /\ q \in PageStates /\ q.open = pg.open /\ q.doc = pg.doc /\ q.base = pg.base
        /\ q.edited = pg.edited /\ q.persisted = pg.persisted /\ q.attempt = pg.attempt
        /\ q.state = pg.state /\ q.failure = pg.failure /\ q.saving = pg.saving /\ ~q.timer
        /\ q.target = pg.target
        /\ q.restoring = IF pg.restoring = "flush" THEN "no" ELSE pg.restoring
    BY <2>1 DEF PageStates, FlushFailed
  <2>3. page' = [page EXCEPT ![p] = q] /\ wire' = wire
    BY <1>2, <2>1 DEF Flush
  <2>4. pg.restoring # "request"
    BY <1>2 DEF PageOK, Shows
  <2>5. PageOK(p, q, projs, snaps, wire, u, n)
    BY <1>2, <2>2, <2>4 DEF PageOK, Keeps, Shows, Waits, OwnKey
  <2> QED
    BY <2>2, <2>3, <2>5, NothingMoved DEF Left, Numbers
<1>3. CASE ~pg.saving /\ ~(pg.state = "ERROR" /\ ~CanRetry(pg))
  <2>1. SaveLoop(p, pg, wire)
    BY <1>3 DEF Flush
  <2>2. pg.failure \in {None, "network"}
    BY <1>3 DEF PageOK, Shows, CanRetry, PageStates, None
  <2>3. Steady(p, pg, projs, snaps, wire, u, n)
    BY <1>3, <2>2 DEF PageOK, Steady, Waits, Shows
  <2> QED
    BY <2>1, <2>3, SaveLoopLeaves
<1> QED
  BY <1>1, <1>2, <1>3

\* The page pg after an edit that leaves doc, numbered n.
EditedPage(pg, doc, n) == MarkedDirty([pg EXCEPT !.doc = doc], n)

\* Page pg may be edited: its marks but those in v stay, and every key is at most n.
Editing(pg, doc, projs, w, u, v, n) ==
    /\ pg.open /\ pg.restoring = "no"
    /\ doc \in SUBSET Marks /\ u \subseteq v /\ pg.doc \ v \subseteq doc
    /\ \A r \in w : r.kind = "save" => r.key \in 1 .. n
    /\ \A i \in 1 .. Len(projs) : projs[i].key \in 0 .. n

\* An edit: markDirty.
LEMMA DirtyPage ==
    ASSUME NEW p \in Pages, NEW pg \in PageStates, NEW projs, NEW snaps, NEW w, NEW u, NEW v,
           NEW n \in Nat, NEW doc,
           PageOK(p, pg, projs, snaps, w, u, n), Editing(pg, doc, projs, w, u, v, n),
           NEW q, q = EditedPage(pg, doc, n + 1)
    PROVE  /\ q \in PageStates /\ PageOK(p, q, projs, snaps, w, v, n + 1)
           /\ Numbers(q) \subseteq Numbers(pg) \cup {n + 1} /\ q.open
<1> /\ pg.open /\ pg.restoring = "no"
    /\ doc \in SUBSET Marks /\ u \subseteq v /\ pg.doc \ v \subseteq doc
    /\ \A r \in w : r.kind = "save" => r.key \in 1 .. n
    /\ \A i \in 1 .. Len(projs) : projs[i].key \in 0 .. n
  BY DEF Editing
<1>0. /\ pg.edited \in Nat /\ pg.attempt.version \in Nat /\ pg.attempt \in Attempts
      /\ pg.persisted \in Nat /\ pg.edited <= n
  BY DEF PageStates, Attempts, PageOK
<1>m. PICK m \in Nat : m = n + 1
  OBVIOUS
<1>1. PICK b \in BOOLEAN : b <=> (pg.failure = "invalid" /\ pg.attempt # NoAttempt)
  OBVIOUS
<1>2. PICK e : e = [pg EXCEPT !.doc = doc]
  OBVIOUS
<1>a. /\ e \in PageStates /\ e.open = pg.open /\ e.doc = doc /\ e.base = pg.base
      /\ e.edited = pg.edited /\ e.persisted = pg.persisted /\ e.attempt = pg.attempt
      /\ e.failure = pg.failure /\ e.saving = pg.saving /\ e.target = pg.target
      /\ e.restoring = pg.restoring /\ e.state = pg.state
  BY <1>2 DEF PageStates
<1>b. PICK d : d = IF b THEN [e EXCEPT !.edited = m, !.attempt = NoAttempt, !.failure = None]
                        ELSE [e EXCEPT !.edited = m]
  OBVIOUS
<1>c. /\ d \in PageStates /\ d.open = pg.open /\ d.doc = doc /\ d.base = pg.base
      /\ d.edited = m /\ d.persisted = pg.persisted
      /\ b => d.attempt = NoAttempt /\ d.failure = None
      /\ ~b => d.attempt = pg.attempt /\ d.failure = pg.failure
      /\ d.saving = pg.saving /\ d.target = pg.target /\ d.restoring = pg.restoring
      /\ d.state = pg.state
  <2>1. CASE b
    <3>1. d = [e EXCEPT !.edited = m, !.attempt = NoAttempt, !.failure = None]
      BY <1>b, <2>1
    <3>2. /\ d \in PageStates /\ d.open = e.open /\ d.doc = e.doc /\ d.base = e.base
          /\ d.edited = m /\ d.persisted = e.persisted
          /\ d.attempt = NoAttempt /\ d.failure = None
          /\ d.saving = e.saving /\ d.target = e.target /\ d.restoring = e.restoring
          /\ d.state = e.state
      BY <1>a, <3>1, ClosedPage, ZenonT(60) DEF PageStates
    <3> QED
      BY <1>a, <2>1, <3>2
  <2>2. CASE ~b
    <3>1. d = [e EXCEPT !.edited = m]
      BY <1>b, <2>2
    <3>2. /\ d \in PageStates /\ d.open = e.open /\ d.doc = e.doc /\ d.base = e.base
          /\ d.edited = m /\ d.persisted = e.persisted
          /\ d.attempt = e.attempt /\ d.failure = e.failure
          /\ d.saving = e.saving /\ d.target = e.target /\ d.restoring = e.restoring
          /\ d.state = e.state
      BY <1>a, <3>1 DEF PageStates
    <3> QED
      BY <1>a, <2>2, <3>2
  <2> QED
    BY <2>1, <2>2
<1>d. q = IF (d.state = "ERROR" /\ ~CanRetry(d)) \/ d.saving THEN d
          ELSE [d EXCEPT !.state = "DIRTY", !.timer = TRUE]
  BY <1>1, <1>2, <1>a, <1>b, <1>m, ZenonT(60) DEF MarkedDirty, EditedPage
<1>e. pg.failure \in {"conflict", "refused", "invalid"} => pg.state = "ERROR"
  BY DEF PageOK, Shows
<1>3. /\ q \in PageStates /\ q.open = pg.open /\ q.doc = doc /\ q.base = pg.base
      /\ q.edited = n + 1 /\ q.persisted = pg.persisted
      /\ b => q.attempt = NoAttempt /\ q.failure = None
      /\ ~b => q.attempt = pg.attempt /\ q.failure = pg.failure
      /\ q.saving = pg.saving /\ q.target = pg.target /\ q.restoring = pg.restoring
      /\ \/ q.state = pg.state /\ (pg.saving \/ (pg.state = "ERROR" /\ ~b))
         \/ q.state = "DIRTY" /\ ~pg.saving /\ q.failure \in {None, "network"}
  <2>1. CASE (d.state = "ERROR" /\ ~CanRetry(d)) \/ d.saving
    BY <1>c, <1>d, <1>m, <2>1 DEF CanRetry
  <2>2. CASE ~((d.state = "ERROR" /\ ~CanRetry(d)) \/ d.saving)
    <3>1. q = [d EXCEPT !.state = "DIRTY", !.timer = TRUE]
      BY <1>d, <2>2
    <3>2. /\ q \in PageStates /\ q.open = d.open /\ q.doc = d.doc /\ q.base = d.base
          /\ q.edited = d.edited /\ q.persisted = d.persisted /\ q.attempt = d.attempt
          /\ q.failure = d.failure /\ q.saving = d.saving /\ q.target = d.target
          /\ q.restoring = d.restoring /\ q.state = "DIRTY"
      BY <1>c, <3>1, ZenonT(60) DEF PageStates
    <3>3. d.failure \in {None, "network"}
      <4>1. d.failure \in {None, "network", "conflict", "refused", "invalid"}
        BY <1>c DEF PageStates
      <4> QED
        BY <1>c, <1>e, <2>2, <4>1 DEF CanRetry
    <3> QED
      BY <1>c, <1>m, <2>2, <3>2, <3>3, ZenonT(60)
  <2> QED
    BY <2>1, <2>2
<1>4. Keeps(q, projs, v)
  <2>1. /\ pg.base \in 1 .. Len(projs) /\ projs[pg.base].content \ u \subseteq pg.doc
        /\ pg.attempt # NoAttempt =>
              /\ pg.attempt.version \in pg.persisted + 1 .. pg.edited
              /\ pg.attempt.base = pg.base
              /\ pg.attempt.content \ u \subseteq pg.doc
              /\ projs[pg.base].content \ u \subseteq pg.attempt.content
    BY DEF PageOK, Keeps
  <2>2. /\ projs[pg.base].content \ v \subseteq doc
        /\ pg.attempt # NoAttempt =>
              /\ pg.attempt.content \ v \subseteq doc
              /\ projs[pg.base].content \ v \subseteq pg.attempt.content
    BY <2>1
  <2>3. /\ pg.persisted <= n + 1 /\ n + 1 # pg.persisted /\ pg.persisted <= pg.edited
        /\ pg.attempt # NoAttempt => /\ pg.attempt.version # n + 1
                                    /\ pg.attempt.version \in pg.persisted + 1 .. n + 1
    BY <1>0, <2>1 DEF PageOK, Keeps
  <2>4. q.attempt # NoAttempt => q.attempt = pg.attempt
    BY <1>3
  <2> QED
    BY <1>3, <2>1, <2>2, <2>3, <2>4 DEF Keeps
<1>5. pg.saving => ~b
  BY <1>1 DEF PageOK, Shows
<1>6. Shows(q, projs)
  BY <1>0, <1>3, <1>5, ZenonT(60) DEF PageOK, Shows, None
<1>7. Waits(p, q, w)
  BY <1>3, <1>5 DEF PageOK, Waits
<1>8. OwnKey(q, projs, w)
  BY <1>0, <1>3 DEF PageOK, OwnKey
<1>9. PageOK(p, q, projs, snaps, w, v, n + 1)
  BY <1>3, <1>4, <1>6, <1>7, <1>8 DEF PageOK
<1>10. Numbers(q) \subseteq Numbers(pg) \cup {n + 1}
  BY <1>3, ClosedPage DEF Numbers
<1> QED
  BY <1>3, <1>9, <1>10

\* The page shows the same document.
SameView(pg, q) == q.open = pg.open /\ q.doc = pg.doc

\* The save of page pg may fail so: with a conflict only after another write, and
\* no request is left that the page waits for.
Failing(p, pg, projs, w, x, failure) ==
    /\ pg.saving /\ failure \in {"network", "conflict", "refused", "invalid"}
    /\ failure = "conflict" =>
          \E i \in pg.attempt.base + 1 .. Len(projs) : projs[i].key # pg.attempt.version
    /\ \A r \in x : ~(r.live /\ r.page = p) /\ \E s \in w : Copy(r, s)

\* A save that fails.
LEMMA FailedPage ==
    ASSUME NEW p \in Pages, NEW pg \in PageStates, NEW projs, NEW snaps, NEW w, NEW x, NEW u,
           NEW n \in Nat, NEW failure,
           PageOK(p, pg, projs, snaps, w, u, n), Failing(p, pg, projs, w, x, failure),
           NEW q, q = SaveFailed(pg, failure)
    PROVE  /\ q \in PageStates /\ PageOK(p, q, projs, snaps, x, u, n)
           /\ Numbers(q) \subseteq Numbers(pg) /\ SameView(pg, q)
<1> /\ pg.saving /\ failure \in {"network", "conflict", "refused", "invalid"}
    /\ failure = "conflict" =>
          \E i \in pg.attempt.base + 1 .. Len(projs) : projs[i].key # pg.attempt.version
    /\ \A r \in x : ~(r.live /\ r.page = p) /\ \E s \in w : Copy(r, s)
  BY DEF Failing
<1>0. /\ pg.edited \in Nat /\ pg.attempt.version \in Nat /\ pg.attempt \in Attempts
      /\ pg.persisted \in Nat /\ pg.attempt # NoAttempt /\ pg.restoring # "request"
      /\ pg.attempt.version \in pg.persisted + 1 .. pg.edited
  BY DEF PageStates, Attempts, PageOK, Shows, Keeps
<1>1. PICK b \in BOOLEAN : b <=> (failure = "invalid" /\ pg.edited > pg.attempt.version)
  OBVIOUS
<1>2. PICK e : e = [pg EXCEPT !.saving = FALSE,
                              !.failure = IF b THEN None ELSE failure,
                              !.attempt = IF b THEN NoAttempt ELSE @,
                              !.state = IF b THEN "DIRTY" ELSE "ERROR",
                              !.timer = IF b THEN TRUE ELSE @]
  OBVIOUS
<1>a. /\ e \in PageStates /\ e.open = pg.open /\ e.doc = pg.doc /\ e.base = pg.base
      /\ e.edited = pg.edited /\ e.persisted = pg.persisted
      /\ b => e.attempt = NoAttempt /\ e.failure = None /\ e.state = "DIRTY"
      /\ ~b => e.attempt = pg.attempt /\ e.failure = failure /\ e.state = "ERROR"
      /\ ~e.saving /\ e.restoring = pg.restoring
  <2>1. CASE b
    BY <1>2, <2>1, ClosedPage, ZenonT(60) DEF PageStates, None
  <2>2. CASE ~b
    BY <1>2, <2>2, ZenonT(60) DEF PageStates
  <2> QED
    BY <2>1, <2>2
<1>b. q = FlushFailed(e)
  BY <1>1, <1>2 DEF SaveFailed
<1>c. /\ q \in PageStates /\ q.open = e.open /\ q.doc = e.doc /\ q.base = e.base
      /\ q.edited = e.edited /\ q.persisted = e.persisted /\ q.attempt = e.attempt
      /\ q.failure = e.failure /\ q.saving = e.saving /\ q.state = e.state
      /\ q.restoring \in {"no", e.restoring} /\ q.restoring # "flush"
  BY <1>a, <1>b, ZenonT(60) DEF PageStates, FlushFailed
<1>3. /\ q \in PageStates /\ q.open = pg.open /\ q.doc = pg.doc /\ q.base = pg.base
      /\ q.edited = pg.edited /\ q.persisted = pg.persisted
      /\ b => q.attempt = NoAttempt /\ q.failure = None /\ q.state = "DIRTY"
      /\ ~b => q.attempt = pg.attempt /\ q.failure = failure /\ q.state = "ERROR"
      /\ ~q.saving /\ q.restoring \in {"no", pg.restoring} /\ q.restoring # "flush"
  BY <1>a, <1>c
<1>4. pg.open
  BY <1>0, ClosedPage DEF PageOK, Shows
<1>5. Keeps(q, projs, u)
  BY <1>0, <1>3 DEF PageOK, Keeps
<1>6. Shows(q, projs)
  BY <1>0, <1>3, <1>4 DEF Shows, None
<1>7. Waits(p, q, x)
  BY <1>0, <1>3 DEF Waits
<1>8. \A r \in x : r.kind = "save" =>
         \E s \in w : s.kind = "save" /\ s.key = r.key /\ s.base = r.base /\ s.content = r.content
  BY DEF Copy
<1>9. OwnKey(q, projs, x)
  <2>1. CASE b
    <3>1. q.edited > q.persisted /\ pg.attempt.version # pg.edited
      BY <1>0, <1>1, <1>3, <2>1
    <3> QED
      BY <1>0, <1>3, <1>8, <2>1, <3>1 DEF PageOK, OwnKey
  <2>2. CASE ~b
    BY <1>0, <1>3, <1>8, <2>2 DEF PageOK, OwnKey
  <2> QED
    BY <2>1, <2>2
<1>10. PageOK(p, q, projs, snaps, x, u, n)
  BY <1>3, <1>5, <1>6, <1>7, <1>9 DEF PageOK, SameView
<1>11. Numbers(q) \subseteq Numbers(pg)
  BY <1>3, ClosedPage DEF Numbers
<1> QED
  BY <1>3, <1>10, <1>11 DEF SameView

-----------------------------------------------------------------------------
(* The steps of a page.                                                    *)

\* What no step may lose (NoEditLost).
Lossless ==
    /\ Len(projections') > Revision /\ projections'[Revision + 1].key # NoKey
          => Current.content \ undone \subseteq projections'[Revision + 1].content
    /\ \A p \in Pages :
          (/\ page[p].open /\ count'.edits = count.edits
           /\ page'[p].doc # page[p].doc \/ ~page'[p].open
           /\ ~(page[p].state = "ERROR" /\ page[p].failure = "conflict")
           /\ page[p].leaving # "gap")
             => \E i \in DOMAIN projections' : projections'[i].content = page[p].doc

\* What is stored, by type.
LEMMA Stored ==
    ASSUME Typed
    PROVE  /\ Revision = Len(projections) /\ Len(projections) \in Nat \ {0}
           /\ Len(snapshots) \in Nat \ {0} /\ count \in Counts
           /\ count.edits \in Nat /\ DOMAIN projections = 1 .. Len(projections)
           /\ \A i \in 1 .. Len(projections) :
                 /\ projections[i] \in Projections /\ projections[i].content \in SUBSET Marks
                 /\ projections[i].key \in Nat
           /\ \A v \in 1 .. Len(snapshots) :
                 snapshots[v] \in Snapshots /\ snapshots[v].content \in SUBSET Marks
<1>1. /\ Revision = Len(projections) /\ Len(projections) \in Nat \ {0}
      /\ Len(snapshots) \in Nat \ {0} /\ count \in Counts
      /\ count.edits \in Nat /\ DOMAIN projections = 1 .. Len(projections)
  BY DEF Typed, Revision, Counts
<1>2. /\ \A i \in 1 .. Len(projections) : projections[i] \in Projections
      /\ \A v \in 1 .. Len(snapshots) : snapshots[v] \in Snapshots
  BY DEF Typed
<1>3. Marks \cup {NoKey} \subseteq Nat
  BY DEF Marks, NoKey
<1>4. \A x \in Projections : x.content \in SUBSET Marks /\ x.key \in Nat
  BY <1>3 DEF Projections
<1>5. \A x \in Snapshots : x.content \in SUBSET Marks
  BY DEF Snapshots
<1> QED
  BY <1>1, <1>2, <1>4, <1>5

\* A step that leaves the storage alone.
LEMMA PageStep ==
    ASSUME IInv, NEW p \in Pages, NEW q \in PageStates, page' = [page EXCEPT ![p] = q],
           UNCHANGED <<projections, snapshots>>, count' \in Counts, count.edits <= count'.edits,
           undone \subseteq undone', undone' \subseteq Marks,
           PageOK(p, q, projections, snapshots, wire', undone', count'.edits),
           Numbers(q) \subseteq Numbers(page[p]) \cup (count.edits + 1 .. count'.edits),
           Moved(p, q, projections, snapshots, wire, wire')
    PROVE  IInv'
<1>1. Typed'
  BY DEF IInv, Typed, Moved
<1>2. Len(projections) \in Nat /\ Len(snapshots) \in Nat
  BY DEF IInv, Typed
<1>3. Grown(projections, projections', wire)
  BY <1>2 DEF Grown, Extends
<1>4. KeysOnce(projections', count'.edits)
  <2>1. count.edits \in Nat /\ count'.edits \in Nat
    BY DEF IInv, Typed, Counts
  <2>2. \A i \in 1 .. Len(projections) : projections[i].key \in Nat
    BY Stored DEF IInv
  <2>3. \A i \in 1 .. Len(projections) : projections[i].key <= count.edits
    BY DEF IInv, KeysOnce
  <2> QED
    BY <2>1, <2>2, <2>3 DEF IInv, KeysOnce
<1>5. History(projections', snapshots')
  BY DEF IInv
<1>6. PageOK(p, q, projections', snapshots', wire', undone', count'.edits)
  OBVIOUS
<1>7. Moved(p, q, projections', snapshots', wire, wire')
  OBVIOUS
<1>8. Len(snapshots) <= Len(snapshots')
  BY <1>2
<1> QED
  BY <1>1, <1>3, <1>4, <1>5, <1>6, <1>7, <1>8, StepOfPage

\* What a flush or a save loop leaves, without a new projection.
LEMMA LeftStep ==
    ASSUME IInv, NEW p \in Pages, NEW q \in PageStates, page' = [page EXCEPT ![p] = q], NEW pg,
           pg.doc = page[p].doc, Numbers(pg) = Numbers(page[p]),
           Left(p, pg, q, projections, snapshots, wire, wire', undone, count.edits),
           UNCHANGED <<projections, snapshots, undone>>, count' \in Counts, count'.edits = count.edits
    PROVE  IInv' /\ Lossless
<1>1. IInv'
  <2>1. undone' \subseteq Marks /\ count.edits \in Nat /\ count.edits <= count'.edits
    BY DEF IInv, Typed, Counts
  <2>2. /\ PageOK(p, q, projections, snapshots, wire', undone', count'.edits)
        /\ Moved(p, q, projections, snapshots, wire, wire')
    BY DEF Left
  <2>3. Numbers(q) \subseteq Numbers(page[p]) \cup (count.edits + 1 .. count'.edits)
    BY DEF Left
  <2> QED
    BY <2>1, <2>2, <2>3, PageStep
<1>2. page'[p] = q /\ \A o \in Pages \ {p} : page'[o] = page[o]
  BY DEF IInv, Typed
<1>3. ASSUME NEW o \in Pages, page[o].open, page'[o].doc # page[o].doc \/ ~page'[o].open
      PROVE  \E i \in DOMAIN projections' : projections'[i].content = page[o].doc
  <2>1. o = p /\ ~q.open
    BY <1>2, <1>3 DEF Left
  <2>2. pg.base \in 1 .. Len(projections) /\ projections[pg.base].content = pg.doc
    BY <2>1 DEF Left
  <2>3. DOMAIN projections = 1 .. Len(projections)
    BY DEF IInv, Typed
  <2> QED
    BY <2>1, <2>2, <2>3
<1>4. ~(Len(projections') > Revision)
  BY DEF IInv, Typed, Revision
<1> QED
  BY <1>1, <1>3, <1>4 DEF Lossless

\* What is known of a page.
LEMMA KnownPage ==
    ASSUME IInv, NEW p \in Pages
    PROVE  /\ page[p] \in PageStates /\ page \in [Pages -> PageStates]
           /\ PageOK(p, page[p], projections, snapshots, wire, undone, count.edits)
           /\ ~page[p].open => page[p] = Closed
           /\ count.edits \in Nat /\ Len(projections) \in Nat \ {0} /\ Len(snapshots) \in Nat \ {0}
           /\ wire \subseteq Saves \cup Restores /\ undone \subseteq Marks
           /\ page[p].attempt \in Attempts
<1>1. page[p] \in PageStates
  BY DEF IInv, Typed
<1>2. page[p].attempt \in Attempts
  BY <1>1 DEF PageStates
<1> QED
  BY <1>1, <1>2 DEF IInv, Typed, PageOK, Shows, Counts

\* loadCurrentDocument.
LEMMA OpenStep ==
    ASSUME IInv, NEW p \in Pages, Open(p)
    PROVE  IInv' /\ Lossless
<1>1. page[p] = Closed /\ PageOK(p, Closed, projections, snapshots, wire, undone, count.edits)
  BY KnownPage DEF Open
<1>2. PICK q : q = Fresh(TRUE, Current.content, Revision)
  OBVIOUS
<1>3. /\ Current.content \in SUBSET Marks /\ Revision \in 1 .. Len(projections) /\ Revision \in Nat
      /\ count \in Counts
  BY Stored DEF IInv, Current
<1>4. /\ q \in PageStates /\ q.open /\ q.doc = Current.content /\ q.base = Revision
      /\ q.edited = 0 /\ q.persisted = 0 /\ q.attempt = NoAttempt /\ q.state = "IDLE"
      /\ q.failure = None /\ ~q.saving /\ ~q.timer /\ q.restoring = "no"
  BY <1>2, <1>3, ClosedPage DEF Fresh, PageStates, None
<1>5. PageOK(p, q, projections, snapshots, wire, undone, count.edits)
  <2>1. Keeps(q, projections, undone) /\ Shows(q, projections)
    BY <1>3, <1>4 DEF Keeps, Shows, Current, None
  <2>2. Waits(p, q, wire)
    BY <1>1, <1>4, ClosedPage DEF PageOK, Waits
  <2> QED
    BY <1>4, <2>1, <2>2, KnownPage DEF PageOK, OwnKey
<1>6. Numbers(q) = {}
  BY <1>4, ClosedPage DEF Numbers
<1>7. IInv'
  <2>1. /\ page' = [page EXCEPT ![p] = q]
        /\ UNCHANGED <<projections, snapshots, wire, undone, count>>
    BY <1>2 DEF Open
  <2>2. Moved(p, q, projections, snapshots, wire, wire')
    BY <2>1, KnownPage, NothingMoved
  <2>3. count' \in Counts /\ count.edits <= count'.edits /\ undone' \subseteq Marks
    BY <1>3, <2>1, KnownPage
  <2>4. PageOK(p, q, projections, snapshots, wire', undone', count'.edits)
    BY <1>5, <2>1
  <2> QED
    BY <1>4, <1>6, <2>1, <2>2, <2>3, <2>4, PageStep
<1>8. ~page[p].open /\ \A o \in Pages \ {p} : page'[o] = page[o]
  BY <1>1, ClosedPage, KnownPage DEF Open
<1>9. ~(Len(projections') > Revision)
  BY <1>3 DEF Open, Revision
<1> QED
  BY <1>7, <1>8, <1>9 DEF Lossless

\* Edits and undos.
LEMMA ChangeStep ==
    ASSUME IInv, NEW p \in Pages, NEW doc \in SUBSET Marks, Change(p, doc),
           undone \subseteq undone', undone' \subseteq Marks, page[p].doc \ undone' \subseteq doc
    PROVE  IInv' /\ Lossless
<1>1. page[p].open /\ page[p].restoring = "no"
  BY DEF Change, Editable
<1>2. /\ \A r \in wire : r.kind = "save" => r.key \in 1 .. count.edits
      /\ \A i \in 1 .. Len(projections) : projections[i].key \in 0 .. count.edits
  <2>1. \A r \in wire : r.kind = "save" => r.key \in 1 .. count.edits
    BY DEF IInv, RequestOK
  <2>2. \A i \in 1 .. Len(projections) : projections[i].key \in Nat
    BY Stored DEF IInv
  <2>3. \A i \in 1 .. Len(projections) : projections[i].key <= count.edits
    BY DEF IInv, KeysOnce
  <2> QED
    BY <2>1, <2>2, <2>3, KnownPage
<1>3. PICK q : q = EditedPage(page[p], doc, count.edits + 1)
  OBVIOUS
<1>4. /\ q \in PageStates /\ q.open
      /\ PageOK(p, q, projections, snapshots, wire, undone', count.edits + 1)
      /\ Numbers(q) \subseteq Numbers(page[p]) \cup {count.edits + 1}
  <2> PICK pg \in PageStates : pg = page[p]
    BY KnownPage
  <2>1. /\ PageOK(p, pg, projections, snapshots, wire, undone, count.edits)
        /\ count.edits \in Nat /\ q = EditedPage(pg, doc, count.edits + 1)
    BY <1>3, KnownPage
  <2>2. Editing(pg, doc, projections, wire, undone, undone', count.edits)
    BY <1>1, <1>2 DEF Editing
  <2> QED
    <3>1. PICK n \in Nat : n = count.edits
      BY <2>1
    <3>2. PICK v : v = undone'
      OBVIOUS
    <3>3. /\ PageOK(p, pg, projections, snapshots, wire, undone, n)
          /\ Editing(pg, doc, projections, wire, undone, v, n)
          /\ q = EditedPage(pg, doc, n + 1)
      BY <2>1, <2>2, <3>1, <3>2
    <3>4. /\ q \in PageStates /\ PageOK(p, q, projections, snapshots, wire, v, n + 1)
          /\ Numbers(q) \subseteq Numbers(pg) \cup {n + 1} /\ q.open
      BY <3>3, DirtyPage
    <3> QED
      BY <3>1, <3>2, <3>4
<1>5. count' \in Counts /\ count'.edits = count.edits + 1
  <2>1. count \in Counts /\ count.edits < MaxEdits /\ MaxEdits \in Nat
    BY ContentAssumption DEF IInv, Typed, Change
  <2> QED
    BY <2>1 DEF Change, Used, Counts
<1>6. page' = [page EXCEPT ![p] = q] /\ UNCHANGED <<projections, snapshots, wire>>
  BY <1>3 DEF Change, EditedPage
<1>7. IInv'
  <2>1. Moved(p, q, projections, snapshots, wire, wire')
    BY <1>6, KnownPage, NothingMoved
  <2>2. count.edits \in Nat /\ count.edits <= count'.edits
    BY <1>5, KnownPage
  <2>3. PageOK(p, q, projections, snapshots, wire', undone', count'.edits)
    BY <1>4, <1>5, <1>6
  <2>4. count.edits + 1 \in count.edits + 1 .. count'.edits
    BY <1>5, <2>2
  <2>5. Numbers(q) \subseteq Numbers(page[p]) \cup (count.edits + 1 .. count'.edits)
    BY <1>4, <2>4
  <2> QED
    BY <1>4, <1>5, <1>6, <2>1, <2>2, <2>3, <2>5, PageStep
<1>8. ~(Len(projections') > Revision) /\ count'.edits # count.edits
  BY <1>5, <1>6, KnownPage DEF Revision
<1> QED
  BY <1>7, <1>8 DEF Lossless

\* An edit adds a mark, an undo takes one away.
LEMMA EditStep ==
    ASSUME IInv, NEW p \in Pages, Edit(p) \/ Undo(p)
    PROVE  IInv' /\ Lossless
<1>1. page[p].doc \in SUBSET Marks /\ undone \subseteq Marks
  BY KnownPage DEF PageStates
<1>2. CASE Edit(p)
  <2>1. count.edits + 1 \in Marks
    BY <1>2, KnownPage, ContentAssumption DEF Edit, Change, Marks
  <2> QED
    BY <1>1, <1>2, <2>1, ChangeStep DEF Edit
<1>3. CASE Undo(p)
  <2>1. PICK m \in page[p].doc : Change(p, page[p].doc \ {m}) /\ undone' = undone \cup {m}
    BY <1>3 DEF Undo
  <2> QED
    BY <1>1, <2>1, ChangeStep
<1> QED
  BY <1>2, <1>3

\* Autosave, the retry button, a restore and a navigation begin with a flush.
LEMMA FlushStep ==
    ASSUME IInv, NEW p \in Pages, Autosave(p) \/ Retry(p) \/ Restore(p) \/ Navigate(p)
    PROVE  IInv' /\ Lossless
<1>1. count \in Counts /\ page[p] \in PageStates
  BY DEF IInv, Typed
<1>2. page[p].open
  BY KnownPage, ClosedPage DEF Autosave, Retry, Restore, Navigate
<1>3. ASSUME NEW pg \in PageStates, Flush(p, pg), pg.open,
             PageOK(p, pg, projections, snapshots, wire, undone, count.edits),
             pg.doc = page[p].doc, Numbers(pg) = Numbers(page[p]),
             UNCHANGED <<projections, snapshots, undone>>, count' \in Counts, count'.edits = count.edits
      PROVE  IInv' /\ Lossless
  <2>1. PICK q \in PageStates :
           /\ page' = [page EXCEPT ![p] = q]
           /\ Left(p, pg, q, projections, snapshots, wire, wire', undone, count.edits)
    BY <1>3, KnownPage, FlushLeaves
  <2> QED
    BY <1>3, <2>1, LeftStep
<1>4. CASE Autosave(p) \/ Retry(p)
  BY <1>1, <1>2, <1>3, <1>4, KnownPage DEF Autosave, Retry
<1>5. CASE Restore(p)
  <2>1. PICK target \in 1 .. Len(snapshots) :
           Flush(p, [page[p] EXCEPT !.restoring = "flush", !.target = target])
    BY <1>5 DEF Restore
  <2>2. PICK pg : pg = [page[p] EXCEPT !.restoring = "flush", !.target = target]
    OBVIOUS
  <2> PICK pg0 \in PageStates : pg0 = page[p]
    BY <1>1
  <2>7. target \in Nat
    BY <2>1, KnownPage
  <2>3. /\ pg \in PageStates /\ pg.open = page[p].open /\ pg.doc = page[p].doc
        /\ pg.base = page[p].base /\ pg.edited = page[p].edited
        /\ pg.persisted = page[p].persisted /\ pg.attempt = page[p].attempt
        /\ pg.state = page[p].state /\ pg.failure = page[p].failure
        /\ pg.saving = page[p].saving /\ pg.timer = page[p].timer
        /\ pg.target = target /\ pg.restoring = "flush"
    BY <2>7, <2>2 DEF PageStates
  <2>4. page[p].restoring = "no"
    BY <1>5 DEF Restore
  <2>5. PageOK(p, pg, projections, snapshots, wire, undone, count.edits)
    BY <1>2, <2>1, <2>3, <2>4, KnownPage DEF PageOK, Keeps, Shows, Waits, OwnKey
  <2>6. count' \in Counts /\ count'.edits = count.edits
    <3>1. PICK n \in Nat : n = count.restores + 1
      BY <1>1 DEF Counts
    <3>2. count' = [count EXCEPT !["restores"] = n]
      BY <1>5, <3>1 DEF Restore, Used
    <3> QED
      BY <1>1, <3>2 DEF Counts
  <2> QED
    BY <1>2, <1>3, <1>5, <2>1, <2>2, <2>3, <2>5, <2>6 DEF Restore, Numbers
<1>6. CASE Navigate(p)
  <2>1. PICK pg : pg = [page[p] EXCEPT !.leaving = "flush"]
    OBVIOUS
  <2>2. /\ pg \in PageStates /\ pg.open = page[p].open /\ pg.doc = page[p].doc
        /\ pg.base = page[p].base /\ pg.edited = page[p].edited
        /\ pg.persisted = page[p].persisted /\ pg.attempt = page[p].attempt
        /\ pg.state = page[p].state /\ pg.failure = page[p].failure
        /\ pg.saving = page[p].saving /\ pg.timer = page[p].timer
        /\ pg.target = page[p].target /\ pg.restoring = page[p].restoring
    BY <1>1, <2>1 DEF PageStates
  <2>3. RestoreRequest(p, pg) = RestoreRequest(p, page[p])
    BY <2>2 DEF RestoreRequest
  <2>4. PageOK(p, pg, projections, snapshots, wire, undone, count.edits)
    BY <1>2, <2>2, <2>3, KnownPage DEF PageOK, Keeps, Shows, Waits, OwnKey
  <2> QED
    BY <1>1, <1>2, <1>3, <1>6, <2>1, <2>2, <2>4 DEF Navigate, Numbers
<1> QED
  BY <1>4, <1>5, <1>6

\* A page that is disposed of or reloaded.
LEMMA CloseStep ==
    ASSUME IInv, NEW p \in Pages, Leave(p) \/ Discard(p)
    PROVE  IInv' /\ Lossless
<1>1. /\ page' = [page EXCEPT ![p] = Closed] /\ wire' = Detach(p, wire)
      /\ UNCHANGED <<projections, snapshots, undone, count>>
      /\ page[p].leaving = "gap" \/ (page[p].state = "ERROR" /\ page[p].failure = "conflict")
  BY DEF Leave, Discard
<1>2. /\ wire' \subseteq Saves \cup Restores
      /\ \A r \in wire' : /\ r.page = p => ~r.live
                          /\ \E s \in wire : Copy(r, s) /\ (r.page # p => r = s)
      /\ \A s \in wire : s.page # p => s \in wire'
  BY <1>1, Detached, KnownPage
<1>3. /\ PageOK(p, Closed, projections, snapshots, wire', undone, count.edits) /\ Numbers(Closed) = {}
      /\ Moved(p, Closed, projections, snapshots, wire, wire')
  BY <1>2, ClosedOK, KnownPage DEF Moved
<1>4. IInv'
  <2>1. count' \in Counts /\ count'.edits = count.edits
    BY <1>1 DEF IInv, Typed
  <2> QED
    <3>1. PageOK(p, Closed, projections, snapshots, wire', undone', count'.edits)
      BY <1>1, <1>3
    <3>2. undone \subseteq undone' /\ undone' \subseteq Marks /\ count.edits <= count'.edits
      BY <1>1, <2>1, KnownPage
    <3> QED
      BY <1>1, <1>3, <2>1, <3>1, <3>2, ClosedPage, PageStep
<1>5. ~(Len(projections') > Revision) /\ \A o \in Pages \ {p} : page'[o] = page[o]
  BY <1>1, KnownPage DEF Revision
<1> QED
  BY <1>1, <1>4, <1>5 DEF Lossless

-----------------------------------------------------------------------------
(* What the server stores.                                                 *)

\* A save without a snapshot keeps the history, unless it is the first change.
LEMMA HistoryOfSave ==
    ASSUME NEW projs \in Seq(Projections), NEW snaps \in Seq(Snapshots), NEW x \in Projections,
           History(projs, snaps), Len(snaps) > 1, x.key # NoKey
    PROVE  History(Append(projs, x), snaps)
<1>1. PICK next : next = Append(projs, x)
  OBVIOUS
<1>2. /\ Len(next) = Len(projs) + 1 /\ Len(projs) \in Nat /\ next[Len(projs) + 1] = x
      /\ \A i \in 1 .. Len(projs) : next[i] = projs[i]
  BY <1>1, Appending
<1>3. \A i \in 2 .. Len(next) : next[i].key = NoKey => i \in 2 .. Len(projs) /\ projs[i].key = NoKey
  BY <1>2
<1>4. \A v \in 1 .. Len(snaps) :
          snaps[v].base \in 1 .. Len(next) /\ snaps[v].content = next[snaps[v].base].content
  BY <1>2 DEF History
<1> QED
  BY <1>1, <1>3, <1>4 DEF History

\* A change whose snapshot holds it keeps the history.
LEMMA HistoryOfChange ==
    ASSUME NEW projs \in Seq(Projections), NEW snaps \in Seq(Snapshots), snaps # <<>>,
           NEW x \in Projections, NEW s \in Snapshots, History(projs, snaps),
           s.base = Len(projs) + 1, s.content = x.content,
           x.key = NoKey => /\ s.source = "RESTORE" /\ s.from \in 1 .. Len(snaps)
                            /\ s.content = snaps[s.from].content
    PROVE  History(Append(projs, x), Append(snaps, s))
<1>1. PICK next : next = Append(projs, x)
  OBVIOUS
<1>2. PICK later : later = Append(snaps, s)
  OBVIOUS
<1>3. /\ Len(next) = Len(projs) + 1 /\ Len(projs) \in Nat /\ next[Len(projs) + 1] = x
      /\ \A i \in 1 .. Len(projs) : next[i] = projs[i]
  BY <1>1, Appending
<1>4. /\ Len(later) = Len(snaps) + 1 /\ Len(snaps) \in Nat \ {0} /\ later[Len(snaps) + 1] = s
      /\ \A v \in 1 .. Len(snaps) : later[v] = snaps[v]
  BY <1>2, Appending
<1>5. \A v \in 1 .. Len(snaps) :
          snaps[v].base \in 1 .. Len(projs) /\ snaps[v].content = projs[snaps[v].base].content
  BY DEF History
<1>6. \A v \in 1 .. Len(later) :
          later[v].base \in 1 .. Len(next) /\ later[v].content = next[later[v].base].content
  <2>1. ASSUME NEW v \in 1 .. Len(snaps)
        PROVE  later[v].base \in 1 .. Len(next) /\ later[v].content = next[later[v].base].content
    BY <1>3, <1>4, <1>5, SMTT(60)
  <2>2. /\ later[Len(snaps) + 1].base \in 1 .. Len(next)
        /\ later[Len(snaps) + 1].content = next[later[Len(snaps) + 1].base].content
    BY <1>3, <1>4
  <2>3. \A v \in 1 .. Len(later) : v \in 1 .. Len(snaps) \/ v = Len(snaps) + 1
    BY <1>4
  <2> QED
    BY <2>1, <2>2, <2>3
<1>7. \A v, o \in 1 .. Len(later) : v < o => later[v].base <= later[o].base
  <2>1. ASSUME NEW v \in 1 .. Len(later), NEW o \in 1 .. Len(later), v < o
        PROVE  later[v].base <= later[o].base
    <3>1. v \in 1 .. Len(snaps) /\ later[v].base = snaps[v].base
      BY <1>4, <2>1
    <3>2. CASE o \in 1 .. Len(snaps)
      BY <1>4, <2>1, <3>1, <3>2 DEF History
    <3>3. CASE o = Len(snaps) + 1
      BY <1>3, <1>4, <1>5, <3>1, <3>3
    <3> QED
      BY <1>4, <3>2, <3>3
  <2> QED
    BY <2>1
<1>8. \A i \in 2 .. Len(next) : next[i].key = NoKey =>
          \E v \in 1 .. Len(later) :
             /\ later[v].source = "RESTORE" /\ later[v].base = i
             /\ later[v].from \in 1 .. Len(later)
             /\ later[v].content = later[later[v].from].content
  <2>1. ASSUME NEW i \in 2 .. Len(next), next[i].key = NoKey
        PROVE  \E v \in 1 .. Len(later) :
                  /\ later[v].source = "RESTORE" /\ later[v].base = i
                  /\ later[v].from \in 1 .. Len(later)
                  /\ later[v].content = later[later[v].from].content
    <3>1. CASE i = Len(projs) + 1
      <4>1. s.from \in 1 .. Len(snaps) /\ s.source = "RESTORE" /\ s.content = snaps[s.from].content
        BY <1>3, <2>1, <3>1
      <4>2. s.from \in 1 .. Len(later) /\ later[s.from] = snaps[s.from]
        BY <1>4, <4>1
      <4>3. Len(snaps) + 1 \in 1 .. Len(later)
        BY <1>4
      <4> QED
        BY <1>4, <3>1, <4>1, <4>2, <4>3
    <3>2. CASE i \in 2 .. Len(projs)
      <4>1. PICK v \in 1 .. Len(snaps) :
               /\ snaps[v].source = "RESTORE" /\ snaps[v].base = i
               /\ snaps[v].from \in 1 .. Len(snaps)
               /\ snaps[v].content = snaps[snaps[v].from].content
        BY <1>3, <2>1, <3>2 DEF History
      <4>2. later[v] = snaps[v] /\ later[snaps[v].from] = snaps[snaps[v].from]
        BY <1>4, <4>1
      <4>3. v \in 1 .. Len(later) /\ snaps[v].from \in 1 .. Len(later)
        BY <1>4, <4>1
      <4> QED
        BY <4>1, <4>2, <4>3
    <3> QED
      BY <1>3, <3>1, <3>2
  <2> QED
    BY <2>1
<1>9. later[1].base = 1 /\ later[1].source = "INITIAL" /\ Len(later) > 1
  BY <1>4 DEF History
<1> QED
  BY <1>1, <1>2, <1>6, <1>7, <1>8, <1>9, ZenonT(60) DEF History

\* A snapshot of the current projection keeps the history.
LEMMA HistoryOfSnapshot ==
    ASSUME NEW projs \in Seq(Projections), projs # <<>>, NEW snaps \in Seq(Snapshots), snaps # <<>>,
           NEW s \in Snapshots, History(projs, snaps),
           s.base = Len(projs), s.content = projs[Len(projs)].content
    PROVE  History(projs, Append(snaps, s))
<1>2. PICK later : later = Append(snaps, s)
  OBVIOUS
<1>3. Len(projs) \in Nat \ {0}
  OBVIOUS
<1>4. /\ Len(later) = Len(snaps) + 1 /\ Len(snaps) \in Nat \ {0} /\ later[Len(snaps) + 1] = s
      /\ \A v \in 1 .. Len(snaps) : later[v] = snaps[v]
  BY <1>2, Appending
<1>5. \A v \in 1 .. Len(snaps) :
          snaps[v].base \in 1 .. Len(projs) /\ snaps[v].content = projs[snaps[v].base].content
  BY DEF History
<1>6. \A v \in 1 .. Len(later) :
          later[v].base \in 1 .. Len(projs) /\ later[v].content = projs[later[v].base].content
  BY <1>3, <1>4, <1>5
<1>7. \A v, o \in 1 .. Len(later) : v < o => later[v].base <= later[o].base
  <2>1. ASSUME NEW v \in 1 .. Len(later), NEW o \in 1 .. Len(later), v < o
        PROVE  later[v].base <= later[o].base
    <3>1. v \in 1 .. Len(snaps) /\ later[v].base = snaps[v].base
      BY <1>4, <2>1
    <3>2. CASE o \in 1 .. Len(snaps)
      BY <1>4, <2>1, <3>1, <3>2 DEF History
    <3>3. CASE o = Len(snaps) + 1
      BY <1>3, <1>4, <1>5, <3>1, <3>3
    <3> QED
      BY <1>4, <3>2, <3>3
  <2> QED
    BY <2>1
<1>8. \A i \in 2 .. Len(projs) : projs[i].key = NoKey =>
          \E v \in 1 .. Len(later) :
             /\ later[v].source = "RESTORE" /\ later[v].base = i
             /\ later[v].from \in 1 .. Len(later)
             /\ later[v].content = later[later[v].from].content
  <2>1. ASSUME NEW i \in 2 .. Len(projs), projs[i].key = NoKey
        PROVE  \E v \in 1 .. Len(later) :
                  /\ later[v].source = "RESTORE" /\ later[v].base = i
                  /\ later[v].from \in 1 .. Len(later)
                  /\ later[v].content = later[later[v].from].content
    <3>1. PICK v \in 1 .. Len(snaps) :
             /\ snaps[v].source = "RESTORE" /\ snaps[v].base = i
             /\ snaps[v].from \in 1 .. Len(snaps)
             /\ snaps[v].content = snaps[snaps[v].from].content
      BY <2>1 DEF History
    <3>2. later[v] = snaps[v] /\ later[snaps[v].from] = snaps[snaps[v].from]
      BY <1>4, <3>1
    <3>3. v \in 1 .. Len(later) /\ snaps[v].from \in 1 .. Len(later)
      BY <1>4, <3>1
    <3> QED
      BY <3>1, <3>2, <3>3
  <2> QED
    BY <2>1
<1>9. later[1].base = 1 /\ later[1].source = "INITIAL" /\ Len(later) > 1
  BY <1>4 DEF History
<1>10. History(projs, later)
  BY <1>6, <1>7, <1>8, <1>9 DEF History
<1> QED
  BY <1>2, <1>10

\* A projection under a new key.
LEMMA KeysOfChange ==
    ASSUME NEW projs \in Seq(Projections), NEW x \in Projections, NEW n \in Nat,
           KeysOnce(projs, n), x.key <= n,
           \A i \in 1 .. Len(projs) : projs[i].key = x.key => x.key = NoKey
    PROVE  KeysOnce(Append(projs, x), n)
<1>1. PICK next : next = Append(projs, x)
  OBVIOUS
<1>2. /\ Len(next) = Len(projs) + 1 /\ Len(projs) \in Nat /\ next[Len(projs) + 1] = x
      /\ \A i \in 1 .. Len(projs) : next[i] = projs[i]
  BY <1>1, Appending
<1>3. \A i \in 1 .. Len(next) : i \in 1 .. Len(projs) \/ i = Len(projs) + 1
  BY <1>2
<1> QED
  BY <1>1, <1>2, <1>3 DEF KeysOnce

\* What saveDocumentContent stores: nothing, or the request's content in the place
\* of a projection whose edits it holds.
LEMMA SaveStored ==
    ASSUME IInv, NEW r \in wire, NEW due, ServeSave(r, due)
    PROVE  /\ projections' \in Seq(Projections) /\ projections' # <<>>
           /\ snapshots' \in Seq(Snapshots) /\ snapshots' # <<>>
           /\ Grown(projections, projections', wire) /\ Len(snapshots) <= Len(snapshots')
           /\ History(projections', snapshots') /\ KeysOnce(projections', count.edits)
           /\ Len(projections') > Revision =>
                 Current.content \ undone \subseteq projections'[Revision + 1].content
           /\ SaveOutcome(r) = "conflict" =>
                 projections' = projections /\ r.base < Revision /\ Current.key # r.key
           /\ SaveOutcome(r) # "conflict" =>
                 /\ Len(projections') = IF SaveOutcome(r) = "applied" THEN Revision + 1 ELSE Revision
                 /\ projections'[Len(projections')].content = r.content
<1>0. /\ Typed /\ History(projections, snapshots) /\ KeysOnce(projections, count.edits)
      /\ RequestOK(r, projections, snapshots, wire, undone, count.edits)
      /\ projections \in Seq(Projections) /\ projections # <<>>
      /\ snapshots \in Seq(Snapshots) /\ snapshots # <<>>
      /\ r \in Saves \cup Restores
  BY DEF IInv, Typed
<1>1. /\ Revision = Len(projections) /\ Len(projections) \in Nat \ {0} /\ Len(snapshots) \in Nat \ {0}
      /\ count.edits \in Nat /\ Current = projections[Len(projections)]
      /\ Current.key \in Nat
  BY <1>0, Stored DEF Current
<1>2. /\ r.kind = "save" /\ r.content \in SUBSET Marks /\ r.base \in 1 .. Len(projections)
      /\ r.key \in 1 .. count.edits
      /\ projections[r.base].content \ undone \subseteq r.content
      /\ \A i \in 1 .. Len(projections) : projections[i].key = r.key =>
            i = r.base + 1 /\ projections[i].content = r.content
  BY <1>0 DEF ServeSave, RequestOK, Saves, Restores
<1>3. CASE SaveOutcome(r) # "applied"
  <2>1. UNCHANGED <<projections, snapshots>>
    BY <1>3 DEF ServeSave
  <2>2. Grown(projections, projections', wire)
    BY <1>1, <2>1 DEF Grown, Extends
  <2>3. SaveOutcome(r) = "conflict" => r.base < Revision /\ Current.key # r.key
    BY <1>1, <1>2 DEF SaveOutcome
  <2>4. SaveOutcome(r) # "conflict" => Current.content = r.content
    BY <1>1, <1>2, <1>3 DEF SaveOutcome
  <2> QED
    BY <1>0, <1>1, <1>3, <2>1, <2>2, <2>3, <2>4
<1>4. CASE SaveOutcome(r) = "applied"
  <2>1. Revision = r.base /\ Current.key # r.key /\ Current.content # r.content
    BY <1>4 DEF SaveOutcome
  <2>2. PICK x : x = [content |-> r.content, key |-> r.key]
    OBVIOUS
  <2>3. projections' = Append(projections, x) /\ snapshots' = AutoSnapshot(r.content, due)
    BY <1>4, <2>2 DEF ServeSave
  <2>4. x \in Projections /\ x.content = r.content /\ x.key = r.key
    <3>1. r.key \in Marks
      <4>1. count.edits \in 0 .. MaxEdits /\ MaxEdits \in Nat
        BY <1>0, Stored, ContentAssumption DEF Counts
      <4> QED
        BY <1>2, <4>1 DEF Marks
    <3> QED
      BY <1>2, <2>2, <3>1 DEF Projections
  <2>5. /\ projections' \in Seq(Projections) /\ projections' # <<>>
        /\ Len(projections') = Len(projections) + 1
        /\ projections'[Len(projections) + 1] = x
        /\ \A i \in 1 .. Len(projections) : projections'[i] = projections[i]
    BY <1>0, <2>3, <2>4, Appending
  <2>6. Grown(projections, projections', wire)
    <3>1. PICK k \in Nat : k = Len(projections)
      BY <1>1
    <3>2. Len(projections') = k + 1 /\ r.base = k /\ projections'[k + 1] = x
      BY <1>1, <2>1, <2>5, <3>1
    <3>3. Extends(projections, projections')
      BY <2>5, <3>1, <3>2 DEF Extends
    <3>4. \A i \in k + 1 .. k + 1 : i = k + 1
      OBVIOUS
    <3> QED
      BY <1>2, <2>4, <3>1, <3>2, <3>3, <3>4 DEF Grown
  <2>7. KeysOnce(projections', count.edits)
    <3>1. \A i \in 1 .. Len(projections) : projections[i].key = x.key => x.key = NoKey
      BY <1>1, <1>2, <2>1, <2>4
    <3>2. x.key <= count.edits
      BY <1>1, <1>2, <2>4
    <3> QED
      BY <1>0, <1>1, <2>3, <2>4, <3>1, <3>2, KeysOfChange
  <2>8. x.key # NoKey
    BY <1>1, <1>2, <2>4 DEF NoKey
  <2>9. /\ snapshots' \in Seq(Snapshots) /\ snapshots' # <<>>
        /\ Len(snapshots) <= Len(snapshots')
        /\ History(projections', snapshots')
    <3>1. PICK latest : latest = snapshots[Len(snapshots)]
      OBVIOUS
    <3>2. CASE (latest.source = "INITIAL" \/ due) /\ latest.content # r.content
      <4>1. PICK s : s = [base |-> Revision + 1, content |-> r.content, source |-> "AUTO", from |-> 0]
        OBVIOUS
      <4>2. s \in Snapshots /\ s.base = Len(projections) + 1 /\ s.content = x.content
        BY <1>1, <1>2, <2>4, <4>1 DEF Snapshots
      <4>3. snapshots' = Append(snapshots, s)
        BY <2>3, <3>1, <3>2, <4>1 DEF AutoSnapshot
      <4>4. History(Append(projections, x), Append(snapshots, s))
        BY <1>0, <2>4, <2>8, <4>2, HistoryOfChange
      <4>5. /\ Append(snapshots, s) \in Seq(Snapshots) /\ Append(snapshots, s) # <<>>
            /\ Len(Append(snapshots, s)) = Len(snapshots) + 1
        BY <1>0, <4>2, Appending
      <4> QED
        BY <1>1, <2>3, <4>3, <4>4, <4>5
    <3>3. CASE ~((latest.source = "INITIAL" \/ due) /\ latest.content # r.content)
      <4>1. snapshots' = snapshots
        BY <2>3, <3>1, <3>3 DEF AutoSnapshot
      <4>2. Len(snapshots) > 1
        <5> SUFFICES ASSUME ~(Len(snapshots) > 1) PROVE FALSE
          OBVIOUS
        <5>1. Len(snapshots) = 1 /\ Len(projections) = 1
          <6>1. Len(projections) > 1 => Len(snapshots) > 1
            BY <1>0 DEF History
          <6>2. \A k \in Nat \ {0} : k > 1 \/ k = 1
            OBVIOUS
          <6> QED
            BY <1>1, <6>1, <6>2
        <5>2. latest.source = "INITIAL" /\ latest.content = projections[1].content
          BY <1>0, <3>1, <5>1 DEF History
        <5> QED
          BY <1>1, <2>1, <3>3, <5>1, <5>2
      <4>3. History(Append(projections, x), snapshots)
        BY <1>0, <2>4, <2>8, <4>2, HistoryOfSave
      <4> QED
        BY <1>0, <1>1, <2>3, <4>1, <4>3
    <3> QED
      BY <3>2, <3>3
  <2> QED
    BY <1>1, <1>2, <1>4, <2>1, <2>4, <2>5, <2>6, <2>7, <2>9
<1> QED
  BY <1>3, <1>4

\* What restoreDocumentVersionSnapshot stores: a projection with the content of
\* the snapshot, and a snapshot of it.
LEMMA RestoreStored ==
    ASSUME IInv, NEW r \in wire, ServeRestore(r), Revision = r.base,
           NEW content, content = snapshots[r.target].content
    PROVE  /\ projections' \in Seq(Projections) /\ projections' # <<>>
           /\ snapshots' \in Seq(Snapshots) /\ snapshots' # <<>>
           /\ Grown(projections, projections', wire) /\ Len(snapshots) <= Len(snapshots')
           /\ History(projections', snapshots') /\ KeysOnce(projections', count.edits)
           /\ Len(projections') = Revision + 1 /\ content \in SUBSET Marks
           /\ projections'[Revision + 1].content = content
           /\ projections'[Revision + 1].key = NoKey
<1>0. /\ Typed /\ History(projections, snapshots) /\ KeysOnce(projections, count.edits)
      /\ RequestOK(r, projections, snapshots, wire, undone, count.edits)
      /\ projections \in Seq(Projections) /\ projections # <<>>
      /\ snapshots \in Seq(Snapshots) /\ snapshots # <<>>
      /\ r.kind = "restore"
  BY DEF IInv, Typed, ServeRestore
<1>1. /\ Revision = Len(projections) /\ Len(projections) \in Nat \ {0} /\ Len(snapshots) \in Nat \ {0}
      /\ count.edits \in Nat
  BY <1>0, Stored
<1>2. r.target \in 1 .. Len(snapshots) /\ content \in SUBSET Marks
  BY <1>0, Stored DEF RequestOK
<1>3. PICK x : x = [content |-> content, key |-> NoKey]
  OBVIOUS
<1>4. x \in Projections /\ x.content = content /\ x.key = NoKey
  BY <1>2, <1>3 DEF Projections
<1>5. PICK s : s = RestoreSnapshot(r.target)
  OBVIOUS
<1>6. /\ s \in Snapshots /\ s.base = Len(projections) + 1 /\ s.content = content
      /\ s.source = "RESTORE" /\ s.from = r.target
  <2>1. r.target \in Nat /\ Revision + 1 \in Nat
    BY <1>1, <1>2
  <2>2. s = [base |-> Revision + 1, content |-> content, source |-> "RESTORE", from |-> r.target]
    BY <1>5 DEF RestoreSnapshot
  <2> QED
    BY <1>1, <1>2, <2>1, <2>2 DEF Snapshots
<1>7. projections' = Append(projections, x) /\ snapshots' = Append(snapshots, s)
  BY <1>3, <1>5 DEF ServeRestore
<1>8. History(Append(projections, x), Append(snapshots, s))
  BY <1>0, <1>2, <1>4, <1>6, HistoryOfChange
<1>9. KeysOnce(Append(projections, x), count.edits)
  BY <1>0, <1>1, <1>4, KeysOfChange DEF NoKey
<1>10. /\ projections' \in Seq(Projections) /\ projections' # <<>>
       /\ Len(projections') = Len(projections) + 1
       /\ projections'[Len(projections) + 1] = x
       /\ \A i \in 1 .. Len(projections) : projections'[i] = projections[i]
  BY <1>0, <1>4, <1>7, Appending
<1>11. /\ snapshots' \in Seq(Snapshots) /\ snapshots' # <<>>
       /\ Len(snapshots') = Len(snapshots) + 1
  BY <1>0, <1>6, <1>7, Appending
<1>12. Grown(projections, projections', wire)
  <2>1. \A i \in Len(projections) + 1 .. Len(projections') : i = Len(projections) + 1
    BY <1>1, <1>10
  <2> QED
    BY <1>1, <1>4, <1>10, <2>1 DEF Grown, Extends
<1> QED
  BY <1>1, <1>2, <1>4, <1>7, <1>8, <1>9, <1>10, <1>11, <1>12

-----------------------------------------------------------------------------
(* The steps of a request.                                                 *)

\* A request a page waits for is what the page is about, and its only one.
LEMMA LiveRequest ==
    ASSUME IInv, NEW r \in wire, r.live, NEW p, p = r.page
    PROVE  /\ p \in Pages /\ page[p].open
           /\ \A s \in wire : s.live /\ s.page = p => s = r
           /\ r.kind = "save" =>
                 /\ page[p].saving /\ page[p].attempt # NoAttempt /\ page[p].restoring # "request"
                 /\ r.base = page[p].attempt.base /\ r.key = page[p].attempt.version
                 /\ r.content = page[p].attempt.content
           /\ r.kind = "restore" =>
                 /\ page[p].restoring = "request" /\ page[p].state = "SAVED" /\ ~page[p].saving
                 /\ page[p].edited = page[p].persisted /\ page[p].attempt = NoAttempt
           /\ r.kind \in {"save", "restore"}
<1>1. p \in Pages /\ r.kind \in {"save", "restore"}
  BY DEF IInv, Typed, Saves, Restores
<1>2. PICK pg \in PageStates : pg = page[p]
  BY <1>1, KnownPage
<1>3. PageOK(p, pg, projections, snapshots, wire, undone, count.edits) /\ pg.attempt \in Attempts
  BY <1>1, <1>2, KnownPage
<1>4. \A s \in wire : s.live /\ s.page = p =>
          \/ pg.saving /\ s = SaveRequest(p, pg.attempt)
          \/ pg.restoring = "request" /\ s = RestoreRequest(p, pg)
  BY <1>3 DEF PageOK, Waits
<1>5. pg.restoring = "request" => pg.state = "SAVED" /\ ~pg.saving
  BY <1>3 DEF PageOK, Shows
<1>6. pg.saving => pg.attempt # NoAttempt
  BY <1>3 DEF PageOK, Shows
<1>7. pg.state = "SAVED" => pg.edited = pg.persisted /\ pg.attempt = NoAttempt
  <2>1. pg.edited \in Nat /\ pg.persisted \in Nat
    BY DEF PageStates
  <2> QED
    BY <1>3, <2>1 DEF PageOK, Shows, Keeps
<1>8. pg.open
  <2>1. pg.saving \/ pg.restoring = "request"
    BY <1>4
  <2> QED
    BY <1>3, <2>1, ClosedPage DEF PageOK, Shows
<1>9. /\ SaveRequest(p, pg.attempt).kind = "save" /\ RestoreRequest(p, pg).kind = "restore"
      /\ SaveRequest(p, pg.attempt).base = pg.attempt.base
      /\ SaveRequest(p, pg.attempt).key = pg.attempt.version
      /\ SaveRequest(p, pg.attempt).content = pg.attempt.content
  BY <1>1, <1>2, <1>3, RequestFields
<1>10. \A s \in wire : s.live /\ s.page = p => s = r
  BY <1>4, <1>5
<1> QED
  BY <1>1, <1>2, <1>4, <1>5, <1>6, <1>7, <1>8, <1>9, <1>10

\* A request nobody waits for is taken off the wire.
LEMMA DeadStep ==
    ASSUME IInv, NEW r \in wire, ~r.live, wire' = wire \ {r}, UNCHANGED <<page, undone>>,
           count' \in Counts, count'.edits = count.edits,
           projections' \in Seq(Projections), projections' # <<>>,
           snapshots' \in Seq(Snapshots), snapshots' # <<>>,
           Grown(projections, projections', wire), Len(snapshots) <= Len(snapshots'),
           History(projections', snapshots'), KeysOnce(projections', count.edits)
    PROVE  IInv'
<1>1. PICK p \in Pages : p = r.page
  BY DEF IInv, Typed, Saves, Restores
<1>2. PICK pg \in PageStates : pg = page[p]
  BY <1>1, KnownPage
<1>3. /\ PageOK(p, pg, projections, snapshots, wire, undone, count.edits) /\ pg.attempt \in Attempts
      /\ count.edits \in Nat /\ Len(projections) \in Nat /\ Len(snapshots) \in Nat
  BY <1>1, <1>2, KnownPage
<1>4. Typed'
  BY DEF IInv, Typed
<1>5. Len(projections') \in Nat /\ Len(snapshots') \in Nat /\ Extends(projections, projections')
  BY DEF Grown
<1>6. Keeps(pg, projections', undone) /\ Shows(pg, projections')
  BY <1>3, <1>5, OthersKeep DEF PageOK
<1>7. Waits(p, pg, wire')
  <2>1. SaveRequest(p, pg.attempt).live /\ RestoreRequest(p, pg).live
    BY <1>1, <1>2, <1>3, RequestFields
  <2> QED
    BY <1>3, <2>1 DEF PageOK, Waits
<1>8. OwnKey(pg, projections', wire')
  <2>1. pg.persisted \in Nat /\ pg.edited \in Nat /\ pg.attempt.version \in Nat
    BY <1>3 DEF PageStates, Attempts
  <2>2. pg.persisted <= pg.edited /\ (pg.attempt # NoAttempt => pg.attempt.version > 0)
    BY <1>3, <2>1 DEF PageOK, Keeps
  <2>3. \A s \in wire' : s.kind = "save" =>
           \/ \E t \in wire : t.kind = "save" /\ t.key = s.key /\ t.base = s.base /\ t.content = s.content
           \/ s.key \notin Numbers(pg)
    OBVIOUS
  <2> QED
    BY <1>3, <1>5, <2>2, <2>3, OthersKeys DEF PageOK
<1>9. PageOK(p, pg, projections', snapshots', wire', undone', count'.edits)
  <2>1. pg.restoring = "flush" => pg.target \in 1 .. Len(snapshots')
    BY <1>3, <1>5 DEF PageOK
  <2>2. pg.edited <= count.edits
    BY <1>3 DEF PageOK
  <2> QED
    BY <1>6, <1>7, <1>8, <2>1, <2>2 DEF PageOK
<1>10. page' = [page EXCEPT ![p] = pg]
  BY <1>1, <1>2, KnownPage
<1>11. Moved(p, pg, projections', snapshots', wire, wire')
  <2>1. wire' \subseteq Saves \cup Restores
    BY <1>4 DEF Typed
  <2>2. \A s \in wire' : s \in wire /\ Copy(s, s)
    BY DEF Copy
  <2>3. \A s \in wire : s.page # p => s \in wire'
    BY <1>1
  <2> QED
    BY <2>1, <2>2, <2>3 DEF Moved
<1>12. Numbers(pg) \subseteq Numbers(page[p]) \cup (count.edits + 1 .. count'.edits)
  BY <1>2
<1>13. KeysOnce(projections', count'.edits) /\ undone \subseteq undone' /\ count.edits <= count'.edits
  BY <1>3
<1> QED
  BY <1>4, <1>9, <1>10, <1>11, <1>12, <1>13, StepOfPage

\* A failed request ends the save or the restore of its page.
LEMMA FailStep ==
    ASSUME IInv, NEW r \in wire, r.live,
           NEW failure \in {"network", "conflict", "refused", "invalid"},
           RequestFailed(r.page, r, failure),
           r.kind = "save" /\ failure = "conflict" =>
              \E i \in r.base + 1 .. Len(projections) : projections[i].key # r.key,
           wire' \subseteq Saves \cup Restores,
           \A s \in wire' : /\ ~(s.live /\ s.page = r.page)
                            /\ \E t \in wire : Copy(s, t) /\ (s.page # r.page => s = t),
           \A s \in wire : s.page # r.page => s \in wire',
           UNCHANGED <<projections, snapshots, undone>>, count' \in Counts, count'.edits = count.edits
    PROVE  IInv' /\ Lossless
<1>1. PICK p \in Pages : p = r.page
  BY DEF IInv, Typed, Saves, Restores
<1>2. PICK pg \in PageStates : pg = page[p]
  BY <1>1, KnownPage
<1>3. /\ PageOK(p, pg, projections, snapshots, wire, undone, count.edits) /\ pg.attempt \in Attempts
      /\ count.edits \in Nat /\ Len(projections) \in Nat /\ Len(snapshots) \in Nat
      /\ undone \subseteq Marks /\ page \in [Pages -> PageStates]
  BY <1>1, <1>2, KnownPage
<1>4. PICK q : q = IF r.kind = "save" THEN SaveFailed(pg, failure)
                   ELSE [pg EXCEPT !.restoring = "no"]
  OBVIOUS
<1>5. page' = [page EXCEPT ![p] = q]
  BY <1>1, <1>2, <1>3, <1>4 DEF RequestFailed
<1>6. /\ q \in PageStates /\ PageOK(p, q, projections, snapshots, wire', undone, count.edits)
      /\ Numbers(q) \subseteq Numbers(pg) /\ q.open = pg.open /\ q.doc = pg.doc
  <2>1. CASE r.kind = "save"
    <3>1. pg.saving /\ r.base = pg.attempt.base /\ r.key = pg.attempt.version
      BY <1>1, <1>2, <2>1, LiveRequest
    <3>2. failure = "conflict" =>
             \E i \in pg.attempt.base + 1 .. Len(projections) : projections[i].key # pg.attempt.version
      BY <2>1, <3>1
    <3>3. \A s \in wire' : ~(s.live /\ s.page = p) /\ \E t \in wire : Copy(s, t)
      BY <1>1
    <3>4. q = SaveFailed(pg, failure)
      BY <1>4, <2>1
    <3>5. Failing(p, pg, projections, wire, wire', failure)
      BY <3>1, <3>2, <3>3 DEF Failing
    <3>6. PageOK(p, pg, projections, snapshots, wire, undone, count.edits) /\ count.edits \in Nat
      BY <1>3
    <3>7. PICK x : x = wire'
      OBVIOUS
    <3>8. Failing(p, pg, projections, wire, x, failure)
      BY <3>5, <3>7
    <3>9. PICK n \in Nat : n = count.edits
      BY <3>6
    <3>10. PageOK(p, pg, projections, snapshots, wire, undone, n)
      BY <3>6, <3>9
    <3>11. PageOK(p, q, projections, snapshots, x, undone, n)
      BY <3>4, <3>8, <3>10, FailedPage
    <3>12. q \in PageStates
      BY <3>4, <3>8, <3>10, FailedPage
    <3>13. Numbers(q) \subseteq Numbers(pg)
      BY <3>4, <3>8, <3>10, FailedPage
    <3>14. SameView(pg, q)
      BY <3>4, <3>8, <3>10, FailedPage
    <3> QED
      BY <3>7, <3>9, <3>11, <3>12, <3>13, <3>14 DEF SameView
  <2>2. CASE r.kind # "save"
    <3>1. pg.restoring = "request" /\ pg.state = "SAVED" /\ ~pg.saving /\ pg.attempt = NoAttempt
          /\ pg.edited = pg.persisted /\ pg.open
      BY <1>1, <1>2, <2>2, LiveRequest
    <3>2. q = [pg EXCEPT !.restoring = "no"]
      BY <1>4, <2>2
    <3>3. /\ q \in PageStates /\ q.open = pg.open /\ q.doc = pg.doc /\ q.base = pg.base
          /\ q.edited = pg.edited /\ q.persisted = pg.persisted /\ q.attempt = pg.attempt
          /\ q.state = pg.state /\ q.failure = pg.failure /\ q.saving = pg.saving
          /\ q.restoring = "no"
      BY <3>2 DEF PageStates
    <3>4. Keeps(q, projections, undone) /\ Shows(q, projections)
      BY <1>3, <3>1, <3>3 DEF PageOK, Keeps, Shows
    <3>5. Waits(p, q, wire')
      BY <1>1, <3>1, <3>3 DEF Waits
    <3>6. OwnKey(q, projections, wire')
      <4>1. q.edited \in Nat /\ q.persisted \in Nat
        BY <3>3 DEF PageStates
      <4> QED
        BY <3>1, <3>3, <4>1 DEF OwnKey
    <3>7. Numbers(q) = Numbers(pg)
      BY <3>3 DEF Numbers
    <3> QED
      BY <1>3, <3>3, <3>4, <3>5, <3>6, <3>7 DEF PageOK
  <2> QED
    BY <2>1, <2>2
<1>7. IInv'
  <2>1. Moved(p, q, projections, snapshots, wire, wire')
    BY <1>1 DEF Moved
  <2>2. /\ PageOK(p, q, projections, snapshots, wire', undone', count'.edits)
        /\ Numbers(q) \subseteq Numbers(page[p]) \cup (count.edits + 1 .. count'.edits)
    BY <1>2, <1>6
  <2>3. count.edits <= count'.edits /\ undone \subseteq undone' /\ undone' \subseteq Marks
    BY <1>3
  <2> QED
    BY <1>5, <1>6, <2>1, <2>2, <2>3, PageStep
<1>8. \A o \in Pages : page[o].open => page'[o].doc = page[o].doc /\ page'[o].open
  BY <1>2, <1>3, <1>5, <1>6
<1>9. ~(Len(projections') > Revision)
  BY <1>3 DEF Revision
<1> QED
  BY <1>7, <1>8, <1>9 DEF Lossless

\* saveDocumentContent, and the reply in a page that waits.
LEMMA SaveStep ==
    ASSUME IInv, NEW r \in wire, NEW due, ServeSave(r, due), UNCHANGED <<undone, count>>
    PROVE  IInv' /\ Lossless
<1>1. /\ projections' \in Seq(Projections) /\ projections' # <<>>
      /\ snapshots' \in Seq(Snapshots) /\ snapshots' # <<>>
      /\ Grown(projections, projections', wire) /\ Len(snapshots) <= Len(snapshots')
      /\ History(projections', snapshots') /\ KeysOnce(projections', count.edits)
  BY SaveStored
<1>2. Len(projections') > Revision =>
         Current.content \ undone \subseteq projections'[Revision + 1].content
  BY SaveStored
<1>3. count' \in Counts /\ count'.edits = count.edits /\ r.kind = "save"
  BY DEF IInv, Typed, ServeSave
<1>4. CASE ~r.live
  <2>1. wire' = wire \ {r} /\ UNCHANGED <<page, undone>>
    BY <1>4 DEF ServeSave
  <2>2. IInv'
    BY <1>1, <1>3, <1>4, <2>1, DeadStep
  <2>3. \A o \in Pages : page[o].open => page'[o].doc = page[o].doc /\ page'[o].open
    BY <2>1
  <2> QED
    BY <1>2, <2>2, <2>3 DEF Lossless
<1>5. CASE r.live /\ SaveOutcome(r) = "conflict"
  <2>1. /\ RequestFailed(r.page, r, "conflict") /\ wire' = wire \ {r}
        /\ UNCHANGED <<projections, snapshots>>
    BY <1>5 DEF ServeSave
  <2>2. \E i \in r.base + 1 .. Len(projections) : projections[i].key # r.key
    <3>1. r.base < Revision /\ Current.key # r.key
      BY <1>5, SaveStored
    <3>2. /\ r.base \in Nat /\ Revision = Len(projections) /\ Len(projections) \in Nat
          /\ Current = projections[Len(projections)]
      <4>1. r.base \in Nat
        BY DEF IInv, Typed, Saves, Restores
      <4> QED
        BY <4>1, Stored DEF IInv, Current
    <3> QED
      BY <3>1, <3>2
  <2>3. \A s \in wire' : /\ ~(s.live /\ s.page = r.page)
                         /\ \E t \in wire : Copy(s, t) /\ (s.page # r.page => s = t)
    <3>1. \A s \in wire : s.live /\ s.page = r.page => s = r
      BY <1>5, LiveRequest
    <3> QED
      BY <2>1, <3>1 DEF Copy
  <2>4. wire' \subseteq Saves \cup Restores /\ \A s \in wire : s.page # r.page => s \in wire'
    BY <2>1 DEF IInv, Typed
  <2>5. UNCHANGED <<projections, snapshots, undone>> /\ r.live
    BY <1>5, <2>1
  <2> QED
    BY <1>3, <2>1, <2>2, <2>3, <2>4, <2>5, FailStep
<1>6. CASE r.live /\ SaveOutcome(r) # "conflict"
  <2>1. PICK p \in Pages : p = r.page
    BY DEF IInv, Typed, Saves, Restores
  <2>2. PICK pg \in PageStates : pg = page[p]
    BY KnownPage
  <2>3. /\ PageOK(p, pg, projections, snapshots, wire, undone, count.edits) /\ pg.attempt \in Attempts
        /\ count.edits \in Nat /\ Len(projections) \in Nat /\ Len(snapshots) \in Nat
        /\ undone \subseteq Marks /\ page \in [Pages -> PageStates]
        /\ wire \subseteq Saves \cup Restores
    BY <2>2, KnownPage
  <2>4. /\ pg.open /\ pg.saving /\ pg.attempt # NoAttempt /\ pg.restoring # "request"
        /\ r.base = pg.attempt.base /\ r.key = pg.attempt.version
        /\ r.content = pg.attempt.content
        /\ \A s \in wire : s.live /\ s.page = p => s = r
    BY <1>3, <1>6, <2>1, <2>2, LiveRequest
  <2>5. /\ pg.edited \in Nat /\ pg.persisted \in Nat /\ pg.attempt.version \in Nat
        /\ pg.attempt.version \in pg.persisted + 1 .. pg.edited
        /\ pg.attempt.version = pg.edited => pg.attempt.content = pg.doc
        /\ pg.attempt.content \ undone \subseteq pg.doc
    <3>1. pg.edited \in Nat /\ pg.persisted \in Nat /\ pg.attempt.version \in Nat
      BY <2>3 DEF PageStates, Attempts
    <3> QED
      BY <2>3, <2>4, <3>1 DEF PageOK, Keeps
  <2>6. PICK revision : revision = IF SaveOutcome(r) = "applied" THEN Revision + 1 ELSE Revision
    OBVIOUS
  <2>7. /\ revision = Len(projections') /\ projections'[revision].content = pg.attempt.content
        /\ revision \in 1 .. Len(projections') /\ revision \in Nat /\ Len(projections') \in Nat
        /\ Len(snapshots') \in Nat
    <3>1. Len(projections') \in Nat \ {0} /\ Len(snapshots') \in Nat
      BY <1>1
    <3>2. revision = Len(projections') /\ projections'[Len(projections')].content = r.content
      BY <1>6, <2>6, SaveStored
    <3> QED
      BY <2>4, <3>1, <3>2
  <2>8. PICK pg1 : pg1 = [pg EXCEPT !.attempt = NoAttempt, !.failure = None, !.base = revision,
                                    !.persisted = IF @ > pg.attempt.version THEN @
                                                  ELSE pg.attempt.version]
    OBVIOUS
  <2>9. SaveLoop(p, pg1, wire \ {r})
    <3>1. Persisted(r.page, r, revision, wire \ {r})
      BY <1>6, <2>6 DEF ServeSave
    <3> QED
      BY <2>1, <2>2, <2>8, <3>1 DEF Persisted
  <2>10. /\ pg1 \in PageStates /\ pg1.open = pg.open /\ pg1.doc = pg.doc /\ pg1.base = revision
         /\ pg1.edited = pg.edited /\ pg1.persisted = pg.attempt.version
         /\ pg1.attempt = NoAttempt /\ pg1.failure = None /\ pg1.restoring = pg.restoring
         /\ pg1.target = pg.target
    <3>1. ~(pg.persisted > pg.attempt.version)
      BY <2>5
    <3>2. pg1 = [pg EXCEPT !.attempt = NoAttempt, !.failure = None, !.base = revision,
                           !.persisted = pg.attempt.version]
      BY <2>8, <3>1
    <3> QED
      BY <2>5, <2>7, <3>2, ClosedPage DEF PageStates, None
  <2>11. Keeps(pg1, projections', undone)
    <3>1. pg1.persisted <= pg1.edited
      BY <2>5, <2>10
    <3>2. pg1.edited = pg1.persisted => projections'[pg1.base].content = pg1.doc
      BY <2>5, <2>7, <2>10
    <3>3. projections'[pg1.base].content \ undone \subseteq pg1.doc /\ pg1.base \in 1 .. Len(projections')
      BY <2>5, <2>7, <2>10
    <3> QED
      BY <2>10, <3>1, <3>2, <3>3 DEF Keeps
  <2>12. OwnKey(pg1, projections', wire \ {r})
    <3>1. OwnKey(pg, projections', wire \ {r})
      <4>1. \A s \in wire \ {r} : s.kind = "save" =>
               \/ \E t \in wire : t.kind = "save" /\ t.key = s.key /\ t.base = s.base /\ t.content = s.content
               \/ s.key \notin Numbers(pg)
        OBVIOUS
      <4>2. OwnKey(pg, projections, wire) /\ pg.persisted <= pg.edited /\ pg.attempt.version > 0
        BY <2>3, <2>5 DEF PageOK
      <4> QED
        BY <1>1, <2>3, <2>7, <4>1, <4>2, OthersKeys
    <3>2. pg1.edited > pg1.persisted => pg.attempt.version # pg.edited /\ pg.edited > pg.persisted
      BY <2>5, <2>10
    <3> QED
      BY <2>10, <3>1, <3>2 DEF OwnKey
  <2>13. Steady(p, pg1, projections', snapshots', wire \ {r}, undone, count.edits)
    <3>1. pg1.edited <= count.edits
      BY <2>3, <2>10 DEF PageOK
    <3>2. pg1.restoring = "flush" => pg1.target \in 1 .. Len(snapshots')
      <4>1. pg.restoring = "flush" => pg.target \in 1 .. Len(snapshots)
        BY <2>3 DEF PageOK
      <4> QED
        BY <1>1, <2>3, <2>7, <2>10, <4>1
    <3>3. ~\E s \in wire \ {r} : s.live /\ s.page = p
      BY <2>4
    <3> QED
      BY <2>4, <2>10, <2>11, <2>12, <3>1, <3>2, <3>3 DEF Steady
  <2>14. PICK q \in PageStates :
            /\ page' = [page EXCEPT ![p] = q]
            /\ Left(p, pg1, q, projections', snapshots', wire \ {r}, wire', undone, count.edits)
    <3>1. wire \ {r} \subseteq Saves \cup Restores
      BY <2>3
    <3> QED
      BY <2>3, <2>7, <2>9, <2>10, <2>13, <3>1, SaveLoopLeaves
  <2>15. Moved(p, q, projections', snapshots', wire, wire')
    <3>1. Moved(p, q, projections', snapshots', wire \ {r}, wire')
      BY <2>14 DEF Left
    <3> QED
      BY <2>1, <3>1 DEF Moved
  <2>16. IInv'
    <3>1. wire' \subseteq Saves \cup Restores
      BY <2>15 DEF Moved
    <3>2. page' \in [Pages -> PageStates]
      BY <2>3, <2>14
    <3>3. Typed'
      BY <1>1, <1>3, <2>3, <3>1, <3>2 DEF Typed
    <3>4. PageOK(p, q, projections', snapshots', wire', undone', count'.edits)
      BY <1>3, <2>14 DEF Left
    <3>5. Numbers(q) \subseteq Numbers(page[p])
      <4>1. Numbers(pg1) \subseteq Numbers(pg)
        BY <2>10, ClosedPage DEF Numbers
      <4> QED
        BY <2>2, <2>14, <4>1 DEF Left
    <3>6. Numbers(q) \subseteq Numbers(page[p]) \cup (count.edits + 1 .. count'.edits)
      BY <3>5
    <3>7. undone \subseteq undone' /\ count.edits <= count'.edits /\ KeysOnce(projections', count'.edits)
      BY <1>1, <1>3, <2>3
    <3> QED
      BY <1>1, <2>14, <2>15, <3>3, <3>4, <3>6, <3>7, StepOfPage
  <2>17. ASSUME NEW o \in Pages, page[o].open, page'[o].doc # page[o].doc \/ ~page'[o].open
         PROVE  \E i \in DOMAIN projections' : projections'[i].content = page[o].doc
    <3>1. o = p /\ page'[p] = q
      BY <2>2, <2>3, <2>14, <2>17
    <3>2. ~q.open
      BY <2>2, <2>10, <2>14, <2>17, <3>1 DEF Left
    <3>3. pg1.base \in 1 .. Len(projections') /\ projections'[pg1.base].content = pg.doc
      BY <2>10, <2>14, <3>2 DEF Left
    <3>4. DOMAIN projections' = 1 .. Len(projections')
      BY <1>1
    <3> QED
      BY <2>2, <3>1, <3>3, <3>4
  <2> QED
    BY <1>2, <2>16, <2>17 DEF Lossless
<1> QED
  BY <1>4, <1>5, <1>6

\* restoreDocumentVersionSnapshot, and applyRestoredSnapshot in a page that waits.
LEMMA RestoreStep ==
    ASSUME IInv, NEW r \in wire, ServeRestore(r), UNCHANGED <<undone, count>>
    PROVE  IInv' /\ Lossless
<1>1. count' \in Counts /\ count'.edits = count.edits /\ r.kind = "restore" /\ wire' = wire \ {r}
  BY DEF IInv, Typed, ServeRestore
<1>2. CASE Revision # r.base
  <2>1. UNCHANGED <<projections, snapshots>>
    BY <1>2 DEF ServeRestore
  <2>2. Len(projections) \in Nat /\ Revision = Len(projections)
    BY Stored DEF IInv
  <2>3. CASE ~r.live
    <3>1. UNCHANGED page
      BY <1>2, <2>3 DEF ServeRestore
    <3>2. IInv'
      <4>1. Grown(projections, projections', wire) /\ Len(snapshots) <= Len(snapshots')
        <5>1. Len(snapshots) \in Nat
          BY Stored DEF IInv
        <5> QED
          BY <2>1, <2>2, <5>1 DEF Grown, Extends
      <4>2. /\ projections' \in Seq(Projections) /\ projections' # <<>>
            /\ snapshots' \in Seq(Snapshots) /\ snapshots' # <<>>
            /\ History(projections', snapshots') /\ KeysOnce(projections', count.edits)
        BY <2>1 DEF IInv, Typed
      <4> QED
        BY <1>1, <2>3, <3>1, <4>1, <4>2, DeadStep
    <3> QED
      BY <2>1, <2>2, <3>1, <3>2 DEF Lossless
  <2>4. CASE r.live
    <3>1. RequestFailed(r.page, r, "conflict")
      BY <1>2, <2>4 DEF ServeRestore
    <3>2. \A s \in wire' : /\ ~(s.live /\ s.page = r.page)
                           /\ \E t \in wire : Copy(s, t) /\ (s.page # r.page => s = t)
      <4>1. \A s \in wire : s.live /\ s.page = r.page => s = r
        BY <2>4, LiveRequest
      <4> QED
        BY <1>1, <4>1 DEF Copy
    <3>3. wire' \subseteq Saves \cup Restores /\ \A s \in wire : s.page # r.page => s \in wire'
      BY <1>1 DEF IInv, Typed
    <3>4. UNCHANGED <<projections, snapshots, undone>>
      BY <2>1
    <3> QED
      BY <1>1, <2>4, <3>1, <3>2, <3>3, <3>4, FailStep
  <2> QED
    BY <2>3, <2>4
<1>3. CASE Revision = r.base
  <2>1. PICK content : content = snapshots[r.target].content
    OBVIOUS
  <2>2. /\ projections' \in Seq(Projections) /\ projections' # <<>>
        /\ snapshots' \in Seq(Snapshots) /\ snapshots' # <<>>
        /\ Grown(projections, projections', wire) /\ Len(snapshots) <= Len(snapshots')
        /\ History(projections', snapshots') /\ KeysOnce(projections', count.edits)
    BY <1>3, <2>1, RestoreStored
  <2>3. /\ Len(projections') = Revision + 1 /\ content \in SUBSET Marks
        /\ projections'[Revision + 1].content = content
        /\ projections'[Revision + 1].key = NoKey
    BY <1>3, <2>1, RestoreStored
  <2>4. CASE ~r.live
    <3>1. UNCHANGED page
      BY <1>3, <2>4 DEF ServeRestore
    <3>2. IInv'
      BY <1>1, <2>2, <2>4, <3>1, DeadStep
    <3> QED
      BY <2>3, <3>1, <3>2 DEF Lossless
  <2>5. CASE r.live
    <3>1. PICK p \in Pages : p = r.page
      BY DEF IInv, Typed, Saves, Restores
    <3>2. PICK pg \in PageStates : pg = page[p]
      BY KnownPage
    <3>3. /\ PageOK(p, pg, projections, snapshots, wire, undone, count.edits)
          /\ count.edits \in Nat /\ Len(projections) \in Nat /\ undone \subseteq Marks
          /\ page \in [Pages -> PageStates] /\ wire \subseteq Saves \cup Restores
      BY <3>2, KnownPage
    <3>4. /\ pg.open /\ pg.edited = pg.persisted
          /\ \A s \in wire : s.live /\ s.page = p => s = r
      BY <1>1, <2>5, <3>1, <3>2, LiveRequest
    <3>5. pg.base \in 1 .. Len(projections) /\ projections[pg.base].content = pg.doc
      BY <3>3, <3>4 DEF PageOK, Keeps
    <3>6. PICK f : f = Fresh(TRUE, content, Revision + 1)
      OBVIOUS
    <3>7. PICK q : q = [f EXCEPT !.leaving = pg.leaving]
      OBVIOUS
    <3>8. page' = [page EXCEPT ![p] = q]
      BY <1>3, <2>1, <2>5, <3>1, <3>2, <3>6, <3>7 DEF ServeRestore
    <3>9. Revision + 1 \in Nat /\ Revision = Len(projections) /\ Len(projections') \in Nat
      BY <2>2, Stored DEF IInv
    <3>10. /\ f \in PageStates /\ f.open /\ f.doc = content /\ f.base = Revision + 1
           /\ f.edited = 0 /\ f.persisted = 0 /\ f.attempt = NoAttempt /\ f.state = "IDLE"
           /\ f.failure = None /\ ~f.saving /\ ~f.timer /\ f.restoring = "no"
      BY <2>3, <3>6, <3>9, ClosedPage DEF Fresh, PageStates, None
    <3>11. /\ q \in PageStates /\ q.open /\ q.doc = content /\ q.base = Revision + 1
           /\ q.edited = 0 /\ q.persisted = 0 /\ q.attempt = NoAttempt /\ q.state = "IDLE"
           /\ q.failure = None /\ ~q.saving /\ ~q.timer /\ q.restoring = "no"
      BY <3>7, <3>10 DEF PageStates
    <3>12. PageOK(p, q, projections', snapshots', wire', undone', count'.edits)
      <4>1. Keeps(q, projections', undone') /\ Shows(q, projections')
        BY <2>3, <3>9, <3>11 DEF Keeps, Shows, None
      <4>2. Waits(p, q, wire')
        BY <1>1, <3>4, <3>11 DEF Waits
      <4>3. OwnKey(q, projections', wire')
        BY <3>11 DEF OwnKey
      <4> QED
        BY <1>1, <3>3, <3>11, <4>1, <4>2, <4>3 DEF PageOK
    <3>13. Moved(p, q, projections', snapshots', wire, wire')
      BY <1>1, <3>1, <3>3 DEF Moved, Copy
    <3>14. IInv'
      <4>1. Typed'
        <5>1. page' \in [Pages -> PageStates]
          BY <3>3, <3>8, <3>11
        <5> QED
          BY <1>1, <2>2, <3>3, <5>1 DEF Typed
      <4>2. Numbers(q) \subseteq Numbers(page[p]) \cup (count.edits + 1 .. count'.edits)
        BY <3>11, ClosedPage DEF Numbers
      <4>3. undone \subseteq undone' /\ count.edits <= count'.edits /\ KeysOnce(projections', count'.edits)
        BY <1>1, <2>2, <3>3
      <4> QED
        BY <2>2, <3>8, <3>11, <3>12, <3>13, <4>1, <4>2, <4>3, StepOfPage
    <3>15. ASSUME NEW o \in Pages, page[o].open, page'[o].doc # page[o].doc \/ ~page'[o].open
           PROVE  \E i \in DOMAIN projections' : projections'[i].content = page[o].doc
      <4>1. o = p
        BY <3>8, <3>15, <3>3
      <4>2. projections'[pg.base] = projections[pg.base] /\ pg.base \in 1 .. Len(projections')
        BY <2>2, <3>3, <3>5, <3>9 DEF Grown, Extends
      <4>3. DOMAIN projections' = 1 .. Len(projections')
        BY <2>2
      <4> QED
        BY <3>2, <3>5, <4>1, <4>2, <4>3
    <3> QED
      BY <2>3, <3>14, <3>15 DEF Lossless
  <2> QED
    BY <2>4, <2>5
<1> QED
  BY <1>2, <1>3

\* A request that is refused, or that its page stops waiting for.
LEMMA LostStep ==
    ASSUME IInv, NEW r \in wire, GiveUp(r) \/ \E failure \in {"invalid", "refused"} : Reject(r, failure)
    PROVE  IInv' /\ Lossless
<1>1. count \in Counts /\ wire \subseteq Saves \cup Restores /\ r \in Saves \cup Restores
  BY DEF IInv, Typed
<1>2. CASE GiveUp(r)
  <2>1. /\ r.live /\ RequestFailed(r.page, r, "network")
        /\ wire' = (wire \ {r}) \cup {[r EXCEPT !.live = FALSE]}
        /\ UNCHANGED <<projections, snapshots, undone>>
    BY <1>2 DEF GiveUp
  <2>2. count' \in Counts /\ count'.edits = count.edits
    <3>1. PICK n \in Nat : n = count.giveUps + 1
      BY <1>1 DEF Counts
    <3>2. count' = [count EXCEPT !["giveUps"] = n]
      BY <1>2, <3>1 DEF GiveUp, Used
    <3> QED
      BY <1>1, <3>2 DEF Counts
  <2>3. PICK d : d = [r EXCEPT !.live = FALSE]
    OBVIOUS
  <2>4. d \in Saves \cup Restores /\ ~d.live /\ Copy(d, r) /\ d.page = r.page
    BY <1>1, <2>3, DeadRequest DEF Copy
  <2>5. \A s \in wire' : /\ ~(s.live /\ s.page = r.page)
                         /\ \E t \in wire : Copy(s, t) /\ (s.page # r.page => s = t)
    <3>1. \A s \in wire : s.live /\ s.page = r.page => s = r
      BY <2>1, LiveRequest
    <3>2. \A s \in wire' : s = d \/ (s \in wire /\ s # r)
      BY <2>1, <2>3
    <3>3. \A s \in wire : Copy(s, s)
      BY DEF Copy
    <3> QED
      BY <2>4, <3>1, <3>2, <3>3
  <2>6. wire' \subseteq Saves \cup Restores /\ \A s \in wire : s.page # r.page => s \in wire'
    BY <1>1, <2>1, <2>3, <2>4
  <2> QED
    BY <2>1, <2>2, <2>5, <2>6, FailStep
<1>3. CASE \E failure \in {"invalid", "refused"} : Reject(r, failure)
  <2>1. PICK failure \in {"invalid", "refused"} : Reject(r, failure)
    BY <1>3
  <2>2. wire' = wire \ {r} /\ UNCHANGED <<projections, snapshots, undone>>
    BY <2>1 DEF Reject
  <2>3. count' \in Counts /\ count'.edits = count.edits
    <3>1. PICK n \in Nat : n = count.rejects + 1
      BY <1>1 DEF Counts
    <3>2. count' = [count EXCEPT !["rejects"] = n]
      BY <2>1, <3>1 DEF Reject, Used
    <3> QED
      BY <1>1, <3>2 DEF Counts
  <2>4. CASE r.live
    <3>1. RequestFailed(r.page, r, failure)
      BY <2>1, <2>4 DEF Reject
    <3>2. \A s \in wire' : /\ ~(s.live /\ s.page = r.page)
                           /\ \E t \in wire : Copy(s, t) /\ (s.page # r.page => s = t)
      <4>1. \A s \in wire : s.live /\ s.page = r.page => s = r
        BY <2>4, LiveRequest
      <4> QED
        BY <2>2, <4>1 DEF Copy
    <3>3. wire' \subseteq Saves \cup Restores /\ \A s \in wire : s.page # r.page => s \in wire'
      BY <1>1, <2>2
    <3> QED
      BY <2>2, <2>3, <2>4, <3>1, <3>2, <3>3, FailStep
  <2>5. CASE ~r.live
    <3>1. UNCHANGED page
      BY <2>1, <2>5 DEF Reject
    <3>2. Len(projections) \in Nat /\ Len(snapshots) \in Nat /\ Revision = Len(projections)
      BY Stored DEF IInv
    <3>3. Grown(projections, projections', wire) /\ Len(snapshots) <= Len(snapshots')
      BY <2>2, <3>2 DEF Grown, Extends
    <3>4. /\ projections' \in Seq(Projections) /\ projections' # <<>>
          /\ snapshots' \in Seq(Snapshots) /\ snapshots' # <<>>
          /\ History(projections', snapshots') /\ KeysOnce(projections', count.edits)
      BY <2>2 DEF IInv, Typed
    <3>5. IInv'
      BY <2>2, <2>3, <2>5, <3>1, <3>3, <3>4, DeadStep
    <3> QED
      BY <2>2, <3>1, <3>2, <3>5 DEF Lossless
  <2> QED
    BY <2>4, <2>5
<1> QED
  BY <1>2, <1>3

\* createDocumentVersionSnapshot.
LEMMA SnapshotStep ==
    ASSUME IInv, CreateSnapshot
    PROVE  IInv' /\ Lossless
<1>0. /\ Typed /\ History(projections, snapshots) /\ projections \in Seq(Projections)
      /\ projections # <<>> /\ snapshots \in Seq(Snapshots) /\ snapshots # <<>> /\ count \in Counts
      /\ UNCHANGED <<projections, page, wire, undone>>
  BY DEF IInv, Typed, CreateSnapshot
<1>1. /\ Revision = Len(projections) /\ Len(projections) \in Nat \ {0} /\ Len(snapshots) \in Nat
      /\ Current = projections[Len(projections)] /\ Current.content \in SUBSET Marks
  BY <1>0, Stored DEF Current
<1>2. PICK s : s = [base |-> Revision, content |-> Current.content, source |-> "MANUAL", from |-> 0]
  OBVIOUS
<1>3. s \in Snapshots /\ s.base = Len(projections) /\ s.content = projections[Len(projections)].content
  BY <1>1, <1>2 DEF Snapshots
<1>4. snapshots' = Append(snapshots, s)
  BY <1>2 DEF CreateSnapshot
<1>5. /\ snapshots' \in Seq(Snapshots) /\ snapshots' # <<>> /\ Len(snapshots') = Len(snapshots) + 1
  BY <1>0, <1>3, <1>4, Appending
<1>6. History(projections', snapshots')
  <2>1. History(projections, Append(snapshots, s))
    BY <1>0, <1>3, HistoryOfSnapshot
  <2> QED
    BY <1>0, <1>4, <2>1
<1>7. count' \in Counts /\ count'.edits = count.edits
  <2>1. PICK n \in Nat : n = count.snapshots + 1
    BY <1>0 DEF Counts
  <2>2. count' = [count EXCEPT !["snapshots"] = n]
    BY <2>1 DEF CreateSnapshot, Used
  <2> QED
    BY <1>0, <2>2 DEF Counts
<1>8. Typed'
  BY <1>0, <1>5, <1>7 DEF Typed
<1>9. \A i \in 1 .. Len(snapshots) : i \in 1 .. Len(snapshots')
  BY <1>1, <1>5
<1>10. \A p \in Pages :
          PageOK(p, page'[p], projections', snapshots', wire', undone', count'.edits)
  <2> SUFFICES ASSUME NEW p \in Pages
               PROVE  PageOK(p, page'[p], projections', snapshots', wire', undone', count'.edits)
    OBVIOUS
  <2>1. PageOK(p, page[p], projections, snapshots, wire, undone, count.edits)
    BY DEF IInv
  <2> QED
    BY <1>0, <1>7, <1>9, <2>1 DEF PageOK
<1>11. \A r \in wire' : RequestOK(r, projections', snapshots', wire', undone', count'.edits)
  <2> SUFFICES ASSUME NEW r \in wire'
               PROVE  RequestOK(r, projections', snapshots', wire', undone', count'.edits)
    OBVIOUS
  <2>1. RequestOK(r, projections, snapshots, wire, undone, count.edits)
    BY <1>0 DEF IInv
  <2> QED
    BY <1>0, <1>7, <1>9, <2>1 DEF RequestOK
<1>12. \A p, q \in Pages : p # q => Numbers(page'[p]) \cap Numbers(page'[q]) = {}
  BY <1>0 DEF IInv
<1>13. KeysOnce(projections', count'.edits)
  BY <1>0, <1>7 DEF IInv
<1>14. IInv'
  BY <1>6, <1>8, <1>10, <1>11, <1>12, <1>13 DEF IInv
<1> QED
  BY <1>0, <1>1, <1>14 DEF Lossless

-----------------------------------------------------------------------------
(* The theorems.                                                           *)

\* A new document is in order.
LEMMA InitOK == Init => IInv
<1> SUFFICES ASSUME Init PROVE IInv
  OBVIOUS
<1>1. PICK x : x = [content |-> {}, key |-> NoKey]
  OBVIOUS
<1>2. PICK s : s = [base |-> 1, content |-> {}, source |-> "INITIAL", from |-> 0]
  OBVIOUS
<1>3. /\ x \in Projections /\ x.content = {} /\ x.key = NoKey
      /\ s \in Snapshots /\ s.content = {} /\ s.base = 1 /\ s.source = "INITIAL" /\ s.from = 0
  BY <1>1, <1>2 DEF Projections, Snapshots
<1>4. projections = <<x>> /\ snapshots = <<s>> /\ wire = {} /\ undone = {}
  BY <1>1, <1>2 DEF Init
<1>5. /\ projections \in Seq(Projections) /\ Len(projections) = 1 /\ projections[1] = x
      /\ snapshots \in Seq(Snapshots) /\ Len(snapshots) = 1 /\ snapshots[1] = s
      /\ projections # <<>> /\ snapshots # <<>>
  BY <1>3, <1>4
<1>6. count \in Counts /\ count.edits = 0
  BY ContentAssumption DEF Init, Counts
<1>7. page = [p \in Pages |-> Closed]
  BY DEF Init
<1>8. Typed
  BY <1>4, <1>5, <1>6, <1>7, ClosedPage DEF Typed
<1>9. /\ \A p \in Pages : PageOK(p, page[p], projections, snapshots, wire, undone, count.edits)
      /\ \A p, q \in Pages : p # q => Numbers(page[p]) \cap Numbers(page[q]) = {}
  BY <1>4, <1>6, <1>7, ClosedOK
<1>10. \A i \in 1 .. 1 : i = 1
  OBVIOUS
<1>11. History(projections, snapshots)
  <2>3. \A v \in 1 .. Len(snapshots) : v = 1 /\ snapshots[v] = s
    <3>1. 1 .. Len(snapshots) = 1 .. 1
      BY <1>5
    <3> QED
      BY <1>5, <1>10, <3>1
  <2>4. s.base \in 1 .. Len(projections) /\ projections[s.base] = x
    BY <1>3, <1>5
  <2>1. ASSUME NEW v \in 1 .. Len(snapshots)
        PROVE  /\ snapshots[v].base \in 1 .. Len(projections)
               /\ snapshots[v].content = projections[snapshots[v].base].content
    <3>1. snapshots[v] = s
      BY <2>3
    <3> QED
      BY <1>3, <2>4, <3>1
  <2>5. \A v, w \in 1 .. Len(snapshots) : v < w => snapshots[v].base <= snapshots[w].base
    <3>1. ~(1 < 1)
      OBVIOUS
    <3> QED
      BY <2>3, <3>1
  <2>2. \A i \in 2 .. Len(projections) : FALSE
    BY <1>5
  <2> QED
    BY <1>3, <1>5, <2>1, <2>2, <2>5 DEF History
<1>12. KeysOnce(projections, count.edits)
  BY <1>3, <1>5, <1>6, <1>10 DEF KeysOnce, NoKey
<1> QED
  BY <1>4, <1>8, <1>9, <1>11, <1>12 DEF IInv

\* Every step keeps the invariant and loses no edit.
LEMMA StepOK == IInv /\ [Next]_vars => IInv' /\ [Lossless]_vars
<1> SUFFICES ASSUME IInv, [Next]_vars PROVE IInv' /\ [Lossless]_vars
  OBVIOUS
<1>1. CASE UNCHANGED vars
  BY <1>1 DEF IInv, Typed, vars
<1>2. ASSUME NEW p \in Pages, Open(p) PROVE IInv' /\ Lossless
  BY <1>2, OpenStep
<1>3. ASSUME NEW p \in Pages, Edit(p) \/ Undo(p) PROVE IInv' /\ Lossless
  BY <1>3, EditStep
<1>4. ASSUME NEW p \in Pages, Autosave(p) \/ Retry(p) \/ Restore(p) \/ Navigate(p)
      PROVE  IInv' /\ Lossless
  BY <1>4, FlushStep
<1>5. ASSUME NEW p \in Pages, Leave(p) \/ Discard(p) PROVE IInv' /\ Lossless
  BY <1>5, CloseStep
<1>6. ASSUME NEW r \in wire, Serve(r) PROVE IInv' /\ Lossless
  BY <1>6, SaveStep, RestoreStep DEF Serve
<1>7. ASSUME NEW r \in wire, GiveUp(r) PROVE IInv' /\ Lossless
  BY <1>7, LostStep
<1>8. ASSUME NEW r \in wire, NEW failure \in {"invalid", "refused"}, Reject(r, failure)
      PROVE  IInv' /\ Lossless
  BY <1>8, LostStep
<1>9. CASE CreateSnapshot
  BY <1>9, SnapshotStep
<1> QED
  BY <1>1, <1>2, <1>3, <1>4, <1>5, <1>6, <1>7, <1>8, <1>9 DEF Next

\* What the invariant says of one page in the words of the model.
LEMMA PageTrue ==
    ASSUME IInv, NEW p \in Pages
    PROVE  /\ (page[p].saving \/ page[p].restoring = "request") <=>
                 \E r \in wire : r.live /\ r.page = p
           /\ page[p].saving => page[p].attempt # NoAttempt
           /\ page[p].open /\ page[p].state \in {"IDLE", "SAVED"} =>
                 projections[page[p].base].content = page[p].doc
           /\ page[p].state = "ERROR" /\ page[p].failure = "conflict" =>
                 \E i \in page[p].attempt.base + 1 .. Revision :
                    projections[i].key # page[p].attempt.version
<1>1. PICK pg \in PageStates : pg = page[p]
  BY KnownPage
<1>2. PageOK(p, pg, projections, snapshots, wire, undone, count.edits) /\ pg.attempt \in Attempts
  BY <1>1, KnownPage
<1>3. /\ SaveRequest(p, pg.attempt).live /\ SaveRequest(p, pg.attempt).page = p
      /\ RestoreRequest(p, pg).live /\ RestoreRequest(p, pg).page = p
  BY <1>1, <1>2, RequestFields
<1>4. (pg.saving \/ pg.restoring = "request") <=> \E r \in wire : r.live /\ r.page = p
  BY <1>2, <1>3 DEF PageOK, Waits
<1>5. pg.saving => pg.attempt # NoAttempt
  BY <1>2 DEF PageOK, Shows
<1>6. pg.open /\ pg.state \in {"IDLE", "SAVED"} => projections[pg.base].content = pg.doc
  BY <1>2 DEF PageOK, Shows, Keeps
<1>7. pg.state = "ERROR" /\ pg.failure = "conflict" =>
         \E i \in pg.attempt.base + 1 .. Revision : projections[i].key # pg.attempt.version
  BY <1>2 DEF PageOK, Shows, Revision
<1> QED
  BY <1>1, <1>4, <1>5, <1>6, <1>7

\* What the invariant says of history in the words of the model.
LEMMA HistoryTrue ==
    ASSUME IInv
    PROVE  HistoryFaithful
<1>1. /\ Revision = Len(projections) /\ DOMAIN projections = 1 .. Len(projections)
      /\ DOMAIN snapshots = 1 .. Len(snapshots) /\ History(projections, snapshots)
  BY Stored DEF IInv, Typed
<1>2. \A i \in 2 .. Revision : projections[i].key = NoKey =>
         \E v \in DOMAIN snapshots :
            /\ snapshots[v].source = "RESTORE" /\ snapshots[v].base = i
            /\ snapshots[v].content = snapshots[snapshots[v].from].content
  BY <1>1 DEF History
<1>3. /\ \A v \in DOMAIN snapshots : snapshots[v].content = projections[snapshots[v].base].content
      /\ \A v, w \in DOMAIN snapshots : v < w => snapshots[v].base <= snapshots[w].base
      /\ Revision > 1 => Len(snapshots) > 1
  BY <1>1 DEF History
<1> QED
  BY <1>2, <1>3 DEF HistoryFaithful

\* The invariant implies that records are true.
LEMMA InvariantEnough == IInv => RecordsTrue
<1> SUFFICES ASSUME IInv PROVE RecordsTrue
  OBVIOUS
<1>1. ContentTypeOK
  <2>1. /\ projections \in Seq([content : SUBSET Marks, key : Marks \cup {NoKey}])
        /\ snapshots \in Seq([base : Nat, content : SUBSET Marks, from : Nat,
                              source : {"INITIAL", "AUTO", "MANUAL", "RESTORE"}])
        /\ page \in [Pages -> PageStates] /\ undone \subseteq Marks
    BY DEF IInv, Typed, Projections, Snapshots
  <2> QED
    BY <2>1, PageTrue DEF ContentTypeOK
<1>2. SavedMeansSaved
  BY PageTrue DEF SavedMeansSaved
<1>3. RetryIsSafe
  <2>1. DOMAIN projections = 1 .. Len(projections) /\ KeysOnce(projections, count.edits)
    BY Stored DEF IInv
  <2>2. \A i, j \in DOMAIN projections :
           projections[i].key = projections[j].key /\ projections[i].key # NoKey => i = j
    BY <2>1 DEF KeysOnce
  <2> QED
    BY <2>2, PageTrue DEF RetryIsSafe
<1> QED
  BY <1>1, <1>2, <1>3, HistoryTrue DEF RecordsTrue

\* What pages and history say is what was stored, for every number of pages,
\* edits, restores, snapshots, lost replies and refusals: "saved" means stored,
\* no idempotency key is stored twice, a conflict means another write, and a
\* snapshot holds what was current at its revision (useDocumentAutosave.ts,
\* content.service.ts).
THEOREM RecordsAlwaysTrue == Spec => []RecordsTrue
<1>1. Spec => []IInv
  BY InitOK, StepOK, PTL DEF Spec
<1> QED
  BY <1>1, InvariantEnough, PTL

\* No save drops what another writer stored, and no navigation, restore or reload
\* takes away edits that were never stored, whatever is in flight.
THEOREM NoEditEverLost == Spec => NoEditLost
<1>1. Spec => []IInv
  BY InitOK, StepOK, PTL DEF Spec
<1>2. Spec => [][Lossless]_vars
  BY <1>1, StepOK, PTL DEF Spec
<1> QED
  BY <1>2 DEF NoEditLost, Lossless
=============================================================================
