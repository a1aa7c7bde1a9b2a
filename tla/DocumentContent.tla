--------------------------- MODULE DocumentContent ---------------------------
(***************************************************************************)
(* One document: its current projections and version snapshots in the      *)
(* database (content.service.ts), and the pages that edit it: autosave     *)
(* with a debounce, a revision and an idempotency key                      *)
(* (useDocumentAutosave.ts), restore, leaving and reloading                *)
(* (useActiveDocument.ts).                                                 *)
(*                                                                         *)
(* Content is the set of edits it holds: an edit is a fresh mark, an undo  *)
(* takes a mark away.  A page's editVersion is the number of its last      *)
(* edit, which also names the idempotency key drawn for an attempt (a new  *)
(* attempt always follows a new edit).  Each transaction takes the         *)
(* document's row lock first and is one step; the reply reaches a page     *)
(* that still waits in the same step, as nothing the page does between     *)
(* the commit and the reply can be seen by the server.  A page that gives  *)
(* up (timeout, lost reply, server error) leaves its request behind: it    *)
(* may still be served, or never.                                          *)
(***************************************************************************)
EXTENDS Naturals, Sequences, FiniteSets

CONSTANTS Pages,         \* browser pages that have the document open
          MaxEdits,      \* bound on edits and undos
          MaxRestores,   \* bound on restore requests
          MaxSnapshots,  \* bound on snapshots made through the API
          MaxGiveUps,    \* bound on requests a page stops waiting for
          MaxRejects     \* bound on requests refused before the transaction

ASSUME ContentAssumption ==
    {MaxEdits, MaxRestores, MaxSnapshots, MaxGiveUps, MaxRejects} \subseteq Nat

VARIABLES projections,   \* every projection, superseded ones too; the last is current
          snapshots,     \* version snapshots in the order of their version
          page,          \* the state of each page
          wire,          \* requests the server has not served
          undone,        \* marks some page took away (history)
          count          \* uses of each bound

vars == <<projections, snapshots, page, wire, undone, count>>

-----------------------------------------------------------------------------
Marks == 1..MaxEdits
NoKey == 0
None == "none"
Attempts == [version : Nat, base : Nat, content : SUBSET Marks]
NoAttempt == [version |-> 0, base |-> 0, content |-> {}]

\* failure stands for canRetry, failureKind and shouldReplacePendingAttemptOnEdit.
CanRetry(pg) == pg.failure \in {None, "network"}

PageStates ==
    [open : BOOLEAN, doc : SUBSET Marks, base : Nat, edited : Nat, persisted : Nat,
     attempt : Attempts, state : {"IDLE", "DIRTY", "SAVING", "SAVED", "ERROR"},
     failure : {None, "network", "conflict", "refused", "invalid"},
     saving : BOOLEAN, timer : BOOLEAN, restoring : {"no", "flush", "request"},
     target : Nat, leaving : {"no", "flush", "gap"}]

\* A page that shows the given revision with nothing to save: reset.
Fresh(open, doc, base) ==
    [open |-> open, doc |-> doc, base |-> base, edited |-> 0, persisted |-> 0,
     attempt |-> NoAttempt, state |-> "IDLE", failure |-> None, saving |-> FALSE,
     timer |-> FALSE, restoring |-> "no", target |-> 0, leaving |-> "no"]

Closed == Fresh(FALSE, {}, 0)
Revision == Len(projections)
Current == projections[Revision]

Used(kind) == [count EXCEPT ![kind] = @ + 1]

-----------------------------------------------------------------------------
(* Requests.                                                               *)

SaveRequest(p, a) == [kind |-> "save", page |-> p, base |-> a.base, key |-> a.version,
                      content |-> a.content, live |-> TRUE]
RestoreRequest(p, pg) == [kind |-> "restore", page |-> p, base |-> pg.base,
                          target |-> pg.target, live |-> TRUE]

\* The page no longer waits for what it has sent.
Detach(p, w) == {IF r.page = p THEN [r EXCEPT !.live = FALSE] ELSE r : r \in w}

-----------------------------------------------------------------------------
(* The save loop of a page.                                                *)

\* pendingAttempt ??= createPendingAttempt(): a kept attempt is sent again as it was.
NextAttempt(pg) ==
    IF pg.attempt # NoAttempt THEN pg.attempt
    ELSE IF pg.edited > pg.persisted
         THEN [version |-> pg.edited, base |-> pg.base, content |-> pg.doc]
         ELSE NoAttempt

\* flush resolved to true: a waiting restore sends its request, and a waiting
\* navigation closes the page, when the next view's code is there or at once.
Flushed(p, pg, w) ==
    LET sent == IF pg.restoring = "flush" THEN w \cup {RestoreRequest(p, pg)} ELSE w
        next == [pg EXCEPT !.restoring = IF @ = "flush" THEN "request" ELSE @,
                           !.leaving = IF @ = "flush" THEN "gap" ELSE @]
    IN  \/ /\ page' = [page EXCEPT ![p] = next]
           /\ wire' = sent
        \/ /\ pg.leaving = "flush"
           /\ page' = [page EXCEPT ![p] = Closed]
           /\ wire' = Detach(p, sent)

\* flush resolved to false: who waited for it gives up.
FlushFailed(pg) == [pg EXCEPT !.restoring = IF @ = "flush" THEN "no" ELSE @,
                              !.leaving = IF @ = "flush" THEN "no" ELSE @]

\* runSaveLoop from its head to the next request, or to its end.
SaveLoop(p, pg, w) ==
    LET a == NextAttempt(pg)
    IN  IF a = NoAttempt
        THEN Flushed(p, [pg EXCEPT !.state = "SAVED", !.saving = FALSE, !.timer = FALSE], w)
        ELSE /\ page' = [page EXCEPT ![p] = [pg EXCEPT !.attempt = a, !.state = "SAVING",
                                                       !.saving = TRUE, !.timer = FALSE]]
             /\ wire' = w \cup {SaveRequest(p, a)}

\* flush: joins the save under way, is refused after a final error, or saves.
Flush(p, pg) ==
    IF pg.saving
    THEN /\ page' = [page EXCEPT ![p] = [pg EXCEPT !.timer = FALSE]]
         /\ UNCHANGED wire
    ELSE IF pg.state = "ERROR" /\ ~CanRetry(pg)
         THEN /\ page' = [page EXCEPT ![p] = FlushFailed([pg EXCEPT !.timer = FALSE])]
              /\ UNCHANGED wire
         ELSE SaveLoop(p, pg, wire)

\* A save under way is taken to cover what is typed meanwhile.
MarkedDirtyWhenIdle(pg, n) ==
    IF pg.saving THEN pg ELSE [pg EXCEPT !.edited = n, !.state = "DIRTY", !.timer = TRUE]

\* markDirty for the edit numbered n.
MarkedDirty(pg, n) ==
    LET edited == IF pg.failure = "invalid" /\ pg.attempt # NoAttempt
                  THEN [pg EXCEPT !.edited = n, !.attempt = NoAttempt, !.failure = None]
                  ELSE [pg EXCEPT !.edited = n]
    IN  IF (edited.state = "ERROR" /\ ~CanRetry(edited)) \/ edited.saving
        THEN edited
        ELSE [edited EXCEPT !.state = "DIRTY", !.timer = TRUE]

SaveFailedUnscheduled(pg, failure) ==
    LET replaced == failure = "invalid" /\ pg.edited > pg.attempt.version
    IN  FlushFailed([pg EXCEPT !.saving = FALSE,
                               !.failure = IF replaced THEN None ELSE failure,
                               !.attempt = IF replaced THEN NoAttempt ELSE @,
                               !.state = IF replaced THEN "DIRTY" ELSE "ERROR"])

\* The catch of runSaveLoop; resolveDocumentSaveFailure gives the failure.
SaveFailed(pg, failure) ==
    LET replaced == failure = "invalid" /\ pg.edited > pg.attempt.version
    IN  FlushFailed([pg EXCEPT !.saving = FALSE,
                               !.failure = IF replaced THEN None ELSE failure,
                               !.attempt = IF replaced THEN NoAttempt ELSE @,
                               !.state = IF replaced THEN "DIRTY" ELSE "ERROR",
                               !.timer = IF replaced THEN TRUE ELSE @])

\* A failed request ends the save, or the restore with its message.
RequestFailed(p, r, failure) ==
    page' = [page EXCEPT ![p] = IF r.kind = "save" THEN SaveFailed(@, failure)
                                                   ELSE [@ EXCEPT !.restoring = "no"]]

\* The persisted reply: applyPersistedDocument takes over the revision and keeps
\* the local content, and the loop goes on with what was edited meanwhile.
Persisted(p, r, revision, w) ==
    LET pg == page[p]
    IN  SaveLoop(p, [pg EXCEPT !.attempt = NoAttempt, !.failure = None, !.base = revision,
                               !.persisted = IF @ > pg.attempt.version THEN @
                                             ELSE pg.attempt.version], w)

-----------------------------------------------------------------------------
(* The server.                                                             *)

\* maybeCreateAutoVersionSnapshotFromProjection: after the initial snapshot, or
\* when the last one is old enough (due), and only for a changed content.
AutoSnapshot(content, due) ==
    LET latest == snapshots[Len(snapshots)]
    IN  IF (latest.source = "INITIAL" \/ due) /\ latest.content # content
        THEN Append(snapshots, [base |-> Revision + 1, content |-> content,
                                source |-> "AUTO", from |-> 0])
        ELSE snapshots

SaveOutcomeKeyIgnored(r) ==
    IF Revision # r.base THEN "conflict"
    ELSE IF Current.content = r.content THEN "same"
    ELSE "applied"

SaveOutcomeRevisionIgnored(r) ==
    IF Current.key = r.key THEN "repeated"
    ELSE IF Current.content = r.content THEN "same"
    ELSE "applied"

\* saveDocumentContent.  Superseded projections are soft-deleted in the same
\* transaction, so a row found by its idempotency key is the current one.
SaveOutcome(r) ==
    IF Current.key = r.key THEN "repeated"
    ELSE IF Revision # r.base THEN "conflict"
    ELSE IF Current.content = r.content THEN "same"
    ELSE "applied"

ServeSave(r, due) ==
    LET outcome == SaveOutcome(r)
        rest == wire \ {r}
        revision == IF outcome = "applied" THEN Revision + 1 ELSE Revision
    IN  /\ r.kind = "save"
        /\ IF outcome = "applied"
           THEN /\ projections' = Append(projections, [content |-> r.content, key |-> r.key])
                /\ snapshots' = AutoSnapshot(r.content, due)
           ELSE /\ ~due
                /\ UNCHANGED <<projections, snapshots>>
        /\ IF ~r.live
           THEN wire' = rest /\ UNCHANGED page
           ELSE IF outcome = "conflict"
                THEN RequestFailed(r.page, r, "conflict") /\ wire' = rest
                ELSE Persisted(r.page, r, revision, rest)

RestoreSnapshotOfOld(target) == [base |-> Revision, content |-> Current.content,
                                 source |-> "RESTORE", from |-> target]

\* The restore snapshot is taken of the new projection.
RestoreSnapshot(target) == [base |-> Revision + 1, content |-> snapshots[target].content,
                            source |-> "RESTORE", from |-> target]
\* restoreDocumentVersionSnapshot, and applyRestoredSnapshot in a waiting page.
ServeRestore(r) ==
    /\ r.kind = "restore"
    /\ wire' = wire \ {r}
    /\ IF Revision # r.base
       THEN /\ UNCHANGED <<projections, snapshots>>
            /\ IF r.live THEN RequestFailed(r.page, r, "conflict") ELSE UNCHANGED page
       ELSE LET content == snapshots[r.target].content
            IN  /\ projections' = Append(projections, [content |-> content, key |-> NoKey])
                /\ snapshots' = Append(snapshots, RestoreSnapshot(r.target))
                /\ IF r.live
                   THEN page' = [page EXCEPT ![r.page] =
                           [Fresh(TRUE, content, Revision + 1) EXCEPT
                               !.leaving = page[r.page].leaving]]
                   ELSE UNCHANGED page

Serve(r) ==
    /\ \/ \E due \in BOOLEAN : ServeSave(r, due)
       \/ ServeRestore(r)
    /\ UNCHANGED <<undone, count>>

\* createDocumentVersionSnapshot on the current revision: any other base is refused.
CreateSnapshot ==
    /\ count.snapshots < MaxSnapshots
    /\ snapshots' = Append(snapshots, [base |-> Revision, content |-> Current.content,
                                       source |-> "MANUAL", from |-> 0])
    /\ count' = Used("snapshots")
    /\ UNCHANGED <<projections, page, wire, undone>>

\* The request is refused before the transaction: invalid content, or no access.
Reject(r, failure) ==
    /\ count.rejects < MaxRejects
    /\ failure = "invalid" => r.kind = "save"
    /\ wire' = wire \ {r}
    /\ IF r.live THEN RequestFailed(r.page, r, failure) ELSE UNCHANGED page
    /\ count' = Used("rejects")
    /\ UNCHANGED <<projections, snapshots, undone>>

\* The page's wait ends with a network error; the request stays where it is.
GiveUp(r) ==
    /\ r.live
    /\ count.giveUps < MaxGiveUps
    /\ RequestFailed(r.page, r, "network")
    /\ wire' = (wire \ {r}) \cup {[r EXCEPT !.live = FALSE]}
    /\ count' = Used("giveUps")
    /\ UNCHANGED <<projections, snapshots, undone>>

-----------------------------------------------------------------------------
(* The user of a page.                                                     *)

\* loadCurrentDocument reads the current projection.
Open(p) ==
    /\ ~page[p].open
    /\ page' = [page EXCEPT ![p] = Fresh(TRUE, Current.content, Revision)]
    /\ UNCHANGED <<projections, snapshots, wire, undone, count>>

EditableAlways(pg) == pg.open

\* updateDocumentTitle and updateDocumentContent ignore edits during a restore.
Editable(pg) == pg.open /\ pg.restoring = "no"
Change(p, doc) ==
    /\ Editable(page[p])
    /\ count.edits < MaxEdits
    /\ page' = [page EXCEPT ![p] = MarkedDirty([@ EXCEPT !.doc = doc], count.edits + 1)]
    /\ count' = Used("edits")
    /\ UNCHANGED <<projections, snapshots, wire>>

Edit(p) == Change(p, page[p].doc \cup {count.edits + 1}) /\ UNCHANGED undone

Undo(p) == \E m \in page[p].doc : Change(p, page[p].doc \ {m}) /\ undone' = undone \cup {m}

\* The debounce timer of scheduleSave.
Autosave(p) ==
    /\ page[p].timer
    /\ Flush(p, page[p])
    /\ UNCHANGED <<projections, snapshots, undone, count>>

\* The retry button of the save status.
Retry(p) ==
    /\ page[p].state = "ERROR" /\ CanRetry(page[p])
    /\ Flush(p, page[p])
    /\ UNCHANGED <<projections, snapshots, undone, count>>

\* restoreSnapshot saves first.
Restore(p) ==
    /\ page[p].open /\ page[p].restoring = "no"
    /\ count.restores < MaxRestores
    /\ \E target \in 1..Len(snapshots) :
           Flush(p, [page[p] EXCEPT !.restoring = "flush", !.target = target])
    /\ count' = Used("restores")
    /\ UNCHANGED <<projections, snapshots, undone>>

\* Another document or another view: the route guards save first.
Navigate(p) ==
    /\ page[p].open /\ page[p].leaving = "no"
    /\ Flush(p, [page[p] EXCEPT !.leaving = "flush"])
    /\ UNCHANGED <<projections, snapshots, undone, count>>

\* The next view is there: the page is disposed of, and autosave with it.
Leave(p) ==
    /\ page[p].leaving = "gap"
    /\ page' = [page EXCEPT ![p] = Closed]
    /\ wire' = Detach(p, wire)
    /\ UNCHANGED <<projections, snapshots, undone, count>>

\* discardLocalChangesAndReload, offered after a conflict and confirmed.
Discard(p) ==
    /\ page[p].state = "ERROR" /\ page[p].failure = "conflict" /\ page[p].leaving = "no"
    /\ page' = [page EXCEPT ![p] = Closed]
    /\ wire' = Detach(p, wire)
    /\ UNCHANGED <<projections, snapshots, undone, count>>

-----------------------------------------------------------------------------
\* createDocument: the first projection and the initial snapshot.
Init ==
    /\ projections = <<[content |-> {}, key |-> NoKey]>>
    /\ snapshots = <<[base |-> 1, content |-> {}, source |-> "INITIAL", from |-> 0]>>
    /\ page = [p \in Pages |-> Closed]
    /\ wire = {}
    /\ undone = {}
    /\ count = [edits |-> 0, restores |-> 0, snapshots |-> 0, giveUps |-> 0, rejects |-> 0]

Next ==
    \/ \E p \in Pages :
          \/ Open(p) \/ Edit(p) \/ Undo(p) \/ Autosave(p) \/ Retry(p)
          \/ Restore(p) \/ Navigate(p) \/ Leave(p) \/ Discard(p)
    \/ \E r \in wire : Serve(r) \/ GiveUp(r)
    \/ \E r \in wire, failure \in {"invalid", "refused"} : Reject(r, failure)
    \/ CreateSnapshot

\* Timers fire, and a request a page waits for is served or times out.
Fairness ==
    \A p \in Pages : /\ WF_vars(Autosave(p))
                     /\ WF_vars(\E r \in wire : r.live /\ r.page = p /\ Serve(r))

Spec == Init /\ [][Next]_vars /\ Fairness

-----------------------------------------------------------------------------
\* Every variable has its type; only an open page has work, and a page waits
\* exactly while it saves or asks for a restore.
ContentTypeOK ==
    /\ projections \in Seq([content : SUBSET Marks, key : Marks \cup {NoKey}])
    /\ snapshots \in Seq([base : Nat, content : SUBSET Marks, from : Nat,
                          source : {"INITIAL", "AUTO", "MANUAL", "RESTORE"}])
    /\ page \in [Pages -> PageStates]
    /\ undone \subseteq Marks
    /\ \A p \in Pages :
          /\ (page[p].saving \/ page[p].restoring = "request") <=>
                 \E r \in wire : r.live /\ r.page = p
          /\ page[p].saving => page[p].attempt # NoAttempt

\* A page that shows itself saved or unchanged shows what the server stored at
\* the page's revision: edits made while a save is under way are not forgotten.
SavedMeansSaved ==
    \A p \in Pages :
        page[p].open /\ page[p].state \in {"IDLE", "SAVED"}
            => projections[page[p].base].content = page[p].doc

\* Retries are safe: no key is stored twice, and a save ends in a conflict only
\* if something else than this very attempt was written after its base.
RetryIsSafe ==
    /\ \A i, j \in DOMAIN projections :
          projections[i].key = projections[j].key /\ projections[i].key # NoKey => i = j
    /\ \A p \in Pages :
          page[p].state = "ERROR" /\ page[p].failure = "conflict"
             => \E i \in page[p].attempt.base + 1 .. Revision :
                   projections[i].key # page[p].attempt.version

\* History can be trusted: a snapshot holds what was current at its revision,
\* versions follow revisions, every restore has left its audit snapshot with
\* the content it restored, and the first change ever made has a snapshot.
HistoryFaithful ==
    /\ \A v \in DOMAIN snapshots : snapshots[v].content = projections[snapshots[v].base].content
    /\ \A v, w \in DOMAIN snapshots : v < w => snapshots[v].base <= snapshots[w].base
    /\ \A i \in 2..Revision :
          projections[i].key = NoKey =>
             \E v \in DOMAIN snapshots :
                /\ snapshots[v].source = "RESTORE" /\ snapshots[v].base = i
                /\ snapshots[v].content = snapshots[snapshots[v].from].content
    /\ Revision > 1 => Len(snapshots) > 1

\* What pages and history say is what was stored: "saved", a conflict and every
\* version tell the truth, also after lost replies and retries.
RecordsTrue == ContentTypeOK /\ SavedMeansSaved /\ RetryIsSafe /\ HistoryFaithful

\* No edit is lost in silence.  A save never drops another writer's content: what
\* the current projection holds is still held by the projection a save puts in
\* its place, except for what some page took away itself (saveDocumentContent's
\* revision check).  And when navigation, a restore or a reload takes a page's
\* content away, that content has been stored before, unless the page showed a
\* conflict and its user chose to discard it, or was typed after navigation had
\* saved, while the next view's code was loading.
NoEditLost ==
    [][/\ Len(projections') > Revision /\ projections'[Revision + 1].key # NoKey
             => Current.content \ undone \subseteq projections'[Revision + 1].content
       /\ \A p \in Pages :
             (/\ page[p].open /\ count'.edits = count.edits
              /\ page'[p].doc # page[p].doc \/ ~page'[p].open
              /\ ~(page[p].state = "ERROR" /\ page[p].failure = "conflict")
              /\ page[p].leaving # "gap")
                => \E i \in DOMAIN projections' : projections'[i].content = page[p].doc]_vars

\* An edit does not stay unsaved in silence: a dirty or saving page comes to be
\* saved, shows an error or is closed.
Settles ==
    \A p \in Pages : page[p].state \in {"DIRTY", "SAVING"}
                        ~> page[p].state \in {"IDLE", "SAVED", "ERROR"}
=============================================================================
