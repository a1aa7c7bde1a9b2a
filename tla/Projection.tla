----------------------------- MODULE Projection -----------------------------
(***************************************************************************)
(* The content of an assistant message as the projector writes it          *)
(* (chat-run-projector.service.ts): the deltas of the agent's stream go    *)
(* through a stripper into a snapshot of the part's text and an event of   *)
(* the session's log, tool calls and results get parts with an order of    *)
(* their own, and completion writes what the strippers still hold.         *)
(*                                                                         *)
(* How projections start, fail and end is module ChatRun.  Here the agent's *)
(* whole stream is given, and what matters is what a projection keeps in   *)
(* memory, what it reads back when it starts again, and what another API   *)
(* process writes meanwhile.  A run that fails keeps the parts it has.     *)
(***************************************************************************)
EXTENDS ToolProtocolStripper, FiniteSets

CONSTANTS Apis,        \* API processes
          Streams,     \* the streams the agent may publish for the run
          MaxCrashes   \* bound on crashes of API processes

TextKinds == {"reasoning", "text"}
ToolKinds == {"call", "result"}
ToolEvents == ToolKinds \cup {"execution", "action"}
EventTypes == TextKinds \cup ToolEvents \cup {"completed"}
Events == [type : EventTypes, call : STRING, text : Seq(STRING)]

\* A stream of the agent ends with its outcome.  The ids of the calls are the
\* model's (structured-json.ts), or the tool's name where it gives none: a call may
\* come again, with a result of its own.
WellFormed(s) == \A i, j \in DOMAIN s : i < j => s[i].type # "completed"

ASSUME StreamsAssumption ==
    /\ \A s \in Streams : s \in Seq(Events) /\ WellFormed(s)
    /\ MaxCrashes \in Nat

VARIABLES stream,    \* the events of the run, in the order of the agent's stream
          status,    \* status of the run
          parts,     \* ChatSessionMessageParts, by order
          content,   \* ChatSessionMessage.content
          log,       \* the MESSAGE_PART_DELTA and run events of the run
          answered,  \* client actions the user has answered
          proj,      \* the projection of each process
          crashes,
          dropped,   \* auxiliary: a projection went on behind text that was held back
          shared     \* auxiliary: two processes have projected the run at once

rowVars == <<status, parts, content, log, answered>>
vars == <<stream, rowVars, proj, crashes, dropped, shared>>

getSinglePartOrder == [reasoning |-> 0, text |-> 1]
ToolPartOrderStart == 10

\* sourceEventId: the position in the stream and a suffix.
Src(i, suffix) == <<i, suffix>>
NoSrc == Src(0, "")

NoTools == [entries |-> [k \in {} |-> 0], used |-> {}, next |-> ToolPartOrderStart]
NoJob == [step |-> "none", src |-> NoSrc, key |-> <<"", "">>, order |-> 0,
          text |-> <<>>, delta |-> <<>>]
IdleProjection ==
    [pc |-> "idle", pos |-> 0, texts |-> [k \in TextKinds |-> <<>>],
     strippers |-> [k \in TextKinds |-> NewStripper], tools |-> NoTools, job |-> NoJob]

Init ==
    /\ stream \in Streams
    /\ status = "running"
    /\ parts = [o \in {} |-> 0]
    /\ content = <<>>
    /\ log = <<>>
    /\ answered = 0
    /\ proj = [a \in Apis |-> IdleProjection]
    /\ crashes = 0
    /\ dropped = FALSE /\ shared = FALSE

Event(i) == stream[i]
Actions == {i \in DOMAIN stream : Event(i).type = "action"}

\* The agent goes on after a client action only when it has been answered.
Published(i) == i \in DOMAIN stream /\ Cardinality({j \in Actions : j < i}) <= answered

\* Mutant: an event is never known to be recorded.
HasSourceEventNever(src) == FALSE

HasSourceEvent(src) == \E n \in DOMAIN log : log[n].src = src

\* getLatestSourceEventStreamId, as in ChatRun.
LatestSourceEvent ==
    LET sourced == {n \in DOMAIN log : log[n].src # NoSrc}
    IN  IF sourced = {} THEN 0
        ELSE log[CHOOSE n \in sourced : \A m \in sourced : m <= n].src[1]

-----------------------------------------------------------------------------
(* The tool parts a projection knows of (ToolPartState).                   *)

Larger(a, b) == IF a < b THEN b ELSE a

\* reserveToolPartOrder
ReserveOrder(used, preferred) ==
    CHOOSE o \in preferred .. preferred + Cardinality(used) :
        o \notin used /\ \A lower \in preferred .. o - 1 : lower \in used

\* getOrCreateToolPartEntry: a result goes next to its call.
GetOrCreateEntry(tools, key) ==
    LET callKey == <<"call", key[2]>>
        paired == key[1] = "result" /\ callKey \in DOMAIN tools.entries
        order == ReserveOrder(tools.used,
                     IF paired THEN tools.entries[callKey].order + 1 ELSE tools.next)
    IN  IF key \in DOMAIN tools.entries THEN tools
        ELSE [entries |-> [k \in DOMAIN tools.entries \cup {key} |->
                              IF k = key THEN [order |-> order, text |-> <<>>]
                              ELSE tools.entries[k]],
              used |-> tools.used \cup {order},
              next |-> Larger(tools.next, order + IF key[1] = "call" THEN 2 ELSE 1)]

\* getToolPartState
LoadTools ==
    LET tooled == {o \in DOMAIN parts : parts[o].key[1] \in ToolKinds}
        last(k) == CHOOSE o \in tooled :
                       parts[o].key = k /\ \A q \in tooled : parts[q].key = k => q <= o
    IN  [entries |-> [k \in {parts[o].key : o \in tooled} |->
                        [order |-> last(k), text |-> parts[last(k)].text]],
         used |-> DOMAIN parts,
         next |-> CHOOSE n \in {ToolPartOrderStart} \cup {o + 1 : o \in DOMAIN parts} :
                     n >= ToolPartOrderStart /\ \A o \in DOMAIN parts : n > o]

\* resolveNextToolPartText: a result's snapshot, the arguments an execution
\* starts with when no delta brought them, or an argument delta.
NextToolText(current, event) ==
    CASE event.type = "result" -> event.text
      [] event.type = "execution" -> IF current = <<>> THEN event.text ELSE current
      [] OTHER -> current \o event.text

\* The delta of a snapshot: what it adds, or all of it.
DeltaOf(current, next) ==
    IF IsPrefix(current, next) THEN SubSeq(next, Len(current) + 1, Len(next)) ELSE next

-----------------------------------------------------------------------------
(* Starting a projection (recoverRun, projectRun).                         *)

\* What one stripper makes of the text events up to i: its state, and what has come out.
Stripped(i) ==
    LET read[n \in 0 .. i] ==
            IF n = 0 THEN [st |-> NewStripper, out |-> <<>>]
            ELSE IF Event(n).type # "text" THEN read[n - 1]
            ELSE LET result == Write(read[n - 1].st, Event(n).text)
                 IN  [st |-> result.st, out |-> read[n - 1].out \o result.out]
    IN  read[i]

\* A stripper that has read the stream up to i holds back some text.
HeldBack(i) == Stripped(i).st # NewStripper

\* The cursor is read first.  With a cursor behind text that was held back,
\* that text is not read again.
Start(a) ==
    /\ proj[a].pc = "idle" /\ status = "running"
    /\ Published(LatestSourceEvent + 1)
    /\ proj' = [proj EXCEPT ![a].pc = "load", ![a].pos = LatestSourceEvent]
    /\ dropped' = (dropped \/ HeldBack(LatestSourceEvent))
    /\ shared' = (shared \/ \E b \in Apis \ {a} : proj[b].pc # "idle")
    /\ UNCHANGED <<stream, rowVars, crashes>>

\* getMessagePartText
PartText(kind) ==
    LET o == getSinglePartOrder[kind] IN IF o \in DOMAIN parts THEN parts[o].text ELSE <<>>

\* Mutant: the texts are not read back.
LoadEmpty(a) ==
    /\ proj[a].pc = "load"
    /\ proj' = [proj EXCEPT ![a].pc = "read", ![a].tools = LoadTools]
    /\ UNCHANGED <<stream, rowVars, crashes, dropped, shared>>

\* Status, texts and tool parts are read; the strippers are new.
Load(a) ==
    /\ proj[a].pc = "load"
    /\ proj' = [proj EXCEPT ![a] =
          IF status # "running" THEN IdleProjection
          ELSE [@ EXCEPT !.pc = "read", !.texts = [k \in TextKinds |-> PartText(k)],
                         !.tools = LoadTools]]
    /\ UNCHANGED <<stream, rowVars, crashes, dropped, shared>>

-----------------------------------------------------------------------------
(* onEvent up to its transaction.                                          *)

Current(a) == proj[a].pos + 1

Reading(a, types) ==
    /\ proj[a].pc = "read" /\ Published(Current(a))
    /\ Event(Current(a)).type \in types

EndProjection(a) == proj' = [proj EXCEPT ![a] = IdleProjection]

\* Events that are recorded already are passed over, and the stripper does not see
\* them: one that holds text back, of which another process has recorded the rest,
\* goes on holding it.
SkipRecorded(a) ==
    LET event == Event(Current(a))
        stripper == proj[a].strippers["text"]
    IN  /\ Reading(a, TextKinds \cup ToolEvents)
        /\ HasSourceEvent(Src(Current(a), ""))
        /\ IF event.type = "action" THEN EndProjection(a)
           ELSE proj' = [proj EXCEPT ![a].pos = @ + 1]
        /\ dropped' = (dropped \/ (event.type = "text" /\ Write(stripper, event.text).st # stripper))
        /\ UNCHANGED <<stream, rowVars, crashes, shared>>

\* model.reasoning.delta and model.text.delta: nothing is written while the
\* stripper lets nothing through.
ReadText(a) ==
    LET kind == Event(Current(a)).type
        result == Write(proj[a].strippers[kind], Event(Current(a)).text)
        text == proj[a].texts[kind] \o result.out
        read == [proj[a] EXCEPT !.strippers[kind] = result.st, !.texts[kind] = text]
    IN  /\ Reading(a, TextKinds)
        /\ ~HasSourceEvent(Src(Current(a), ""))
        /\ proj' = [proj EXCEPT ![a] =
              IF result.out = <<>> THEN [read EXCEPT !.pos = @ + 1]
              ELSE [read EXCEPT !.pc = "write", !.job =
                      [step |-> "text", src |-> Src(Current(a), ""), key |-> <<kind, "">>,
                       order |-> getSinglePartOrder[kind], text |-> text, delta |-> result.out]]]
        /\ UNCHANGED <<stream, rowVars, crashes, dropped, shared>>

\* The tool events, and the tool part of a client action: the entry is made
\* before the transaction and stays whether or not it commits.
ReadTool(a) ==
    LET event == Event(Current(a))
        key == IF event.type = "result" THEN <<"result", event.call>> ELSE <<"call", event.call>>
        tools == GetOrCreateEntry(proj[a].tools, key)
        entry == tools.entries[key]
        next == NextToolText(entry.text, event)
    IN  /\ Reading(a, ToolEvents)
        /\ ~HasSourceEvent(Src(Current(a), ""))
        /\ proj' = [proj EXCEPT ![a].pc = "write", ![a].tools = tools, ![a].job =
              [step |-> event.type, key |-> key, order |-> entry.order, text |-> next,
               src |-> Src(Current(a), IF event.type = "action" THEN "tool" ELSE ""),
               delta |-> DeltaOf(entry.text, next)]]
        /\ UNCHANGED <<stream, rowVars, crashes, dropped, shared>>

\* Mutant: the strippers are not flushed.
ReadCompletedUnflushed(a) ==
    /\ Reading(a, {"completed"})
    /\ proj' = [proj EXCEPT ![a].pc = "complete", ![a].strippers = IdleProjection.strippers]
    /\ UNCHANGED <<stream, rowVars, crashes, dropped, shared>>

\* generation.completed: the strippers are flushed.
ReadCompleted(a) ==
    LET out(k) == Flush(proj[a].strippers[k]).out IN
    /\ Reading(a, {"completed"})
    /\ IF HasSourceEvent(Src(Current(a), "message")) THEN EndProjection(a)
       ELSE proj' = [proj EXCEPT ![a].pc = "complete",
                ![a].texts = [k \in TextKinds |-> @[k] \o out(k)],
                ![a].strippers = [k \in TextKinds |-> [buffer |-> out(k), inside |-> FALSE]]]
    /\ UNCHANGED <<stream, rowVars, crashes, dropped, shared>>

-----------------------------------------------------------------------------
(* The transactions.  A source event that is in the log already makes the  *)
(* unique index reject the whole transaction.                              *)

Upsert(order, key, text) ==
    parts' = [o \in DOMAIN parts \cup {order} |->
                IF o = order THEN [key |-> key, text |-> text] ELSE parts[o]]

Entry(src, order, delta) == [src |-> src, order |-> order, delta |-> delta]
NoPart == -1

\* appendPartDelta and upsertToolPartSnapshot
WritePart(a) ==
    LET job == proj[a].job
        conflict == HasSourceEvent(job.src)
        committed == status = "running" /\ ~conflict
        after == [proj[a] EXCEPT !.pc = IF job.step = "action" THEN "action" ELSE "read",
                                 !.pos = IF job.step = "action" THEN @ ELSE @ + 1]
    IN  /\ proj[a].pc = "write"
        /\ IF committed
           THEN /\ Upsert(job.order, job.key, job.text)
                /\ content' = IF job.key[1] = "text" THEN job.text ELSE content
                /\ log' = Append(log, Entry(job.src, job.order, job.delta))
           ELSE UNCHANGED <<parts, content, log>>
        /\ proj' = [proj EXCEPT ![a] =
              IF job.step = "text" \/ conflict THEN after
              ELSE [after EXCEPT !.tools.entries[job.key].text = job.text]]
        /\ UNCHANGED <<stream, status, answered, crashes, dropped, shared>>

\* requireClientActionRun
RequireClientAction(a) ==
    LET src == Src(Current(a), "") IN
    /\ proj[a].pc = "action"
    /\ IF status = "running" /\ ~HasSourceEvent(src)
       THEN status' = "requires_action" /\ log' = Append(log, Entry(src, NoPart, <<>>))
       ELSE UNCHANGED <<status, log>>
    /\ EndProjection(a)
    /\ UNCHANGED <<stream, parts, content, answered, crashes, dropped, shared>>

\* completeRun: the flushed texts, the content and the outcome in one go.
CompleteRun(a) ==
    LET i == Current(a)
        p == proj[a]
        flushed == {k \in TextKinds : p.strippers[k].buffer # <<>>}
        Pending(k) == IF k \in flushed
                      THEN <<Entry(Src(i, k), getSinglePartOrder[k], p.strippers[k].buffer)>>
                      ELSE <<>>
    IN  /\ p.pc = "complete"
        /\ IF status = "running"
           THEN /\ status' = "completed"
                /\ content' = p.texts["text"]
                /\ parts' = [o \in DOMAIN parts \cup {getSinglePartOrder[k] : k \in flushed} |->
                      IF \E k \in flushed : getSinglePartOrder[k] = o
                      THEN LET k == CHOOSE k \in flushed : getSinglePartOrder[k] = o
                           IN  [key |-> <<k, "">>, text |-> p.texts[k]]
                      ELSE parts[o]]
                /\ log' = log \o Pending("reasoning") \o Pending("text")
                              \o <<Entry(Src(i, "message"), NoPart, <<>>)>>
           ELSE UNCHANGED <<status, parts, content, log>>
        /\ EndProjection(a)
        /\ UNCHANGED <<stream, answered, crashes, dropped, shared>>

-----------------------------------------------------------------------------
(* The user's answer to a client action, and crashes.                      *)

\* Mutant: the answer goes into the part of the call.
ResumeInCallPart ==
    LET call == Event(LatestSourceEvent).call
        order == CHOOSE o \in DOMAIN parts : parts[o].key = <<"call", call>>
    IN  /\ status = "requires_action"
        /\ status' = "running"
        /\ Upsert(order, <<"result", call>>, parts[order].text \o <<"r">>)
        /\ log' = Append(log, Entry(NoSrc, order, <<"r">>))
        /\ answered' = answered + 1
        /\ UNCHANGED <<stream, content, proj, crashes, dropped, shared>>

\* prepareResumeRun with createClientActionToolResultPart
Resume ==
    LET call == Event(LatestSourceEvent).call
        callOrders == {o \in DOMAIN parts : parts[o].key = <<"call", call>>}
        fallbackOrder == CHOOSE n \in {0} \cup {o + 1 : o \in DOMAIN parts} :
                             \A o \in DOMAIN parts : n > o
        preferred == IF callOrders = {} THEN fallbackOrder
                     ELSE (CHOOSE o \in callOrders : TRUE) + 1
        order == ReserveOrder(DOMAIN parts, preferred)
    IN  /\ status = "requires_action"
        /\ status' = "running"
        /\ Upsert(order, <<"result", call>>, <<"r">>)
        /\ log' = Append(log, Entry(NoSrc, order, <<"r">>))
        /\ answered' = answered + 1
        /\ UNCHANGED <<stream, content, proj, crashes, dropped, shared>>

Crash(a) ==
    /\ proj[a].pc # "idle" /\ crashes < MaxCrashes
    /\ EndProjection(a)
    /\ crashes' = crashes + 1
    /\ UNCHANGED <<stream, rowVars, dropped, shared>>

Next ==
    \/ \E a \in Apis :
          \/ Start(a) \/ Load(a) \/ SkipRecorded(a)
          \/ ReadText(a) \/ ReadTool(a) \/ ReadCompleted(a)
          \/ WritePart(a) \/ RequireClientAction(a) \/ CompleteRun(a) \/ Crash(a)
    \/ Resume

Spec == Init /\ [][Next]_vars

-----------------------------------------------------------------------------
(* Properties.                                                             *)

ProjectionTypeOK ==
    /\ \A i \in DOMAIN stream : Event(i).type \in EventTypes
    /\ status \in {"running", "requires_action", "completed"}
    /\ \A o \in DOMAIN parts : o \in Nat /\ parts[o].key[1] \in TextKinds \cup ToolKinds
    /\ \A a \in Apis :
          /\ proj[a].pc \in {"idle", "load", "read", "write", "action", "complete"}
          /\ proj[a].pos \in 0 .. Len(stream)
    /\ answered \in 0 .. Cardinality(Actions) /\ crashes \in 0 .. MaxCrashes

DeltasOf(order) ==
    LET text[n \in 0 .. Len(log)] ==
            IF n = 0 THEN <<>>
            ELSE IF log[n].order = order THEN text[n - 1] \o log[n].delta ELSE text[n - 1]
    IN  text[Len(log)]

\* The part of a result whose call the agent ends more than once, by results or by
\* waiting for the user.
Repeated(key) ==
    /\ key[1] = "result"
    /\ \E i, j \in DOMAIN stream :
          /\ i # j /\ {Event(i).type, Event(j).type} \subseteq {"result", "action"}
          /\ Event(i).call = key[2] /\ Event(j).call = key[2]

\* Streaming and reloading show the same: the snapshot of every part is what
\* the deltas recorded for it add up to, although snapshot and delta come
\* from the memory of a projection that may have started over.  The exceptions
\* are two processes at once, which overwrite each other's snapshots, and the
\* results of a call that comes again: the later snapshot takes the place of the
\* earlier one, while its delta is added to it, so that what is streamed only ends
\* with what is read back.
PartsMatchLog ==
    /\ ProjectionTypeOK
    /\ ~shared => \A o \in DOMAIN parts :
          IF Repeated(parts[o].key) THEN IsSuffix(parts[o].text, DeltasOf(o))
          ELSE parts[o].text = DeltasOf(o)

\* A tool part never turns into another one: the order that a projection or
\* prepareResumeRun takes for a new part is free, whatever was written since
\* the orders were read.  Two processes at once may take the same order.
PartsKeepIdentity ==
    [][~shared => \A o \in DOMAIN parts : parts'[o].key = parts[o].key]_vars

\* The agent's whole text without its tool-call blocks.  Opening tags must fit
\* into the look-behind: a longer one is recognised or not depending on where
\* it is cut.
WholeText ==
    LET text[n \in 0 .. Len(stream)] ==
            IF n = 0 THEN <<>>
            ELSE IF Event(n).type = "text" THEN text[n - 1] \o Event(n).text ELSE text[n - 1]
    IN  text[Len(stream)]
Intact == ~dropped /\ TagsFit(WholeText)

\* A completed message holds the agent's whole text, however it was cut and
\* through every client action and restart, and what was streamed on the way is
\* a beginning of it: the deltas in the log miss nothing and repeat nothing, so
\* that nothing has to be taken back.  This holds of the log also when several
\* processes project the run at once (only the unique index on source events
\* sees to it), although they overwrite each other's content.  The exceptions are
\* a projection that starts behind text the stripper of an earlier one held, and
\* one that passes over text another process has recorded while it holds some.
NothingElseLost ==
    LET recorded == DeltasOf(getSinglePartOrder["text"]) IN
    Intact => /\ IsPrefix(recorded, Strip(WholeText))
              /\ status = "completed" => recorded = Strip(WholeText)
              /\ status = "completed" /\ ~shared => content = Strip(WholeText)
=============================================================================
