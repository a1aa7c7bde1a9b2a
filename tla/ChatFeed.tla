------------------------------ MODULE ChatFeed ------------------------------
(***************************************************************************)
(* How the web client follows a reply: the session's event log and its     *)
(* sequence (chat-session-events.service.ts), the event stream of          *)
(* chat.controller.ts, getSession and the mutation responses, and the      *)
(* client's side of them under apps/web/src/composables/chat.              *)
(*                                                                         *)
(* One client, one session, one reply.  The run itself is module ChatRun:  *)
(* here it appends deltas, and completes or stops.  The text of the reply  *)
(* is the sequence of its deltas.  What the client does in one go until it *)
(* waits for the network, Vue's watchers included, is one action.          *)
(***************************************************************************)
EXTENDS Integers, Sequences, SequencesExt

CONSTANTS MaxDeltas,      \* bound on the deltas of the reply
          MaxReloads,     \* bound on reloads of the page
          MaxFailures     \* bound on broken connections, failed requests and polls

ASSUME ChatFeedAssumption ==
    MaxDeltas \in Nat /\ MaxReloads \in Nat /\ MaxFailures \in Nat

VARIABLES reply,    \* the reply on the server
          log,      \* the session's events; an event's sequence is its index
          client,   \* snapshot state and runtime overlay of the client
          stream,   \* the client's event stream and the server's end of it
          request,  \* requests of the client: one mutation, one getSession
          reloads, failures,
          told      \* auxiliary: the client has shown an error message

vars == <<reply, log, client, stream, request, reloads, failures, told>>

ReplyStatuses == {"none", "running", "completed", "stopped"}
Ended(r) == r.status \in {"completed", "stopped"}
Active(r) == r.status = "running"

\* torn is auxiliary: the queries of the request saw the session at different times.
NoRequest == [pc |-> "idle", op |-> "load", latest |-> 0, sequence |-> 0,
              reply |-> [status |-> "none", text |-> <<>>], active |-> FALSE, torn |-> FALSE]

\* cut is auxiliary: the server ended the stream in good order.
ClosedStream == [state |-> "closed", after |-> 0, cursor |-> 0, cut |-> FALSE]

\* snapshot: latestSequence of the accepted snapshot; reply: the merged message;
\* run: the overlay's current run is there; ended: its id is in terminalRunIds;
\* paused: waiting for a snapshot; torn, auxiliary: what it shows is based on a
\* torn read.
NewClient == [snapshot |-> 0, cursor |-> 0, reply |-> [status |-> "none", text |-> <<>>],
              run |-> FALSE, ended |-> FALSE, paused |-> FALSE, torn |-> FALSE]

Init ==
    /\ reply = [status |-> "none", text |-> <<>>]
    /\ log = <<>>
    /\ client = NewClient
    /\ stream = ClosedStream
    /\ request = [slot \in {"mutation", "get"} |-> NoRequest]
    /\ reloads = 0 /\ failures = 0 /\ told = FALSE

-----------------------------------------------------------------------------
(* The run.                                                                *)

EventOf(type, text, latest) == [type |-> type, text |-> text, latest |-> latest]

\* appendPartDelta
Delta ==
    LET n == Len(reply.text) + 1 IN
    /\ Active(reply) /\ n <= MaxDeltas
    /\ reply' = [reply EXCEPT !.text = Append(@, n)]
    /\ log' = Append(log, EventOf("delta", <<n>>, 0))
    /\ UNCHANGED <<client, stream, request, reloads, failures, told>>

\* completeRun, which appends SNAPSHOT_REQUIRED when memory has changed; its
\* payload is the sequence of the whole batch.
Complete ==
    LET completed == EventOf("completed", reply.text, 0) IN
    /\ Active(reply)
    /\ reply' = [reply EXCEPT !.status = "completed"]
    /\ \/ log' = Append(log, completed)
       \/ log' = log \o <<EventOf("snapshot", <<>>, Len(log) + 2), completed>>
    /\ UNCHANGED <<client, stream, request, reloads, failures, told>>

-----------------------------------------------------------------------------
(* Requests.                                                               *)

Begin(slot, op) == request' = [request EXCEPT ![slot] = [NoRequest EXCEPT !.pc = "sent", !.op = op]]

\* sendMessage
ClientSend ==
    /\ request["mutation"].pc = "idle" /\ request["get"].pc = "idle"
    /\ reply.status = "none" /\ ~client.run
    /\ Begin("mutation", "send")
    /\ UNCHANGED <<reply, log, client, stream, reloads, failures, told>>

\* cancelActiveRun
ClientCancel ==
    /\ request["mutation"].pc = "idle" /\ client.run
    /\ Begin("mutation", "cancel")
    /\ UNCHANGED <<reply, log, client, stream, reloads, failures, told>>

\* The page is loaded again: selectSession.
Reload ==
    /\ reloads < MaxReloads /\ reloads' = reloads + 1
    /\ client' = NewClient /\ stream' = ClosedStream
    /\ request' = [mutation |-> NoRequest, get |-> [NoRequest EXCEPT !.pc = "row"]]
    /\ told' = FALSE
    /\ UNCHANGED <<reply, log, failures>>

\* The transaction of a mutation: a new run, or cancelRun, which leaves an
\* ended run alone.  latest is the sequence the response reports.
Mutate ==
    LET op == request["mutation"].op
        appended == IF op = "cancel" /\ ~Active(reply) THEN log
                    ELSE Append(log, EventOf(IF op = "send" THEN "created" ELSE "stopped", <<>>, 0))
    IN  /\ request["mutation"].pc = "sent"
        /\ log' = appended
        /\ reply' = IF appended = log THEN reply
                    ELSE [reply EXCEPT !.status = IF op = "send" THEN "running" ELSE "stopped"]
        /\ request' = [request EXCEPT !["mutation"].pc = "row",
                                      !["mutation"].latest = Len(appended)]
        /\ UNCHANGED <<client, stream, reloads, failures, told>>

\* getSession: the session's row, then its messages and parts, then the active
\* run, each by a query of its own.
ReadRow(slot) ==
    /\ request[slot].pc = "row"
    /\ request' = [request EXCEPT ![slot] =
          [@ EXCEPT !.pc = "messages", !.sequence = Len(log)]]
    /\ UNCHANGED <<reply, log, client, stream, reloads, failures, told>>

Torn(slot) == request[slot].torn \/ Len(log) # request[slot].sequence

ReadMessages(slot) ==
    /\ request[slot].pc = "messages"
    /\ request' = [request EXCEPT ![slot] =
          [@ EXCEPT !.pc = "run", !.reply = reply, !.torn = Torn(slot)]]
    /\ UNCHANGED <<reply, log, client, stream, reloads, failures, told>>

\* getActiveRunSummary
ReadRun(slot) ==
    /\ request[slot].pc = "run"
    /\ request' = [request EXCEPT ![slot] =
          [@ EXCEPT !.pc = "respond", !.active = Active(reply), !.torn = Torn(slot)]]
    /\ UNCHANGED <<reply, log, client, stream, reloads, failures, told>>

\* The request or its response is lost: the user sees an error message.
RequestFails(slot) ==
    /\ request[slot].pc # "idle" /\ failures < MaxFailures
    /\ failures' = failures + 1
    /\ request' = [request EXCEPT ![slot] = NoRequest]
    /\ told' = TRUE
    /\ UNCHANGED <<reply, log, client, stream, reloads>>

-----------------------------------------------------------------------------
(* Responses.                                                              *)

\* acceptChatSessionSnapshot
Accepts(c, sequence) == sequence >= c.snapshot

\* seedChatRuntimeOverlayFromSnapshot
SeedFromSnapshot(c, response) ==
    IF response.sequence < c.cursor THEN c
    ELSE [c EXCEPT !.cursor = response.sequence, !.paused = FALSE, !.reply = response.reply,
                   !.torn = response.torn, !.run = response.active /\ ~c.ended]

\* openSessionEventStream
Opened(after) == [state |-> "open", after |-> after, cursor |-> after, cut |-> FALSE]

\* startSessionEventStream leaves a stream alone that is open at that event.
Started(after) == IF stream.state = "open" /\ stream.after = after THEN stream ELSE Opened(after)

\* What the watcher of the current run does to a stream.
Watched(before, after, current) ==
    IF after.run /\ (~before.run \/ current.state = "closed") THEN
        IF current.state = "open" /\ current.after = after.cursor THEN current
        ELSE Opened(after.cursor)
    ELSE IF before.run /\ ~after.run THEN ClosedStream
    ELSE current

\* handleMutationResponse: the snapshot is accepted, the overlay is seeded from
\* the response, with the response's own sequence as cursor, and a stream is
\* started there; then the watchers seed the overlay from the accepted
\* snapshot and start the stream at its sequence, or stop it.
MutationResponse ==
    LET response == request["mutation"]
        accepted == [client EXCEPT !.snapshot = response.sequence]
        responded == [SeedFromSnapshot(accepted, response) EXCEPT !.cursor = response.latest]
        seeded == SeedFromSnapshot(responded, response)
    IN  /\ response.pc = "respond"
        /\ IF Accepts(client, response.sequence)
           THEN /\ client' = seeded
                /\ stream' = Watched(client, seeded,
                               IF seeded.run THEN Started(seeded.cursor)
                               ELSE Started(response.latest))
           ELSE UNCHANGED <<client, stream>>
        /\ request' = [request EXCEPT !["mutation"] = NoRequest]
        /\ UNCHANGED <<reply, log, reloads, failures, told>>

\* selectSession and refreshActiveSession.  After SNAPSHOT_REQUIRED the stream
\* is started again at the sequence the event named.
GetResponse ==
    LET response == request["get"]
        seeded == SeedFromSnapshot([client EXCEPT !.snapshot = response.sequence], response)
    IN  /\ response.pc = "respond"
        /\ IF Accepts(client, response.sequence)
           THEN /\ client' = seeded
                /\ stream' = IF response.op = "refresh" THEN Opened(response.latest)
                             ELSE Watched(client, seeded, stream)
           ELSE UNCHANGED <<client, stream>>
        /\ request' = [request EXCEPT !["get"] = NoRequest]
        /\ UNCHANGED <<reply, log, reloads, failures, told>>

-----------------------------------------------------------------------------
(* The event stream.                                                       *)

\* Mutant: events the client has already are applied again.
AppliedTwice(c, sequence, event) ==
    CASE event.type = "snapshot" -> [c EXCEPT !.cursor = event.latest, !.paused = TRUE]
      [] event.type = "delta" ->
           IF c.ended \/ c.reply.status = "none" THEN [c EXCEPT !.cursor = sequence]
           ELSE [c EXCEPT !.cursor = sequence, !.reply.text = @ \o event.text]
      [] event.type = "completed" ->
           [c EXCEPT !.cursor = sequence, !.ended = TRUE, !.run = FALSE, !.torn = FALSE,
                     !.reply = [status |-> "completed", text |-> event.text]]
      [] event.type = "stopped" ->
           [c EXCEPT !.cursor = sequence, !.ended = TRUE, !.run = FALSE,
                     !.reply.status = "stopped"]
      [] event.type = "created" -> [c EXCEPT !.cursor = sequence]

\* Mutant: the completed message does not replace the one put together.
AppliedStatusOnly(c, sequence, event) ==
    CASE event.type = "snapshot" -> [c EXCEPT !.cursor = event.latest, !.paused = TRUE]
      [] event.type # "snapshot" /\ sequence <= c.cursor -> c
      [] event.type = "delta" /\ sequence > c.cursor ->
           [c EXCEPT !.cursor = sequence,
                     !.reply.text = IF c.ended \/ c.reply.status = "none" THEN @ ELSE @ \o event.text]
      [] event.type \in {"completed", "stopped"} /\ sequence > c.cursor ->
           [c EXCEPT !.cursor = sequence, !.ended = TRUE, !.run = FALSE, !.reply.status = event.type]
      [] event.type = "created" /\ sequence > c.cursor -> [c EXCEPT !.cursor = sequence]

\* applyChatRuntimeOverlayEvent
Applied(c, sequence, event) ==
    CASE event.type = "snapshot" -> [c EXCEPT !.cursor = event.latest, !.paused = TRUE]
      [] event.type # "snapshot" /\ sequence <= c.cursor -> c
      [] event.type = "delta" /\ sequence > c.cursor ->
           IF c.ended \/ c.reply.status = "none" THEN [c EXCEPT !.cursor = sequence]
           ELSE [c EXCEPT !.cursor = sequence, !.reply.text = @ \o event.text]
      [] event.type = "completed" /\ sequence > c.cursor ->
           [c EXCEPT !.cursor = sequence, !.ended = TRUE, !.run = FALSE, !.torn = FALSE,
                     !.reply = [status |-> "completed", text |-> event.text]]
      [] event.type = "stopped" /\ sequence > c.cursor ->
           [c EXCEPT !.cursor = sequence, !.ended = TRUE, !.run = FALSE,
                     !.reply.status = "stopped"]
      [] event.type = "created" /\ sequence > c.cursor -> [c EXCEPT !.cursor = sequence]

\* streamSessionEvents sends the next event, and handleSessionEvent handles it.
\* The stream waits while the handler waits for a snapshot.
Deliver ==
    LET sequence == stream.cursor + 1
        event == log[sequence]
        applied == Applied(client, sequence, event)
        read == [stream EXCEPT !.after = sequence, !.cursor = sequence]
    IN  /\ stream.state = "open" /\ request["get"].pc = "idle"
        /\ sequence <= Len(log)
        /\ client' = applied
        /\ stream' = Watched(client, applied, read)
        /\ request' = IF event.type # "snapshot" THEN request
                      ELSE [request EXCEPT !["get"] = [NoRequest EXCEPT
                               !.pc = "row", !.op = "refresh", !.latest = event.latest]]
        /\ UNCHANGED <<reply, log, reloads, failures, told>>

\* Mutant: a broken connection counts as the end of the stream.
BreakSilently ==
    /\ stream.state = "open" /\ failures < MaxFailures
    /\ stream' = ClosedStream
    /\ failures' = failures + 1
    /\ UNCHANGED <<reply, log, client, request, reloads, told>>

\* The connection breaks: a reconnect is scheduled.
Break ==
    /\ stream.state = "open" /\ failures < MaxFailures
    /\ stream' = [stream EXCEPT !.state = "retry"]
    /\ failures' = failures + 1
    /\ UNCHANGED <<reply, log, client, request, reloads, told>>

\* Mutant: the client gives up after a second break.
ReconnectOnce ==
    /\ stream.state = "retry" /\ failures < 2
    /\ stream' = Opened(stream.after)
    /\ UNCHANGED <<reply, log, client, request, reloads, failures, told>>

\* scheduleReconnect
Reconnect ==
    /\ stream.state = "retry"
    /\ stream' = Opened(stream.after)
    /\ UNCHANGED <<reply, log, client, request, reloads, failures, told>>

\* A poll fails on the server, which ends the response in good order: for the
\* client that is the end of the stream, and not a reason to reconnect.
EndOfStream ==
    /\ stream.state = "open" /\ failures < MaxFailures
    /\ failures' = failures + 1
    /\ stream' = [ClosedStream EXCEPT !.cut = TRUE]
    /\ UNCHANGED <<reply, log, client, request, reloads, told>>

-----------------------------------------------------------------------------

RunStep == Delta \/ Complete
UserStep == ClientSend \/ ClientCancel \/ Reload
RequestStep ==
    \/ Mutate \/ MutationResponse \/ GetResponse
    \/ \E slot \in {"mutation", "get"} : ReadRow(slot) \/ ReadMessages(slot) \/ ReadRun(slot)
StreamStep == Deliver \/ Reconnect
FaultStep == Break \/ EndOfStream \/ \E slot \in {"mutation", "get"} : RequestFails(slot)

Next == RunStep \/ UserStep \/ RequestStep \/ StreamStep \/ FaultStep

\* A run ends (ChatRun), requests are answered, an open stream is polled and
\* the reconnect timer fires.  Nothing is assumed of the user.
Spec == /\ Init /\ [][Next]_vars
        /\ WF_vars(Complete) /\ WF_vars(RequestStep) /\ WF_vars(StreamStep)

-----------------------------------------------------------------------------
(* Properties.                                                             *)

Replies == [status : ReplyStatuses, text : Seq(1 .. MaxDeltas)]

FeedTypeOK ==
    /\ reply \in Replies /\ client.reply \in Replies
    /\ client.cursor \in 0 .. Len(log) /\ client.snapshot \in 0 .. Len(log)
    /\ stream.state \in {"closed", "open", "retry"}
    /\ stream.after \in 0 .. Len(log) /\ stream.cursor \in stream.after .. Len(log)
    /\ \A slot \in DOMAIN request :
          request[slot].pc \in {"idle", "sent", "row", "messages", "run", "respond"}

\* What the client shows is what the server had at some time: no delta is
\* shown twice or left out in the middle, whatever was delivered again after
\* a reconnect, a reload, or a response that is older than the events.  The
\* exception is a session read in several queries while an event was appended:
\* the delta is in the text and after the cursor, and is shown twice.
NeverRepeats == ~client.torn => IsPrefix(client.reply.text, reply.text)

Waiting == \/ \E slot \in DOMAIN request : request[slot].pc # "idle"
           \/ stream.state = "retry"
           \/ stream.state = "open"

\* The user was told, or one of the two known ways to be left behind was met.
Excused == told \/ client.torn \/ stream.cut

\* The client never rests on a reply that is not the server's: when nothing
\* is on its way, no stream is open and no error was shown, it shows the
\* reply as it is stored.  The exceptions are a torn read, which may show a
\* running reply and no run, and a stream the server ended after a failed poll,
\* which nobody opens again.
NoStaleRest == ~Waiting /\ ~Excused => client.reply = reply

\* Whatever the client had put together, out of reads of different times too:
\* once it has applied the event of the completion, it shows the stored reply.
CompletionHeals == client.ended /\ reply.status = "completed" => client.reply = reply

\* What the client shows is the server's: always a beginning of the reply, and
\* the reply as it is stored once the client is at rest or has seen it complete.
ShowsServer == FeedTypeOK /\ NeverRepeats /\ NoStaleRest /\ CompletionHeals

\* Whatever breaks meanwhile, the client comes to show how the reply ended,
\* has shown an error, or was left behind in one of the two ways above.
CatchesUp == Ended(reply) ~> (Excused \/ client.reply = reply)
=============================================================================
