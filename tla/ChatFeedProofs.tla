---------------------------- MODULE ChatFeedProofs ----------------------------
(***************************************************************************)
(* Proofs about ChatFeed for every length of the reply and every number of *)
(* reloads and failures: what the client shows is the server's.            *)
(***************************************************************************)
EXTENDS ChatFeed, SequenceTheorems, TLAPS

-----------------------------------------------------------------------------
(* The inductive invariant.                                                *)

Slots == {"mutation", "get"}
Types == {"created", "delta", "completed", "stopped", "snapshot"}
Events == [type : Types, text : Seq(1 .. MaxDeltas), latest : Nat]
ClientStates == [snapshot : Nat, cursor : Nat, reply : Replies, run : BOOLEAN, ended : BOOLEAN,
                 paused : BOOLEAN, torn : BOOLEAN]
StreamStates == [state : {"closed", "open", "retry"}, after : Nat, cursor : Nat, cut : BOOLEAN]
RequestStates == [pc : {"idle", "sent", "row", "messages", "run", "respond"},
                  op : {"load", "refresh", "send", "cancel"}, latest : Nat, sequence : Nat,
                  reply : Replies, active : BOOLEAN, torn : BOOLEAN]

Typed(r, l, c, st, rq, t) ==
    /\ r \in Replies /\ l \in Seq(Events) /\ c \in ClientStates
    /\ st \in StreamStates /\ rq \in [Slots -> RequestStates] /\ t \in BOOLEAN

\* A text whose deltas are the first ones, in order.
Counted(text) == \A i \in 1 .. Len(text) : text[i] = i

\* The deltas of the log: those of the reply, each once and in order.
Deltas(r, l) ==
    /\ \A i \in 1 .. Len(l) : l[i].type = "delta" =>
          \E n \in 1 .. Len(r.text) : l[i].text = <<n>>
    /\ \A i, j \in 1 .. Len(l) :
          l[i].type = "delta" /\ l[j].type = "delta" /\ i < j => l[i].text[1] < l[j].text[1]
    /\ \A n \in 1 .. Len(r.text) : \E i \in 1 .. Len(l) : l[i].type = "delta" /\ l[i].text = <<n>>

\* The end of the reply in the log.
Ends(r, l) ==
    \A i \in 1 .. Len(l) :
       /\ l[i].type = "completed" => i = Len(l) /\ r.status = "completed" /\ l[i].text = r.text
       /\ l[i].type = "stopped" => i = Len(l) /\ r.status = "stopped"
       /\ l[i].type = "snapshot" =>
             /\ r.status = "completed" /\ l[i].latest = Len(l)
             /\ \A j \in i + 1 .. Len(l) : l[j].type # "delta"

\* The log is the history of the reply.
LogTrue(r, l) ==
    /\ Counted(r.text)
    /\ r.status = "none" <=> l = <<>>
    /\ r.status = "none" => r.text = <<>>
    /\ Deltas(r, l) /\ Ends(r, l)

\* What the reply's text was when the log had s events.
View(text, s, r, l) ==
    /\ Counted(text) /\ Len(text) <= Len(r.text)
    /\ \A i \in 1 .. Len(l) : l[i].type = "delta" => (i <= s <=> l[i].text[1] <= Len(text))

HasRead == {"run", "respond"}
InReply == {"row", "messages", "run", "respond"}

\* What a request has read: a reply that has ended is the reply as it is.
ReadTrue(rq, r, l) ==
    /\ rq.latest <= Len(l)
    /\ rq.pc \in {"messages", "run", "respond"} =>
          rq.sequence <= Len(l) /\ rq.latest <= rq.sequence
    /\ rq.pc \in HasRead =>
          /\ ~rq.torn => View(rq.reply.text, rq.sequence, r, l)
          /\ (~rq.torn /\ rq.sequence = Len(l)) => rq.reply = r
          /\ Ended(rq.reply) => rq.reply = r
    /\ rq.pc = "respond" =>
          /\ ~rq.torn => (rq.active <=> Active(rq.reply))
          /\ rq.active => r.status # "none"

\* A mutation: one message is sent at most, and a cancellation ends the run.
Sending(mu) == mu.pc # "idle" /\ mu.op = "send"
MutationTrue(mu, r, l) ==
    /\ mu.pc # "idle" => mu.op \in {"send", "cancel"}
    /\ mu.pc = "sent" => (mu.op = "send" <=> r.status = "none")
    /\ mu.pc \in InReply =>
          /\ r.status # "none"
          /\ mu.op = "cancel" => ~Active(r) /\ mu.latest = Len(l)
    /\ mu.pc \in HasRead =>
          mu.reply.status # "none" /\ (mu.op = "cancel" => mu.reply = r)

\* The other request reads the session for a new page, or after the completion.
Loading(ge) == ge.pc # "idle" /\ ge.op = "load"
GetTrue(ge, r, l) ==
    /\ ge.pc # "idle" => ge.op \in {"load", "refresh"} /\ ge.pc # "sent"
    /\ ge.pc \in HasRead /\ ge.reply.status = "none" => r.status = "none"
    /\ ge.pc # "idle" /\ ge.op = "refresh" => r.status = "completed" /\ ge.latest = Len(l)
    /\ ge.pc \in HasRead /\ ge.op = "refresh" => ge.reply = r

\* A client before it sends or loads anything.
Untouched(c, st) == /\ c.snapshot = 0 /\ c.cursor = 0 /\ ~c.run /\ ~c.ended
                    /\ st.state = "closed"

\* What the client shows.
ClientTrue(c, st, r, l) ==
    /\ c.cursor <= Len(l) /\ c.snapshot <= Len(l)
    /\ ~c.torn => View(c.reply.text, c.cursor, r, l)
    /\ c.ended => /\ c.cursor = Len(l) /\ Ended(r) /\ ~c.run
                  /\ r.status = "completed" \/ ~c.torn => c.reply = r
    /\ c.run => r.status # "none" /\ (st.state # "closed" \/ st.cut)
    /\ c.reply.status = "none" /\ ~c.torn => st.state = "closed" /\ ~c.run

\* The stream is never ahead of the client.
StreamTrue(c, st, r) ==
    /\ st.after = st.cursor
    /\ st.state = "closed" => st.cursor = 0
    /\ st.state # "closed" => st.cursor <= c.cursor /\ r.status # "none"

\* A client that waits for nothing and was told nothing shows the reply.
AtRest(c, st, r, mu, ge, t) ==
    ~c.run /\ ~c.torn /\ st.state = "closed" /\ ~st.cut /\ ~t /\ ~Loading(ge) /\ ~Sending(mu)
        => c.reply = r /\ ~Active(r)

\* A message is sent, and a page loaded, by a client that has begun nothing.
Turns(c, st, rq) ==
    /\ Sending(rq["mutation"]) => Untouched(c, st) /\ rq["get"].pc = "idle"
    /\ Loading(rq["get"]) => Untouched(c, st) /\ rq["mutation"].pc = "idle" /\ ~c.torn

Requests(rq, r, l) ==
    /\ \A slot \in Slots : ReadTrue(rq[slot], r, l)
    /\ MutationTrue(rq["mutation"], r, l)
    /\ GetTrue(rq["get"], r, l)

Feed(r, l, c, st, rq, t) ==
    /\ Typed(r, l, c, st, rq, t) /\ LogTrue(r, l)
    /\ Requests(rq, r, l) /\ Turns(c, st, rq)
    /\ ClientTrue(c, st, r, l)
    /\ StreamTrue(c, st, r)
    /\ AtRest(c, st, r, rq["mutation"], rq["get"], t)

IInv == Feed(reply, log, client, stream, request, told)

-----------------------------------------------------------------------------
(* The log and what was shown of it.                                       *)

\* A log that has grown: what was read of it stays true, of a beginning of it.
Grows(r, l, r2, l2) ==
    /\ Len(l) < Len(l2) /\ r2.status # "none"
    /\ \A text \in Seq(1 .. MaxDeltas), s \in 0 .. Len(l) : View(text, s, r, l) => View(text, s, r2, l2)

\* The members of a sequence that was appended to.
LEMMA Appending ==
    ASSUME NEW S, NEW s \in Seq(S), NEW x \in S
    PROVE  /\ Append(s, x) \in Seq(S) /\ Append(s, x) # <<>>
           /\ Len(Append(s, x)) = Len(s) + 1 /\ Len(s) \in Nat
           /\ Append(s, x)[Len(s) + 1] = x
           /\ \A i \in 1 .. Len(s) : Append(s, x)[i] = s[i]
OBVIOUS

\* The members of a sequence that two were appended to.
LEMMA AppendingTwo ==
    ASSUME NEW S, NEW s \in Seq(S), NEW x \in S, NEW y \in S
    PROVE  /\ s \o <<x, y>> \in Seq(S) /\ s \o <<x, y>> # <<>>
           /\ Len(s \o <<x, y>>) = Len(s) + 2 /\ Len(s) \in Nat
           /\ (s \o <<x, y>>)[Len(s) + 1] = x /\ (s \o <<x, y>>)[Len(s) + 2] = y
           /\ \A i \in 1 .. Len(s) : (s \o <<x, y>>)[i] = s[i]
<1>1. <<x, y>> \in Seq(S) /\ Len(<<x, y>>) = 2 /\ <<x, y>>[1] = x /\ <<x, y>>[2] = y
  OBVIOUS
<1>2. PICK t \in Seq(S) : t = <<x, y>>
  BY <1>1
<1>3. /\ s \o t \in Seq(S) /\ Len(s \o t) = Len(s) + Len(t) /\ Len(s) \in Nat
      /\ \A i \in 1 .. Len(s) + Len(t) :
            (s \o t)[i] = IF i <= Len(s) THEN s[i] ELSE t[i - Len(s)]
  OBVIOUS
<1> QED
  BY <1>1, <1>2, <1>3

\* The fields of an event.
LEMMA EventFields ==
    ASSUME NEW type \in Types, NEW text \in Seq(1 .. MaxDeltas), NEW latest \in Nat
    PROVE  /\ EventOf(type, text, latest) \in Events
           /\ EventOf(type, text, latest).type = type /\ EventOf(type, text, latest).text = text
           /\ EventOf(type, text, latest).latest = latest
BY DEF EventOf, Events

\* The events that are appended.
LEMMA EventsOfTypes ==
    /\ EventOf("created", <<>>, 0) \in Events /\ EventOf("created", <<>>, 0).type = "created"
    /\ EventOf("stopped", <<>>, 0) \in Events /\ EventOf("stopped", <<>>, 0).type = "stopped"
    /\ \A text \in Seq(1 .. MaxDeltas) :
          /\ EventOf("completed", text, 0) \in Events
          /\ EventOf("completed", text, 0).type = "completed"
          /\ EventOf("completed", text, 0).text = text
    /\ \A k \in Nat :
          /\ EventOf("snapshot", <<>>, k) \in Events
          /\ EventOf("snapshot", <<>>, k).type = "snapshot"
          /\ EventOf("snapshot", <<>>, k).latest = k
    /\ \A n \in 1 .. MaxDeltas :
          /\ EventOf("delta", <<n>>, 0) \in Events
          /\ EventOf("delta", <<n>>, 0).type = "delta"
          /\ EventOf("delta", <<n>>, 0).text = <<n>>
<1>0. <<>> \in Seq(1 .. MaxDeltas)
  OBVIOUS
<1>1. PICK none \in Seq(1 .. MaxDeltas) : none = <<>>
  BY <1>0
<1>2. /\ "created" \in Types /\ "stopped" \in Types /\ "completed" \in Types
      /\ "snapshot" \in Types /\ "delta" \in Types
  BY DEF Types
<1>3. \A type \in Types, k \in Nat :
         /\ EventOf(type, none, k) \in Events
         /\ EventOf(type, none, k).type = type /\ EventOf(type, none, k).latest = k
  BY EventFields
<1>4. \A text \in Seq(1 .. MaxDeltas) :
          /\ EventOf("completed", text, 0) \in Events
          /\ EventOf("completed", text, 0).type = "completed"
          /\ EventOf("completed", text, 0).text = text
  BY <1>2, EventFields
<1>5. ASSUME NEW n \in 1 .. MaxDeltas
      PROVE  /\ EventOf("delta", <<n>>, 0) \in Events
             /\ EventOf("delta", <<n>>, 0).type = "delta"
             /\ EventOf("delta", <<n>>, 0).text = <<n>>
  <2>1. <<n>> \in Seq(1 .. MaxDeltas)
    OBVIOUS
  <2>2. PICK text \in Seq(1 .. MaxDeltas) : text = <<n>>
    BY <2>1
  <2>3. /\ EventOf("delta", text, 0) \in Events
        /\ EventOf("delta", text, 0).type = "delta"
        /\ EventOf("delta", text, 0).text = text
    BY <1>2, EventFields
  <2> QED
    BY <2>2, <2>3
<1>6. /\ EventOf("created", none, 0) \in Events /\ EventOf("created", none, 0).type = "created"
      /\ EventOf("stopped", none, 0) \in Events /\ EventOf("stopped", none, 0).type = "stopped"
  BY <1>2, <1>3
<1>7. \A k \in Nat : /\ EventOf("snapshot", none, k) \in Events
                     /\ EventOf("snapshot", none, k).type = "snapshot"
                     /\ EventOf("snapshot", none, k).latest = k
  BY <1>2, <1>3
<1> QED
  BY <1>1, <1>4, <1>5, <1>6, <1>7

\* A log with an event that is no delta added, and maybe another.
LEMMA Extended ==
    ASSUME NEW r \in Replies, NEW l \in Seq(Events), NEW r2 \in Replies, NEW l2 \in Seq(Events),
           r2.text = r.text, r2.status # "none", Len(l) < Len(l2),
           \A i \in 1 .. Len(l) : l2[i] = l[i],
           \A i \in Len(l) + 1 .. Len(l2) : l2[i].type # "delta"
    PROVE  Grows(r, l, r2, l2)
<1>1. Len(l) \in Nat /\ Len(l2) \in Nat
  OBVIOUS
<1>2. ASSUME NEW text \in Seq(1 .. MaxDeltas), NEW s \in 0 .. Len(l), View(text, s, r, l)
      PROVE  View(text, s, r2, l2)
  BY <1>1, <1>2 DEF View
<1> QED
  BY <1>2 DEF Grows

\* The delta of a running reply.
LEMMA DeltaGrows ==
    ASSUME NEW r \in Replies, NEW l \in Seq(Events), LogTrue(r, l), Active(r),
           NEW n \in Nat, n = Len(r.text) + 1,
           NEW r2 \in Replies, r2.status = r.status, Len(r2.text) = n, r2.text[n] = n,
           \A i \in 1 .. Len(r.text) : r2.text[i] = r.text[i],
           NEW l2 \in Seq(Events), Len(l2) = Len(l) + 1,
           \A i \in 1 .. Len(l) : l2[i] = l[i],
           l2[Len(l) + 1].type = "delta", l2[Len(l) + 1].text = <<n>>
    PROVE  LogTrue(r2, l2) /\ Grows(r, l, r2, l2)
<1>1. PICK k \in Nat : k = Len(l)
  OBVIOUS
<1>2. PICK m \in Nat : m = Len(r.text)
  BY DEF Replies
<1>3. PICK e \in Events : e = l2[k + 1]
  BY <1>1
<1>4. /\ e.type = "delta" /\ e.text = <<n>> /\ e.text[1] = n /\ r.status = "running"
      /\ n = m + 1 /\ Len(l2) = k + 1
      /\ \A i \in 1 .. k + 1 : i \in 1 .. k \/ i = k + 1
      /\ \A i \in 1 .. k : i \in 1 .. k + 1 /\ l2[i] = l[i]
  BY <1>1, <1>2, <1>3 DEF Active
<1>5. /\ \A i \in 1 .. k : l[i].type = "delta" => \E a \in 1 .. m : l[i].text = <<a>>
      /\ \A i, j \in 1 .. k :
            l[i].type = "delta" /\ l[j].type = "delta" /\ i < j => l[i].text[1] < l[j].text[1]
      /\ \A a \in 1 .. m : \E i \in 1 .. k : l[i].type = "delta" /\ l[i].text = <<a>>
  BY <1>1, <1>2 DEF LogTrue, Deltas
<1>6. \A i \in 1 .. k : l[i].type = "delta" => l[i].text[1] \in 1 .. m
  BY <1>5
<1>7. \A i \in 1 .. k : l[i].type \notin {"completed", "stopped", "snapshot"}
  BY <1>1, <1>4 DEF LogTrue, Ends
<1>8. Counted(r2.text)
  <2>1. \A i \in 1 .. m : r.text[i] = i
    BY <1>2 DEF LogTrue, Counted
  <2>2. \A i \in 1 .. n : r2.text[i] = i
    BY <2>1, <1>2, <1>4, SMTT(60)
  <2> QED
    BY <2>2 DEF Counted
<1>9. Deltas(r2, l2)
  <2>1. ASSUME NEW i \in 1 .. k + 1, l2[i].type = "delta"
        PROVE  \E a \in 1 .. n : l2[i].text = <<a>>
    <3>1. CASE i = k + 1
      BY <3>1, <1>3, <1>4
    <3>2. CASE i \in 1 .. k
      <4>1. PICK a \in 1 .. m : l[i].text = <<a>>
        BY <3>2, <2>1, <1>4, <1>5
      <4> QED
        BY <4>1, <3>2, <1>4, SMTT(60)
    <3> QED
      BY <3>1, <3>2, <1>4
  <2>2. ASSUME NEW i \in 1 .. k + 1, NEW j \in 1 .. k + 1,
               l2[i].type = "delta", l2[j].type = "delta", i < j
        PROVE  l2[i].text[1] < l2[j].text[1]
    <3>1. i \in 1 .. k /\ l2[i] = l[i]
      BY <2>2, <1>1, <1>4
    <3>2. CASE j = k + 1
      <4>1. l[i].text[1] \in 1 .. m /\ l2[j].text[1] = n
        BY <3>1, <3>2, <2>2, <1>3, <1>4, <1>6
      <4> QED
        BY <4>1, <3>1, <1>4, SMTT(60)
    <3>3. CASE j \in 1 .. k
      BY <3>1, <3>3, <2>2, <1>4, <1>5
    <3> QED
      BY <3>2, <3>3, <1>4
  <2>3. ASSUME NEW a \in 1 .. n
        PROVE  \E i \in 1 .. k + 1 : l2[i].type = "delta" /\ l2[i].text = <<a>>
    <3>1. CASE a = n
      BY <3>1, <1>3, <1>4
    <3>2. CASE a # n
      <4>1. a \in 1 .. m
        BY <3>2, <1>4
      <4>2. PICK i \in 1 .. k : l[i].type = "delta" /\ l[i].text = <<a>>
        BY <4>1, <1>5
      <4> QED
        BY <4>2, <1>4
    <3> QED
      BY <3>1, <3>2
  <2> QED
    BY <2>1, <2>2, <2>3, <1>4, ZenonT(60) DEF Deltas
<1>10. Ends(r2, l2)
  BY <1>3, <1>4, <1>7 DEF Ends
<1>11. LogTrue(r2, l2)
  <2>1. r2.status # "none" /\ l2 # <<>>
    BY <1>4
  <2> QED
    BY <2>1, <1>8, <1>9, <1>10 DEF LogTrue
<1>12. ASSUME NEW text \in Seq(1 .. MaxDeltas), NEW s \in 0 .. Len(l), View(text, s, r, l)
       PROVE  View(text, s, r2, l2)
  <2>1. PICK c \in Nat : c = Len(text)
    OBVIOUS
  <2>2. /\ c <= m /\ Counted(text) /\ s \in 0 .. k
        /\ \A i \in 1 .. k : l[i].type = "delta" => (i <= s <=> l[i].text[1] <= c)
    BY <2>1, <1>1, <1>2, <1>12 DEF View
  <2>3. \A i \in 1 .. k + 1 : l2[i].type = "delta" => (i <= s <=> l2[i].text[1] <= c)
    BY <2>2, <1>3, <1>4, SMTT(60)
  <2> QED
    BY <2>1, <2>2, <2>3, <1>4 DEF View
<1> QED
  BY <1>4, <1>11, <1>12 DEF Grows

\* The end of a running reply: the event of its end is the last one.
LEMMA EndGrows ==
    ASSUME NEW r \in Replies, NEW l \in Seq(Events), LogTrue(r, l), Active(r),
           NEW end \in {"completed", "stopped"}, NEW r2 \in Replies,
           r2.text = r.text, r2.status = end,
           NEW l2 \in Seq(Events), Len(l) < Len(l2), Len(l2) <= Len(l) + 2,
           \A i \in 1 .. Len(l) : l2[i] = l[i],
           l2[Len(l2)].type = end, end = "completed" => l2[Len(l2)].text = r.text,
           Len(l2) = Len(l) + 2 => /\ end = "completed" /\ l2[Len(l) + 1].type = "snapshot"
                                   /\ l2[Len(l) + 1].latest = Len(l2)
    PROVE  /\ ~Active(r2) /\ r2.status # "none"
           /\ LogTrue(r2, l2) /\ Grows(r, l, r2, l2)
<1>1. PICK k \in Nat : k = Len(l)
  OBVIOUS
<1>2. PICK k2 \in Nat : k2 = Len(l2)
  OBVIOUS
<1>3. /\ k < k2 /\ k2 <= k + 2 /\ r.status = "running"
      /\ \A i \in 1 .. k : l2[i] = l[i]
      /\ l2[k2].type = end /\ (end = "completed" => l2[k2].text = r.text)
      /\ k2 = k + 2 => end = "completed" /\ l2[k + 1].type = "snapshot" /\ l2[k + 1].latest = k2
  BY <1>1, <1>2 DEF Active
<1>4. \A i \in k + 1 .. k2 : i = k2 \/ (i = k + 1 /\ k2 = k + 2)
  BY <1>3
<1>5. \A i \in k + 1 .. k2 : l2[i].type # "delta"
  BY <1>3, <1>4
<1>6. \A i \in 1 .. k2 : l2[i].type = "delta" => i \in 1 .. k /\ l2[i] = l[i]
  BY <1>3, <1>5
<1>7. \A i \in 1 .. k : l[i].type \notin {"completed", "stopped", "snapshot"}
  BY <1>1, <1>3 DEF LogTrue, Ends
<1>8. \A i \in 1 .. k2 : i \in 1 .. k \/ i = k2 \/ (i = k + 1 /\ k2 = k + 2)
  BY <1>3, <1>4
<1>9. \A i \in 1 .. k2 :
          /\ l2[i].type = "completed" => i = k2 /\ end = "completed" /\ l2[i].text = r.text
          /\ l2[i].type = "stopped" => i = k2 /\ end = "stopped"
          /\ l2[i].type = "snapshot" => end = "completed" /\ l2[i].latest = k2 /\ i > k
  BY <1>3, <1>7, <1>8
<1>10. \A i \in 1 .. k2 : l2[i].type = "snapshot" => \A j \in i + 1 .. k2 : l2[j].type # "delta"
  BY <1>5, <1>9
<1>11. /\ \A i \in 1 .. k : l[i].type = "delta" => \E m \in 1 .. Len(r.text) : l[i].text = <<m>>
       /\ \A i, j \in 1 .. k :
             l[i].type = "delta" /\ l[j].type = "delta" /\ i < j => l[i].text[1] < l[j].text[1]
       /\ \A m \in 1 .. Len(r.text) : \E i \in 1 .. k : l[i].type = "delta" /\ l[i].text = <<m>>
       /\ Counted(r.text)
  BY <1>1 DEF LogTrue, Deltas
<1>12. /\ \A i \in 1 .. k2 : l2[i].type = "delta" =>
             \E m \in 1 .. Len(r.text) : l2[i].text = <<m>>
       /\ \A i, j \in 1 .. k2 :
             l2[i].type = "delta" /\ l2[j].type = "delta" /\ i < j => l2[i].text[1] < l2[j].text[1]
  BY <1>6, <1>11
<1>13. \A m \in 1 .. Len(r.text) : \E i \in 1 .. k2 : l2[i].type = "delta" /\ l2[i].text = <<m>>
  <2> SUFFICES ASSUME NEW m \in 1 .. Len(r.text)
               PROVE  \E i \in 1 .. k2 : l2[i].type = "delta" /\ l2[i].text = <<m>>
    OBVIOUS
  <2>1. PICK i \in 1 .. k : l[i].type = "delta" /\ l[i].text = <<m>>
    BY <1>11
  <2>2. i \in 1 .. k2 /\ l2[i] = l[i]
    BY <1>3
  <2> QED
    BY <2>1, <2>2
<1>14. LogTrue(r2, l2)
  <2>1. l2 # <<>> /\ r2.status # "none" /\ Counted(r2.text)
    BY <1>2, <1>3, <1>11
  <2>2. Deltas(r2, l2)
    BY <1>2, <1>12, <1>13 DEF Deltas
  <2>3. Ends(r2, l2)
    BY <1>2, <1>9, <1>10 DEF Ends
  <2> QED
    BY <2>1, <2>2, <2>3 DEF LogTrue
<1>15. Grows(r, l, r2, l2)
  BY <1>1, <1>2, <1>5, Extended
<1> QED
  BY <1>14, <1>15 DEF Active

\* The first event of a log: a run for the message that was sent.
LEMMA SendGrows ==
    ASSUME NEW r \in Replies, NEW l \in Seq(Events), LogTrue(r, l), r.status = "none",
           NEW r2 \in Replies, r2.text = r.text, r2.status = "running",
           NEW l2 \in Seq(Events), Len(l2) = 1, l2[1].type = "created"
    PROVE  LogTrue(r2, l2) /\ Grows(r, l, r2, l2)
<1>1. r.text = <<>> /\ l = <<>> /\ Len(l) = 0 /\ Len(r2.text) = 0
  BY DEF LogTrue
<1>2. LogTrue(r2, l2)
  <2>1. l2 # <<>> /\ Counted(r2.text)
    <3>1. Len(l2) # Len(l)
      BY <1>1
    <3>2. \A i \in 1 .. Len(r2.text) : r2.text[i] = i
      BY <1>1
    <3> QED
      BY <3>1, <3>2, <1>1 DEF Counted
  <2>2. Deltas(r2, l2)
    BY <1>1 DEF Deltas
  <2>3. Ends(r2, l2)
    BY <1>1 DEF Ends
  <2> QED
    BY <2>1, <2>2, <2>3 DEF LogTrue
<1>3. Grows(r, l, r2, l2)
  <2>1. \A i \in 1 .. Len(l) : l2[i] = l[i]
    BY <1>1
  <2>2. \A i \in Len(l) + 1 .. Len(l2) : l2[i].type # "delta"
    BY <1>1
  <2> QED
    <3>1. Len(l) < Len(l2) /\ r2.status # "none"
      BY <1>1
    <3> QED
      BY <3>1, <2>1, <2>2, Extended
<1> QED
  BY <1>2, <1>3

-----------------------------------------------------------------------------
(* The steps of the server.                                                *)

\* The fields of what the model keeps.
LEMMA Fields ==
    /\ \A r \in Replies : r.text \in Seq(1 .. MaxDeltas) /\ r.status \in ReplyStatuses
    /\ \A c \in ClientStates :
          /\ c.snapshot \in Nat /\ c.cursor \in Nat /\ c.reply \in Replies /\ c.run \in BOOLEAN
          /\ c.ended \in BOOLEAN /\ c.paused \in BOOLEAN /\ c.torn \in BOOLEAN
    /\ \A st \in StreamStates :
          /\ st.state \in {"closed", "open", "retry"} /\ st.after \in Nat /\ st.cursor \in Nat
          /\ st.cut \in BOOLEAN
    /\ \A q \in RequestStates :
          /\ q.pc \in {"idle", "sent", "row", "messages", "run", "respond"}
          /\ q.op \in {"load", "refresh", "send", "cancel"} /\ q.latest \in Nat
          /\ q.sequence \in Nat /\ q.reply \in Replies /\ q.active \in BOOLEAN
          /\ q.torn \in BOOLEAN
BY DEF Replies, ClientStates, StreamStates, RequestStates

\* What a request has read stays true of a log that grows.
LEMMA ReadOfGrown ==
    ASSUME NEW r \in Replies, NEW l \in Seq(Events), NEW r2 \in Replies, NEW l2 \in Seq(Events),
           Grows(r, l, r2, l2), ~Ended(r), NEW q \in RequestStates, ReadTrue(q, r, l)
    PROVE  ReadTrue(q, r2, l2)
<1>1. /\ Len(l) \in Nat /\ Len(l2) \in Nat /\ Len(l) < Len(l2) /\ r2.status # "none"
      /\ q.latest \in Nat /\ q.sequence \in Nat /\ q.reply.text \in Seq(1 .. MaxDeltas)
  BY Fields DEF Grows
<1>2. q.latest <= Len(l2)
  BY <1>1 DEF ReadTrue
<1>3. q.pc \in {"messages", "run", "respond"} =>
         q.sequence \in 0 .. Len(l) /\ q.sequence < Len(l2) /\ q.latest <= q.sequence
  BY <1>1 DEF ReadTrue
<1>4. q.pc \in HasRead /\ ~q.torn => View(q.reply.text, q.sequence, r2, l2)
  BY <1>1, <1>3 DEF ReadTrue, Grows, HasRead
<1>5. q.pc \in HasRead => ~Ended(q.reply)
  BY DEF ReadTrue
<1>6. q.pc \in HasRead => q.sequence # Len(l2)
  BY <1>1, <1>3 DEF HasRead
<1>7. q.pc = "respond" => (~q.torn => (q.active <=> Active(q.reply)))
  BY DEF ReadTrue
<1> QED
  BY <1>1, <1>2, <1>3, <1>4, <1>5, <1>6, <1>7 DEF ReadTrue

\* What the client shows stays true of a log that grows.
LEMMA ClientOfGrown ==
    ASSUME NEW r \in Replies, NEW l \in Seq(Events), NEW r2 \in Replies, NEW l2 \in Seq(Events),
           Grows(r, l, r2, l2), ~Ended(r), NEW c \in ClientStates, NEW st \in StreamStates,
           ClientTrue(c, st, r, l)
    PROVE  ClientTrue(c, st, r2, l2)
<1>1. /\ Len(l) \in Nat /\ Len(l2) \in Nat /\ Len(l) < Len(l2) /\ r2.status # "none"
      /\ c.cursor \in Nat /\ c.snapshot \in Nat /\ c.reply.text \in Seq(1 .. MaxDeltas)
  BY Fields DEF Grows
<1>2. c.cursor \in 0 .. Len(l) /\ c.cursor <= Len(l2) /\ c.snapshot <= Len(l2) /\ ~c.ended
  BY <1>1 DEF ClientTrue
<1>3. ~c.torn => View(c.reply.text, c.cursor, r2, l2)
  BY <1>1, <1>2 DEF ClientTrue, Grows
<1> QED
  BY <1>1, <1>2, <1>3 DEF ClientTrue

\* The run appends to the log: the client and its requests have to wait.
LEMMA RunGrows ==
    ASSUME NEW r, NEW l, NEW c, NEW st, NEW rq, NEW t, Feed(r, l, c, st, rq, t),
           NEW r2 \in Replies, NEW l2 \in Seq(Events), LogTrue(r2, l2), Grows(r, l, r2, l2),
           Active(r)
    PROVE  Feed(r2, l2, c, st, rq, t)
<1>1. Typed(r, l, c, st, rq, t) /\ Typed(r2, l2, c, st, rq, t)
  BY DEF Feed, Typed
<1>2. r.status = "running" /\ ~Ended(r) /\ r2.status # "none"
  BY DEF Active, Ended, Grows
<1>3. PICK mu \in RequestStates, ge \in RequestStates : mu = rq["mutation"] /\ ge = rq["get"]
  BY <1>1 DEF Typed, Slots
<1>4. Requests(rq, r2, l2)
  <2>1. \A slot \in Slots : ReadTrue(rq[slot], r2, l2)
    <3> SUFFICES ASSUME NEW slot \in Slots PROVE ReadTrue(rq[slot], r2, l2)
      OBVIOUS
    <3>1. PICK q \in RequestStates : q = rq[slot]
      BY <1>1 DEF Typed
    <3>2. ReadTrue(q, r, l)
      BY <3>1 DEF Feed, Requests
    <3>3. r \in Replies /\ l \in Seq(Events)
      BY <1>1 DEF Typed
    <3> QED
      BY <3>1, <3>2, <3>3, <1>2, ReadOfGrown
  <2>2. MutationTrue(mu, r, l) /\ GetTrue(ge, r, l)
    BY <1>3 DEF Feed, Requests
  <2>3. MutationTrue(mu, r2, l2)
    BY <2>2, <1>2 DEF MutationTrue, InReply, HasRead, Active
  <2>4. GetTrue(ge, r2, l2)
    BY <2>2, <1>2 DEF GetTrue, HasRead
  <2> QED
    BY <2>1, <2>3, <2>4, <1>3 DEF Requests
<1>5. ClientTrue(c, st, r2, l2)
  <2>1. r \in Replies /\ l \in Seq(Events) /\ c \in ClientStates /\ st \in StreamStates
    BY <1>1 DEF Typed
  <2>2. ClientTrue(c, st, r, l)
    BY DEF Feed
  <2> QED
    BY <2>1, <2>2, <1>2, ClientOfGrown
<1>6. StreamTrue(c, st, r2)
  BY <1>2 DEF Feed, StreamTrue
<1>7. AtRest(c, st, r2, rq["mutation"], rq["get"], t)
  BY DEF Feed, AtRest
<1> QED
  BY <1>1, <1>4, <1>5, <1>6, <1>7 DEF Feed

\* A delta of the run.
LEMMA DeltaStep == IInv /\ Delta => IInv'
<1> SUFFICES ASSUME IInv, Delta PROVE IInv'
  OBVIOUS
<1>1. Feed(reply, log, client, stream, request, told) /\ reply \in Replies /\ log \in Seq(Events)
  BY DEF IInv, Feed, Typed
<1>2. PICK n \in Nat : n = Len(reply.text) + 1 /\ n \in 1 .. MaxDeltas
  BY <1>1, Fields DEF Delta
<1>3. /\ Active(reply) /\ reply' = [reply EXCEPT !.text = Append(@, n)]
      /\ log' = Append(log, EventOf("delta", <<n>>, 0))
      /\ UNCHANGED <<client, stream, request, told>>
  BY <1>2 DEF Delta
<1>4. /\ reply' \in Replies /\ reply'.status = reply.status /\ Len(reply'.text) = n
      /\ reply'.text[n] = n /\ \A i \in 1 .. Len(reply.text) : reply'.text[i] = reply.text[i]
  <2>1. PICK text \in Seq(1 .. MaxDeltas) : text = Append(reply.text, n)
    <3>1. Append(reply.text, n) \in Seq(1 .. MaxDeltas)
      BY <1>1, <1>2, Fields
    <3> QED
      BY <3>1
  <2>2. reply' = [reply EXCEPT !.text = text]
    BY <1>3, <2>1
  <2>3. reply'.text = text /\ reply'.status = reply.status /\ reply' \in Replies
    BY <2>2, <1>1 DEF Replies
  <2>4. reply.text \in Seq(1 .. MaxDeltas)
    BY <1>1, Fields
  <2> QED
    BY <2>1, <2>3, <2>4, <1>2
<1>5. /\ log' \in Seq(Events) /\ Len(log') = Len(log) + 1
      /\ \A i \in 1 .. Len(log) : log'[i] = log[i]
      /\ log'[Len(log) + 1].type = "delta" /\ log'[Len(log) + 1].text = <<n>>
  <2>1. PICK e \in Events : /\ e = EventOf("delta", <<n>>, 0) /\ e.type = "delta"
                            /\ e.text = <<n>>
    BY <1>2, EventsOfTypes
  <2>2. log' = Append(log, e)
    BY <1>3, <2>1
  <2> QED
    BY <2>1, <2>2, <1>1, Appending
<1>6. LogTrue(reply', log') /\ Grows(reply, log, reply', log')
  <2>1. LogTrue(reply, log)
    BY DEF IInv, Feed
  <2> QED
    BY <2>1, <1>1, <1>2, <1>3, <1>4, <1>5, DeltaGrows, ZenonT(60)
<1>7. Feed(reply', log', client, stream, request, told)
  BY <1>1, <1>3, <1>4, <1>5, <1>6, RunGrows
<1> QED
  BY <1>3, <1>7 DEF IInv

\* The completion of the run, with or without the event that asks for a snapshot.
LEMMA CompleteStep == IInv /\ Complete => IInv'
<1> SUFFICES ASSUME IInv, Complete PROVE IInv'
  OBVIOUS
<1>1. Feed(reply, log, client, stream, request, told) /\ reply \in Replies /\ log \in Seq(Events)
  BY DEF IInv, Feed, Typed
<1>2. PICK c \in Events : /\ c = EventOf("completed", reply.text, 0) /\ c.type = "completed"
                          /\ c.text = reply.text
  BY <1>1, Fields, EventsOfTypes
<1>3. PICK s \in Events : /\ s = EventOf("snapshot", <<>>, Len(log) + 2) /\ s.type = "snapshot"
                          /\ s.latest = Len(log) + 2
  <2>1. Len(log) + 2 \in Nat
    BY <1>1
  <2> QED
    BY <2>1, EventsOfTypes
<1>4. /\ Active(reply) /\ reply' = [reply EXCEPT !.status = "completed"]
      /\ log' = Append(log, c) \/ log' = log \o <<s, c>>
      /\ UNCHANGED <<client, stream, request, told>>
  BY <1>2, <1>3 DEF Complete
<1>5. reply' \in Replies /\ reply'.text = reply.text /\ reply'.status = "completed"
  BY <1>1, <1>4 DEF Replies, ReplyStatuses
<1>6. /\ log' \in Seq(Events) /\ Len(log) < Len(log') /\ Len(log') <= Len(log) + 2
      /\ \A i \in 1 .. Len(log) : log'[i] = log[i]
      /\ log'[Len(log')].type = "completed" /\ log'[Len(log')].text = reply.text
      /\ Len(log') = Len(log) + 2 => /\ log'[Len(log) + 1].type = "snapshot"
                                     /\ log'[Len(log) + 1].latest = Len(log')
  <2>1. CASE log' = Append(log, c)
    BY <2>1, <1>1, <1>2, Appending
  <2>2. CASE log' = log \o <<s, c>>
    BY <2>2, <1>1, <1>2, <1>3, AppendingTwo
  <2> QED
    BY <2>1, <2>2, <1>4
<1>7. LogTrue(reply', log') /\ Grows(reply, log, reply', log')
  <2>1. LogTrue(reply, log)
    BY DEF IInv, Feed
  <2> QED
    BY <2>1, <1>1, <1>4, <1>5, <1>6, EndGrows
<1>8. Feed(reply', log', client, stream, request, told)
  BY <1>1, <1>4, <1>5, <1>6, <1>7, RunGrows
<1> QED
  BY <1>4, <1>8 DEF IInv

-----------------------------------------------------------------------------
(* The steps of requests.                                                  *)

\* What a step of the request in a slot may make of it: it takes its turn, what
\* it reads is true, and it ends in an error message or in its response.
Moves(slot, q, r, l, c, st, rq, t, t2) ==
    /\ q \in RequestStates /\ t2 \in BOOLEAN
    /\ ReadTrue(q, r, l) /\ (t => t2)
    /\ slot = "mutation" =>
          /\ MutationTrue(q, r, l)
          /\ Sending(q) => Untouched(c, st) /\ rq["get"].pc = "idle"
          /\ q.pc # "idle" => ~Loading(rq["get"])
          /\ Sending(rq["mutation"]) => Sending(q) \/ t2
    /\ slot = "get" =>
          /\ GetTrue(q, r, l)
          /\ q.pc # "idle" => ~Sending(rq["mutation"])
          /\ Loading(q) => Loading(rq["get"])
          /\ Loading(rq["get"]) => Loading(q) \/ t2

\* The requests after a step of one of them.
Replaced(rq, slot, q, rq2) == rq2 = [rq EXCEPT ![slot] = q]

\* A step of one request, which the client does not see yet.
LEMMA RequestMoves ==
    ASSUME NEW r, NEW l, NEW c, NEW st, NEW rq, NEW t, Feed(r, l, c, st, rq, t),
           NEW slot \in Slots, NEW q, NEW t2,
           Moves(slot, q, r, l, c, st, rq, t, t2),
           NEW rq2, Replaced(rq, slot, q, rq2)
    PROVE  Feed(r, l, c, st, rq2, t2)
<1>1. /\ Typed(r, l, c, st, rq, t) /\ Requests(rq, r, l) /\ Turns(c, st, rq)
      /\ q \in RequestStates /\ t2 \in BOOLEAN
  BY DEF Feed, Moves
<1>2. /\ rq2 \in [Slots -> RequestStates] /\ rq2[slot] = q
      /\ \A other \in Slots : other # slot => rq2[other] = rq[other]
  BY <1>1 DEF Typed, Replaced
<1>3. Typed(r, l, c, st, rq2, t2)
  BY <1>1, <1>2 DEF Typed
<1>4. \A other \in Slots : ReadTrue(rq2[other], r, l)
  BY <1>1, <1>2 DEF Moves, Requests
<1>5. CASE slot = "mutation"
  <2>1. rq2["mutation"] = q /\ rq2["get"] = rq["get"]
    BY <1>2, <1>5 DEF Slots
  <2>2. Requests(rq2, r, l)
    BY <2>1, <1>1, <1>4, <1>5 DEF Requests, Moves
  <2>3. Turns(c, st, rq2)
    <3>1. Sending(q) => Untouched(c, st) /\ rq["get"].pc = "idle"
      BY <1>5 DEF Moves
    <3>2. Loading(rq["get"]) => Untouched(c, st) /\ q.pc = "idle" /\ ~c.torn
      BY <1>1, <1>5 DEF Moves, Turns
    <3> QED
      BY <3>1, <3>2, <2>1 DEF Turns
  <2>4. AtRest(c, st, r, q, rq["get"], t2)
    <3>1. /\ t => t2
          /\ Sending(rq["mutation"]) => Sending(q) \/ t2
      BY <1>5 DEF Moves
    <3>2. AtRest(c, st, r, rq["mutation"], rq["get"], t)
      BY DEF Feed
    <3> QED
      BY <3>1, <3>2 DEF AtRest
  <2> QED
    BY <2>1, <2>2, <2>3, <2>4, <1>3 DEF Feed
<1>6. CASE slot = "get"
  <2>1. rq2["get"] = q /\ rq2["mutation"] = rq["mutation"]
    BY <1>2, <1>6 DEF Slots
  <2>2. Requests(rq2, r, l)
    BY <2>1, <1>1, <1>4, <1>6 DEF Requests, Moves
  <2>3. Turns(c, st, rq2)
    <3>1. Sending(rq["mutation"]) => Untouched(c, st) /\ q.pc = "idle"
      BY <1>1, <1>6 DEF Moves, Turns
    <3>2. Loading(q) => Untouched(c, st) /\ rq["mutation"].pc = "idle" /\ ~c.torn
      BY <1>1, <1>6 DEF Moves, Turns
    <3> QED
      BY <3>1, <3>2, <2>1 DEF Turns
  <2>4. AtRest(c, st, r, rq["mutation"], q, t2)
    <3>1. /\ t => t2
          /\ Loading(rq["get"]) => Loading(q) \/ t2
      BY <1>6, SMTT(60) DEF Moves
    <3>2. AtRest(c, st, r, rq["mutation"], rq["get"], t)
      BY DEF Feed
    <3> QED
      BY <3>1, <3>2 DEF AtRest
  <2> QED
    BY <2>1, <2>2, <2>3, <2>4, <1>3 DEF Feed
<1> QED
  BY <1>5, <1>6 DEF Slots

\* A request of the client that has only begun, or is over.
LEMMA NewRequest ==
    /\ NoRequest \in RequestStates /\ NoRequest.pc = "idle" /\ NoRequest.op = "load"
    /\ NoRequest.latest = 0
    /\ \A pc \in {"sent", "row"}, op \in {"load", "refresh", "send", "cancel"}, k \in Nat :
          LET q == [NoRequest EXCEPT !.pc = pc, !.op = op, !.latest = k]
          IN  q \in RequestStates /\ q.pc = pc /\ q.op = op /\ q.latest = k
    /\ LET q == [NoRequest EXCEPT !.pc = "row"]
       IN  q \in RequestStates /\ q.pc = "row" /\ q.op = "load" /\ q.latest = 0
<1>1. [status |-> "none", text |-> <<>>] \in Replies
  BY DEF Replies, ReplyStatuses
<1>2. PICK none \in Replies : none = [status |-> "none", text |-> <<>>]
  BY <1>1
<1>3. NoRequest = [pc |-> "idle", op |-> "load", latest |-> 0, sequence |-> 0,
                   reply |-> none, active |-> FALSE, torn |-> FALSE]
  BY <1>2 DEF NoRequest
<1>4. NoRequest \in RequestStates
  BY <1>3 DEF RequestStates
<1> QED
  BY <1>3, <1>4, ZenonT(60) DEF RequestStates

\* A mutation that has just been sent.
LEMMA NewMutation ==
    ASSUME NEW op \in {"send", "cancel"},
           NEW q, q = [NoRequest EXCEPT !.pc = "sent", !.op = op]
    PROVE  q \in RequestStates /\ q.pc = "sent" /\ q.op = op /\ q.latest = 0
<1>1. NoRequest \in RequestStates /\ NoRequest.latest = 0
  BY NewRequest
<1>2. PICK no \in RequestStates : no = NoRequest /\ no.latest = 0
  BY <1>1
<1> QED
  BY <1>2 DEF RequestStates

\* The request that is none.
LEMMA Idle == NoRequest \in RequestStates /\ NoRequest.pc = "idle" /\ NoRequest.latest = 0
BY NewRequest

\* A request that has read nothing.
LEMMA NothingRead ==
    ASSUME NEW q \in RequestStates, q.pc \in {"idle", "sent", "row"}, NEW r, NEW l \in Seq(Events),
           q.latest <= Len(l)
    PROVE  ReadTrue(q, r, l)
BY DEF ReadTrue, HasRead

\* The client sends the message or cancels the run.
LEMMA BeginStep == IInv /\ (ClientSend \/ ClientCancel) => IInv'
<1> SUFFICES ASSUME IInv, ClientSend \/ ClientCancel PROVE IInv'
  OBVIOUS
<1>1. /\ Feed(reply, log, client, stream, request, told)
      /\ Typed(reply, log, client, stream, request, told)
      /\ UNCHANGED <<reply, log, client, stream, told>> /\ request["mutation"].pc = "idle"
  BY DEF IInv, Feed, ClientSend, ClientCancel
<1>2. PICK op \in {"send", "cancel"} :
         /\ op = "send" => reply.status = "none" /\ request["get"].pc = "idle"
         /\ op = "cancel" => client.run
         /\ request' = [request EXCEPT !["mutation"] = [NoRequest EXCEPT !.pc = "sent", !.op = op]]
  BY DEF ClientSend, ClientCancel, Begin
<1>3. PICK q \in RequestStates : /\ q = [NoRequest EXCEPT !.pc = "sent", !.op = op]
                                 /\ q.pc = "sent" /\ q.op = op /\ q.latest = 0
  <2>1. PICK q : q = [NoRequest EXCEPT !.pc = "sent", !.op = op]
    OBVIOUS
  <2>2. q \in RequestStates /\ q.pc = "sent" /\ q.op = op /\ q.latest = 0
    BY <2>1, NewMutation
  <2> QED
    BY <2>1, <2>2
<1>4. ReadTrue(q, reply, log)
  <2>1. log \in Seq(Events) /\ 0 <= Len(log)
    BY <1>1 DEF Typed
  <2> QED
    BY <2>1, <1>3, NothingRead
<1>5. ClientTrue(client, stream, reply, log) /\ StreamTrue(client, stream, reply) /\ LogTrue(reply, log)
      /\ Turns(client, stream, request)
  BY <1>1 DEF Feed
<1>6. MutationTrue(q, reply, log)
  <2>1. op = "cancel" => reply.status # "none"
    BY <1>2, <1>5 DEF ClientTrue
  <2> QED
    BY <2>1, <1>2, <1>3 DEF MutationTrue, InReply, HasRead
<1>7. op = "send" => Untouched(client, stream)
  <2> SUFFICES ASSUME op = "send" PROVE Untouched(client, stream)
    OBVIOUS
  <2>1. reply.status = "none" /\ Len(log) = 0
    BY <1>2, <1>5 DEF LogTrue
  <2>2. /\ client.cursor \in Nat /\ client.snapshot \in Nat
        /\ stream.state \in {"closed", "open", "retry"}
    BY <1>1, Fields DEF Typed
  <2>3. client.cursor <= 0 /\ client.snapshot <= 0 /\ ~client.ended /\ ~client.run
    BY <2>1, <1>5 DEF ClientTrue, Ended
  <2>4. stream.state = "closed"
    BY <2>1, <2>2, <1>5 DEF StreamTrue
  <2> QED
    BY <2>2, <2>3, <2>4 DEF Untouched
<1>8. ~Loading(request["get"])
  BY <1>2, <1>5 DEF Turns, Loading, Untouched
<1>9. Moves("mutation", q, reply, log, client, stream, request, told, told)
  BY <1>1, <1>2, <1>3, <1>4, <1>6, <1>7, <1>8 DEF Moves, Sending, Typed
<1>10. request' = [request EXCEPT !["mutation"] = q] /\ told \in BOOLEAN /\ "mutation" \in Slots
  BY <1>1, <1>2, <1>3 DEF Typed, Slots
<1>11. PICK rq : rq = request' /\ Replaced(request, "mutation", q, rq)
  BY <1>10 DEF Replaced
<1>12. Feed(reply, log, client, stream, rq, told)
  BY <1>1, <1>9, <1>10, <1>11, RequestMoves
<1> QED
  BY <1>1, <1>11, <1>12 DEF IInv

\* A request or its response is lost.
LEMMA FailStep ==
    ASSUME IInv, NEW slot \in Slots, RequestFails(slot)
    PROVE  IInv'
<1>1. /\ Feed(reply, log, client, stream, request, told)
      /\ Typed(reply, log, client, stream, request, told)
      /\ UNCHANGED <<reply, log, client, stream>> /\ told'
      /\ request' = [request EXCEPT ![slot] = NoRequest]
  BY DEF IInv, Feed, RequestFails
<1>2. NoRequest \in RequestStates /\ NoRequest.pc = "idle" /\ NoRequest.latest = 0
  BY NewRequest
<1>3. ReadTrue(NoRequest, reply, log)
  <2>1. log \in Seq(Events) /\ 0 <= Len(log)
    BY <1>1 DEF Typed
  <2> QED
    BY <2>1, <1>2, NothingRead
<1>4. MutationTrue(NoRequest, reply, log) /\ GetTrue(NoRequest, reply, log)
  BY <1>2 DEF MutationTrue, GetTrue, InReply, HasRead
<1>5. Moves(slot, NoRequest, reply, log, client, stream, request, told, TRUE)
  BY <1>2, <1>3, <1>4 DEF Moves, Sending, Loading
<1>6. PICK rq : rq = request' /\ Replaced(request, slot, NoRequest, rq)
  BY <1>1 DEF Replaced
<1>7. Feed(reply, log, client, stream, rq, TRUE)
  BY <1>1, <1>2, <1>5, <1>6, RequestMoves
<1>8. told' = TRUE
  BY DEF RequestFails
<1> QED
  BY <1>1, <1>6, <1>7, <1>8 DEF IInv

\* What a reader of the whole log knows.
LEMMA WholeView ==
    ASSUME NEW r \in Replies, NEW l \in Seq(Events), LogTrue(r, l)
    PROVE  View(r.text, Len(l), r, l)
<1>1. PICK k \in Nat : k = Len(l)
  OBVIOUS
<1>2. PICK m \in Nat : m = Len(r.text)
  BY Fields
<1>3. \A i \in 1 .. k : l[i].type = "delta" => \E n \in 1 .. m : l[i].text[1] = n
  <2> SUFFICES ASSUME NEW i \in 1 .. k, l[i].type = "delta"
               PROVE  \E n \in 1 .. m : l[i].text[1] = n
    OBVIOUS
  <2>1. PICK n \in 1 .. m : l[i].text = <<n>>
    BY <1>1, <1>2 DEF LogTrue, Deltas
  <2> QED
    BY <2>1
<1>4. \A i \in 1 .. k : l[i].type = "delta" => (i <= k <=> l[i].text[1] <= m)
  BY <1>3
<1>5. Counted(r.text) /\ m <= m
  BY DEF LogTrue
<1> QED
  BY <1>1, <1>2, <1>4, <1>5 DEF View

\* A query of a session that is read.
LEMMA ReadStep ==
    ASSUME IInv, NEW slot \in Slots, ReadRow(slot) \/ ReadMessages(slot) \/ ReadRun(slot)
    PROVE  IInv'
<1>1. /\ Feed(reply, log, client, stream, request, told)
      /\ Typed(reply, log, client, stream, request, told) /\ LogTrue(reply, log)
      /\ Turns(client, stream, request) /\ Requests(request, reply, log)
      /\ UNCHANGED <<reply, log, client, stream, told>>
  BY DEF IInv, Feed, ReadRow, ReadMessages, ReadRun
<1>2. /\ reply \in Replies /\ log \in Seq(Events) /\ Len(log) \in Nat /\ told \in BOOLEAN
      /\ Active(reply) \in BOOLEAN /\ Torn(slot) \in BOOLEAN
  BY <1>1 DEF Typed, Active, Torn
<1>3. PICK o \in RequestStates : o = request[slot]
  BY <1>1 DEF Typed
<1>4. PICK k \in Nat : k = Len(log)
  BY <1>2
<1>5. PICK active \in BOOLEAN : active <=> Active(reply)
  BY <1>2
<1>6. PICK torn \in BOOLEAN : torn <=> (o.torn \/ k # o.sequence)
  OBVIOUS
<1>7. PICK q : /\ request' = [request EXCEPT ![slot] = q]
               /\ \/ o.pc = "row" /\ q = [o EXCEPT !.pc = "messages", !.sequence = k]
                  \/ o.pc = "messages" /\ q = [o EXCEPT !.pc = "run", !.reply = reply, !.torn = torn]
                  \/ o.pc = "run" /\ q = [o EXCEPT !.pc = "respond", !.active = active, !.torn = torn]
  <2>1. CASE ReadRow(slot)
    BY <2>1, <1>3, <1>4 DEF ReadRow
  <2>2. CASE ReadMessages(slot)
    <3>1. Torn(slot) = torn
      BY <1>2, <1>3, <1>4, <1>6 DEF Torn
    <3> QED
      BY <2>2, <3>1, <1>3 DEF ReadMessages
  <2>3. CASE ReadRun(slot)
    <3>1. Torn(slot) = torn /\ Active(reply) = active
      BY <1>2, <1>3, <1>4, <1>5, <1>6 DEF Torn
    <3> QED
      BY <2>3, <3>1, <1>3 DEF ReadRun
  <2> QED
    BY <2>1, <2>2, <2>3
<1>8. /\ q \in RequestStates /\ q.op = o.op /\ q.latest = o.latest
      /\ \/ o.pc = "row" /\ q.pc = "messages" /\ q.sequence = k
         \/ /\ o.pc = "messages" /\ q.pc = "run" /\ q.sequence = o.sequence
            /\ q.reply = reply /\ (q.torn <=> torn)
         \/ /\ o.pc = "run" /\ q.pc = "respond" /\ q.sequence = o.sequence
            /\ q.reply = o.reply /\ (q.torn <=> torn) /\ (q.active <=> active)
  BY <1>2, <1>7, ZenonT(60) DEF RequestStates
<1>9. ReadTrue(o, reply, log) /\ o.latest \in Nat /\ o.sequence \in Nat
  BY <1>1, <1>3, Fields DEF Requests
<1>10. ReadTrue(q, reply, log)
  <2>1. CASE o.pc = "row"
    BY <2>1, <1>4, <1>8, <1>9 DEF ReadTrue, HasRead
  <2>2. CASE o.pc = "messages"
    <3>1. q.pc = "run" /\ q.sequence = o.sequence /\ q.reply = reply /\ (q.torn <=> torn)
      BY <2>2, <1>8
    <3>2. q.latest <= k /\ q.sequence <= k /\ q.latest <= q.sequence
      BY <2>2, <3>1, <1>4, <1>8, <1>9 DEF ReadTrue
    <3>3. ~q.torn => View(q.reply.text, q.sequence, reply, log)
      BY <3>1, <1>1, <1>2, <1>4, <1>6, WholeView
    <3> QED
      BY <3>1, <3>2, <3>3, <1>4 DEF ReadTrue, HasRead
  <2>3. CASE o.pc = "run"
    <3>1. /\ q.pc = "respond" /\ q.sequence = o.sequence /\ q.reply = o.reply
          /\ (q.torn <=> torn) /\ (q.active <=> active)
      BY <2>3, <1>8
    <3>2. /\ q.latest <= k /\ q.sequence <= k /\ q.latest <= q.sequence
          /\ ~o.torn => View(q.reply.text, q.sequence, reply, log)
          /\ ~o.torn /\ q.sequence = k => q.reply = reply
          /\ Ended(q.reply) => q.reply = reply
      BY <2>3, <3>1, <1>4, <1>8, <1>9 DEF ReadTrue, HasRead
    <3>3. (~q.torn => (q.active <=> Active(q.reply))) /\ (q.active => reply.status # "none")
      BY <3>1, <3>2, <1>5, <1>6 DEF Active
    <3> QED
      BY <3>1, <3>2, <3>3, <1>4, <1>6 DEF ReadTrue, HasRead
  <2> QED
    BY <2>1, <2>2, <2>3, <1>8
<1>11. /\ q.pc \in {"messages", "run", "respond"} /\ o.pc \in {"row", "messages", "run"}
       /\ q.pc \in HasRead => q.reply = reply \/ (o.pc \in HasRead /\ q.reply = o.reply)
  BY <1>8 DEF HasRead
<1>12. slot = "mutation" => MutationTrue(q, reply, log) /\ (Sending(q) <=> Sending(o))
  <2> SUFFICES ASSUME slot = "mutation"
               PROVE  MutationTrue(q, reply, log) /\ (Sending(q) <=> Sending(o))
    OBVIOUS
  <2>1. MutationTrue(o, reply, log)
    BY <1>1, <1>3 DEF Requests
  <2>2. /\ o.op \in {"send", "cancel"} /\ reply.status # "none"
        /\ o.op = "cancel" => ~Active(reply) /\ o.latest = Len(log)
        /\ o.pc \in HasRead => o.reply.status # "none" /\ (o.op = "cancel" => o.reply = reply)
    BY <2>1, <1>11 DEF MutationTrue, InReply
  <2> QED
    BY <2>2, <1>8, <1>11 DEF MutationTrue, Sending, InReply
<1>13. slot = "get" => GetTrue(q, reply, log) /\ (Loading(q) <=> Loading(o))
  <2> SUFFICES ASSUME slot = "get"
               PROVE  GetTrue(q, reply, log) /\ (Loading(q) <=> Loading(o))
    OBVIOUS
  <2>1. GetTrue(o, reply, log)
    BY <1>1, <1>3 DEF Requests
  <2>2. /\ o.op \in {"load", "refresh"}
        /\ o.op = "refresh" => reply.status = "completed" /\ o.latest = Len(log)
        /\ o.pc \in HasRead /\ o.reply.status = "none" => reply.status = "none"
        /\ o.pc \in HasRead /\ o.op = "refresh" => o.reply = reply
    BY <2>1, <1>11 DEF GetTrue
  <2> QED
    BY <2>2, <1>8, <1>11 DEF GetTrue, Loading
<1>14. Moves(slot, q, reply, log, client, stream, request, told, told)
  <2>1. slot = "mutation" =>
          /\ Sending(q) => Untouched(client, stream) /\ request["get"].pc = "idle"
          /\ q.pc # "idle" => ~Loading(request["get"])
    BY <1>1, <1>3, <1>11, <1>12 DEF Turns
  <2>2. slot = "get" => (q.pc # "idle" => ~Sending(request["mutation"]))
    BY <1>1, <1>3, <1>11 DEF Turns
  <2> QED
    BY <2>1, <2>2, <1>2, <1>3, <1>8, <1>10, <1>12, <1>13 DEF Moves
<1>15. PICK rq : rq = request' /\ Replaced(request, slot, q, rq)
  BY <1>7 DEF Replaced
<1>16. Feed(reply, log, client, stream, rq, told)
  BY <1>1, <1>14, <1>15, RequestMoves
<1> QED
  BY <1>1, <1>15, <1>16 DEF IInv

\* The transaction of a mutation, as its request sees it.
Reported(rq, rq2, latest) ==
    rq2 = [rq EXCEPT !["mutation"].pc = "row", !["mutation"].latest = latest]

\* The request of a mutation after its transaction.
LEMMA ReportedRequest ==
    ASSUME NEW rq \in [Slots -> RequestStates], NEW k \in Nat, NEW rq2, Reported(rq, rq2, k)
    PROVE  \E q \in RequestStates :
              /\ Replaced(rq, "mutation", q, rq2)
              /\ q.pc = "row" /\ q.latest = k /\ q.op = rq["mutation"].op
              /\ rq2 \in [Slots -> RequestStates] /\ rq2["mutation"] = q /\ rq2["get"] = rq["get"]
<1>1. PICK o \in RequestStates : o = rq["mutation"]
  BY DEF Slots
<1>2. PICK q \in RequestStates : q = [o EXCEPT !.pc = "row", !.latest = k]
  BY DEF RequestStates
<1>3. q.pc = "row" /\ q.latest = k /\ q.op = o.op
  BY <1>2 DEF RequestStates
<1>4. rq2 = [rq EXCEPT !["mutation"] = q]
  BY <1>1, <1>2 DEF Reported
<1>5. rq2 \in [Slots -> RequestStates] /\ rq2["mutation"] = q /\ rq2["get"] = rq["get"]
  BY <1>4 DEF Slots
<1> QED
  BY <1>1, <1>3, <1>4, <1>5 DEF Replaced

\* The transaction of a cancellation that finds the run ended, or ends it.
LEMMA Mutated ==
    ASSUME NEW r, NEW l, NEW c, NEW st, NEW rq, NEW t, Feed(r, l, c, st, rq, t),
           rq["mutation"].pc = "sent", rq["mutation"].op = "cancel", ~Active(r), r.status # "none",
           NEW rq2, Reported(rq, rq2, Len(l))
    PROVE  Feed(r, l, c, st, rq2, t)
<1>1. /\ Typed(r, l, c, st, rq, t) /\ Turns(c, st, rq) /\ l \in Seq(Events)
      /\ rq \in [Slots -> RequestStates] /\ t \in BOOLEAN
  BY DEF Feed, Typed
<1>2. PICK k \in Nat : k = Len(l) /\ Reported(rq, rq2, k)
  BY <1>1
<1>3. PICK q \in RequestStates : /\ Replaced(rq, "mutation", q, rq2)
                                /\ q.pc = "row" /\ q.latest = k /\ q.op = "cancel"
  BY <1>1, <1>2, ReportedRequest
<1>4. q.latest <= Len(l) /\ q.pc \in {"idle", "sent", "row"}
  BY <1>2, <1>3
<1>5. ReadTrue(q, r, l)
  BY <1>1, <1>4, NothingRead
<1>6. MutationTrue(q, r, l)
  BY <1>2, <1>3 DEF MutationTrue, InReply, HasRead
<1>7. ~Sending(q) /\ ~Sending(rq["mutation"]) /\ ~Loading(rq["get"])
  BY <1>1, <1>3 DEF Sending, Turns
<1>8. Moves("mutation", q, r, l, c, st, rq, t, t)
  BY <1>1, <1>3, <1>5, <1>6, <1>7 DEF Moves
<1>9. "mutation" \in Slots
  BY DEF Slots
<1> QED
  BY <1>3, <1>8, <1>9, RequestMoves

\* A message is stored and its run begins.
LEMMA Sent ==
    ASSUME NEW r, NEW l, NEW c, NEW st, NEW rq, NEW t, Feed(r, l, c, st, rq, t),
           rq["mutation"].pc = "sent", rq["mutation"].op = "send", r.status = "none",
           NEW r2 \in Replies, r2.status = "running", r2.text = r.text,
           NEW l2 \in Seq(Events), Len(l2) = 1, l2[1].type = "created",
           NEW rq2, Reported(rq, rq2, 1)
    PROVE  Feed(r2, l2, c, st, rq2, t)
<1>1. /\ Typed(r, l, c, st, rq, t) /\ Turns(c, st, rq) /\ LogTrue(r, l) /\ Requests(rq, r, l)
      /\ r \in Replies /\ l \in Seq(Events) /\ c \in ClientStates /\ st \in StreamStates
      /\ rq \in [Slots -> RequestStates] /\ t \in BOOLEAN
      /\ ClientTrue(c, st, r, l) /\ StreamTrue(c, st, r)
  BY DEF Feed, Typed
<1>2. PICK ge \in RequestStates : ge = rq["get"]
  BY <1>1 DEF Slots
<1>3. /\ Sending(rq["mutation"]) /\ Untouched(c, st) /\ ge.pc = "idle" /\ st.state = "closed"
      /\ ~Ended(r)
  BY <1>1, <1>2 DEF Sending, Turns, Untouched, Ended
<1>4. PICK q \in RequestStates :
         /\ q.pc = "row" /\ q.latest = 1 /\ q.op = "send"
         /\ rq2 \in [Slots -> RequestStates] /\ rq2["mutation"] = q /\ rq2["get"] = ge
  <2>1. PICK k \in Nat : k = 1 /\ Reported(rq, rq2, k)
    OBVIOUS
  <2>2. PICK old \in [Slots -> RequestStates] : old = rq
    BY <1>1
  <2>3. Reported(old, rq2, k)
    BY <2>1, <2>2
  <2>4. PICK q \in RequestStates :
           /\ Replaced(old, "mutation", q, rq2)
           /\ q.pc = "row" /\ q.latest = k /\ q.op = old["mutation"].op
           /\ rq2 \in [Slots -> RequestStates] /\ rq2["mutation"] = q /\ rq2["get"] = old["get"]
    BY <2>3, ReportedRequest
  <2> QED
    BY <2>1, <2>2, <2>4, <1>2
<1>5. LogTrue(r2, l2) /\ Grows(r, l, r2, l2)
  BY <1>1, SendGrows
<1>6. Typed(r2, l2, c, st, rq2, t)
  BY <1>1, <1>4 DEF Typed
<1>7. Requests(rq2, r2, l2)
  <2>1. ReadTrue(q, r2, l2)
    <3>1. q.latest <= Len(l2) /\ q.pc \in {"idle", "sent", "row"}
      BY <1>4
    <3> QED
      BY <3>1, NothingRead
  <2>2. ReadTrue(ge, r2, l2)
    <3>1. ReadTrue(ge, r, l)
      BY <1>1, <1>2 DEF Requests, Slots
    <3> QED
      BY <3>1, <1>1, <1>3, <1>5, ReadOfGrown
  <2>3. MutationTrue(q, r2, l2)
    BY <1>4 DEF MutationTrue, InReply, HasRead
  <2>4. GetTrue(ge, r2, l2)
    BY <1>3 DEF GetTrue, HasRead
  <2> QED
    BY <2>1, <2>2, <2>3, <2>4, <1>4 DEF Requests, Slots
<1>8. Turns(c, st, rq2)
  BY <1>3, <1>4 DEF Turns, Loading
<1>9. ClientTrue(c, st, r2, l2)
  BY <1>1, <1>3, <1>5, ClientOfGrown
<1>10. StreamTrue(c, st, r2)
  BY <1>1, <1>3 DEF StreamTrue
<1>11. AtRest(c, st, r2, rq2["mutation"], rq2["get"], t)
  BY <1>4 DEF AtRest, Sending
<1> QED
  BY <1>5, <1>6, <1>7, <1>8, <1>9, <1>10, <1>11 DEF Feed

\* A run is stopped.
LEMMA Cancelled ==
    ASSUME NEW r, NEW l, NEW c, NEW st, NEW rq, NEW t, Feed(r, l, c, st, rq, t), Active(r),
           NEW r2, r2 = [r EXCEPT !.status = "stopped"],
           NEW l2, l2 = Append(l, EventOf("stopped", <<>>, 0))
    PROVE  Feed(r2, l2, c, st, rq, t) /\ ~Active(r2) /\ r2.status # "none"
<1>1. r \in Replies /\ l \in Seq(Events) /\ LogTrue(r, l)
  BY DEF Feed, Typed
<1>2. r2 \in Replies /\ r2.text = r.text /\ r2.status = "stopped"
  BY <1>1 DEF Replies, ReplyStatuses
<1>3. /\ l2 \in Seq(Events) /\ Len(l2) = Len(l) + 1 /\ Len(l) \in Nat
      /\ \A i \in 1 .. Len(l) : l2[i] = l[i]
      /\ l2[Len(l2)].type = "stopped"
  <2>1. PICK e \in Events : e = EventOf("stopped", <<>>, 0) /\ e.type = "stopped"
    BY EventsOfTypes
  <2>2. l2 = Append(l, e)
    BY <2>1
  <2> QED
    BY <2>1, <2>2, <1>1, Appending
<1>4. Len(l) < Len(l2) /\ Len(l2) <= Len(l) + 2 /\ Len(l2) # Len(l) + 2
  BY <1>3
<1>5. ~Active(r2) /\ r2.status # "none" /\ LogTrue(r2, l2) /\ Grows(r, l, r2, l2)
  BY <1>1, <1>2, <1>3, <1>4, EndGrows, ZenonT(60)
<1>6. Feed(r2, l2, c, st, rq, t)
  BY <1>2, <1>3, <1>5, RunGrows
<1> QED
  BY <1>5, <1>6

\* The transaction of a mutation.
LEMMA MutateStep == IInv /\ Mutate => IInv'
<1> SUFFICES ASSUME IInv, Mutate PROVE IInv'
  OBVIOUS
<1>1. /\ Feed(reply, log, client, stream, request, told)
      /\ reply \in Replies /\ log \in Seq(Events)
      /\ UNCHANGED <<client, stream, told>> /\ request["mutation"].pc = "sent"
      /\ MutationTrue(request["mutation"], reply, log) /\ LogTrue(reply, log)
  BY DEF IInv, Feed, Typed, Mutate, Requests
<1>2. PICK op \in {"send", "cancel"} : op = request["mutation"].op /\ (op = "send" <=> reply.status = "none")
  BY <1>1 DEF MutationTrue
<1>3. PICK r, l, rq : r = reply' /\ l = log' /\ rq = request'
  OBVIOUS
<1>4. Len(Append(log, EventOf("created", <<>>, 0))) # Len(log)
  BY <1>1, Appending, EventsOfTypes
<1>5. Len(Append(log, EventOf("stopped", <<>>, 0))) # Len(log)
  BY <1>1, Appending, EventsOfTypes
<1>6. Reported(request, rq, Len(l))
  BY <1>3 DEF Mutate, Reported
<1>7. CASE op = "send"
  <2>1. /\ l = Append(log, EventOf("created", <<>>, 0))
        /\ r = [reply EXCEPT !.status = "running"] /\ reply.status = "none"
    BY <1>2, <1>3, <1>4, <1>7 DEF Mutate
  <2>2. r \in Replies /\ r.status = "running" /\ r.text = reply.text
    BY <2>1, <1>1 DEF Replies, ReplyStatuses
  <2>3. l \in Seq(Events) /\ Len(l) = 1 /\ l[1].type = "created"
    <3>1. PICK e \in Events : e = EventOf("created", <<>>, 0) /\ e.type = "created"
      BY EventsOfTypes
    <3>2. log = <<>> /\ l = Append(log, e)
      BY <3>1, <2>1, <1>1 DEF LogTrue
    <3> QED
      BY <3>1, <3>2, <1>1, Appending
  <2>4. Feed(r, l, client, stream, rq, told)
    BY <2>1, <2>2, <2>3, <1>1, <1>2, <1>6, <1>7, Sent, ZenonT(60)
  <2> QED
    BY <2>4, <1>1, <1>3 DEF IInv
<1>8. CASE op = "cancel" /\ Active(reply)
  <2>1. /\ l = Append(log, EventOf("stopped", <<>>, 0))
        /\ r = [reply EXCEPT !.status = "stopped"]
    BY <1>2, <1>3, <1>5, <1>8 DEF Mutate
  <2>2. Feed(r, l, client, stream, request, told) /\ ~Active(r) /\ r.status # "none"
    BY <2>1, <1>1, <1>8, Cancelled
  <2>3. Feed(r, l, client, stream, rq, told)
    BY <2>2, <1>1, <1>2, <1>6, <1>8, Mutated
  <2> QED
    BY <2>3, <1>1, <1>3 DEF IInv
<1>9. CASE op = "cancel" /\ ~Active(reply)
  <2>1. l = log /\ r = reply
    BY <1>2, <1>3, <1>9 DEF Mutate
  <2>2. Feed(r, l, client, stream, request, told) /\ ~Active(r) /\ r.status # "none"
    BY <2>1, <1>1, <1>2, <1>9
  <2>3. Feed(r, l, client, stream, rq, told)
    BY <2>2, <1>1, <1>2, <1>6, <1>9, Mutated
  <2> QED
    BY <2>3, <1>1, <1>3 DEF IInv
<1> QED
  BY <1>7, <1>8, <1>9

-----------------------------------------------------------------------------
(* The stream and the page.                                                *)

\* The stream breaks, ends or is opened again where the client has read to.
LEMMA StreamMoves ==
    ASSUME NEW r, NEW l, NEW c, NEW st, NEW rq, NEW t, Feed(r, l, c, st, rq, t),
           st.state # "closed", NEW st2 \in StreamStates, st2.after = st2.cursor,
           st2.state # "closed" \/ st2.cut, st2.state = "closed" => st2.cursor = 0,
           st2.state # "closed" => st2.cursor = st.cursor
    PROVE  Feed(r, l, c, st2, rq, t)
<1>1. Typed(r, l, c, st2, rq, t)
  BY DEF Feed, Typed
<1>2. /\ Turns(c, st, rq) /\ ClientTrue(c, st, r, l) /\ StreamTrue(c, st, r)
      /\ LogTrue(r, l) /\ Requests(rq, r, l)
  BY DEF Feed
<1>3. Turns(c, st2, rq)
  BY <1>2 DEF Turns, Untouched
<1>4. ClientTrue(c, st2, r, l)
  BY <1>2 DEF ClientTrue
<1>5. StreamTrue(c, st2, r)
  BY <1>2 DEF StreamTrue
<1>6. AtRest(c, st2, r, rq["mutation"], rq["get"], t)
  BY DEF AtRest
<1> QED
  BY <1>1, <1>2, <1>3, <1>4, <1>5, <1>6 DEF Feed

\* A stream that was opened, or is closed.
LEMMA StreamFields ==
    /\ \A k \in Nat : /\ Opened(k) \in StreamStates /\ Opened(k).state = "open"
                      /\ Opened(k).after = k /\ Opened(k).cursor = k /\ ~Opened(k).cut
    /\ ClosedStream \in StreamStates /\ ClosedStream.state = "closed"
    /\ ClosedStream.after = 0 /\ ClosedStream.cursor = 0 /\ ~ClosedStream.cut
BY DEF Opened, ClosedStream, StreamStates

\* The stream breaks, ends in good order, or is opened again.
LEMMA ConnectionStep == IInv /\ (Break \/ EndOfStream \/ Reconnect) => IInv'
<1> SUFFICES ASSUME IInv, Break \/ EndOfStream \/ Reconnect PROVE IInv'
  OBVIOUS
<1>1. /\ Feed(reply, log, client, stream, request, told)
      /\ UNCHANGED <<reply, log, client, request, told>>
      /\ stream.state # "closed" /\ StreamTrue(client, stream, reply)
  BY DEF IInv, Feed, Break, EndOfStream, Reconnect
<1>2. PICK st \in StreamStates : st = stream
  BY <1>1 DEF Feed, Typed
<1>3. st.after \in Nat /\ st.after = st.cursor
  BY <1>1, <1>2, Fields DEF StreamTrue
<1>4. PICK st2 \in StreamStates :
         /\ st2 = stream' /\ st2.after = st2.cursor /\ (st2.state # "closed" \/ st2.cut)
         /\ st2.state = "closed" => st2.cursor = 0
         /\ st2.state # "closed" => st2.cursor = st.cursor
  <2>1. CASE Break
    <3>1. PICK st2 \in StreamStates : st2 = [st EXCEPT !.state = "retry"]
      BY DEF StreamStates
    <3>2. st2.state = "retry" /\ st2.after = st.after /\ st2.cursor = st.cursor
      BY <3>1 DEF StreamStates
    <3> QED
      BY <3>1, <3>2, <2>1, <1>2, <1>3 DEF Break
  <2>2. CASE EndOfStream
    <3>1. PICK st2 \in StreamStates : st2 = [ClosedStream EXCEPT !.cut = TRUE]
      BY StreamFields DEF StreamStates
    <3>2. st2.state = "closed" /\ st2.after = 0 /\ st2.cursor = 0 /\ st2.cut
      BY <3>1, StreamFields DEF StreamStates
    <3> QED
      BY <3>1, <3>2, <2>2 DEF EndOfStream
  <2>3. CASE Reconnect
    <3>1. stream' = Opened(st.after)
      BY <2>3, <1>2 DEF Reconnect
    <3> QED
      BY <3>1, <1>3, StreamFields
  <2> QED
    BY <2>1, <2>2, <2>3
<1>5. Feed(reply, log, client, st2, request, told)
  BY <1>1, <1>2, <1>4, StreamMoves
<1> QED
  BY <1>1, <1>4, <1>5 DEF IInv

\* A client that shows nothing.
LEMMA NothingShown ==
    /\ NewClient \in ClientStates /\ NewClient.snapshot = 0 /\ NewClient.cursor = 0
    /\ NewClient.reply.status = "none" /\ NewClient.reply.text = <<>>
    /\ ~NewClient.run /\ ~NewClient.ended /\ ~NewClient.torn
<1>1. [status |-> "none", text |-> <<>>] \in Replies
  BY DEF Replies, ReplyStatuses
<1>2. PICK none \in Replies : /\ none = [status |-> "none", text |-> <<>>]
                              /\ none.status = "none" /\ none.text = <<>>
  BY <1>1
<1>3. NewClient = [snapshot |-> 0, cursor |-> 0, reply |-> none,
                   run |-> FALSE, ended |-> FALSE, paused |-> FALSE, torn |-> FALSE]
  BY <1>2 DEF NewClient
<1> QED
  BY <1>2, <1>3 DEF ClientStates

\* Nothing is a beginning of every reply.
LEMMA NothingIsTrue ==
    ASSUME NEW r \in Replies, NEW l \in Seq(Events), LogTrue(r, l), NEW st, st.state = "closed"
    PROVE  ClientTrue(NewClient, st, r, l)
<1>1. Len(<<>>) = 0 /\ Counted(<<>>) /\ Len(l) \in Nat /\ Len(r.text) \in Nat
  BY Fields DEF Counted
<1>2. \A i \in 1 .. Len(l) : l[i].type = "delta" => ~(i <= 0) /\ ~(l[i].text[1] <= 0)
  <2> SUFFICES ASSUME NEW i \in 1 .. Len(l), l[i].type = "delta"
               PROVE  ~(i <= 0) /\ ~(l[i].text[1] <= 0)
    OBVIOUS
  <2>1. PICK n \in 1 .. Len(r.text) : l[i].text = <<n>>
    BY DEF LogTrue, Deltas
  <2> QED
    BY <2>1, <1>1
<1>3. View(<<>>, 0, r, l)
  BY <1>1, <1>2 DEF View
<1> QED
  BY <1>1, <1>3, NothingShown DEF ClientTrue

\* The page is loaded again.
LEMMA ReloadStep == IInv /\ Reload => IInv'
<1> SUFFICES ASSUME IInv, Reload PROVE IInv'
  OBVIOUS
<1>1. /\ Typed(reply, log, client, stream, request, told) /\ LogTrue(reply, log)
      /\ reply' = reply /\ log' = log /\ client' = NewClient /\ stream' = ClosedStream
      /\ told' = FALSE
      /\ request' = [mutation |-> NoRequest, get |-> [NoRequest EXCEPT !.pc = "row"]]
      /\ reply \in Replies /\ log \in Seq(Events) /\ Len(log) \in Nat
  BY DEF IInv, Feed, Typed, Reload
<1>2. PICK q \in RequestStates : /\ q = [NoRequest EXCEPT !.pc = "row"]
                                 /\ q.pc = "row" /\ q.op = "load" /\ q.latest = 0
  <2>1. /\ [NoRequest EXCEPT !.pc = "row"] \in RequestStates
        /\ [NoRequest EXCEPT !.pc = "row"].pc = "row"
        /\ [NoRequest EXCEPT !.pc = "row"].op = "load"
        /\ [NoRequest EXCEPT !.pc = "row"].latest = 0
    BY NewRequest
  <2> QED
    BY <2>1
<1>3. PICK no \in RequestStates : no = NoRequest /\ no.pc = "idle" /\ no.op = "load" /\ no.latest = 0
  BY NewRequest
<1>4. PICK rq : rq = request' /\ rq = [mutation |-> no, get |-> q]
  BY <1>1, <1>2, <1>3
<1>5. rq \in [Slots -> RequestStates] /\ rq["mutation"] = no /\ rq["get"] = q
  BY <1>4 DEF Slots
<1>6. Typed(reply, log, NewClient, ClosedStream, rq, FALSE)
  BY <1>1, <1>5, NothingShown, StreamFields DEF Typed
<1>7. Requests(rq, reply, log)
  <2>1. 0 <= Len(log)
    BY <1>1
  <2>2. ReadTrue(no, reply, log)
    BY <2>1, <1>1, <1>3, NothingRead
  <2>3. ReadTrue(q, reply, log)
    BY <2>1, <1>1, <1>2, NothingRead
  <2>4. MutationTrue(no, reply, log)
    BY <1>3 DEF MutationTrue, InReply, HasRead
  <2>5. GetTrue(q, reply, log)
    BY <1>2 DEF GetTrue, HasRead
  <2> QED
    BY <2>2, <2>3, <2>4, <2>5, <1>5 DEF Requests, Slots
<1>8. Turns(NewClient, ClosedStream, rq)
  BY <1>3, <1>5, NothingShown, StreamFields DEF Turns, Sending, Loading, Untouched
<1>9. ClientTrue(NewClient, ClosedStream, reply, log)
  BY <1>1, StreamFields, NothingIsTrue
<1>10. StreamTrue(NewClient, ClosedStream, reply)
  BY StreamFields DEF StreamTrue
<1>11. AtRest(NewClient, ClosedStream, reply, rq["mutation"], rq["get"], FALSE)
  BY <1>2, <1>5 DEF AtRest, Loading
<1>12. Feed(reply, log, NewClient, ClosedStream, rq, FALSE)
  BY <1>1, <1>6, <1>7, <1>8, <1>9, <1>10, <1>11 DEF Feed
<1> QED
  BY <1>1, <1>4, <1>12 DEF IInv

\* At first there is nothing anywhere.
LEMMA InitOK == Init => IInv
<1> SUFFICES ASSUME Init PROVE IInv
  OBVIOUS
<1>1. PICK none \in Replies : reply = none /\ none.status = "none" /\ none.text = <<>>
  <2>1. [status |-> "none", text |-> <<>>] \in Replies
    BY DEF Replies, ReplyStatuses
  <2> QED
    BY <2>1 DEF Init
<1>2. /\ log = <<>> /\ log \in Seq(Events) /\ Len(log) = 0
      /\ client = NewClient /\ stream = ClosedStream /\ told = FALSE
      /\ request = [slot \in Slots |-> NoRequest]
  BY DEF Init, Slots
<1>3. LogTrue(reply, log)
  BY <1>1, <1>2 DEF LogTrue, Counted, Deltas, Ends
<1>4. request \in [Slots -> RequestStates] /\ \A slot \in Slots : request[slot] = NoRequest
  BY <1>2, NewRequest
<1>5. Typed(reply, log, client, stream, request, told)
  BY <1>1, <1>2, <1>4, NothingShown, StreamFields DEF Typed
<1>6. Requests(request, reply, log)
  <2>1. NoRequest.latest <= Len(log)
    <3>1. NoRequest.latest = 0
      BY NewRequest
    <3> QED
      BY <3>1, <1>2
  <2>2. ReadTrue(NoRequest, reply, log)
    BY <2>1, <1>2, NewRequest, NothingRead
  <2>3. MutationTrue(NoRequest, reply, log) /\ GetTrue(NoRequest, reply, log)
    BY NewRequest DEF MutationTrue, GetTrue, InReply, HasRead
  <2> QED
    BY <2>2, <2>3, <1>4 DEF Requests, Slots
<1>7. Turns(client, stream, request)
  BY <1>4, NewRequest DEF Turns, Sending, Loading, Slots
<1>8. ClientTrue(client, stream, reply, log)
  BY <1>1, <1>2, <1>3, StreamFields, NothingIsTrue
<1>9. StreamTrue(client, stream, reply)
  BY <1>2, StreamFields DEF StreamTrue
<1>10. client.reply = reply /\ ~Active(reply)
  BY <1>1, <1>2 DEF NewClient, Init, Active
<1> QED
  BY <1>3, <1>5, <1>6, <1>7, <1>8, <1>9, <1>10 DEF IInv, Feed, AtRest

-----------------------------------------------------------------------------
(* Responses.                                                              *)

\* What the client makes of a response.
Seeded(c, q, c2) ==
    /\ c2 \in ClientStates /\ c2.snapshot = q.sequence /\ c2.cursor = q.sequence
    /\ c2.reply = q.reply /\ (c2.torn <=> q.torn)
    /\ (c2.run <=> q.active /\ ~c.ended) /\ (c2.ended <=> c.ended)

\* The overlay is seeded from a snapshot that is not older than it.
LEMMA Seeds ==
    ASSUME NEW c \in ClientStates, NEW q \in RequestStates, c.cursor <= q.sequence,
           NEW d, d = [c EXCEPT !.snapshot = q.sequence]
    PROVE  Seeded(c, q, SeedFromSnapshot(d, q))
<1>1. /\ q.sequence \in Nat /\ q.reply \in Replies /\ q.torn \in BOOLEAN /\ q.active \in BOOLEAN
      /\ c.cursor \in Nat /\ c.ended \in BOOLEAN
  BY Fields
<1>2. /\ d \in ClientStates /\ d.snapshot = q.sequence /\ d.cursor = c.cursor
      /\ d.ended = c.ended
  BY <1>1 DEF ClientStates
<1>3. PICK run \in BOOLEAN : run <=> (q.active /\ ~d.ended)
  OBVIOUS
<1>4. ~(q.sequence < d.cursor)
  BY <1>1, <1>2
<1>5. PICK e : /\ e = SeedFromSnapshot(d, q)
               /\ e = [d EXCEPT !.cursor = q.sequence, !.paused = FALSE, !.reply = q.reply,
                                !.torn = q.torn, !.run = run]
  <2>1. (q.active /\ ~d.ended) = run
    BY <1>1, <1>2, <1>3
  <2> QED
    BY <2>1, <1>4 DEF SeedFromSnapshot
<1>6. /\ e \in ClientStates /\ e.snapshot = d.snapshot /\ e.cursor = q.sequence
      /\ e.reply = q.reply /\ e.torn = q.torn /\ e.run = run /\ e.ended = d.ended
  BY <1>1, <1>2, <1>5 DEF ClientStates
<1> QED
  BY <1>2, <1>3, <1>5, <1>6 DEF Seeded

\* The overlay is seeded twice, by the response and by the accepted snapshot.
LEMMA SeedsTwice ==
    ASSUME NEW c \in ClientStates, NEW q \in RequestStates, c.cursor <= q.sequence,
           q.latest <= q.sequence, NEW d, d = [c EXCEPT !.snapshot = q.sequence],
           NEW e, e = [SeedFromSnapshot(d, q) EXCEPT !.cursor = q.latest]
    PROVE  Seeded(c, q, SeedFromSnapshot(e, q))
<1>1. PICK s \in ClientStates : s = SeedFromSnapshot(d, q) /\ Seeded(c, q, s)
  BY Seeds DEF Seeded
<1>2. /\ s.snapshot = q.sequence /\ s.reply = q.reply /\ (s.ended <=> c.ended)
      /\ q.latest \in Nat /\ q.sequence \in Nat
  BY <1>1, Fields DEF Seeded
<1>3. PICK f \in ClientStates : f = e /\ f = [s EXCEPT !.cursor = q.latest]
  BY <1>1, <1>2 DEF ClientStates
<1>4. f.cursor = q.latest /\ f.snapshot = q.sequence /\ (f.ended <=> c.ended)
  BY <1>2, <1>3 DEF ClientStates
<1>5. f = [f EXCEPT !.snapshot = q.sequence]
  BY <1>4 DEF ClientStates
<1>6. f.cursor <= q.sequence
  BY <1>4
<1>7. Seeded(f, q, SeedFromSnapshot(f, q))
  BY <1>5, <1>6, Seeds
<1>8. Seeded(c, q, SeedFromSnapshot(f, q))
  BY <1>4, <1>7 DEF Seeded
<1> QED
  BY <1>3, <1>8

\* A request whose response has come.
Answering(rq, slot, q) ==
    slot \in Slots /\ q \in RequestStates /\ q = rq[slot] /\ q.pc = "respond"

\* What is known then.
Known(r, l, c, st, slot, q) ==
    /\ q.op \in {"cancel", "refresh"} => q.reply = r /\ Ended(r) /\ q.latest = Len(l)
    /\ q.op \in {"send", "load"} => Untouched(c, st)
    /\ q.reply.status = "none" => q.op = "load" /\ r.status = "none"
    /\ slot = "mutation" => q.op \in {"send", "cancel"}
    /\ slot = "get" => q.op \in {"load", "refresh"}
    /\ q.op # "load" => r.status # "none"

\* It is known of every such request.
LEMMA Responding ==
    ASSUME NEW r, NEW l, NEW c, NEW st, NEW rq, NEW t, Feed(r, l, c, st, rq, t),
           NEW slot, NEW q, Answering(rq, slot, q)
    PROVE  Known(r, l, c, st, slot, q)
<1>0. slot \in Slots /\ q \in RequestStates /\ q = rq[slot] /\ q.pc = "respond"
  BY DEF Answering
<1>1. /\ Requests(rq, r, l) /\ Turns(c, st, rq) /\ r \in Replies /\ c \in ClientStates
      /\ LogTrue(r, l)
  BY DEF Feed, Typed
<1>2. q.pc \in HasRead /\ q.pc \in InReply /\ q.pc # "idle"
  BY <1>0 DEF HasRead, InReply
<1>3. CASE slot = "mutation"
  <2>1. MutationTrue(q, r, l)
    BY <1>0, <1>1, <1>3 DEF Requests
  <2>2. /\ q.op \in {"send", "cancel"} /\ r.status # "none" /\ q.reply.status # "none"
        /\ q.op = "cancel" => ~Active(r) /\ q.latest = Len(l) /\ q.reply = r
    BY <2>1, <1>2 DEF MutationTrue
  <2>3. q.op = "cancel" => Ended(r)
    BY <2>2, <1>1, Fields DEF Active, Ended, ReplyStatuses
  <2>4. q.op = "send" => Untouched(c, st)
    BY <1>0, <1>1, <1>2, <1>3 DEF Turns, Sending
  <2> QED
    BY <2>2, <2>3, <2>4, <1>3 DEF Known
<1>4. CASE slot = "get"
  <2>1. GetTrue(q, r, l)
    BY <1>0, <1>1, <1>4 DEF Requests
  <2>2. /\ q.op \in {"load", "refresh"} /\ (q.reply.status = "none" => r.status = "none")
        /\ q.op = "refresh" => r.status = "completed" /\ q.latest = Len(l) /\ q.reply = r
    BY <2>1, <1>2 DEF GetTrue
  <2>3. q.op = "refresh" => Ended(r)
    BY <2>2 DEF Ended
  <2>4. q.op = "load" => Untouched(c, st)
    BY <1>0, <1>1, <1>2, <1>4 DEF Turns, Loading
  <2>5. q.op = "refresh" => r.status # "none"
    BY <2>2
  <2> QED
    BY <2>2, <2>3, <2>4, <2>5, <1>4 DEF Known
<1> QED
  BY <1>0, <1>3, <1>4 DEF Slots

\* A response takes the client to what it has read, and the stream with it.
LEMMA Answered ==
    ASSUME NEW r, NEW l, NEW c, NEW st, NEW rq, NEW t, Feed(r, l, c, st, rq, t),
           NEW slot, NEW q, Answering(rq, slot, q),
           NEW c2, Seeded(c, q, c2), NEW st2 \in StreamStates,
           st2.after = st2.cursor, st2.state = "closed" => st2.cursor = 0,
           st2.state # "closed" => st2.cursor <= q.sequence,
           c2.run \/ q.op = "send" => st2.state # "closed",
           q.op = "load" /\ ~c2.run => st2.state = "closed",
           NEW rq2, Replaced(rq, slot, NoRequest, rq2)
    PROVE  Feed(r, l, c2, st2, rq2, t)
<1>0. slot \in Slots /\ q \in RequestStates /\ q = rq[slot] /\ q.pc = "respond"
  BY DEF Answering
<1>1. /\ Typed(r, l, c, st, rq, t) /\ LogTrue(r, l) /\ Requests(rq, r, l) /\ Turns(c, st, rq)
      /\ ClientTrue(c, st, r, l)
      /\ r \in Replies /\ l \in Seq(Events) /\ Len(l) \in Nat /\ c \in ClientStates
      /\ rq \in [Slots -> RequestStates]
  BY DEF Feed, Typed
<1>2. /\ q.op \in {"cancel", "refresh"} => q.reply = r /\ Ended(r) /\ q.latest = Len(l)
      /\ q.op \in {"send", "load"} => Untouched(c, st)
      /\ q.reply.status = "none" => q.op = "load" /\ r.status = "none"
      /\ q.op # "load" => r.status # "none"
      /\ q.op \in {"load", "refresh", "send", "cancel"}
  <2>1. Known(r, l, c, st, slot, q)
    BY Responding
  <2> QED
    BY <2>1, <1>0, Fields DEF Known
<1>3. /\ q.latest \in Nat /\ q.sequence \in Nat /\ q.latest <= q.sequence /\ q.sequence <= Len(l)
      /\ ~q.torn => View(q.reply.text, q.sequence, r, l)
      /\ Ended(q.reply) => q.reply = r
      /\ ~q.torn => (q.active <=> Active(q.reply))
      /\ q.active => r.status # "none"
      /\ q.reply \in Replies
  BY <1>0, <1>1, Fields DEF Requests, ReadTrue, HasRead
<1>4. /\ c2 \in ClientStates /\ c2.snapshot = q.sequence /\ c2.cursor = q.sequence
      /\ c2.reply = q.reply /\ (c2.torn <=> q.torn)
      /\ (c2.run <=> q.active /\ ~c.ended) /\ (c2.ended <=> c.ended)
  BY DEF Seeded
<1>5. c.ended => /\ q.op \in {"cancel", "refresh"} /\ q.sequence = Len(l) /\ ~c2.run
  BY <1>2, <1>3, <1>4 DEF Untouched
<1>6. /\ rq2 \in [Slots -> RequestStates] /\ rq2[slot] = NoRequest
      /\ \A other \in Slots : other # slot => rq2[other] = rq[other]
  BY <1>0, <1>1, Idle DEF Replaced
<1>7. Typed(r, l, c2, st2, rq2, t)
  BY <1>1, <1>4, <1>6 DEF Typed
<1>8. Requests(rq2, r, l)
  <2>1. NoRequest \in RequestStates /\ NoRequest.pc = "idle" /\ NoRequest.latest <= Len(l)
    BY <1>1, Idle
  <2>2. ReadTrue(NoRequest, r, l)
    BY <2>1, <1>1, NothingRead
  <2>3. MutationTrue(NoRequest, r, l) /\ GetTrue(NoRequest, r, l)
    BY <2>1 DEF MutationTrue, GetTrue, InReply, HasRead
  <2> QED
    BY <2>2, <2>3, <1>1, <1>6 DEF Requests, Slots
<1>9. Turns(c2, st2, rq2)
  <2>1. \A other \in Slots : rq2[other].pc # "idle" => other # slot
    BY <1>6, Idle
  <2>2. CASE slot = "mutation"
    <3>1. rq2["mutation"] = NoRequest /\ rq2["get"] = rq["get"] /\ ~Loading(rq["get"])
      BY <2>2, <1>0, <1>1, <1>6 DEF Turns, Slots
    <3> QED
      BY <3>1, Idle DEF Turns, Sending
  <2>3. CASE slot = "get"
    <3>1. rq2["get"] = NoRequest /\ rq2["mutation"] = rq["mutation"] /\ ~Sending(rq["mutation"])
      BY <2>3, <1>0, <1>1, <1>6 DEF Turns, Slots
    <3> QED
      BY <3>1, Idle DEF Turns, Loading
  <2> QED
    BY <2>2, <2>3, <1>0 DEF Slots
<1>10. ~c2.run /\ ~c2.torn /\ c2.reply.status # "none" => c2.reply = r /\ ~Active(r)
  <2> SUFFICES ASSUME ~c2.run, ~c2.torn, c2.reply.status # "none"
               PROVE  c2.reply = r /\ ~Active(r)
    OBVIOUS
  <2>1. ~q.active \/ c.ended
    BY <1>4
  <2>2. CASE c.ended
    BY <2>2, <1>2, <1>4, <1>5 DEF Active, Ended
  <2>3. CASE ~q.active
    <3>1. ~Active(q.reply) /\ q.reply.status # "none"
      BY <2>3, <1>3, <1>4
    <3>2. Ended(q.reply)
      BY <3>1, <1>3, Fields DEF Ended, Active, ReplyStatuses
    <3> QED
      BY <3>2, <1>3, <1>4 DEF Ended, Active
  <2> QED
    BY <2>1, <2>2, <2>3
<1>11. c2.reply.status = "none" /\ ~c2.torn => ~c2.run /\ q.op = "load" /\ c2.reply = r /\ ~Active(r)
  <2> SUFFICES ASSUME c2.reply.status = "none", ~c2.torn
               PROVE  ~c2.run /\ q.op = "load" /\ c2.reply = r /\ ~Active(r)
    OBVIOUS
  <2>1. q.op = "load" /\ r.status = "none" /\ q.reply.status = "none" /\ ~q.torn
    BY <1>2, <1>4
  <2>2. ~q.active
    BY <2>1, <1>3 DEF Active
  <2>3. r.text = <<>> /\ Len(q.reply.text) <= Len(r.text)
    BY <2>1, <1>1, <1>3 DEF LogTrue, View
  <2>4. q.reply.text = <<>>
    <3>1. q.reply.text \in Seq(1 .. MaxDeltas) /\ Len(q.reply.text) <= 0
      BY <2>3, <1>3, Fields
    <3> QED
      BY <3>1
  <2>5. q.reply = r
    BY <2>1, <2>3, <2>4, <1>1, <1>3 DEF Replies
  <2> QED
    BY <2>1, <2>2, <2>5, <1>4 DEF Active
<1>12. ClientTrue(c2, st2, r, l)
  <2>1. c2.cursor <= Len(l) /\ c2.snapshot <= Len(l)
    BY <1>3, <1>4
  <2>2. ~c2.torn => View(c2.reply.text, c2.cursor, r, l)
    BY <1>3, <1>4
  <2>3. c2.ended => /\ c2.cursor = Len(l) /\ Ended(r) /\ ~c2.run
                    /\ c2.reply = r
    BY <1>2, <1>4, <1>5
  <2>4. c2.run => r.status # "none" /\ st2.state # "closed"
    BY <1>3, <1>4
  <2>5. c2.reply.status = "none" /\ ~c2.torn => st2.state = "closed" /\ ~c2.run
    BY <1>11
  <2> QED
    BY <2>1, <2>2, <2>3, <2>4, <2>5 DEF ClientTrue
<1>13. StreamTrue(c2, st2, r)
  <2>1. st2.state # "closed" => r.status # "none"
    BY <1>2, <1>3, <1>4
  <2> QED
    BY <2>1, <1>4 DEF StreamTrue
<1>14. AtRest(c2, st2, r, rq2["mutation"], rq2["get"], t)
  BY <1>10, <1>11 DEF AtRest
<1> QED
  BY <1>1, <1>7, <1>8, <1>9, <1>12, <1>13, <1>14 DEF Feed

\* The response to a message or a cancellation.
LEMMA MutationResponseStep == IInv /\ MutationResponse => IInv'
<1> SUFFICES ASSUME IInv, MutationResponse PROVE IInv'
  OBVIOUS
<1>1. /\ Feed(reply, log, client, stream, request, told)
      /\ Typed(reply, log, client, stream, request, told)
      /\ UNCHANGED <<reply, log, told>> /\ Len(log) \in Nat
      /\ Requests(request, reply, log) /\ ClientTrue(client, stream, reply, log)
      /\ StreamTrue(client, stream, reply)
  BY DEF IInv, Feed, Typed, MutationResponse
<1>2. PICK c \in ClientStates : c = client
  BY <1>1 DEF Typed
<1>3. PICK q \in RequestStates : q = request["mutation"] /\ q.pc = "respond"
  BY <1>1 DEF Typed, Slots, MutationResponse
<1>4. /\ q.op \in {"cancel", "refresh"} => Ended(reply) /\ q.latest = Len(log)
      /\ q.op \in {"send", "load"} => Untouched(client, stream)
      /\ q.op \in {"send", "cancel"}
  <2>1. Answering(request, "mutation", q)
    BY <1>3 DEF Answering, Slots
  <2>2. Known(reply, log, client, stream, "mutation", q)
    BY <2>1, <1>1, Responding
  <2> QED
    BY <2>2 DEF Known
<1>5. /\ q.latest \in Nat /\ q.sequence \in Nat /\ q.latest <= q.sequence /\ q.sequence <= Len(log)
      /\ c.cursor \in Nat /\ c.snapshot \in Nat /\ c.cursor <= Len(log) /\ c.snapshot <= Len(log)
  BY <1>1, <1>2, <1>3, Fields DEF Requests, ReadTrue, Slots, ClientTrue
<1>6. c.cursor <= q.sequence /\ c.snapshot <= q.sequence
  <2>1. CASE q.op = "send"
    BY <2>1, <1>2, <1>4, <1>5 DEF Untouched
  <2>2. CASE q.op = "cancel"
    BY <2>2, <1>4, <1>5
  <2> QED
    BY <2>1, <2>2, <1>4
<1>7. PICK d, e, c2 : /\ d = [client EXCEPT !.snapshot = q.sequence]
                      /\ e = [SeedFromSnapshot(d, q) EXCEPT !.cursor = q.latest]
                      /\ c2 = SeedFromSnapshot(e, q)
  OBVIOUS
<1>8. Seeded(c, q, c2)
  BY <1>2, <1>5, <1>6, <1>7, SeedsTwice
<1>9. /\ client' = c2 /\ request' = [request EXCEPT !["mutation"] = NoRequest]
      /\ stream' = Watched(client, c2, IF c2.run THEN Started(c2.cursor) ELSE Started(q.latest))
  <2>1. Accepts(client, q.sequence)
    BY <1>2, <1>5, <1>6 DEF Accepts
  <2> QED
    BY <2>1, <1>3, <1>7 DEF MutationResponse
<1>10. PICK a \in Nat : a = IF c2.run THEN q.sequence ELSE q.latest
  BY <1>5
<1>11. c2.cursor = q.sequence /\ a <= q.sequence /\ (c2.run => a = q.sequence)
  BY <1>5, <1>8, <1>10 DEF Seeded
<1>12. PICK s \in StreamStates : /\ s = Started(a) /\ s.state = "open" /\ s.after = a /\ s.cursor = a
  BY <1>1, StreamFields DEF Started, StreamTrue, Typed
<1>13. stream' = Watched(client, c2, s)
  BY <1>9, <1>10, <1>11, <1>12
<1>14. stream' = s \/ (stream' = ClosedStream /\ client.run /\ ~c2.run)
  BY <1>11, <1>12, <1>13 DEF Watched
<1>15. PICK st2 \in StreamStates :
          /\ st2 = stream' /\ st2.after = st2.cursor /\ (st2.state = "closed" => st2.cursor = 0)
          /\ st2.state # "closed" => st2.cursor <= q.sequence
          /\ c2.run \/ q.op = "send" => st2.state # "closed"
  <2>1. CASE stream' = s
    BY <2>1, <1>11, <1>12
  <2>2. CASE stream' = ClosedStream /\ client.run /\ ~c2.run
    <3>1. q.op # "send"
      BY <2>2, <1>4 DEF Untouched
    <3> QED
      BY <2>2, <3>1, StreamFields
  <2> QED
    BY <2>1, <2>2, <1>14
<1>16. PICK rq : rq = request' /\ Replaced(request, "mutation", NoRequest, rq)
  BY <1>9 DEF Replaced
<1>17. Feed(reply, log, c2, st2, rq, told)
  <2>1. PICK slot : Answering(request, slot, q) /\ Replaced(request, slot, NoRequest, rq)
    BY <1>3, <1>16 DEF Answering, Slots
  <2>2. q.op # "load"
    BY <1>4
  <2> QED
    BY <2>1, <2>2, <1>1, <1>2, <1>3, <1>8, <1>15, Answered
<1> QED
  BY <1>1, <1>9, <1>15, <1>16, <1>17 DEF IInv

\* The response to a page that loads the session or refreshes it.
LEMMA GetResponseStep == IInv /\ GetResponse => IInv'
<1> SUFFICES ASSUME IInv, GetResponse PROVE IInv'
  OBVIOUS
<1>1. /\ Feed(reply, log, client, stream, request, told)
      /\ Typed(reply, log, client, stream, request, told)
      /\ UNCHANGED <<reply, log, told>> /\ Len(log) \in Nat
      /\ Requests(request, reply, log) /\ ClientTrue(client, stream, reply, log)
      /\ StreamTrue(client, stream, reply)
  BY DEF IInv, Feed, Typed, GetResponse
<1>2. PICK c \in ClientStates : c = client
  BY <1>1 DEF Typed
<1>3. PICK q \in RequestStates : q = request["get"] /\ q.pc = "respond"
  BY <1>1 DEF Typed, Slots, GetResponse
<1>4. /\ q.op \in {"cancel", "refresh"} => Ended(reply) /\ q.latest = Len(log)
      /\ q.op \in {"send", "load"} => Untouched(client, stream)
      /\ q.op \in {"load", "refresh"}
  <2>1. Answering(request, "get", q)
    BY <1>3 DEF Answering, Slots
  <2>2. Known(reply, log, client, stream, "get", q)
    BY <2>1, <1>1, Responding
  <2> QED
    BY <2>2 DEF Known
<1>5. /\ q.latest \in Nat /\ q.sequence \in Nat /\ q.latest <= q.sequence /\ q.sequence <= Len(log)
      /\ c.cursor \in Nat /\ c.snapshot \in Nat /\ c.cursor <= Len(log) /\ c.snapshot <= Len(log)
  BY <1>1, <1>2, <1>3, Fields DEF Requests, ReadTrue, Slots, ClientTrue
<1>6. c.cursor <= q.sequence /\ c.snapshot <= q.sequence
  <2>1. CASE q.op = "load"
    BY <2>1, <1>2, <1>4, <1>5 DEF Untouched
  <2>2. CASE q.op = "refresh"
    BY <2>2, <1>4, <1>5
  <2> QED
    BY <2>1, <2>2, <1>4
<1>7. PICK d, c2 : d = [client EXCEPT !.snapshot = q.sequence] /\ c2 = SeedFromSnapshot(d, q)
  OBVIOUS
<1>8. Seeded(c, q, c2)
  BY <1>2, <1>5, <1>6, <1>7, Seeds
<1>9. /\ client' = c2 /\ request' = [request EXCEPT !["get"] = NoRequest]
      /\ stream' = IF q.op = "refresh" THEN Opened(q.latest) ELSE Watched(client, c2, stream)
  <2>1. Accepts(client, q.sequence)
    BY <1>2, <1>5, <1>6 DEF Accepts
  <2> QED
    BY <2>1, <1>3, <1>7 DEF GetResponse
<1>10. c2.cursor = q.sequence
  BY <1>8 DEF Seeded
<1>11. PICK st2 \in StreamStates :
          /\ st2 = stream' /\ st2.after = st2.cursor /\ (st2.state = "closed" => st2.cursor = 0)
          /\ st2.state # "closed" => st2.cursor <= q.sequence
          /\ c2.run => st2.state # "closed"
          /\ q.op = "load" /\ ~c2.run => st2.state = "closed"
  <2>1. CASE q.op = "refresh"
    BY <2>1, <1>5, <1>9, StreamFields
  <2>2. CASE q.op = "load" /\ c2.run
    <3>1. ~client.run /\ stream.state = "closed"
      BY <2>2, <1>4 DEF Untouched
    <3>2. stream' = Opened(q.sequence)
      BY <2>2, <3>1, <1>9, <1>10 DEF Watched
    <3> QED
      BY <2>2, <3>2, <1>5, StreamFields
  <2>3. CASE q.op = "load" /\ ~c2.run
    <3>1. ~client.run /\ stream.state = "closed"
      BY <2>3, <1>4 DEF Untouched
    <3>2. stream' = stream
      BY <2>3, <3>1, <1>9 DEF Watched
    <3> QED
      BY <2>3, <3>1, <3>2, <1>1 DEF Typed, StreamTrue
  <2> QED
    BY <2>1, <2>2, <2>3, <1>4
<1>12. PICK rq : rq = request' /\ Replaced(request, "get", NoRequest, rq)
  BY <1>9 DEF Replaced
<1>13. Feed(reply, log, c2, st2, rq, told)
  <2>1. PICK slot : Answering(request, slot, q) /\ Replaced(request, slot, NoRequest, rq)
    BY <1>3, <1>12 DEF Answering, Slots
  <2>2. q.op # "send"
    BY <1>4
  <2> QED
    BY <2>1, <2>2, <1>1, <1>2, <1>3, <1>8, <1>11, Answered
<1> QED
  BY <1>1, <1>9, <1>11, <1>12, <1>13 DEF IInv

-----------------------------------------------------------------------------
(* Events.                                                                 *)

\* The members of a sequence.
LEMMA Member ==
    ASSUME NEW S, NEW s \in Seq(S), NEW i \in 1 .. Len(s)
    PROVE  s[i] \in S
OBVIOUS

\* The next event of what was read in order: its delta is the next one.
LEMMA NextDelta ==
    ASSUME NEW r \in Replies, NEW l \in Seq(Events), LogTrue(r, l), NEW text \in Seq(1 .. MaxDeltas),
           NEW s \in Nat, s + 1 <= Len(l), View(text, s, r, l), l[s + 1].type = "delta",
           NEW x, x = text \o l[s + 1].text
    PROVE  x \in Seq(1 .. MaxDeltas) /\ View(x, s + 1, r, l)
<1>1. PICK k \in Nat, m \in Nat, c \in Nat : k = Len(l) /\ m = Len(r.text) /\ c = Len(text)
  BY Fields
<1>2. /\ Counted(text) /\ c <= m /\ s + 1 \in 1 .. k
      /\ \A i \in 1 .. k : l[i].type = "delta" => (i <= s <=> l[i].text[1] <= c)
  BY <1>1 DEF View
<1>3. /\ \A i \in 1 .. k : l[i].type = "delta" => \E n \in 1 .. m : l[i].text = <<n>> /\ l[i].text[1] = n
      /\ \A i, j \in 1 .. k :
            l[i].type = "delta" /\ l[j].type = "delta" /\ i < j => l[i].text[1] < l[j].text[1]
      /\ \A n \in 1 .. m : \E i \in 1 .. k : l[i].type = "delta" /\ l[i].text = <<n>> /\ l[i].text[1] = n
  <2>1. /\ \A i \in 1 .. k : l[i].type = "delta" => \E n \in 1 .. m : l[i].text = <<n>>
        /\ \A i, j \in 1 .. k :
              l[i].type = "delta" /\ l[j].type = "delta" /\ i < j => l[i].text[1] < l[j].text[1]
        /\ \A n \in 1 .. m : \E i \in 1 .. k : l[i].type = "delta" /\ l[i].text = <<n>>
    BY <1>1 DEF LogTrue, Deltas
  <2>2. \A i \in 1 .. k, n \in 1 .. m : l[i].text = <<n>> => l[i].text[1] = n
    OBVIOUS
  <2>3. \A i \in 1 .. k : l[i].type = "delta" => \E n \in 1 .. m : l[i].text = <<n>> /\ l[i].text[1] = n
    BY <2>1, <2>2
  <2>4. \A n \in 1 .. m : \E i \in 1 .. k : l[i].type = "delta" /\ l[i].text = <<n>> /\ l[i].text[1] = n
    BY <2>1, <2>2
  <2> QED
    BY <2>1, <2>3, <2>4
<1>4. PICK n \in 1 .. m : l[s + 1].text = <<n>> /\ l[s + 1].text[1] = n
  BY <1>2, <1>3
<1>5. n = c + 1
  <2>1. n > c
    BY <1>1, <1>2, <1>4
  <2>2. ASSUME n > c + 1 PROVE FALSE
    <3>1. n - 1 \in 1 .. m /\ ~(n - 1 <= c)
      BY <2>2, <1>1
    <3>2. PICK i \in 1 .. k : l[i].type = "delta" /\ l[i].text[1] = n - 1
      BY <3>1, <1>3
    <3>3. ~(i <= s)
      BY <3>1, <3>2, <1>2
    <3>4. i # s + 1
      BY <3>2, <1>4
    <3>5. s + 1 < i
      BY <3>3, <3>4
    <3>6. l[s + 1].text[1] < l[i].text[1]
      BY <3>2, <3>5, <1>2, <1>3
    <3> QED
      BY <3>2, <3>6, <1>4
  <2> QED
    BY <2>1, <2>2, <1>1
<1>6. n \in 1 .. MaxDeltas
  <2>1. r.text \in Seq(1 .. MaxDeltas) /\ Counted(r.text) /\ n \in 1 .. Len(r.text)
    BY <1>1, Fields DEF LogTrue
  <2>2. PICK whole \in Seq(1 .. MaxDeltas) : whole = r.text
    BY <2>1
  <2>3. whole[n] = n
    BY <2>1, <2>2 DEF Counted
  <2>4. whole[n] \in 1 .. MaxDeltas
    <3>1. n \in 1 .. Len(whole)
      BY <2>1, <2>2
    <3> QED
      BY <3>1, Member
  <2> QED
    BY <2>3, <2>4
<1>7. PICK e \in Seq(1 .. MaxDeltas) : e = <<n>> /\ Len(e) = 1 /\ e[1] = n
  <2>1. <<n>> \in Seq(1 .. MaxDeltas) /\ Len(<<n>>) = 1 /\ <<n>>[1] = n
    BY <1>6
  <2> QED
    BY <2>1
<1>8. /\ x \in Seq(1 .. MaxDeltas) /\ Len(x) = c + 1 /\ x[c + 1] = n
      /\ \A i \in 1 .. c : x[i] = text[i]
  <2>1. x = text \o e
    BY <1>4, <1>7
  <2> QED
    BY <2>1, <1>1, <1>7
<1>9. Counted(x)
  <2>1. \A i \in 1 .. c : text[i] = i
    BY <1>1, <1>2 DEF Counted
  <2>2. \A i \in 1 .. c + 1 : x[i] = i
    BY <2>1, <1>1, <1>5, <1>8
  <2> QED
    BY <2>2, <1>8 DEF Counted
<1>10. \A i \in 1 .. k : l[i].type = "delta" => (i <= s + 1 <=> l[i].text[1] <= c + 1)
  <2> SUFFICES ASSUME NEW i \in 1 .. k, l[i].type = "delta"
               PROVE  i <= s + 1 <=> l[i].text[1] <= c + 1
    OBVIOUS
  <2>1. CASE i <= s
    <3>1. PICK a \in 1 .. m : l[i].text[1] = a
      BY <1>3
    <3>2. a <= c
      BY <2>1, <3>1, <1>2
    <3> QED
      BY <2>1, <3>1, <3>2
  <2>2. CASE i = s + 1
    BY <2>2, <1>4, <1>5
  <2>3. CASE i > s + 1
    <3>1. l[s + 1].text[1] < l[i].text[1]
      BY <2>3, <1>2, <1>3
    <3> QED
      <4>1. PICK a \in 1 .. m : l[i].text[1] = a
        BY <1>3
      <4>2. c + 1 < a
        BY <3>1, <4>1, <1>4, <1>5
      <4> QED
        BY <2>3, <4>1, <4>2
  <2> QED
    BY <2>1, <2>2, <2>3
<1>11. c + 1 <= m
  BY <1>4, <1>5
<1> QED
  BY <1>1, <1>8, <1>9, <1>10, <1>11 DEF View

\* The events between two sequences are no deltas.
LEMMA NoDeltaBetween ==
    ASSUME NEW r \in Replies, NEW l \in Seq(Events), NEW text, NEW s \in Nat, NEW s2 \in Nat,
           View(text, s, r, l), s <= s2, \A i \in 1 .. Len(l) : s < i /\ i <= s2 => l[i].type # "delta"
    PROVE  View(text, s2, r, l)
<1>1. \A i \in 1 .. Len(l) : l[i].type = "delta" => (i <= s <=> i <= s2)
  OBVIOUS
<1> QED
  BY <1>1 DEF View

\* A reader of all deltas knows the text of the reply.
LEMMA AllDeltas ==
    ASSUME NEW r \in Replies, NEW l \in Seq(Events), LogTrue(r, l), NEW text \in Seq(1 .. MaxDeltas),
           NEW s \in Nat, View(text, s, r, l), \A i \in 1 .. Len(l) : l[i].type = "delta" => i <= s
    PROVE  text = r.text
<1>1. PICK k \in Nat, m \in Nat, c \in Nat : k = Len(l) /\ m = Len(r.text) /\ c = Len(text)
  BY Fields
<1>2. /\ Counted(text) /\ Counted(r.text) /\ c <= m
      /\ \A i \in 1 .. k : l[i].type = "delta" => l[i].text[1] <= c
  BY <1>1 DEF View, LogTrue
<1>3. m <= c
  <2>1. CASE m = 0
    BY <2>1, <1>1
  <2>2. CASE m # 0
    <3>1. m \in 1 .. m
      BY <2>2
    <3>2. PICK i \in 1 .. k : l[i].type = "delta" /\ l[i].text = <<m>>
      BY <3>1, <1>1 DEF LogTrue, Deltas
    <3>3. l[i].text[1] = m
      BY <3>2
    <3> QED
      BY <3>2, <3>3, <1>2
  <2> QED
    BY <2>1, <2>2
<1>4. c = m
  BY <1>2, <1>3
<1>5. \A i \in 1 .. m : text[i] = r.text[i]
  BY <1>1, <1>2, <1>4 DEF Counted
<1>6. PICK whole \in Seq(1 .. MaxDeltas) : whole = r.text
  BY Fields
<1>7. Len(text) = Len(whole) /\ \A i \in 1 .. Len(text) : text[i] = whole[i]
  BY <1>1, <1>4, <1>5, <1>6
<1>8. text = whole
  BY <1>7
<1> QED
  BY <1>6, <1>8

\* What an event makes of the client: it shows the log up to the event at least,
\* and leaves its run only for its end.
Follows(c, k, d, r, l) ==
    /\ d \in ClientStates /\ k <= d.cursor /\ d.cursor <= Len(l) /\ d.snapshot = c.snapshot
    /\ ~d.torn => View(d.reply.text, d.cursor, r, l) /\ d.reply.status # "none"
    /\ d.ended => /\ d.cursor = Len(l) /\ Ended(r) /\ ~d.run
                  /\ r.status = "completed" \/ ~d.torn => d.reply = r
    /\ d.run => c.run
    /\ c.run /\ ~d.run => d.ended

\* A client at its stream, and the next event.
Reading(c, k, r, l) ==
    /\ r \in Replies /\ l \in Seq(Events) /\ LogTrue(r, l) /\ c \in ClientStates
    /\ k \in 1 .. Len(l) /\ k <= c.cursor + 1 /\ c.cursor <= Len(l)
    /\ ~c.torn => View(c.reply.text, c.cursor, r, l) /\ c.reply.status # "none"
    /\ c.ended => /\ c.cursor = Len(l) /\ Ended(r) /\ ~c.run
                  /\ r.status = "completed" \/ ~c.torn => c.reply = r

\* The event that asks for a snapshot.
LEMMA SnapshotFollows ==
    ASSUME NEW c, NEW k, NEW r, NEW l, Reading(c, k, r, l), l[k].type = "snapshot",
           NEW d, d = [c EXCEPT !.cursor = l[k].latest, !.paused = TRUE]
    PROVE  Follows(c, k, d, r, l) /\ r.status = "completed" /\ l[k].latest = Len(l)
<1>1. /\ r \in Replies /\ l \in Seq(Events) /\ LogTrue(r, l) /\ c \in ClientStates
      /\ k \in 1 .. Len(l) /\ k <= c.cursor + 1 /\ c.cursor <= Len(l)
      /\ c.cursor \in Nat /\ Len(l) \in Nat /\ c.torn \in BOOLEAN
  BY Fields DEF Reading
<1>2. /\ r.status = "completed" /\ l[k].latest = Len(l)
      /\ \A j \in k + 1 .. Len(l) : l[j].type # "delta"
  BY <1>1 DEF LogTrue, Ends
<1>3. /\ d \in ClientStates /\ d.cursor = Len(l) /\ d.snapshot = c.snapshot /\ d.reply = c.reply
      /\ d.run = c.run /\ d.ended = c.ended /\ d.torn = c.torn
  BY <1>1, <1>2 DEF ClientStates
<1>4. ~c.torn => View(c.reply.text, Len(l), r, l)
  <2>1. \A i \in 1 .. Len(l) : c.cursor < i /\ i <= Len(l) => l[i].type # "delta"
    <3> SUFFICES ASSUME NEW i \in 1 .. Len(l), c.cursor < i PROVE l[i].type # "delta"
      OBVIOUS
    <3>1. i = k \/ i \in k + 1 .. Len(l)
      BY <1>1
    <3> QED
      BY <3>1, <1>2
  <2>2. ~c.torn => View(c.reply.text, c.cursor, r, l)
    BY DEF Reading
  <2> QED
    BY <2>1, <2>2, <1>1, NoDeltaBetween
<1>5. k <= d.cursor /\ d.cursor <= Len(l)
  BY <1>1, <1>3
<1> QED
  BY <1>2, <1>3, <1>4, <1>5 DEF Follows, Reading

\* An event the client has already.
LEMMA SkippedFollows ==
    ASSUME NEW c, NEW k, NEW r, NEW l, Reading(c, k, r, l), k <= c.cursor
    PROVE  Follows(c, k, c, r, l)
<1>1. c.run => ~c.ended
  BY DEF Reading
<1> QED
  BY <1>1 DEF Reading, Follows

\* An event that is new to a client, which has not seen the end.
LEMMA NewEvent ==
    ASSUME NEW c, NEW k, NEW r, NEW l, Reading(c, k, r, l), ~(k <= c.cursor)
    PROVE  /\ r \in Replies /\ l \in Seq(Events) /\ LogTrue(r, l) /\ c \in ClientStates
           /\ k \in 1 .. Len(l) /\ k \in Nat /\ Len(l) \in Nat /\ c.cursor \in Nat
           /\ k = c.cursor + 1 /\ c.torn \in BOOLEAN /\ c.reply \in Replies
           /\ c.run \in BOOLEAN /\ ~c.ended
           /\ ~c.torn => View(c.reply.text, c.cursor, r, l) /\ c.reply.status # "none"
<1>1. /\ r \in Replies /\ l \in Seq(Events) /\ LogTrue(r, l) /\ c \in ClientStates
      /\ k \in 1 .. Len(l) /\ k <= c.cursor + 1 /\ c.cursor <= Len(l)
      /\ c.cursor \in Nat /\ Len(l) \in Nat
  BY Fields DEF Reading
<1>2. k = c.cursor + 1 /\ c.cursor # Len(l)
  BY <1>1
<1> QED
  BY <1>1, <1>2, Fields DEF Reading

\* The next delta.
LEMMA DeltaFollows ==
    ASSUME NEW c, NEW k, NEW r, NEW l, Reading(c, k, r, l), ~(k <= c.cursor), l[k].type = "delta",
           NEW d, d = IF c.ended \/ c.reply.status = "none" THEN [c EXCEPT !.cursor = k]
                      ELSE [c EXCEPT !.cursor = k, !.reply.text = @ \o l[k].text]
    PROVE  Follows(c, k, d, r, l)
<1>1. /\ r \in Replies /\ l \in Seq(Events) /\ LogTrue(r, l) /\ c \in ClientStates
      /\ k \in 1 .. Len(l) /\ k \in Nat /\ Len(l) \in Nat /\ c.cursor \in Nat
      /\ k = c.cursor + 1 /\ c.torn \in BOOLEAN /\ c.reply \in Replies
      /\ c.run \in BOOLEAN /\ ~c.ended
      /\ ~c.torn => View(c.reply.text, c.cursor, r, l) /\ c.reply.status # "none"
  BY NewEvent
<1>2. CASE c.reply.status = "none"
  <2>1. d = [c EXCEPT !.cursor = k]
    BY <1>2
  <2>2. /\ d \in ClientStates /\ d.cursor = k /\ d.snapshot = c.snapshot
        /\ d.run = c.run /\ d.ended = c.ended /\ d.torn = c.torn
    BY <2>1, <1>1 DEF ClientStates
  <2>3. c.torn /\ k <= k /\ k <= Len(l)
    BY <1>1, <1>2
  <2> QED
    BY <2>2, <2>3, <1>1 DEF Follows
<1>3. CASE c.reply.status # "none"
  <2>1. PICK e \in Events : e = l[k]
    BY <1>1, Member
  <2>2. e.text \in Seq(1 .. MaxDeltas) /\ c.reply.text \in Seq(1 .. MaxDeltas)
    BY <1>1, Fields DEF Events
  <2>3. PICK x \in Seq(1 .. MaxDeltas) : x = c.reply.text \o l[k].text
    <3>1. PICK a \in Seq(1 .. MaxDeltas), b \in Seq(1 .. MaxDeltas) :
             a = c.reply.text /\ b = e.text
      BY <2>2
    <3>2. a \o b \in Seq(1 .. MaxDeltas)
      OBVIOUS
    <3> QED
      BY <3>1, <3>2, <2>1
  <2>4. PICK rp \in Replies : /\ rp = [c.reply EXCEPT !.text = x]
                              /\ rp.text = x /\ rp.status = c.reply.status
    <3>1. PICK old \in Replies : old = c.reply
      BY <1>1
    <3>2. /\ [old EXCEPT !.text = x] \in Replies /\ [old EXCEPT !.text = x].text = x
          /\ [old EXCEPT !.text = x].status = old.status
      BY DEF Replies
    <3> QED
      BY <3>1, <3>2
  <2>5. d = [c EXCEPT !.cursor = k, !.reply = rp]
    BY <1>1, <1>3, <2>3, <2>4 DEF ClientStates
  <2>6. /\ d \in ClientStates /\ d.cursor = k /\ d.snapshot = c.snapshot /\ d.reply = rp
        /\ d.run = c.run /\ d.ended = c.ended /\ d.torn = c.torn
    BY <2>4, <2>5, <1>1 DEF ClientStates
  <2>7. ~c.torn => View(x, k, r, l)
    <3> SUFFICES ASSUME ~c.torn PROVE View(x, k, r, l)
      OBVIOUS
    <3>1. PICK text \in Seq(1 .. MaxDeltas) : text = c.reply.text
      BY <2>2
    <3>2. PICK s \in Nat : s = c.cursor /\ s + 1 = k /\ s + 1 <= Len(l)
      BY <1>1
    <3>3. View(text, s, r, l) /\ l[s + 1].type = "delta" /\ x = text \o l[s + 1].text
      BY <3>1, <3>2, <2>3, <1>1
    <3>4. View(x, s + 1, r, l)
      BY <3>2, <3>3, <1>1, NextDelta
    <3> QED
      BY <3>2, <3>4
  <2>8. k <= k /\ k <= Len(l)
    BY <1>1
  <2> QED
    BY <1>1, <1>3, <2>4, <2>6, <2>7, <2>8 DEF Follows
<1> QED
  BY <1>2, <1>3

\* The end of the reply.
LEMMA EndFollows ==
    ASSUME NEW c, NEW k, NEW r, NEW l, Reading(c, k, r, l), ~(k <= c.cursor), NEW d,
           \/ /\ l[k].type = "completed"
              /\ d = [c EXCEPT !.cursor = k, !.ended = TRUE, !.run = FALSE, !.torn = FALSE,
                               !.reply = [status |-> "completed", text |-> l[k].text]]
           \/ /\ l[k].type = "stopped"
              /\ d = [c EXCEPT !.cursor = k, !.ended = TRUE, !.run = FALSE,
                               !.reply.status = "stopped"]
    PROVE  Follows(c, k, d, r, l)
<1>1. /\ r \in Replies /\ l \in Seq(Events) /\ LogTrue(r, l) /\ c \in ClientStates
      /\ k \in 1 .. Len(l) /\ k \in Nat /\ Len(l) \in Nat /\ c.cursor \in Nat
      /\ k = c.cursor + 1 /\ c.torn \in BOOLEAN /\ c.reply \in Replies
      /\ c.run \in BOOLEAN /\ ~c.ended
      /\ ~c.torn => View(c.reply.text, c.cursor, r, l) /\ c.reply.status # "none"
  BY NewEvent
<1>2. /\ l[k].type = "completed" => k = Len(l) /\ r.status = "completed" /\ l[k].text = r.text
      /\ l[k].type = "stopped" => k = Len(l) /\ r.status = "stopped"
  BY <1>1 DEF LogTrue, Ends
<1>3. View(r.text, Len(l), r, l)
  BY <1>1, WholeView
<1>4. CASE l[k].type = "completed"
  <2>1. r = [status |-> "completed", text |-> l[k].text]
    BY <1>1, <1>2, <1>4 DEF Replies
  <2>2. d = [c EXCEPT !.cursor = k, !.ended = TRUE, !.run = FALSE, !.torn = FALSE, !.reply = r]
    BY <2>1, <1>4
  <2>3. /\ d \in ClientStates /\ d.cursor = k /\ d.snapshot = c.snapshot /\ d.reply = r
        /\ ~d.run /\ d.ended /\ ~d.torn
    BY <2>2, <1>1 DEF ClientStates
  <2>4. k <= k /\ k <= Len(l) /\ k = Len(l) /\ r.status = "completed"
    BY <1>1, <1>2, <1>4
  <2> QED
    BY <2>3, <2>4, <1>3 DEF Follows, Ended
<1>5. CASE l[k].type = "stopped"
  <2>1. PICK rp \in Replies : /\ rp = [c.reply EXCEPT !.status = "stopped"]
                              /\ rp.text = c.reply.text /\ rp.status = "stopped"
    <3>1. PICK old \in Replies : old = c.reply
      BY <1>1
    <3>2. /\ [old EXCEPT !.status = "stopped"] \in Replies
          /\ [old EXCEPT !.status = "stopped"].text = old.text
          /\ [old EXCEPT !.status = "stopped"].status = "stopped"
      BY DEF Replies, ReplyStatuses
    <3> QED
      BY <3>1, <3>2
  <2>2. d = [c EXCEPT !.cursor = k, !.ended = TRUE, !.run = FALSE, !.reply = rp]
    BY <2>1, <1>1, <1>5 DEF ClientStates
  <2>3. /\ d \in ClientStates /\ d.cursor = k /\ d.snapshot = c.snapshot /\ d.reply = rp
        /\ ~d.run /\ d.ended /\ d.torn = c.torn
    BY <2>1, <2>2, <1>1 DEF ClientStates
  <2>4. k <= k /\ k <= Len(l) /\ k = Len(l) /\ r.status = "stopped"
    BY <1>1, <1>2, <1>5
  <2>5. ~c.torn => rp = r
    <3> SUFFICES ASSUME ~c.torn PROVE rp = r
      OBVIOUS
    <3>1. PICK text \in Seq(1 .. MaxDeltas) : text = c.reply.text
      BY <1>1, Fields
    <3>2. \A i \in 1 .. Len(l) : l[i].type = "delta" => i <= c.cursor
      <4> SUFFICES ASSUME NEW i \in 1 .. Len(l), l[i].type = "delta" PROVE i <= c.cursor
        OBVIOUS
      <4>1. i # k
        BY <1>5
      <4> QED
        BY <4>1, <2>4, <1>1
    <3>3. View(text, c.cursor, r, l)
      BY <3>1, <1>1
    <3>4. text = r.text
      BY <3>2, <3>3, <1>1, AllDeltas
    <3> QED
      BY <3>1, <3>4, <2>1, <2>4, <1>1 DEF Replies
  <2> QED
    BY <2>3, <2>4, <2>5, <1>1, <1>3 DEF Follows, Ended
<1> QED
  BY <1>4, <1>5

\* The event of the run's creation.
LEMMA CreatedFollows ==
    ASSUME NEW c, NEW k, NEW r, NEW l, Reading(c, k, r, l), ~(k <= c.cursor), l[k].type = "created",
           NEW d, d = [c EXCEPT !.cursor = k]
    PROVE  Follows(c, k, d, r, l)
<1>1. /\ r \in Replies /\ l \in Seq(Events) /\ LogTrue(r, l) /\ c \in ClientStates
      /\ k \in 1 .. Len(l) /\ k \in Nat /\ Len(l) \in Nat /\ c.cursor \in Nat
      /\ k = c.cursor + 1 /\ c.torn \in BOOLEAN /\ c.reply \in Replies
      /\ c.run \in BOOLEAN /\ ~c.ended
      /\ ~c.torn => View(c.reply.text, c.cursor, r, l) /\ c.reply.status # "none"
  BY NewEvent
<1>2. /\ d \in ClientStates /\ d.cursor = k /\ d.snapshot = c.snapshot /\ d.reply = c.reply
      /\ d.run = c.run /\ d.ended = c.ended /\ d.torn = c.torn
  BY <1>1 DEF ClientStates
<1>3. ~c.torn => View(c.reply.text, k, r, l)
  <2>1. \A i \in 1 .. Len(l) : c.cursor < i /\ i <= k => l[i].type # "delta"
    <3> SUFFICES ASSUME NEW i \in 1 .. Len(l), c.cursor < i, i <= k PROVE l[i].type # "delta"
      OBVIOUS
    <3>1. i = k
      BY <1>1
    <3> QED
      BY <3>1
  <2> QED
    BY <2>1, <1>1, NoDeltaBetween
<1>4. k <= k /\ k <= Len(l)
  BY <1>1
<1> QED
  BY <1>1, <1>2, <1>3, <1>4 DEF Follows

\* What applying an event does to the client.
LEMMA AppliedFollows ==
    ASSUME NEW c, NEW k, NEW r, NEW l, Reading(c, k, r, l)
    PROVE  /\ Follows(c, k, Applied(c, k, l[k]), r, l)
           /\ l[k].type = "snapshot" => r.status = "completed" /\ l[k].latest = Len(l)
<1>1. l[k].type \in Types /\ k \in Nat /\ c.cursor \in Nat
  <2>1. l \in Seq(Events) /\ k \in 1 .. Len(l) /\ c \in ClientStates
    BY DEF Reading
  <2>2. l[k] \in Events
    BY <2>1, Member
  <2> QED
    BY <2>1, <2>2, Fields DEF Events
<1>2. CASE l[k].type = "snapshot"
  <2>1. PICK d : d = [c EXCEPT !.cursor = l[k].latest, !.paused = TRUE]
    OBVIOUS
  <2>2. Applied(c, k, l[k]) = d
    BY <2>1, <1>2 DEF Applied
  <2> QED
    <3>1. Follows(c, k, d, r, l) /\ r.status = "completed" /\ l[k].latest = Len(l)
      BY <2>1, <1>2, SnapshotFollows, ZenonT(60)
    <3> QED
      BY <3>1, <2>2
<1>3. CASE l[k].type # "snapshot" /\ k <= c.cursor
  <2>1. Applied(c, k, l[k]) = c
    BY <1>1, <1>3 DEF Applied
  <2> QED
    BY <2>1, <1>3, SkippedFollows
<1>4. CASE l[k].type = "delta" /\ ~(k <= c.cursor)
  <2>1. PICK d : d = IF c.ended \/ c.reply.status = "none" THEN [c EXCEPT !.cursor = k]
                     ELSE [c EXCEPT !.cursor = k, !.reply.text = @ \o l[k].text]
    OBVIOUS
  <2>2. Applied(c, k, l[k]) = d
    BY <2>1, <1>1, <1>4 DEF Applied
  <2> QED
    BY <2>1, <2>2, <1>4, DeltaFollows
<1>5. CASE l[k].type = "completed" /\ ~(k <= c.cursor)
  <2>1. PICK d : d = [c EXCEPT !.cursor = k, !.ended = TRUE, !.run = FALSE, !.torn = FALSE,
                               !.reply = [status |-> "completed", text |-> l[k].text]]
    OBVIOUS
  <2>2. Applied(c, k, l[k]) = d
    BY <2>1, <1>1, <1>5 DEF Applied
  <2> QED
    BY <2>1, <2>2, <1>5, EndFollows
<1>6. CASE l[k].type = "stopped" /\ ~(k <= c.cursor)
  <2>1. PICK d : d = [c EXCEPT !.cursor = k, !.ended = TRUE, !.run = FALSE,
                               !.reply.status = "stopped"]
    OBVIOUS
  <2>2. Applied(c, k, l[k]) = d
    BY <2>1, <1>1, <1>6 DEF Applied
  <2> QED
    BY <2>1, <2>2, <1>6, EndFollows
<1>7. CASE l[k].type = "created" /\ ~(k <= c.cursor)
  <2>1. PICK d : d = [c EXCEPT !.cursor = k]
    OBVIOUS
  <2>2. Applied(c, k, l[k]) = d
    BY <2>1, <1>1, <1>7 DEF Applied
  <2> QED
    BY <2>1, <2>2, <1>7, CreatedFollows
<1> QED
  BY <1>1, <1>2, <1>3, <1>4, <1>5, <1>6, <1>7 DEF Types

\* The stream delivers its next event.
LEMMA DeliverStep == IInv /\ Deliver => IInv'
<1> SUFFICES ASSUME IInv, Deliver PROVE IInv'
  OBVIOUS
<1>1. /\ Typed(reply, log, client, stream, request, told) /\ LogTrue(reply, log)
      /\ Requests(request, reply, log) /\ Turns(client, stream, request)
      /\ ClientTrue(client, stream, reply, log) /\ StreamTrue(client, stream, reply)
      /\ UNCHANGED <<reply, log, told>> /\ stream.state = "open" /\ request["get"].pc = "idle"
      /\ reply \in Replies /\ log \in Seq(Events) /\ Len(log) \in Nat /\ told \in BOOLEAN
      /\ request \in [Slots -> RequestStates]
  BY DEF IInv, Feed, Typed, Deliver
<1>2. PICK c \in ClientStates, st \in StreamStates : c = client /\ st = stream
  BY <1>1 DEF Typed
<1>3. PICK k \in Nat : k = st.cursor + 1 /\ k \in 1 .. Len(log)
  BY <1>2, Fields DEF Deliver
<1>4. PICK e \in Events : e = log[k]
  BY <1>1, <1>3, Member
<1>5. Reading(c, k, reply, log)
  <2>1. st.cursor \in Nat /\ c.cursor \in Nat /\ st.cursor <= c.cursor /\ c.cursor <= Len(log)
    BY <1>1, <1>2, Fields DEF StreamTrue, ClientTrue
  <2>2. k <= c.cursor + 1
    BY <2>1, <1>3
  <2>3. /\ ~c.torn => View(c.reply.text, c.cursor, reply, log) /\ c.reply.status # "none"
        /\ c.ended => /\ c.cursor = Len(log) /\ Ended(reply) /\ ~c.run
                      /\ reply.status = "completed" \/ ~c.torn => c.reply = reply
    BY <1>1, <1>2 DEF ClientTrue
  <2> QED
    BY <2>1, <2>2, <2>3, <1>1, <1>3 DEF Reading
<1>6. PICK d \in ClientStates : d = Applied(c, k, e) /\ Follows(c, k, d, reply, log)
  BY <1>4, <1>5, AppliedFollows DEF Follows
<1>7. e.type = "snapshot" => reply.status = "completed" /\ e.latest = Len(log)
  BY <1>4, <1>5, AppliedFollows
<1>8. PICK read \in StreamStates :
         /\ read = [stream EXCEPT !.after = k, !.cursor = k]
         /\ read.state = "open" /\ read.after = k /\ read.cursor = k
  <2>1. /\ [st EXCEPT !.after = k, !.cursor = k] \in StreamStates
        /\ [st EXCEPT !.after = k, !.cursor = k].state = st.state
        /\ [st EXCEPT !.after = k, !.cursor = k].after = k
        /\ [st EXCEPT !.after = k, !.cursor = k].cursor = k
    BY DEF StreamStates
  <2> QED
    BY <2>1, <1>1, <1>2
<1>9. /\ client' = d /\ stream' = Watched(c, d, read)
      /\ request' = IF e.type # "snapshot" THEN request
                    ELSE [request EXCEPT !["get"] = [NoRequest EXCEPT
                             !.pc = "row", !.op = "refresh", !.latest = e.latest]]
  BY <1>2, <1>3, <1>4, <1>6, <1>8 DEF Deliver
<1>10. /\ k <= d.cursor /\ d.cursor <= Len(log) /\ d.snapshot = c.snapshot
       /\ ~d.torn => View(d.reply.text, d.cursor, reply, log) /\ d.reply.status # "none"
       /\ d.ended => /\ d.cursor = Len(log) /\ Ended(reply) /\ ~d.run
                     /\ reply.status = "completed" \/ ~d.torn => d.reply = reply
       /\ d.run => c.run
       /\ c.run /\ ~d.run => d.ended
  BY <1>6 DEF Follows
<1>11. stream' = read \/ (stream' = ClosedStream /\ c.run /\ ~d.run)
  BY <1>8, <1>9, <1>10 DEF Watched
<1>12. PICK st2 \in StreamStates :
          /\ st2 = stream' /\ st2.after = st2.cursor
          /\ \/ st2.state = "open" /\ st2.cursor = k
             \/ st2.state = "closed" /\ st2.cursor = 0 /\ c.run /\ ~d.run
  BY <1>8, <1>11, StreamFields
<1>13. ClientTrue(d, st2, reply, log)
  <2>1. reply.status # "none"
    BY <1>1 DEF StreamTrue
  <2>2. d.snapshot <= Len(log)
    BY <1>1, <1>2, <1>10 DEF ClientTrue
  <2> QED
    BY <2>1, <2>2, <1>10, <1>12 DEF ClientTrue
<1>14. StreamTrue(d, st2, reply)
  <2>1. reply.status # "none"
    BY <1>1 DEF StreamTrue
  <2> QED
    BY <2>1, <1>10, <1>12 DEF StreamTrue
<1>15. ~Sending(request["mutation"]) /\ ~Loading(request["get"])
  BY <1>1 DEF Turns, Untouched
<1>16. \A mu, ge : AtRest(d, st2, reply, mu, ge, told)
  BY <1>10, <1>12 DEF AtRest, Ended, Active
<1>17. PICK rq : /\ rq = request' /\ rq \in [Slots -> RequestStates] /\ Requests(rq, reply, log)
                 /\ Turns(d, st2, rq)
  <2>1. CASE e.type # "snapshot"
    <3>1. request' = request /\ Turns(d, st2, request)
      BY <2>1, <1>9, <1>15 DEF Turns
    <3> QED
      BY <3>1, <1>1
  <2>2. CASE e.type = "snapshot"
    <3>1. PICK q \in RequestStates :
             /\ q = [NoRequest EXCEPT !.pc = "row", !.op = "refresh", !.latest = e.latest]
             /\ q.pc = "row" /\ q.op = "refresh" /\ q.latest = e.latest
      <4>1. PICK n \in Nat : n = e.latest
        BY <2>2, <1>1, <1>7
      <4>2. /\ [NoRequest EXCEPT !.pc = "row", !.op = "refresh", !.latest = n] \in RequestStates
            /\ [NoRequest EXCEPT !.pc = "row", !.op = "refresh", !.latest = n].pc = "row"
            /\ [NoRequest EXCEPT !.pc = "row", !.op = "refresh", !.latest = n].op = "refresh"
            /\ [NoRequest EXCEPT !.pc = "row", !.op = "refresh", !.latest = n].latest = n
        <5>1. PICK no \in RequestStates : no = NoRequest
          BY Idle
        <5>2. /\ [no EXCEPT !.pc = "row", !.op = "refresh", !.latest = n] \in RequestStates
              /\ [no EXCEPT !.pc = "row", !.op = "refresh", !.latest = n].pc = "row"
              /\ [no EXCEPT !.pc = "row", !.op = "refresh", !.latest = n].op = "refresh"
              /\ [no EXCEPT !.pc = "row", !.op = "refresh", !.latest = n].latest = n
          BY DEF RequestStates
        <5> QED
          BY <5>1, <5>2
      <4> QED
        BY <4>1, <4>2
    <3>2. PICK rq : rq = request' /\ rq = [request EXCEPT !["get"] = q]
      BY <2>2, <3>1, <1>9
    <3>3. /\ rq \in [Slots -> RequestStates] /\ rq["get"] = q
          /\ rq["mutation"] = request["mutation"]
      BY <3>2, <1>1 DEF Slots
    <3>4. q.latest <= Len(log) /\ q.latest = Len(log) /\ reply.status = "completed"
      BY <2>2, <3>1, <1>1, <1>7
    <3>5. ReadTrue(q, reply, log)
      BY <3>1, <3>4, <1>1, NothingRead
    <3>6. GetTrue(q, reply, log)
      BY <3>1, <3>4 DEF GetTrue, HasRead
    <3>7. Requests(rq, reply, log)
      BY <3>3, <3>5, <3>6, <1>1 DEF Requests, Slots
    <3>8. Turns(d, st2, rq)
      BY <3>1, <3>3, <1>15 DEF Turns, Loading
    <3> QED
      BY <3>2, <3>3, <3>7, <3>8
  <2> QED
    BY <2>1, <2>2
<1>18. Typed(reply, log, d, st2, rq, told)
  BY <1>1, <1>17 DEF Typed
<1>19. Feed(reply, log, d, st2, rq, told)
  BY <1>1, <1>13, <1>14, <1>16, <1>17, <1>18 DEF Feed
<1> QED
  BY <1>1, <1>9, <1>12, <1>17, <1>19 DEF IInv

-----------------------------------------------------------------------------
(* The theorem.                                                            *)

\* Every step preserves the invariant.
LEMMA StepOK == IInv /\ [Next]_vars => IInv'
<1> SUFFICES ASSUME IInv, [Next]_vars PROVE IInv'
  OBVIOUS
<1>1. CASE UNCHANGED vars
  BY <1>1 DEF IInv, vars
<1>2. CASE RunStep
  BY <1>2, DeltaStep, CompleteStep DEF RunStep
<1>3. CASE UserStep
  BY <1>3, BeginStep, ReloadStep DEF UserStep
<1>4. CASE RequestStep
  BY <1>4, MutateStep, MutationResponseStep, GetResponseStep, ReadStep DEF RequestStep, Slots
<1>5. CASE StreamStep
  BY <1>5, DeliverStep, ConnectionStep DEF StreamStep
<1>6. CASE FaultStep
  BY <1>6, ConnectionStep, FailStep DEF FaultStep, Slots
<1> QED
  BY <1>1, <1>2, <1>3, <1>4, <1>5, <1>6 DEF Next

\* A beginning of a text that counts is what IsPrefix means.
LEMMA CountedPrefix ==
    ASSUME NEW a \in Seq(1 .. MaxDeltas), NEW b \in Seq(1 .. MaxDeltas), Counted(a), Counted(b),
           Len(a) <= Len(b)
    PROVE  IsPrefix(a, b)
<1>1. PICK n \in Nat : n = Len(a) /\ n <= Len(b) /\ Len(b) \in Nat
  OBVIOUS
<1>2. SubSeq(a, 1, n) \in Seq(1 .. MaxDeltas) /\ SubSeq(b, 1, n) \in Seq(1 .. MaxDeltas)
  <2>1. 1 \in Int /\ n \in Int /\ \A i \in 1 .. n : i \in 1 .. Len(a) /\ i \in 1 .. Len(b)
    BY <1>1
  <2>2. \A i \in 1 .. n : a[i] \in 1 .. MaxDeltas /\ b[i] \in 1 .. MaxDeltas
    BY <2>1, Member
  <2> QED
    BY <2>1, <2>2, SubSeqProperties
<1>3. /\ Len(SubSeq(a, 1, n)) = n /\ Len(SubSeq(b, 1, n)) = n
      /\ \A i \in 1 .. n : SubSeq(a, 1, n)[i] = a[i] /\ SubSeq(b, 1, n)[i] = b[i]
  BY <1>1
<1>4. \A i \in 1 .. n : a[i] = b[i]
  BY <1>1 DEF Counted
<1>5. SubSeq(a, 1, n) = SubSeq(b, 1, n)
  BY <1>2, <1>3, <1>4
<1> QED
  BY <1>1, <1>5 DEF IsPrefix

\* The invariant implies that the client shows the server's reply.
LEMMA InvariantEnough == IInv => ShowsServer
<1> SUFFICES ASSUME IInv PROVE ShowsServer
  OBVIOUS
<1>1. /\ Typed(reply, log, client, stream, request, told) /\ LogTrue(reply, log)
      /\ ClientTrue(client, stream, reply, log) /\ StreamTrue(client, stream, reply)
      /\ AtRest(client, stream, reply, request["mutation"], request["get"], told)
      /\ reply \in Replies /\ client \in ClientStates /\ stream \in StreamStates
      /\ Len(log) \in Nat /\ request \in [Slots -> RequestStates]
  BY DEF IInv, Feed, Typed
<1>2. FeedTypeOK
  <2>1. client.reply \in Replies /\ client.cursor \in 0 .. Len(log) /\ client.snapshot \in 0 .. Len(log)
    BY <1>1, Fields DEF ClientTrue
  <2>2. /\ stream.state \in {"closed", "open", "retry"} /\ stream.after \in 0 .. Len(log)
        /\ stream.cursor \in stream.after .. Len(log)
    <3>1. stream.cursor \in Nat /\ stream.after = stream.cursor /\ stream.cursor <= Len(log)
      BY <2>1, <1>1, Fields DEF StreamTrue
    <3> QED
      BY <3>1, <1>1, Fields
  <2>3. \A slot \in DOMAIN request :
           request[slot].pc \in {"idle", "sent", "row", "messages", "run", "respond"}
    BY <1>1, Fields
  <2> QED
    BY <2>1, <2>2, <2>3, <1>1 DEF FeedTypeOK
<1>3. NeverRepeats
  <2> SUFFICES ASSUME ~client.torn PROVE IsPrefix(client.reply.text, reply.text)
    BY DEF NeverRepeats
  <2>1. /\ client.reply.text \in Seq(1 .. MaxDeltas) /\ reply.text \in Seq(1 .. MaxDeltas)
        /\ Counted(client.reply.text) /\ Counted(reply.text)
        /\ Len(client.reply.text) <= Len(reply.text)
    BY <1>1, Fields DEF ClientTrue, View, LogTrue
  <2> QED
    BY <2>1, CountedPrefix
<1>4. NoStaleRest
  <2> SUFFICES ASSUME ~Waiting, ~Excused PROVE client.reply = reply
    BY DEF NoStaleRest
  <2>1. /\ request["mutation"].pc = "idle" /\ request["get"].pc = "idle"
        /\ stream.state = "closed" /\ ~told /\ ~client.torn /\ ~stream.cut
    BY <1>1, Fields DEF Waiting, Excused, Slots
  <2>2. ~client.run
    BY <2>1, <1>1 DEF ClientTrue
  <2> QED
    BY <2>1, <2>2, <1>1 DEF AtRest, Loading, Sending
<1>5. CompletionHeals
  BY <1>1 DEF CompletionHeals, ClientTrue
<1> QED
  BY <1>2, <1>3, <1>4, <1>5 DEF ShowsServer

\* For a reply of any length, and any number of reloads, broken connections and
\* lost responses: the client shows a beginning of the reply, the reply as it is
\* stored once it has seen it complete, and never rests on another one unless it
\* has said so or is in one of the two ways to be left behind that ShowsServer
\* names (stream-state.ts, use-session-event-stream.ts, chat-runtime-overlay.ts).
THEOREM AlwaysShowsServer == Spec => []ShowsServer
<1>1. Spec => []IInv
  BY InitOK, StepOK, PTL DEF Spec
<1> QED
  BY <1>1, InvariantEnough, PTL
=============================================================================
