-------------------------- MODULE AgentWorkerProofs --------------------------
(***************************************************************************)
(* Proofs about AgentWorker for every set of runs, every assignment of     *)
(* checkpoint threads and every value of the bounds: the safety invariant, *)
(* that a successful command is not executed again, and that the worker    *)
(* implements AgentService.                                                *)
(***************************************************************************)
EXTENDS AgentWorker, TLAPS

-----------------------------------------------------------------------------
(* The inductive invariant: what the model checker was shown, and what a    *)
(* task that is under way implies for the shared state.                    *)

\* Exactly the messages that have been published have been handled at all.
TasksAreMessages ==
    \A i \in Messages :
        /\ i \in DOMAIN queue <=> task[i].pc # "none"
        /\ task[i].pc = "none" => task[i] = NoTask

\* activeRuns holds tasks of the run it is indexed with.
ActiveOfRun ==
    \A r \in Runs : active[r] # None => active[r] \in DOMAIN queue /\ RunOf(active[r]) = r

\* The key of a command that executes is held ...
KeyHeld == \A i \in DOMAIN queue : Executing(i) => KeyOf(i) \in started[RunOf(i)]

\* ... by one message of all its copies ...
Alone ==
    \A i, j \in DOMAIN queue : Executing(i) /\ Executing(j) /\ queue[i] = queue[j] => i = j

\* ... and stays held when the execution has succeeded.
Spent ==
    \A i, j \in DOMAIN queue :
        task[i].result \in Successes /\ ~Executing(i) /\ queue[i] = queue[j] =>
            KeyOf(i) \in started[RunOf(i)] /\ ~Executing(j)

\* What a task has returned and said by the time it is at a point of the code.
Progress(i) ==
    /\ task[i].pc \in {"submit", "start", "bootstrap", "lock", "run", "unlock", "report", "held"}
          => task[i].said = "nothing"
    /\ task[i].pc = "unlock" => task[i].result \in {"completed", "action", "error"}
    /\ task[i].pc = "report" => task[i].result \in {"completed", "action"}
    /\ task[i].pc = "catch" => task[i].said # "failure"
    /\ task[i].pc = "clear" => task[i].result = "error"
    /\ \/ task[i].pc = "catch"
       \/ task[i].pc \in {"finish", "clear"} /\ task[i].result = "error"
       => (task[i].said = "outcome" => LostReplies)

Ordered == \A i \in DOMAIN queue : Progress(i)

\* A generation is aborted because its cancellation was asked for.
AbortsAsked ==
    /\ \A r \in controls : stopped[r]
    /\ \A i \in DOMAIN queue : task[i].aborted => stopped[RunOf(i)]

IInv ==
    /\ WorkerInv /\ TasksAreMessages /\ ActiveOfRun
    /\ KeyHeld /\ Alone /\ Spent /\ Ordered /\ AbortsAsked

-----------------------------------------------------------------------------
(* Messages and tasks.                                                     *)

\* A message of the stream is one of the messages, and names a run, a key and
\* the thread of its run.
LEMMA MessageTypes ==
    ASSUME WorkerTypeOK, NEW i \in DOMAIN queue
    PROVE  /\ i \in Messages /\ i \in 1 .. Len(queue)
           /\ RunOf(i) \in Runs /\ KeyOf(i) \in Keys /\ ThreadOf(i) \in Threads
<1> DEFINE Command == [run : Runs, key : Keys]
<1>1. /\ queue \in Seq(Command)
      /\ Len(queue) <= MaxMessages
      /\ MaxMessages \in Nat
  BY WorkerAssumption DEF WorkerTypeOK
<1>2. i \in 1 .. Len(queue) /\ queue[i] \in Command
  <2> HIDE DEF Command
  <2> QED
    BY <1>1
<1> QED
  BY <1>1, <1>2 DEF Messages, RunOf, KeyOf, ThreadOf, Threads

\* Two messages are copies of one command when they name the same run and key.
LEMMA SameCommand ==
    ASSUME WorkerTypeOK, NEW i \in DOMAIN queue, NEW j \in DOMAIN queue
    PROVE  queue[i] = queue[j] <=> RunOf(i) = RunOf(j) /\ KeyOf(i) = KeyOf(j)
<1> DEFINE Command == [run : Runs, key : Keys]
<1>1. queue[i] \in Command /\ queue[j] \in Command
  <2>1. queue \in Seq(Command)
    BY DEF WorkerTypeOK
  <2> HIDE DEF Command
  <2> QED
    BY <2>1
<1> QED
  BY <1>1 DEF RunOf, KeyOf

\* A step of the handling of message i leaves the other tasks, the stream and
\* the controls alone, and does not touch the task's AbortController.
LEMMA HandleFrame ==
    ASSUME IInv, NEW i \in Messages, Handle(i)
    PROVE  /\ i \in DOMAIN queue
           /\ task' \in [Messages -> Tasks]
           /\ \A j \in Messages \ {i} : task'[j] = task[j]
           /\ task'[i].aborted = task[i].aborted /\ task'[i].pc # "none"
           /\ UNCHANGED <<queue, controls, stopped, crashes>>
<1>1. /\ task \in [Messages -> Tasks] /\ task[i] \in Tasks
      /\ task[i].pc # "none" => i \in DOMAIN queue
  BY DEF IInv, WorkerInv, WorkerTypeOK, TasksAreMessages
<1>2. ASSUME NEW t \in Tasks, task' = [task EXCEPT ![i] = t],
             t.aborted = task[i].aborted, t.pc # "none", task[i].pc # "none",
             UNCHANGED <<queue, controls, stopped, crashes>>
      PROVE  /\ i \in DOMAIN queue
             /\ task' \in [Messages -> Tasks]
             /\ \A j \in Messages \ {i} : task'[j] = task[j]
             /\ task'[i].aborted = task[i].aborted /\ task'[i].pc # "none"
             /\ UNCHANGED <<queue, controls, stopped, crashes>>
  BY <1>1, <1>2
<1>3. ASSUME NEW pc, Goto(i, pc), task[i].pc # "none",
             pc \in {"acked", "pending", "mark", "ack", "dead", "clear"} \cup Registered,
             UNCHANGED <<queue, controls, stopped, crashes>>
      PROVE  /\ i \in DOMAIN queue
             /\ task' \in [Messages -> Tasks]
             /\ \A j \in Messages \ {i} : task'[j] = task[j]
             /\ task'[i].aborted = task[i].aborted /\ task'[i].pc # "none"
             /\ UNCHANGED <<queue, controls, stopped, crashes>>
  <2> DEFINE t == [task[i] EXCEPT !.pc = pc]
  <2>1. t \in Tasks /\ t.aborted = task[i].aborted /\ t.pc # "none"
    BY <1>1, <1>3 DEF Tasks, Waiting, Registered
  <2>2. task' = [task EXCEPT ![i] = t]
    BY <1>3 DEF Goto
  <2> HIDE DEF t
  <2> QED
    BY <1>2, <1>3, <2>1, <2>2
<1>4. ASSUME NEW pc, NEW result, NEW said, Set(i, pc, result, said), task[i].pc # "none",
             pc \in {"held", "submit", "clear"} \cup Registered,
             result \in Results, said \in {"nothing", "outcome", "failure"},
             UNCHANGED <<queue, controls, stopped, crashes>>
      PROVE  /\ i \in DOMAIN queue
             /\ task' \in [Messages -> Tasks]
             /\ \A j \in Messages \ {i} : task'[j] = task[j]
             /\ task'[i].aborted = task[i].aborted /\ task'[i].pc # "none"
             /\ UNCHANGED <<queue, controls, stopped, crashes>>
  <2> DEFINE t == [task[i] EXCEPT !.pc = pc, !.result = result, !.said = said]
  <2>1. t \in Tasks /\ t.aborted = task[i].aborted /\ t.pc # "none"
    BY <1>1, <1>4, ZenonT(60) DEF Tasks, Waiting, Registered
  <2>2. task' = [task EXCEPT ![i] = t]
    BY <1>4 DEF Set
  <2> HIDE DEF t
  <2> QED
    BY <1>2, <1>4, <2>1, <2>2
<1> USE DEF Registered, Results, Successes
<1>said. task[i].said \in {"nothing", "outcome", "failure"} /\ task[i].result \in Results
  BY <1>1 DEF Tasks
<1>5. CASE MarkStarted(i)
  BY <1>3, <1>4, <1>5 DEF MarkStarted
<1>6. CASE Submit(i)
  BY <1>3, <1>4, <1>6 DEF Submit
<1>7. CASE Start(i)
  BY <1>3, <1>4, <1>7 DEF Start
<1>8. CASE Bootstrap(i)
  BY <1>3, <1>8 DEF Bootstrap
<1>9. CASE AcquireLock(i)
  BY <1>3, <1>9 DEF AcquireLock
<1>10. CASE StreamPart(i)
  BY <1>1, <1>4, <1>10, <1>said DEF StreamPart
<1>11. CASE Invoke(i)
  BY <1>4, <1>11, <1>said DEF Invoke
<1>12. CASE Unlock(i)
  BY <1>3, <1>4, <1>12, <1>said DEF Unlock
<1>13. CASE Report(i)
  BY <1>4, <1>13, <1>said DEF Report
<1>14. CASE Catch(i)
  BY <1>4, <1>14, <1>said DEF Catch
<1>15. CASE Finish(i)
  BY <1>3, <1>15 DEF Finish
<1>16. CASE Clear(i)
  BY <1>3, <1>16 DEF Clear
<1>17. CASE DeadLetter(i)
  BY <1>3, <1>17 DEF DeadLetter
<1>18. CASE Ack(i)
  BY <1>3, <1>18 DEF Ack
<1> QED
  BY <1>5, <1>6, <1>7, <1>8, <1>9, <1>10, <1>11, <1>12, <1>13, <1>14, <1>15, <1>16,
     <1>17, <1>18 DEF Handle

\* The message a publication appends is the next one.
LEMMA PublishFrame ==
    ASSUME IInv, NEW r \in Runs, NEW k \in Keys, PublishCommand(r, k)
    PROVE  /\ Len(queue) + 1 \in Messages
           /\ queue' \in Seq([run : Runs, key : Keys]) /\ Len(queue') <= MaxMessages
           /\ DOMAIN queue' = DOMAIN queue \cup {Len(queue) + 1}
           /\ \A i \in DOMAIN queue : queue'[i] = queue[i]
           /\ task \in [Messages -> Tasks] /\ task[Len(queue) + 1] = NoTask
           /\ task' = [task EXCEPT ![Len(queue) + 1] = [NoTask EXCEPT !.pc = "new"]]
           /\ UNCHANGED <<started, active, lock, expired, controls, stopped, events,
                          errors, crashes>>
<1> DEFINE Command == [run : Runs, key : Keys]
           new == [run |-> r, key |-> k]
<1>1. /\ queue \in Seq(Command) /\ new \in Command
      /\ Len(queue) \in Nat /\ Len(queue) < MaxMessages /\ MaxMessages \in Nat
      /\ queue' = Append(queue, new)
  BY WorkerAssumption DEF PublishCommand, IInv, WorkerInv, WorkerTypeOK
<1>2. /\ queue' \in Seq(Command) /\ Len(queue') = Len(queue) + 1
      /\ DOMAIN queue' = DOMAIN queue \cup {Len(queue) + 1}
      /\ Len(queue) + 1 \notin DOMAIN queue
      /\ \A i \in DOMAIN queue : queue'[i] = queue[i]
  <2> HIDE DEF Command, new
  <2> QED
    BY <1>1
<1>3. Len(queue) + 1 \in Messages /\ Len(queue') <= MaxMessages
  BY <1>1, <1>2 DEF Messages
<1>4. task[Len(queue) + 1] = NoTask /\ task \in [Messages -> Tasks]
  BY <1>2, <1>3 DEF IInv, WorkerInv, WorkerTypeOK, TasksAreMessages
<1> QED
  BY <1>2, <1>3, <1>4 DEF PublishCommand

\* A control, a crash and the reading of a message change the tasks as follows.
LEMMA OtherFrames ==
    ASSUME IInv
    PROVE  /\ \A i \in Messages :
                 Redeliver(i) \/ Deliver(i) =>
                    /\ i \in DOMAIN queue /\ task[i].pc \in {"new", "pending"}
                    /\ task' \in [Messages -> Tasks]
                    /\ task'[i].pc = "mark" /\ task'[i].result = task[i].result
                    /\ task'[i].aborted \in {task[i].aborted, FALSE}
                    /\ \A j \in Messages \ {i} : task'[j] = task[j]
           /\ \A r \in Runs :
                 Control(r) =>
                    /\ task' \in [Messages -> Tasks]
                    /\ \A j \in Messages :
                          /\ task'[j].pc = task[j].pc /\ task'[j].result = task[j].result
                          /\ task'[j].said = task[j].said
                          /\ task'[j].aborted =
                                (task[j].aborted \/ (active[r] # None /\ j = active[r]))
           /\ Crash =>
                 /\ task' \in [Messages -> Tasks]
                 /\ \A j \in Messages :
                       /\ task'[j].pc = IF task[j].pc \in Waiting THEN task[j].pc ELSE "pending"
                       /\ task'[j].result = task[j].result
                       /\ task'[j].aborted = task[j].aborted
<1>1. task \in [Messages -> Tasks] /\ \A i \in Messages : task[i] \in Tasks
  BY DEF IInv, WorkerInv, WorkerTypeOK
<1>2. ASSUME NEW i \in Messages, Redeliver(i)
      PROVE  /\ task' = [task EXCEPT ![i] = [task[i] EXCEPT !.pc = "mark", !.aborted = FALSE]]
             /\ task[i].pc = "pending"
  BY <1>2 DEF Redeliver, Redeliverable
<1>3. ASSUME NEW i \in Messages, Deliver(i)
      PROVE  task' = [task EXCEPT ![i] = [task[i] EXCEPT !.pc = "mark"]] /\ task[i].pc = "new"
  BY <1>3 DEF Deliver, Goto
<1>4. ASSUME NEW i \in Messages
      PROVE  /\ [task[i] EXCEPT !.pc = "mark"] \in Tasks
             /\ [task[i] EXCEPT !.pc = "mark", !.aborted = FALSE] \in Tasks
             /\ [task[i] EXCEPT !.aborted = TRUE] \in Tasks
             /\ [task[i] EXCEPT !.pc = "pending"] \in Tasks
  BY <1>1 DEF Tasks, Waiting, Registered
<1>5. ASSUME NEW i \in Messages, Redeliver(i) \/ Deliver(i)
      PROVE  /\ i \in DOMAIN queue /\ task[i].pc \in {"new", "pending"}
             /\ task' \in [Messages -> Tasks]
             /\ task'[i].pc = "mark" /\ task'[i].result = task[i].result
             /\ task'[i].aborted \in {task[i].aborted, FALSE}
             /\ \A j \in Messages \ {i} : task'[j] = task[j]
  <2>1. PICK t \in Tasks : /\ task' = [task EXCEPT ![i] = t]
                           /\ t.pc = "mark" /\ t.result = task[i].result
                           /\ t.aborted \in {task[i].aborted, FALSE}
    <3>1. CASE Redeliver(i)
      <4> DEFINE t == [task[i] EXCEPT !.pc = "mark", !.aborted = FALSE]
      <4>1. task' = [task EXCEPT ![i] = t] /\ t \in Tasks
        BY <1>2, <1>4, <3>1
      <4>2. t.pc = "mark" /\ t.result = task[i].result /\ t.aborted = FALSE
        BY <1>1 DEF Tasks
      <4> HIDE DEF t
      <4> QED
        BY <4>1, <4>2
    <3>2. CASE Deliver(i)
      <4> DEFINE t == [task[i] EXCEPT !.pc = "mark"]
      <4>1. /\ task' = [task EXCEPT ![i] = t] /\ t \in Tasks
            /\ t.pc = "mark" /\ t.result = task[i].result /\ t.aborted = task[i].aborted
        BY <1>1, <1>3, <1>4, <3>2, ZenonT(60) DEF Tasks
      <4> HIDE DEF t
      <4> QED
        BY <4>1
    <3> QED
      BY <1>5, <3>1, <3>2
  <2>2. task[i].pc \in {"new", "pending"}
    BY <1>2, <1>3, <1>5
  <2> QED
    BY <1>1, <2>1, <2>2 DEF IInv, TasksAreMessages
<1>6. ASSUME NEW r \in Runs, Control(r)
      PROVE  /\ task' \in [Messages -> Tasks]
             /\ \A j \in Messages :
                   /\ task'[j].pc = task[j].pc /\ task'[j].result = task[j].result
                   /\ task'[j].said = task[j].said
                   /\ task'[j].aborted = (task[j].aborted \/ (active[r] # None /\ j = active[r]))
  <2>1. CASE active[r] = None
    <3>1. task' = task
      BY <1>6, <2>1 DEF Control
    <3>2. \A j \in Messages : task[j].aborted \in BOOLEAN
      BY <1>1 DEF Tasks
    <3> QED
      BY <1>1, <2>1, <3>1, <3>2
  <2>2. CASE active[r] # None
    <3>1. active[r] \in Messages
      BY <2>2 DEF IInv, WorkerInv, WorkerTypeOK
    <3>2. task' = [task EXCEPT ![active[r]] = [task[active[r]] EXCEPT !.aborted = TRUE]]
      BY <1>6, <2>2 DEF Control
    <3>3. task' \in [Messages -> Tasks]
      BY <1>1, <1>4, <3>1, <3>2
    <3>4. \A j \in Messages :
             /\ task'[j].pc = task[j].pc /\ task'[j].result = task[j].result
             /\ task'[j].said = task[j].said
             /\ task'[j].aborted = IF j = active[r] THEN TRUE ELSE task[j].aborted
      BY <1>1, <3>1, <3>2 DEF Tasks
    <3>5. \A j \in Messages : task[j].aborted \in BOOLEAN
      BY <1>1 DEF Tasks
    <3> QED
      BY <2>2, <3>3, <3>4, <3>5
  <2> QED
    BY <2>1, <2>2
<1>7. ASSUME Crash
      PROVE  /\ task' \in [Messages -> Tasks]
             /\ \A j \in Messages :
                   /\ task'[j].pc = IF task[j].pc \in Waiting THEN task[j].pc ELSE "pending"
                   /\ task'[j].result = task[j].result
                   /\ task'[j].aborted = task[j].aborted
  <2>1. task' = [i \in Messages |-> IF i \in InFlight
                                    THEN [task[i] EXCEPT !.pc = "pending"] ELSE task[i]]
    BY <1>7 DEF Crash
  <2>2. \A i \in Messages : i \in InFlight <=> task[i].pc \notin Waiting
    BY DEF InFlight
  <2>3. task' \in [Messages -> Tasks]
    BY <1>1, <1>4, <2>1
  <2> QED
    BY <1>1, <2>1, <2>2, <2>3 DEF Tasks
<1> QED
  BY <1>5, <1>6, <1>7

-----------------------------------------------------------------------------
(* Types.                                                                  *)

\* Every step keeps the types.
LEMMA TypeStep == IInv /\ [Next]_vars => WorkerTypeOK'
<1> SUFFICES ASSUME IInv, [Next]_vars PROVE WorkerTypeOK'
  OBVIOUS
<1> DEFINE Kinds == {"delta", "completed", "action", "failed", "cancelled"}
<1> USE DEF WorkerTypeOK
<1>1. /\ WorkerTypeOK
      /\ errors \in 0 .. MaxErrors /\ crashes \in 0 .. MaxCrashes
      /\ MaxErrors \in Nat /\ MaxCrashes \in Nat
  BY WorkerAssumption DEF IInv, WorkerInv
<1>2. Fails => errors' \in 0 .. MaxErrors
  BY <1>1 DEF Fails
<1>3. ASSUME NEW i \in Messages, Handle(i) PROVE WorkerTypeOK'
  <2>1. /\ task' \in [Messages -> Tasks]
        /\ UNCHANGED <<queue, controls, stopped, crashes>>
        /\ RunOf(i) \in Runs /\ KeyOf(i) \in Keys /\ ThreadOf(i) \in Threads
        /\ i \in DOMAIN queue
    BY <1>1, <1>3, HandleFrame, MessageTypes
  <2>2. ASSUME UNCHANGED errors \/ Fails,
               started' \in [Runs -> SUBSET Keys],
               active' \in [Runs -> Messages \cup {None}],
               lock' \in [Threads -> Messages \cup {None}],
               expired' \subseteq Messages,
               events' \in [Runs -> Seq(Kinds)]
        PROVE  WorkerTypeOK'
    BY <1>1, <1>2, <2>1, <2>2
  <2>3. ASSUME NEW kind \in Kinds, Emit(i, kind) PROVE events' \in [Runs -> Seq(Kinds)]
    <3>1. events \in [Runs -> Seq(Kinds)]
      BY <1>1
    <3>2. events' = [events EXCEPT ![RunOf(i)] = Append(events[RunOf(i)], kind)]
      BY <2>3 DEF Emit
    <3> HIDE DEF Kinds, WorkerTypeOK
    <3>3. Append(events[RunOf(i)], kind) \in Seq(Kinds)
      BY <2>1, <3>1
    <3> QED
      BY <3>1, <3>2, <3>3
  <2>4. events' = events => events' \in [Runs -> Seq(Kinds)]
    BY <1>1
  <2>5. CASE MarkStarted(i)
    <3>1. started' \in [Runs -> SUBSET Keys]
      BY <1>1, <2>1, <2>5 DEF MarkStarted, Hold
    <3> QED
      BY <1>1, <2>2, <2>5, <3>1 DEF MarkStarted
  <2>6. CASE Submit(i)
    BY <1>1, <2>1, <2>2, <2>6 DEF Submit
  <2>7. CASE Start(i) \/ Bootstrap(i) \/ DeadLetter(i) \/ Ack(i) \/ Invoke(i)
    BY <1>1, <2>2, <2>7 DEF Start, Bootstrap, DeadLetter, Ack, Invoke
  <2>8. CASE AcquireLock(i)
    <3>1. lock' = lock \/ lock' = [lock EXCEPT ![ThreadOf(i)] = i]
      BY <2>8 DEF AcquireLock
    <3>2. lock' \in [Threads -> Messages \cup {None}]
      BY <1>1, <2>1, <3>1
    <3> QED
      BY <1>1, <2>2, <2>8, <3>2 DEF AcquireLock
  <2>9. CASE StreamPart(i)
    <3>1. events' \in [Runs -> Seq(Kinds)]
      BY <2>3, <2>4, <2>9 DEF StreamPart
    <3> QED
      BY <1>1, <2>2, <2>9, <3>1 DEF StreamPart
  <2>10. CASE Unlock(i)
    <3>1. lock' \in [Threads -> Messages \cup {None}]
      BY <1>1, <2>1, <2>10 DEF Unlock, ReleaseLock
    <3> QED
      BY <1>1, <2>2, <2>10, <3>1 DEF Unlock
  <2>11. CASE Report(i)
    <3>1. task[i].result \in Kinds
      BY <2>1, <2>11 DEF IInv, Ordered, Progress, Report
    <3>2. events' \in [Runs -> Seq(Kinds)]
      BY <2>3, <2>4, <2>11, <3>1 DEF Report
    <3> QED
      BY <1>1, <2>2, <2>11, <3>2 DEF Report
  <2>12. CASE Catch(i)
    <3>1. events' \in [Runs -> Seq(Kinds)]
      BY <2>3, <2>4, <2>12 DEF Catch
    <3> QED
      BY <1>1, <2>2, <2>12, <3>1 DEF Catch
  <2>13. CASE Finish(i)
    BY <1>1, <2>1, <2>2, <2>13 DEF Finish
  <2>14. CASE Clear(i)
    <3>1. started' \in [Runs -> SUBSET Keys]
      BY <1>1, <2>1, <2>14 DEF Clear, Release
    <3> QED
      BY <1>1, <2>2, <2>14, <3>1 DEF Clear
  <2> QED
    BY <1>3, <2>5, <2>6, <2>7, <2>8, <2>9, <2>10, <2>11, <2>12, <2>13, <2>14 DEF Handle
<1>4. ASSUME NEW r \in Runs, NEW k \in Keys, PublishCommand(r, k) PROVE WorkerTypeOK'
  <2>1. [NoTask EXCEPT !.pc = "new"] \in Tasks
    BY DEF NoTask, Tasks, Waiting, Results
  <2> QED
    BY <1>1, <1>4, <2>1, PublishFrame
<1>5. ASSUME NEW r \in Runs, PublishCancel(r) PROVE WorkerTypeOK'
  BY <1>1, <1>5 DEF PublishCancel
<1>6. ASSUME NEW r \in Runs, Control(r) PROVE WorkerTypeOK'
  BY <1>1, <1>2, <1>6, OtherFrames DEF Control
<1>7. CASE Consume
  BY <1>1, <1>7, OtherFrames DEF Consume, Redeliver, Deliver
<1>8. ASSUME NEW t \in Threads, LockExpire(t) PROVE WorkerTypeOK'
  <2>1. lock[t] \in Messages
    BY <1>1, <1>8 DEF LockExpire
  <2> QED
    BY <1>1, <1>8, <2>1 DEF LockExpire
<1>9. CASE Crash
  BY <1>1, <1>9, OtherFrames DEF Crash
<1>10. CASE UNCHANGED vars
  BY <1>1, <1>10 DEF vars
<1> QED
  BY <1>3, <1>4, <1>5, <1>6, <1>7, <1>8, <1>9, <1>10 DEF Next

-----------------------------------------------------------------------------
(* The steps of a task.                                                    *)

\* What moving a task on does to its fields.
LEMMA MoveEffect ==
    ASSUME WorkerTypeOK, NEW i \in Messages, NEW pc, NEW result, NEW said
    PROVE  /\ Goto(i, pc) => /\ task'[i].pc = pc
                             /\ task'[i].result = task[i].result
                             /\ task'[i].said = task[i].said
           /\ Set(i, pc, result, said) => /\ task'[i].pc = pc
                                          /\ task'[i].result = result
                                          /\ task'[i].said = said
<1>1. task \in [Messages -> Tasks] /\ task[i] \in Tasks
  BY DEF WorkerTypeOK
<1>2. ASSUME Goto(i, pc)
      PROVE  /\ task'[i].pc = pc
             /\ task'[i].result = task[i].result
             /\ task'[i].said = task[i].said
  BY <1>1, <1>2 DEF Goto, Tasks
<1>3. ASSUME Set(i, pc, result, said)
      PROVE  task'[i].pc = pc /\ task'[i].result = result /\ task'[i].said = said
  BY <1>1, <1>3 DEF Set, Tasks
<1> QED
  BY <1>2, <1>3

\* The commands of the stream are what they were, and so are their tasks but i.
LEMMA OthersKept ==
    ASSUME IInv, NEW i \in Messages, Handle(i)
    PROVE  /\ DOMAIN queue' = DOMAIN queue
           /\ \A j \in DOMAIN queue :
                 /\ j \in Messages
                 /\ RunOf(j)' = RunOf(j) /\ KeyOf(j)' = KeyOf(j) /\ ThreadOf(j)' = ThreadOf(j)
                 /\ j # i => task'[j] = task[j] /\ (Executing(j)' <=> Executing(j))
BY HandleFrame, MessageTypes DEF RunOf, KeyOf, ThreadOf, Executing, IInv, WorkerInv

\* A step of a task keeps the order in which a task returns and reports.
LEMMA HandleOrdered ==
    ASSUME IInv, NEW i \in Messages, Handle(i)
    PROVE  Ordered' /\ TasksAreMessages' /\ AbortsAsked'
<1>1. /\ i \in DOMAIN queue /\ UNCHANGED <<queue, controls, stopped>>
      /\ \A j \in Messages \ {i} : task'[j] = task[j]
      /\ task'[i].aborted = task[i].aborted /\ task'[i].pc # "none"
      /\ Progress(i) /\ WorkerTypeOK
  BY HandleFrame DEF IInv, Ordered, WorkerInv
<1>2. TasksAreMessages' /\ AbortsAsked'
  BY <1>1, OthersKept DEF IInv, TasksAreMessages, AbortsAsked
<1>3. Progress(i)'
  <2> DEFINE Moved(pc, result, said) ==
                 task'[i].pc = pc /\ task'[i].result = result /\ task'[i].said = said
  <2>1. /\ \A pc : Goto(i, pc) => Moved(pc, task[i].result, task[i].said)
        /\ \A pc, result, said : Set(i, pc, result, said) => Moved(pc, result, said)
    BY <1>1, MoveEffect
  <2>2. CASE MarkStarted(i) \/ Submit(i) \/ Start(i) \/ Bootstrap(i) \/ AcquireLock(i)
    BY <1>1, <2>1, <2>2
       DEF MarkStarted, Submit, Start, Bootstrap, AcquireLock, Progress
  <2>3. CASE StreamPart(i) \/ Invoke(i) \/ Unlock(i)
    BY <1>1, <2>1, <2>3 DEF StreamPart, Invoke, Unlock, Progress
  <2>4. CASE Report(i) \/ Catch(i)
    BY <1>1, <2>1, <2>4 DEF Report, Catch, Progress
  <2>5. CASE Finish(i) \/ Clear(i) \/ DeadLetter(i) \/ Ack(i)
    BY <1>1, <2>1, <2>5 DEF Finish, Clear, DeadLetter, Ack, Progress
  <2> QED
    BY <2>2, <2>3, <2>4, <2>5 DEF Handle
<1>4. Ordered'
  BY <1>1, <1>3, OthersKept DEF IInv, Ordered, Progress
<1> QED
  BY <1>2, <1>4

\* A step of a task keeps activeRuns and the locks with the tasks they name.
LEMMA HandleOwned ==
    ASSUME IInv, NEW i \in Messages, Handle(i)
    PROVE  ActiveOfRun' /\ Cancellable' /\ LockHeld'
<1>1. /\ i \in DOMAIN queue /\ UNCHANGED <<queue, controls, stopped>>
      /\ WorkerTypeOK /\ ActiveOfRun /\ Cancellable /\ LockHeld
      /\ RunOf(i) \in Runs /\ ThreadOf(i) \in Threads /\ i # None
  BY HandleFrame, MessageTypes DEF IInv, WorkerInv, Messages, None
<1>2. /\ active \in [Runs -> Messages \cup {None}]
      /\ lock \in [Threads -> Messages \cup {None}]
      /\ \A j \in DOMAIN queue : j \in Messages /\ RunOf(j) \in Runs /\ ThreadOf(j) \in Threads
  BY <1>1, MessageTypes DEF WorkerTypeOK
<1> DEFINE Moved(pc) == task'[i].pc = pc
<1>3. /\ \A pc : Goto(i, pc) => Moved(pc)
      /\ \A pc, result, said : Set(i, pc, result, said) => Moved(pc)
  BY <1>1, MoveEffect
<1>4. ASSUME \/ active' = active
             \/ active[RunOf(i)] = None /\ active' = [active EXCEPT ![RunOf(i)] = i]
             \/ task[i].pc = "finish" /\ active' = [active EXCEPT ![RunOf(i)] = None],
             task'[i].pc \in Registered => active'[RunOf(i)] = i
      PROVE  ActiveOfRun' /\ Cancellable'
  <2>1. ActiveOfRun'
    BY <1>1, <1>2, <1>4, OthersKept DEF ActiveOfRun
  <2>2. ASSUME NEW j \in DOMAIN queue, j # i, task[j].pc \in Registered
        PROVE  active'[RunOf(j)] = j
    <3>1. active[RunOf(j)] = j /\ j # None
      BY <1>1, <2>2, OthersKept DEF Cancellable, Messages, None
    <3>2. CASE task[i].pc = "finish" /\ active' = [active EXCEPT ![RunOf(i)] = None]
      <4>1. active[RunOf(i)] = i
        BY <1>1, <3>2 DEF Cancellable, Registered
      <4> QED
        BY <1>2, <2>2, <3>1, <3>2, <4>1
    <3> QED
      BY <1>2, <1>4, <3>1, <3>2
  <2> QED
    BY <1>1, <1>4, <2>1, <2>2, OthersKept DEF Cancellable
<1>5. ASSUME UNCHANGED <<lock, expired>>, task'[i].pc \notin {"run", "unlock"}
                                             \/ task[i].pc \in {"run", "unlock"}
      PROVE  LockHeld'
  BY <1>1, <1>5, OthersKept DEF LockHeld
<1>6. CASE MarkStarted(i) \/ Start(i) \/ Bootstrap(i)
  BY <1>1, <1>3, <1>4, <1>5, <1>6 DEF MarkStarted, Start, Bootstrap, Registered, Cancellable
<1>7. CASE Submit(i)
  BY <1>1, <1>2, <1>3, <1>4, <1>5, <1>7 DEF Submit, Registered
<1>8. CASE AcquireLock(i)
  <2>1. ActiveOfRun' /\ Cancellable'
    BY <1>1, <1>3, <1>4, <1>8 DEF AcquireLock, Registered, Cancellable
  <2>2. ASSUME NEW j \in DOMAIN queue, task'[j].pc \in {"run", "unlock"}, j \notin expired'
        PROVE  lock'[ThreadOf(j)] = j
    <3>1. \/ /\ lock[ThreadOf(i)] = None /\ lock' = [lock EXCEPT ![ThreadOf(i)] = i]
             /\ expired' = expired \ {i}
          \/ /\ task'[i].pc = "catch" /\ expired' = expired
             /\ \/ lock' = lock
                \/ /\ lock[ThreadOf(i)] = None
                   /\ lock' = [lock EXCEPT ![ThreadOf(i)] = i]
      BY <1>3, <1>8 DEF AcquireLock
    <3>2. CASE j = i
      BY <1>1, <1>2, <2>2, <3>1, <3>2
    <3>3. CASE j # i
      <4>1. lock[ThreadOf(j)] = j /\ j # None
        BY <1>1, <2>2, <3>1, <3>3, OthersKept DEF LockHeld, Messages, None
      <4> QED
        BY <1>2, <3>1, <3>3, <4>1
    <3> QED
      BY <3>2, <3>3
  <2> QED
    BY <2>1, <2>2, OthersKept DEF LockHeld
<1>9. CASE StreamPart(i) \/ Invoke(i)
  <2>1. task'[i].pc \in {"run", "unlock"} /\ task[i].pc = "run"
    BY <1>3, <1>9 DEF StreamPart, Invoke
  <2> QED
    BY <1>1, <1>4, <1>5, <1>9, <2>1 DEF StreamPart, Invoke, Registered, Cancellable
<1>10. CASE Unlock(i)
  <2>1. ActiveOfRun' /\ Cancellable'
    BY <1>1, <1>3, <1>4, <1>10 DEF Unlock, Registered, Cancellable
  <2>2. task'[i].pc \in {"catch", "report"} /\ expired' = expired
    BY <1>3, <1>10 DEF Unlock
  <2>3. ASSUME NEW j \in DOMAIN queue, j # i, lock[ThreadOf(j)] = j
        PROVE  lock'[ThreadOf(j)] = j
    BY <1>1, <1>2, <1>10, <2>3 DEF Unlock, ReleaseLock
  <2> QED
    BY <1>1, <2>1, <2>2, <2>3, OthersKept DEF LockHeld
<1>11. CASE Report(i) \/ Catch(i)
  BY <1>1, <1>3, <1>4, <1>5, <1>11 DEF Report, Catch, Registered, Cancellable
<1>12. CASE Finish(i)
  BY <1>1, <1>3, <1>4, <1>5, <1>12 DEF Finish, Registered
<1>13. CASE Clear(i) \/ DeadLetter(i) \/ Ack(i)
  BY <1>1, <1>3, <1>4, <1>5, <1>13 DEF Clear, DeadLetter, Ack, Registered
<1> QED
  BY <1>6, <1>7, <1>8, <1>9, <1>10, <1>11, <1>12, <1>13 DEF Handle

\* A step of a task keeps the keys of the commands that execute or have succeeded:
\* each is held, and by one task.
LEMMA HandleKeys ==
    ASSUME IInv, NEW i \in Messages, Handle(i)
    PROVE  KeyHeld' /\ Alone' /\ Spent'
<1>1. /\ i \in DOMAIN queue /\ UNCHANGED queue
      /\ WorkerTypeOK /\ KeyHeld /\ Alone /\ Spent /\ Progress(i)
  BY HandleFrame DEF IInv, WorkerInv, Ordered
<1>2. /\ started \in [Runs -> SUBSET Keys]
      /\ \A j \in DOMAIN queue : RunOf(j) \in Runs /\ KeyOf(j) \in Keys
      /\ \A j, m \in DOMAIN queue :
            queue[j] = queue[m] <=> RunOf(j) = RunOf(m) /\ KeyOf(j) = KeyOf(m)
  <2>1. started \in [Runs -> SUBSET Keys]
    BY <1>1 DEF WorkerTypeOK
  <2> QED
    BY <1>1, <2>1, MessageTypes, SameCommand
<1> DEFINE Moved(pc, result) == task'[i].pc = pc /\ task'[i].result = result
           Held(j) == KeyOf(j) \in started'[RunOf(j)]
<1>3. /\ \A pc : Goto(i, pc) => Moved(pc, task[i].result)
      /\ \A pc, result, said : Set(i, pc, result, said) => Moved(pc, result)
  BY <1>1, MoveEffect
<1>4. ASSUME KeyOf(i) \notin started[RunOf(i)], Hold(i),
             Executing(i)', task'[i].result \notin Successes
      PROVE  KeyHeld' /\ Alone' /\ Spent'
  <2>1. /\ Held(i)
        /\ \A j \in DOMAIN queue : KeyOf(j) \in started[RunOf(j)] => Held(j)
    BY <1>1, <1>2, <1>4 DEF Hold
  <2>2. \A j \in DOMAIN queue : Executing(j) => queue[j] # queue[i]
    BY <1>1, <1>2, <1>4 DEF KeyHeld
  <2>3. \A j \in DOMAIN queue : j # i => (Executing(j)' <=> Executing(j))
    BY OthersKept
  <2>4. KeyHeld'
    BY <1>1, <2>1, <2>3, OthersKept DEF KeyHeld
  <2>5. Alone'
    BY <1>1, <2>2, <2>3, OthersKept DEF Alone
  <2>6. ASSUME NEW j \in DOMAIN queue, NEW m \in DOMAIN queue, queue[j] = queue[m],
               task'[j].result \in Successes, ~Executing(j)'
        PROVE  Held(j) /\ ~Executing(m)'
    <3>1. j # i /\ task[j].result \in Successes /\ ~Executing(j)
      BY <1>4, <2>3, <2>6, OthersKept
    <3>2. KeyOf(j) \in started[RunOf(j)] /\ ~Executing(m)
      BY <1>1, <2>6, <3>1 DEF Spent
    <3>3. m # i
      BY <1>2, <1>4, <2>6, <3>2
    <3> QED
      BY <2>1, <2>3, <3>2, <3>3
  <2>7. Spent'
    BY <1>1, <2>6, OthersKept DEF Spent
  <2> QED
    BY <2>4, <2>5, <2>7
<1>5. ASSUME UNCHANGED started, Executing(i)' => Executing(i),
             task'[i].result \in Successes /\ ~Executing(i)' =>
                Executing(i) \/ task[i].result \in Successes
      PROVE  KeyHeld' /\ Alone' /\ Spent'
  <2>1. \A j \in DOMAIN queue : Executing(j)' => Executing(j)
    BY <1>5, OthersKept
  <2>2. KeyHeld' /\ Alone'
    BY <1>1, <1>5, <2>1, OthersKept DEF KeyHeld, Alone
  <2>3. ASSUME NEW j \in DOMAIN queue, NEW m \in DOMAIN queue, queue[j] = queue[m],
               task'[j].result \in Successes, ~Executing(j)'
        PROVE  Held(j) /\ ~Executing(m)'
    <3>1. CASE ~Executing(j)
      BY <1>1, <1>5, <2>1, <2>3, <3>1, OthersKept DEF Spent
    <3>2. CASE Executing(j)
      BY <1>1, <1>5, <2>1, <2>3, <3>2 DEF KeyHeld, Alone
    <3> QED
      BY <3>1, <3>2
  <2>4. Spent'
    BY <1>1, <2>3, OthersKept DEF Spent
  <2> QED
    BY <2>2, <2>4
<1>6. ASSUME Executing(i), ~Executing(i)', task'[i].result \notin Successes, Release(i)
      PROVE  KeyHeld' /\ Alone' /\ Spent'
  <2>1. \A j \in DOMAIN queue :
           KeyOf(j) \in started[RunOf(j)] /\ queue[j] # queue[i] => Held(j)
    BY <1>1, <1>2, <1>6 DEF Release
  <2>2. \A j \in DOMAIN queue : Executing(j)' => Executing(j) /\ j # i
    BY <1>6, OthersKept
  <2>3. KeyHeld' /\ Alone'
    BY <1>1, <1>6, <2>1, <2>2, OthersKept DEF KeyHeld, Alone
  <2>4. ASSUME NEW j \in DOMAIN queue, NEW m \in DOMAIN queue, queue[j] = queue[m],
               task'[j].result \in Successes, ~Executing(j)'
        PROVE  Held(j) /\ ~Executing(m)'
    <3>1. j # i /\ task[j].result \in Successes /\ ~Executing(j)
      BY <1>6, <2>4, OthersKept
    <3>2. queue[j] # queue[i]
      BY <1>1, <1>6, <3>1 DEF Spent
    <3> QED
      BY <1>1, <2>1, <2>2, <2>4, <3>1, <3>2 DEF Spent
  <2>5. Spent'
    BY <1>1, <2>4, OthersKept DEF Spent
  <2> QED
    BY <2>3, <2>5
<1> USE DEF Executing, Registered, Successes
<1>7. CASE MarkStarted(i)
  BY <1>3, <1>4, <1>5, <1>7 DEF MarkStarted
<1>8. CASE Submit(i) \/ Start(i) \/ Bootstrap(i) \/ AcquireLock(i)
  BY <1>3, <1>5, <1>8 DEF Submit, Start, Bootstrap, AcquireLock
<1>9. CASE StreamPart(i) \/ Invoke(i) \/ Unlock(i)
  BY <1>3, <1>5, <1>9 DEF StreamPart, Invoke, Unlock
<1>10. CASE Report(i) \/ Catch(i) \/ Finish(i) \/ DeadLetter(i) \/ Ack(i)
  BY <1>3, <1>5, <1>10 DEF Report, Catch, Finish, DeadLetter, Ack
<1>11. CASE Clear(i)
  BY <1>1, <1>3, <1>5, <1>6, <1>11 DEF Clear, Progress
<1> QED
  BY <1>7, <1>8, <1>9, <1>10, <1>11 DEF Handle

-----------------------------------------------------------------------------
(* The invariant.                                                          *)

\* A published message is new: nothing executes it.
LEMMA PublishStep ==
    ASSUME IInv, NEW r \in Runs, NEW k \in Keys, PublishCommand(r, k), WorkerTypeOK'
    PROVE  IInv'
<1>0. PICK n \in Messages : n = Len(queue) + 1
  BY PublishFrame
<1>1. /\ DOMAIN queue' = DOMAIN queue \cup {n}
      /\ \A j \in DOMAIN queue : j # n /\ j \in Messages /\ queue'[j] = queue[j]
      /\ task'[n].pc = "new" /\ task'[n].result = "none" /\ ~task'[n].aborted
      /\ \A j \in Messages \ {n} : task'[j] = task[j]
      /\ UNCHANGED <<started, active, lock, expired, controls, stopped>>
  <2>1. n \notin DOMAIN queue
    BY <1>0, PublishFrame DEF IInv, TasksAreMessages, NoTask
  <2> QED
    BY <1>0, <2>1, PublishFrame, MessageTypes DEF IInv, WorkerInv, NoTask
<1>2. \A j \in DOMAIN queue :
         /\ RunOf(j)' = RunOf(j) /\ KeyOf(j)' = KeyOf(j) /\ ThreadOf(j)' = ThreadOf(j)
         /\ task'[j] = task[j] /\ (Executing(j)' <=> Executing(j))
  BY <1>1 DEF RunOf, KeyOf, ThreadOf, Executing
<1>3. ~Executing(n)' /\ task'[n].result \notin Successes
  BY <1>1 DEF Executing, Registered, Successes
<1>4. Cancellable' /\ LockHeld'
  BY <1>1, <1>2 DEF IInv, WorkerInv, Cancellable, LockHeld, Registered
<1>5. TasksAreMessages'
  BY <1>1 DEF IInv, TasksAreMessages
<1>6. ActiveOfRun'
  BY <1>1, <1>2 DEF IInv, ActiveOfRun
<1>7. KeyHeld' /\ Alone'
  BY <1>1, <1>2, <1>3 DEF IInv, KeyHeld, Alone
<1>8. Spent'
  BY <1>1, <1>2, <1>3 DEF IInv, Spent
<1>9. Ordered'
  BY <1>1, <1>2 DEF IInv, Ordered, Progress
<1>10. AbortsAsked'
  BY <1>1, <1>2 DEF IInv, AbortsAsked
<1> QED
  BY <1>4, <1>5, <1>6, <1>7, <1>8, <1>9, <1>10 DEF IInv, WorkerInv

\* A step that leaves the stream and the keys alone and takes tasks nowhere but to
\* a point where nothing executes keeps what is known of keys and progress.
LEMMA QuietStep ==
    ASSUME IInv, UNCHANGED <<queue, started>>,
           \A j \in Messages :
              /\ task'[j].result = task[j].result
              /\ \/ task'[j].pc = task[j].pc /\ task'[j].said = task[j].said
                 \/ task[j].pc # "none" /\ task'[j].pc \in {"mark", "pending"},
           \A j \in Messages : task[j].pc = "none" => task'[j] = task[j]
    PROVE  TasksAreMessages' /\ KeyHeld' /\ Alone' /\ Spent' /\ Ordered'
<1>1. \A j \in DOMAIN queue :
         /\ j \in Messages
         /\ RunOf(j)' = RunOf(j) /\ KeyOf(j)' = KeyOf(j)
         /\ Executing(j)' => Executing(j)
  BY MessageTypes DEF IInv, WorkerInv, RunOf, KeyOf, Executing, Registered
<1>2. TasksAreMessages'
  BY DEF IInv, TasksAreMessages
<1>3. KeyHeld' /\ Alone'
  BY <1>1 DEF IInv, KeyHeld, Alone
<1>4. Spent'
  <2> SUFFICES ASSUME NEW i \in DOMAIN queue, NEW j \in DOMAIN queue, queue[i] = queue[j],
                      task'[i].result \in Successes, ~Executing(i)'
               PROVE  KeyOf(i) \in started[RunOf(i)] /\ ~Executing(j)'
    BY <1>1 DEF Spent
  <2>1. CASE ~Executing(i)
    BY <1>1, <2>1 DEF IInv, Spent
  <2>2. CASE Executing(i)
    BY <1>1, <2>2 DEF IInv, KeyHeld, Alone
  <2> QED
    BY <2>1, <2>2
<1>5. Ordered'
  BY <1>1 DEF IInv, Ordered, Progress
<1> QED
  BY <1>2, <1>3, <1>4, <1>5

\* The invariant holds initially ...
LEMMA InitInvariant == Init => IInv
<1> SUFFICES ASSUME Init PROVE IInv
  OBVIOUS
<1> USE DEF Init, None
<1>1. WorkerTypeOK
  <2>1. NoTask \in Tasks
    BY DEF NoTask, Tasks, Waiting, Results
  <2>2. /\ 0 \in 0 .. MaxErrors /\ 0 \in 0 .. MaxCrashes /\ 0 <= MaxMessages
    BY WorkerAssumption
  <2> DEFINE Command == [run : Runs, key : Keys]
             Kinds == {"delta", "completed", "action", "failed", "cancelled"}
  <2>3. queue \in Seq(Command) /\ Len(queue) = 0 /\ events \in [Runs -> Seq(Kinds)]
    <3> HIDE DEF Command, Kinds
    <3> QED
      OBVIOUS
  <2> QED
    BY <2>1, <2>2, <2>3 DEF WorkerTypeOK
<1>2. DOMAIN queue = {} /\ \A i \in Messages : task[i] = NoTask
  OBVIOUS
<1>3. Cancellable /\ LockHeld /\ KeyHeld /\ Alone /\ Spent /\ Ordered
  BY <1>2 DEF Cancellable, LockHeld, KeyHeld, Alone, Spent, Ordered
<1>4. TasksAreMessages /\ ActiveOfRun /\ AbortsAsked
  BY <1>2 DEF TasksAreMessages, ActiveOfRun, AbortsAsked, NoTask
<1> QED
  BY <1>1, <1>3, <1>4 DEF IInv, WorkerInv

\* ... and every step keeps it.
LEMMA StepInvariant == IInv /\ [Next]_vars => IInv'
<1> SUFFICES ASSUME IInv, [Next]_vars PROVE IInv'
  OBVIOUS
<1>1. WorkerTypeOK /\ WorkerTypeOK'
  BY TypeStep DEF IInv, WorkerInv
<1>2. \A j \in DOMAIN queue : j \in Messages /\ RunOf(j) \in Runs /\ ThreadOf(j) \in Threads
  BY <1>1, MessageTypes
<1>task. task \in [Messages -> Tasks]
  BY <1>1 DEF WorkerTypeOK
<1>3. ASSUME NEW i \in Messages, Handle(i) PROVE IInv'
  BY <1>1, <1>3, HandleOrdered, HandleOwned, HandleKeys DEF IInv, WorkerInv
<1>4. ASSUME NEW r \in Runs, NEW k \in Keys, PublishCommand(r, k) PROVE IInv'
  BY <1>1, <1>4, PublishStep
<1>5. ASSUME NEW r \in Runs, PublishCancel(r) PROVE IInv'
  <2>1. UNCHANGED <<queue, task, started, active, lock, expired>>
    BY <1>5 DEF PublishCancel
  <2>2. Cancellable' /\ LockHeld' /\ ActiveOfRun'
    BY <2>1 DEF IInv, WorkerInv, Cancellable, LockHeld, ActiveOfRun, RunOf, ThreadOf
  <2>3. TasksAreMessages' /\ KeyHeld' /\ Alone' /\ Spent' /\ Ordered'
    BY <2>1, QuietStep
  <2>4. AbortsAsked'
    <3>1. \A q \in Runs : stopped'[q] = (q = r \/ stopped[q])
      BY <1>1, <1>5 DEF PublishCancel, WorkerTypeOK
    <3>2. controls \subseteq Runs /\ controls' = controls \cup {r}
      BY <1>1, <1>5 DEF PublishCancel, WorkerTypeOK
    <3> QED
      BY <1>2, <2>1, <3>1, <3>2 DEF IInv, AbortsAsked, RunOf
  <2> QED
    BY <1>1, <2>2, <2>3, <2>4 DEF IInv, WorkerInv
<1>6. ASSUME NEW r \in Runs, Control(r) PROVE IInv'
  <2>1. /\ \A j \in Messages :
              /\ task'[j].pc = task[j].pc /\ task'[j].result = task[j].result
              /\ task'[j].said = task[j].said
              /\ task'[j].aborted = (task[j].aborted \/ (active[r] # None /\ j = active[r]))
        /\ UNCHANGED <<queue, started, active, lock, expired, stopped>>
        /\ r \in controls /\ controls' \subseteq controls
    BY <1>6, OtherFrames DEF Control
  <2>2. \A j \in Messages : task[j].pc = "none" => task'[j] = task[j]
    BY <1>6, <1>task DEF Control, IInv, ActiveOfRun, TasksAreMessages
  <2>3. Cancellable' /\ LockHeld' /\ ActiveOfRun'
    BY <1>2, <2>1 DEF IInv, WorkerInv, Cancellable, LockHeld, ActiveOfRun, RunOf, ThreadOf
  <2>4. TasksAreMessages' /\ KeyHeld' /\ Alone' /\ Spent' /\ Ordered'
    BY <2>1, <2>2, QuietStep
  <2>5. AbortsAsked'
    <3>1. /\ \A q \in controls : stopped[q]
          /\ \A j \in DOMAIN queue : task[j].aborted => stopped[RunOf(j)]
          /\ active[r] # None => RunOf(active[r]) = r
      BY DEF IInv, AbortsAsked, ActiveOfRun
    <3>2. ASSUME NEW j \in DOMAIN queue, task'[j].aborted PROVE stopped[RunOf(j)]
      <4>1. task[j].aborted \/ (active[r] # None /\ j = active[r])
        BY <1>2, <2>1, <3>2
      <4> QED
        BY <2>1, <3>1, <4>1
    <3> QED
      BY <2>1, <3>1, <3>2 DEF AbortsAsked, RunOf
  <2> QED
    BY <1>1, <2>3, <2>4, <2>5 DEF IInv, WorkerInv
<1>7. ASSUME NEW i \in Messages, Redeliver(i) \/ Deliver(i) PROVE IInv'
  <2>1. /\ task[i].pc \in {"new", "pending"} /\ task'[i].pc = "mark"
        /\ task'[i].result = task[i].result
        /\ task'[i].aborted \in {task[i].aborted, FALSE}
        /\ \A j \in Messages \ {i} : task'[j] = task[j]
        /\ UNCHANGED <<queue, started, active, lock, expired, controls, stopped>>
    BY <1>7, OtherFrames DEF Redeliver, Deliver
  <2>2. Cancellable' /\ LockHeld' /\ ActiveOfRun'
    BY <1>2, <2>1
       DEF IInv, WorkerInv, Cancellable, LockHeld, ActiveOfRun, RunOf, ThreadOf, Registered
  <2>3. TasksAreMessages' /\ KeyHeld' /\ Alone' /\ Spent' /\ Ordered'
    BY <2>1, QuietStep
  <2>4. AbortsAsked'
    BY <1>2, <2>1 DEF IInv, AbortsAsked, RunOf
  <2> QED
    BY <1>1, <2>2, <2>3, <2>4 DEF IInv, WorkerInv
<1>8. ASSUME NEW t \in Threads, LockExpire(t) PROVE IInv'
  <2>1. UNCHANGED <<queue, task, started, active, controls, stopped>>
    BY <1>8 DEF LockExpire
  <2>2. Cancellable' /\ ActiveOfRun' /\ AbortsAsked'
    BY <2>1 DEF IInv, WorkerInv, Cancellable, ActiveOfRun, AbortsAsked, RunOf
  <2>3. LockHeld'
    BY <1>1, <1>2, <1>8 DEF IInv, WorkerInv, LockHeld, LockExpire, WorkerTypeOK, RunOf, ThreadOf
  <2>4. TasksAreMessages' /\ KeyHeld' /\ Alone' /\ Spent' /\ Ordered'
    BY <2>1, QuietStep
  <2> QED
    BY <1>1, <2>2, <2>3, <2>4 DEF IInv, WorkerInv
<1>9. CASE Crash
  <2>1. /\ \A j \in Messages :
              /\ task'[j].pc = IF task[j].pc \in Waiting THEN task[j].pc ELSE "pending"
              /\ task'[j].result = task[j].result
              /\ task'[j].aborted = task[j].aborted
              /\ task[j].pc \in Waiting => task'[j] = task[j]
        /\ UNCHANGED <<queue, started, lock, expired, controls, stopped>>
        /\ active' = [r \in Runs |-> None]
    BY <1>9, OtherFrames DEF Crash, InFlight
  <2>2. Cancellable' /\ LockHeld' /\ ActiveOfRun'
    BY <1>2, <2>1 DEF Cancellable, LockHeld, ActiveOfRun, Registered, Waiting
  <2>3. TasksAreMessages' /\ KeyHeld' /\ Alone' /\ Spent' /\ Ordered'
    BY <2>1, QuietStep DEF Waiting
  <2>4. \A j \in DOMAIN queue : task'[j].aborted = task[j].aborted
    BY <1>2, <2>1
  <2>5. AbortsAsked'
    BY <2>1, <2>4 DEF IInv, AbortsAsked, RunOf
  <2> QED
    BY <1>1, <2>2, <2>3, <2>5 DEF IInv, WorkerInv
<1>10. CASE UNCHANGED vars
  BY <1>10 DEF vars, IInv, WorkerInv, WorkerTypeOK, Cancellable, LockHeld, TasksAreMessages,
     ActiveOfRun, KeyHeld, Alone, Spent, Ordered, Progress, AbortsAsked, RunOf, KeyOf,
     ThreadOf, Executing
<1> QED
  BY <1>3, <1>4, <1>5, <1>6, <1>7, <1>8, <1>9, <1>10 DEF Next, Consume

\* In every reachable state the shared state tells the truth about the tasks.
THEOREM Invariant == Spec => []IInv
  BY InitInvariant, StepInvariant, PTL DEF Spec

\* Whoever executes a command can be cancelled and, unless its lock has expired,
\* is alone on its checkpoint thread, whatever fails, is lost or dies.
THEOREM WorkerSafe == Spec => []WorkerInv
<1>1. IInv => WorkerInv
  BY DEF IInv
<1> QED
  BY <1>1, Invariant, PTL

-----------------------------------------------------------------------------
(* Executions.                                                             *)

\* An execution begins by taking the key of its command, when nobody holds it.
LEMMA BeginsWithKey ==
    ASSUME IInv, [Next]_vars, NEW j \in DOMAIN queue, ~Executing(j), Executing(j)'
    PROVE  MarkStarted(j) /\ KeyOf(j) \notin started[RunOf(j)]
<1> USE DEF Executing, Registered
<1>1. WorkerTypeOK /\ j \in Messages
  BY MessageTypes DEF IInv, WorkerInv
<1>2. ASSUME NEW i \in Messages, Handle(i)
      PROVE  MarkStarted(j) /\ KeyOf(j) \notin started[RunOf(j)]
  <2>1. i = j
    BY <1>1, <1>2, HandleFrame
  <2>2. /\ \A pc : Goto(i, pc) => task'[i].pc = pc
        /\ \A pc, result, said : Set(i, pc, result, said) => task'[i].pc = pc
    BY <1>1, MoveEffect
  <2>3. CASE MarkStarted(i)
    BY <2>1, <2>2, <2>3 DEF MarkStarted
  <2>4. ~DeadLetter(i) /\ ~Ack(i)
    BY <2>1, <2>2 DEF DeadLetter, Ack
  <2> QED
    BY <1>2, <2>1, <2>3, <2>4 DEF Handle, Submit, Start, Bootstrap, AcquireLock, StreamPart,
       Invoke, Unlock, Report, Catch, Finish, Clear
<1>3. ASSUME NEW r \in Runs, NEW k \in Keys, PublishCommand(r, k) PROVE FALSE
  <2>1. j # Len(queue) + 1
    BY <1>3, PublishFrame DEF IInv, TasksAreMessages, NoTask
  <2> QED
    BY <1>1, <1>3, <2>1, PublishFrame
<1>4. ~Consume
  BY <1>1, OtherFrames DEF Consume
<1>5. ASSUME NEW r \in Runs, Control(r) PROVE FALSE
  BY <1>1, <1>5, OtherFrames
<1>6. ~Crash
  BY <1>1, OtherFrames DEF Waiting
<1>7. task' # task
  OBVIOUS
<1>8. /\ \A r \in Runs : ~PublishCancel(r)
      /\ \A t \in Threads : ~LockExpire(t)
      /\ ~UNCHANGED vars
  BY <1>7 DEF PublishCancel, LockExpire, vars
<1> QED
  BY <1>2, <1>3, <1>4, <1>5, <1>6, <1>8 DEF Next

\* A command whose execution has succeeded is never executed again.
THEOREM ExecutedOnce == Spec => AtMostOnce
<1> DEFINE Once == \A i, j \in DOMAIN queue :
                      queue[i] = queue[j] /\ task[i].result \in Successes /\ ~Executing(i)
                          => ~Executing(j)'
<1>1. IInv /\ [Next]_vars => Once
  <2> SUFFICES ASSUME IInv, [Next]_vars, NEW i \in DOMAIN queue, NEW j \in DOMAIN queue,
                      queue[i] = queue[j], task[i].result \in Successes, ~Executing(i)
               PROVE  ~Executing(j)'
    OBVIOUS
  <2>1. KeyOf(j) \in started[RunOf(j)] /\ ~Executing(j)
    BY DEF IInv, Spent, RunOf, KeyOf
  <2> QED
    BY <2>1, BeginsWithKey
<1>2. IInv /\ [Next]_vars => [Once]_vars
  BY <1>1
<1> QED
  BY <1>2, Invariant, PTL DEF Spec, AtMostOnce

-----------------------------------------------------------------------------
(* The worker implements the service.                                      *)

\* What AgentService's commands and executing stand for.
Commands == [r \in Runs |-> {KeyOf(i) : i \in {j \in DOMAIN queue : RunOf(j) = r}}]
Executions == [r \in Runs |-> [k \in Keys |-> Stage(r, k)]]

\* The stage of an execution follows from what it has said.
StageAfter(said) ==
    CASE said = "outcome" -> "reported" [] said = "failure" -> "failing" [] OTHER -> "running"

\* A command is idle, or in the stage of the one task that executes it.
StagesFollow ==
    \A r \in Runs, k \in Keys :
        /\ (\A i \in DOMAIN queue : Executing(i) => RunOf(i) # r \/ KeyOf(i) # k)
              => Stage(r, k) = "idle"
        /\ \A i \in DOMAIN queue :
              Executing(i) /\ RunOf(i) = r /\ KeyOf(i) = k
                 => Stage(r, k) = StageAfter(task[i].said)

\* The invariant gives every command at most one execution to take its stage from.
LEMMA StagesKnown == IInv => StagesFollow
<1> SUFFICES ASSUME IInv, NEW r \in Runs, NEW k \in Keys
             PROVE  /\ (\A i \in DOMAIN queue : Executing(i) => RunOf(i) # r \/ KeyOf(i) # k)
                          => Stage(r, k) = "idle"
                    /\ \A i \in DOMAIN queue :
                          Executing(i) /\ RunOf(i) = r /\ KeyOf(i) = k
                             => Stage(r, k) = StageAfter(task[i].said)
  BY DEF StagesFollow
<1> DEFINE busy == {i \in DOMAIN queue : Executing(i) /\ RunOf(i) = r /\ KeyOf(i) = k}
           said == {task[i].said : i \in busy}
<1>1. Stage(r, k) = CASE busy = {}        -> "idle"
                      [] "outcome" \in said -> "reported"
                      [] "failure" \in said -> "failing"
                      [] OTHER              -> "running"
  BY DEF Stage
<1>2. ASSUME \A i \in DOMAIN queue : Executing(i) => RunOf(i) # r \/ KeyOf(i) # k
      PROVE  Stage(r, k) = "idle"
  <2>1. busy = {} /\ said = {}
    BY <1>2
  <2> HIDE DEF busy, said
  <2> QED
    BY <1>1, <2>1
<1>3. ASSUME NEW i \in DOMAIN queue, Executing(i), RunOf(i) = r, KeyOf(i) = k
      PROVE  Stage(r, k) = StageAfter(task[i].said)
  <2>1. \A j \in busy : j = i
    <3>1. \A j \in busy : queue[j] = queue[i]
      BY <1>3, SameCommand DEF IInv, WorkerInv
    <3> QED
      BY <1>3, <3>1 DEF IInv, Alone
  <2>2. busy = {i} /\ said = {task[i].said}
    BY <1>3, <2>1
  <2> HIDE DEF busy, said
  <2>3. \/ task[i].said = "outcome" \/ task[i].said = "failure"
        \/ (task[i].said # "outcome" /\ task[i].said # "failure")
    OBVIOUS
  <2> QED
    BY <1>1, <2>2, <2>3 DEF StageAfter
<1> QED
  BY <1>2, <1>3

\* So it is in the next state.
LEMMA StagesKnownNext == IInv' => StagesFollow'
  BY StagesKnown, PTL

\* The stages of all commands change as the stage of one of them does.
LEMMA OneStageChanges ==
    ASSUME NEW r \in Runs, NEW k \in Keys, NEW stage, Stage(r, k)' = stage,
           \A q \in Runs, m \in Keys : q # r \/ m # k => Stage(q, m)' = Stage(q, m)
    PROVE  Executions' = [Executions EXCEPT ![r][k] = stage]
<1>1. /\ Executions = [q \in Runs |-> [m \in Keys |-> Stage(q, m)]]
      /\ Executions' = [q \in Runs |-> [m \in Keys |-> Stage(q, m)']]
  BY DEF Executions
<1>2. [Executions[r] EXCEPT ![k] = stage] = [m \in Keys |-> Stage(r, m)']
  BY <1>1
<1>3. \A q \in Runs \ {r} : Executions[q] = [m \in Keys |-> Stage(q, m)']
  BY <1>1
<1> QED
  BY <1>1, <1>2, <1>3, ZenonT(60)

\* What a step of the handling of message i does to the stage of its command.
LEMMA HandleStage ==
    ASSUME IInv, IInv', NEW i \in Messages, Handle(i),
           NEW r \in Runs, NEW k \in Keys, r = RunOf(i), k = KeyOf(i)
    PROVE  /\ Commands' = Commands
           /\ Executions[r][k] = Stage(r, k)
           /\ Executions' = [Executions EXCEPT ![r][k] = Stage(r, k)']
           /\ Executing(i) => Stage(r, k) = StageAfter(task[i].said)
           /\ Executing(i)' => Stage(r, k)' = StageAfter(task'[i].said)
           /\ Executing(i) /\ ~Executing(i)' => Stage(r, k)' = "idle"
           /\ ~Executing(i) /\ ~Executing(i)' => Stage(r, k)' = Stage(r, k)
<1>1. /\ i \in DOMAIN queue /\ UNCHANGED queue
      /\ \A j \in DOMAIN queue :
            /\ RunOf(j)' = RunOf(j) /\ KeyOf(j)' = KeyOf(j)
            /\ j # i => task'[j] = task[j] /\ (Executing(j)' <=> Executing(j))
  BY HandleFrame, OthersKept
<1>2. StagesFollow /\ StagesFollow'
  BY StagesKnown, StagesKnownNext
<1>3. \A q \in Runs, m \in Keys :
         /\ (\A j \in DOMAIN queue : Executing(j)' => RunOf(j) # q \/ KeyOf(j) # m)
               => Stage(q, m)' = "idle"
         /\ \A j \in DOMAIN queue :
               Executing(j)' /\ RunOf(j) = q /\ KeyOf(j) = m
                  => Stage(q, m)' = StageAfter(task'[j].said)
  BY <1>1, <1>2 DEF StagesFollow
<1>4. ASSUME NEW q \in Runs, NEW m \in Keys,
             \A j \in DOMAIN queue : RunOf(j) = q /\ KeyOf(j) = m =>
                (Executing(j)' <=> Executing(j)) /\ (Executing(j) => task'[j] = task[j])
      PROVE  Stage(q, m)' = Stage(q, m)
  <2>1. CASE \A j \in DOMAIN queue : Executing(j) => RunOf(j) # q \/ KeyOf(j) # m
    BY <1>2, <1>3, <1>4, <2>1 DEF StagesFollow
  <2>2. ASSUME NEW j \in DOMAIN queue, Executing(j), RunOf(j) = q, KeyOf(j) = m
        PROVE  Stage(q, m)' = Stage(q, m)
    BY <1>2, <1>3, <1>4, <2>2 DEF StagesFollow
  <2> QED
    BY <2>1, <2>2
<1>5. \A q \in Runs, m \in Keys : q # r \/ m # k => Stage(q, m)' = Stage(q, m)
  BY <1>1, <1>4
<1>6. Executions' = [Executions EXCEPT ![r][k] = Stage(r, k)']
  BY <1>5, OneStageChanges
<1>7. Commands' = Commands
  BY <1>1 DEF Commands, RunOf, KeyOf
<1>8. Executions[r][k] = Stage(r, k)
  BY DEF Executions
<1>9. Executing(i) => Stage(r, k) = StageAfter(task[i].said)
  BY <1>1, <1>2 DEF StagesFollow
<1>10. Executing(i)' => Stage(r, k)' = StageAfter(task'[i].said)
  BY <1>1, <1>3
<1>11. Executing(i) /\ ~Executing(i)' => Stage(r, k)' = "idle"
  <2> SUFFICES ASSUME Executing(i), ~Executing(i)' PROVE Stage(r, k)' = "idle"
    OBVIOUS
  <2>1. \A j \in DOMAIN queue : Executing(j)' => queue[j] # queue[i]
    BY <1>1 DEF IInv, Alone
  <2> QED
    BY <1>1, <1>3, <2>1, SameCommand DEF IInv, WorkerInv
<1>12. ~Executing(i) /\ ~Executing(i)' => Stage(r, k)' = Stage(r, k)
  BY <1>1, <1>4
<1> QED
  BY <1>6, <1>7, <1>8, <1>9, <1>10, <1>11, <1>12

\* A step of the handling of a message is a step of the service or invisible to it.
LEMMA HandleRefines ==
    ASSUME IInv, IInv', NEW i \in Messages, Handle(i)
    PROVE  [Service!ServiceNext]_(Service!serviceVars)
<1>1. /\ WorkerTypeOK /\ Progress(i) /\ i \in DOMAIN queue /\ UNCHANGED <<queue, stopped>>
      /\ RunOf(i) \in Runs /\ KeyOf(i) \in Keys
  BY HandleFrame, MessageTypes DEF IInv, WorkerInv, Ordered
<1>2. PICK r \in Runs, k \in Keys : r = RunOf(i) /\ k = KeyOf(i)
  BY <1>1
<1>3. /\ Commands' = Commands
      /\ Executions[r][k] = Stage(r, k)
      /\ Executions' = [Executions EXCEPT ![r][k] = Stage(r, k)']
      /\ Executing(i) => Stage(r, k) = StageAfter(task[i].said)
      /\ Executing(i)' => Stage(r, k)' = StageAfter(task'[i].said)
      /\ Executing(i) /\ ~Executing(i)' => Stage(r, k)' = "idle"
      /\ ~Executing(i) /\ ~Executing(i)' => Stage(r, k)' = Stage(r, k)
  BY <1>2, HandleStage
<1>4. Stage(r, k)' = Stage(r, k) => Executions' = Executions
  <2>1. Executions \in [Runs -> [Keys -> {Stage(q, m) : q \in Runs, m \in Keys}]]
    BY DEF Executions
  <2> QED
    BY <1>3, <2>1
<1> DEFINE Moved(pc, result, said) ==
               task'[i].pc = pc /\ task'[i].result = result /\ task'[i].said = said
<1>5. /\ \A pc : Goto(i, pc) => Moved(pc, task[i].result, task[i].said)
      /\ \A pc, result, said : Set(i, pc, result, said) => Moved(pc, result, said)
  BY <1>1, MoveEffect
\* The steps of the service.
<1>stutter. ASSUME Stage(r, k)' = Stage(r, k), UNCHANGED <<started, events>>
            PROVE  UNCHANGED Service!serviceVars
  BY <1>1, <1>3, <1>4, <1>stutter DEF Service!serviceVars, Commands, Executions
<1>step. ASSUME \/ Service!Begin(r, k)
                \/ Service!Delta(r, k)
                \/ \E kind \in Service!Outcomes : Service!Report(r, k, kind)
                \/ \E keep \in BOOLEAN : Service!End(r, k, keep)
         PROVE  Service!ServiceNext
  <2>1. Service!AgentStep(r)
    BY <1>step DEF Service!AgentStep, Service!Keys, Keys
  <2> QED
    BY <2>1 DEF Service!ServiceNext
<1>begin. ASSUME k \notin started[r], Hold(i), Stage(r, k)' = "running", UNCHANGED events
          PROVE  Service!Begin(r, k)
  <2>1. k \in Commands[r]
    BY <1>1, <1>2 DEF Commands
  <2> QED
    BY <1>1, <1>2, <1>3, <1>begin, <2>1 DEF Service!Begin, Hold, Commands, Executions
<1>delta. ASSUME Stage(r, k) = "running", Stage(r, k)' = "running", Len(events[r]) < MaxDeltas,
                 Emit(i, "delta"), UNCHANGED started
          PROVE  Service!Delta(r, k)
  BY <1>1, <1>2, <1>3, <1>4, <1>delta DEF Service!Delta, Emit, Commands, Executions
<1>report. ASSUME NEW kind \in Service!Outcomes,
                  \/ Stage(r, k) = "running"
                  \/ Stage(r, k) = "reported" /\ LostReplies /\ kind \in Service!Failures,
                  Stage(r, k)' = IF kind \in Service!Failures THEN "failing" ELSE "reported",
                  kind = "cancelled" => stopped[r],
                  Len(events[r]) < MaxEvents, Emit(i, kind), UNCHANGED started
           PROVE  Service!Report(r, k, kind)
  BY <1>1, <1>2, <1>3, <1>report DEF Service!Report, Emit, Commands, Executions
<1>end. ASSUME NEW keep \in BOOLEAN, Stage(r, k) # "idle",
               Stage(r, k) = "reported" /\ ~LostReplies => keep,
               Stage(r, k)' = "idle", UNCHANGED events,
               IF keep THEN UNCHANGED started ELSE Release(i)
        PROVE  Service!End(r, k, keep)
  BY <1>1, <1>2, <1>3, <1>end DEF Service!End, Release, Commands, Executions
\* The steps of the worker.
<1> USE DEF Executing, Registered
<1>6. CASE MarkStarted(i)
  <2>1. ASSUME k \notin started[r], Hold(i), Moved("submit", "none", "nothing")
                                             \/ Moved("held", "none", "nothing")
        PROVE  Stage(r, k)' = "running"
    BY <1>3, <2>1 DEF StageAfter
  <2>2. ASSUME \E pc \in {"ack", "dead"} : Goto(i, pc)
        PROVE  Stage(r, k)' = Stage(r, k)
    BY <1>3, <1>5, <1>6, <2>2 DEF MarkStarted
  <2> QED
    BY <1>2, <1>5, <1>6, <1>stutter, <1>step, <1>begin, <2>1, <2>2 DEF MarkStarted
<1>7. CASE Submit(i) \/ Start(i) \/ Bootstrap(i) \/ AcquireLock(i) \/ Invoke(i) \/ Unlock(i)
  <2>1. Executing(i) /\ Executing(i)'
    BY <1>5, <1>7 DEF Submit, Start, Bootstrap, AcquireLock, Invoke, Unlock
  <2>2. task'[i].said = task[i].said
    BY <1>1, <1>5, <1>7 DEF Submit, Start, Bootstrap, AcquireLock, Invoke, Unlock, Progress
  <2>3. Stage(r, k)' = Stage(r, k)
    BY <1>3, <2>1, <2>2
  <2>4. UNCHANGED <<started, events>>
    BY <1>7 DEF Submit, Start, Bootstrap, AcquireLock, Invoke, Unlock
  <2> QED
    BY <1>stutter, <2>3, <2>4
<1>8. CASE StreamPart(i)
  <2>1. /\ Executing(i) /\ Executing(i)' /\ task[i].said = "nothing"
        /\ task'[i].said = task[i].said
    BY <1>1, <1>5, <1>8 DEF StreamPart, Progress, Goto
  <2>2. Stage(r, k) = "running" /\ Stage(r, k)' = "running"
    BY <1>3, <2>1 DEF StageAfter
  <2> QED
    BY <1>2, <1>8, <1>stutter, <1>step, <1>delta, <2>2 DEF StreamPart
<1>9. CASE Report(i)
  <2>1. /\ Executing(i) /\ Executing(i)' /\ task[i].said = "nothing"
        /\ task[i].result \in {"completed", "action"}
        /\ \/ Emit(i, task[i].result) /\ task'[i].said = "outcome"
           \/ UNCHANGED events /\ task'[i].said = "nothing"
        /\ Len(events[RunOf(i)]) < MaxEvents /\ UNCHANGED started
    BY <1>1, <1>5, <1>9 DEF Report, Progress
  <2>2. Stage(r, k) = "running"
    BY <1>3, <2>1 DEF StageAfter
  <2>3. CASE Emit(i, task[i].result) /\ task'[i].said = "outcome"
    <3>1. Stage(r, k)' = "reported"
      BY <1>3, <2>1, <2>3 DEF StageAfter
    <3>2. Service!Report(r, k, task[i].result)
      BY <1>2, <1>report, <2>1, <2>2, <2>3, <3>1 DEF Service!Outcomes, Service!Failures
    <3> QED
      BY <1>step, <2>1, <3>2 DEF Service!Outcomes
  <2>4. CASE UNCHANGED events /\ task'[i].said = "nothing"
    BY <1>3, <1>stutter, <2>1, <2>4
  <2> QED
    BY <2>1, <2>3, <2>4
<1>10. CASE Catch(i)
  <2> DEFINE kind == IF task[i].aborted THEN "cancelled" ELSE "failed"
  <2>1. /\ Executing(i) /\ Executing(i)' /\ task[i].said # "failure"
        /\ task[i].said = "outcome" => LostReplies
        /\ \/ Emit(i, kind) /\ task'[i].said = "failure"
           \/ UNCHANGED events /\ task'[i].said = task[i].said
        /\ Len(events[RunOf(i)]) < MaxEvents /\ UNCHANGED started
    BY <1>1, <1>5, <1>10 DEF Catch, Progress
  <2>2. \/ Stage(r, k) = "running"
        \/ Stage(r, k) = "reported" /\ LostReplies
    BY <1>3, <2>1 DEF StageAfter
  <2>3. CASE Emit(i, kind) /\ task'[i].said = "failure"
    <3>1. Stage(r, k)' = "failing"
      BY <1>3, <2>1, <2>3 DEF StageAfter
    <3>2. kind = "cancelled" => stopped[r]
      BY <1>1, <1>2 DEF IInv, AbortsAsked
    <3>3. kind \in Service!Failures /\ kind \in Service!Outcomes
      BY DEF Service!Failures, Service!Outcomes
    <3> HIDE DEF kind
    <3>4. Service!Report(r, k, kind)
      BY <1>2, <1>report, <2>1, <2>2, <2>3, <3>1, <3>2, <3>3
    <3> QED
      BY <1>step, <3>3, <3>4
  <2>4. CASE UNCHANGED events /\ task'[i].said = task[i].said
    BY <1>3, <1>stutter, <2>1, <2>4
  <2> QED
    BY <2>1, <2>3, <2>4
<1>11. CASE Finish(i)
  <2>1. /\ Executing(i) /\ UNCHANGED <<started, events>> /\ task'[i].said = task[i].said
        /\ task'[i].pc \in {"clear", "ack"}
    BY <1>5, <1>11 DEF Finish
  <2>2. CASE Executing(i)'
    BY <1>3, <1>stutter, <2>1, <2>2
  <2>3. CASE ~Executing(i)'
    BY <1>3, <1>step, <1>end, <2>1, <2>3 DEF StageAfter
  <2> QED
    BY <2>2, <2>3
<1>12. CASE Clear(i)
  <2>1. /\ Executing(i) /\ ~Executing(i)' /\ UNCHANGED events
        /\ Release(i) \/ UNCHANGED started
        /\ task[i].said = "outcome" => LostReplies
    BY <1>1, <1>5, <1>12 DEF Clear, Progress
  <2>2. /\ Stage(r, k)' = "idle" /\ Stage(r, k) # "idle"
        /\ Stage(r, k) = "reported" => LostReplies
    BY <1>3, <2>1 DEF StageAfter
  <2> QED
    BY <1>step, <1>end, <2>1, <2>2
<1>13. CASE DeadLetter(i)
  <2>1. ~Executing(i)' /\ UNCHANGED <<started, events>>
    BY <1>5, <1>13 DEF DeadLetter
  <2>2. CASE ~Executing(i)
    BY <1>3, <1>stutter, <2>1, <2>2
  <2>3. CASE Executing(i)
    BY <1>3, <1>step, <1>end, <2>1, <2>3 DEF StageAfter
  <2> QED
    BY <2>2, <2>3
<1>14. CASE Ack(i)
  <2>1. ~Executing(i) /\ ~Executing(i)' /\ UNCHANGED <<started, events>>
    BY <1>5, <1>14 DEF Ack
  <2> QED
    BY <1>3, <1>stutter, <2>1
<1> QED
  BY <1>6, <1>7, <1>8, <1>9, <1>10, <1>11, <1>12, <1>13, <1>14 DEF Handle

\* A step that changes no task that executes leaves the stages as they are.
LEMMA StagesKept ==
    ASSUME IInv, IInv', DOMAIN queue \subseteq DOMAIN queue',
           \A j \in DOMAIN queue :
              /\ queue'[j] = queue[j] /\ (Executing(j)' <=> Executing(j))
              /\ task'[j].said = task[j].said \/ ~Executing(j),
           \A j \in DOMAIN queue' \ DOMAIN queue : ~Executing(j)'
    PROVE  Executions' = Executions
<1>1. StagesFollow /\ StagesFollow'
  BY StagesKnown, StagesKnownNext
<1>2. \A j \in DOMAIN queue : RunOf(j)' = RunOf(j) /\ KeyOf(j)' = KeyOf(j)
  BY DEF RunOf, KeyOf
<1>3. ASSUME NEW r \in Runs, NEW k \in Keys PROVE Stage(r, k)' = Stage(r, k)
  <2>1. CASE \A j \in DOMAIN queue : Executing(j) => RunOf(j) # r \/ KeyOf(j) # k
    <3>1. \A j \in DOMAIN queue' : Executing(j)' => RunOf(j)' # r \/ KeyOf(j)' # k
      BY <1>2, <2>1
    <3> QED
      BY <1>1, <2>1, <3>1 DEF StagesFollow
  <2>2. ASSUME NEW j \in DOMAIN queue, Executing(j), RunOf(j) = r, KeyOf(j) = k
        PROVE  Stage(r, k)' = Stage(r, k)
    BY <1>1, <1>2, <2>2 DEF StagesFollow
  <2> QED
    BY <2>1, <2>2
<1> QED
  BY <1>3 DEF Executions

\* The worker starts as the service does.
LEMMA InitRefines == Init => Service!ServiceInit
<1> SUFFICES ASSUME Init PROVE Service!ServiceInit
  OBVIOUS
<1>1. DOMAIN queue = {}
  BY DEF Init
<1>2. StagesFollow
  BY InitInvariant, StagesKnown
<1>3. Executions = [r \in Runs |-> [k \in Keys |-> "idle"]]
  BY <1>1, <1>2 DEF StagesFollow, Executions
<1>4. Commands = [r \in Runs |-> {}]
  BY <1>1 DEF Commands
<1> QED
  BY <1>3, <1>4 DEF Service!ServiceInit, Init, Commands, Executions, Service!Keys, Keys

\* Every step of the worker is a step of the service or invisible to it.
LEMMA StepRefines == IInv /\ IInv' /\ [Next]_vars => [Service!ServiceNext]_(Service!serviceVars)
<1> SUFFICES ASSUME IInv, IInv', [Next]_vars
             PROVE  [Service!ServiceNext]_(Service!serviceVars)
  OBVIOUS
<1>0. /\ WorkerTypeOK
      /\ \A j \in DOMAIN queue : j \in Messages /\ RunOf(j) \in Runs /\ KeyOf(j) \in Keys
  BY MessageTypes DEF IInv, WorkerInv
<1>stutter. ASSUME Executions' = Executions, UNCHANGED <<queue, started, stopped, events>>
            PROVE  UNCHANGED Service!serviceVars
  <2>1. Commands' = Commands
    BY <1>stutter DEF Commands, RunOf, KeyOf
  <2> QED
    BY <1>stutter, <2>1 DEF Service!serviceVars, Commands, Executions
<1>1. ASSUME NEW i \in Messages, Handle(i)
      PROVE  [Service!ServiceNext]_(Service!serviceVars)
  BY <1>1, HandleRefines
<1>2. ASSUME NEW r \in Runs, NEW k \in Keys, PublishCommand(r, k)
      PROVE  Service!ServiceNext
  <2>0. PICK n \in Messages : n = Len(queue) + 1
    BY <1>2, PublishFrame
  <2>1. /\ n \notin DOMAIN queue /\ DOMAIN queue' = DOMAIN queue \cup {n}
        /\ \A j \in DOMAIN queue : queue'[j] = queue[j] /\ task'[j] = task[j]
        /\ task'[n].pc = "new" /\ queue'[n] = [run |-> r, key |-> k]
        /\ UNCHANGED <<started, stopped, events>>
    <3>1. n \notin DOMAIN queue
      BY <1>2, <2>0, PublishFrame DEF IInv, TasksAreMessages, NoTask
    <3>2. queue'[n] = [run |-> r, key |-> k]
      BY <1>0, <1>2, <2>0 DEF PublishCommand, WorkerTypeOK
    <3> QED
      BY <1>0, <1>2, <2>0, <3>1, <3>2, PublishFrame DEF NoTask
  <2>2. Executions' = Executions
    <3>1. ~Executing(n)'
      BY <2>1 DEF Executing, Registered
    <3> QED
      BY <2>1, <3>1, StagesKept DEF Executing
  <2>3. Commands' = [Commands EXCEPT ![r] = @ \cup {k}]
    <3>1. /\ \A j \in DOMAIN queue : RunOf(j)' = RunOf(j) /\ KeyOf(j)' = KeyOf(j)
          /\ RunOf(n)' = r /\ KeyOf(n)' = k
      BY <2>1 DEF RunOf, KeyOf
    <3>2. \A q \in Runs :
             {KeyOf(j)' : j \in {m \in DOMAIN queue' : RunOf(m)' = q}} =
                IF q = r THEN {KeyOf(j) : j \in {m \in DOMAIN queue : RunOf(m) = q}} \cup {k}
                ELSE {KeyOf(j) : j \in {m \in DOMAIN queue : RunOf(m) = q}}
      BY <2>1, <3>1
    <3> QED
      BY <3>2 DEF Commands
  <2>4. Service!PublishCommand(r, k)
    BY <2>3 DEF Service!PublishCommand, Commands
  <2> QED
    BY <2>1, <2>2, <2>4 DEF Service!ServiceNext, Service!ClientStep, Executions,
       Service!Keys, Keys
<1>3. ASSUME NEW r \in Runs, PublishCancel(r) PROVE Service!ServiceNext
  <2>1. UNCHANGED <<queue, task, started, events>>
    BY <1>3 DEF PublishCancel
  <2>2. Commands' = Commands /\ Executions' = Executions
    BY <1>0, <2>1, StagesKept DEF Commands, RunOf, KeyOf, Executing
  <2>3. Service!PublishCancel(r)
    BY <1>3 DEF PublishCancel, Service!PublishCancel
  <2> QED
    BY <2>1, <2>2, <2>3 DEF Service!ServiceNext, Service!ClientStep, Commands, Executions
<1>4. ASSUME NEW r \in Runs, Control(r) PROVE UNCHANGED Service!serviceVars
  <2>1. /\ UNCHANGED <<queue, started, stopped, events>>
        /\ \A j \in Messages : task'[j].pc = task[j].pc /\ task'[j].said = task[j].said
    BY <1>4, OtherFrames DEF Control
  <2>2. Executions' = Executions
    BY <1>0, <2>1, StagesKept DEF Executing
  <2> QED
    BY <1>stutter, <2>1, <2>2
<1>5. ASSUME NEW i \in Messages, Redeliver(i) \/ Deliver(i)
      PROVE  UNCHANGED Service!serviceVars
  <2>1. /\ UNCHANGED <<queue, started, stopped, events>>
        /\ task[i].pc \in {"new", "pending"} /\ task'[i].pc = "mark"
        /\ \A j \in Messages \ {i} : task'[j] = task[j]
    BY <1>5, OtherFrames DEF Redeliver, Deliver
  <2>2. Executions' = Executions
    BY <1>0, <2>1, StagesKept DEF Executing, Registered
  <2> QED
    BY <1>stutter, <2>1, <2>2
<1>6. ASSUME NEW t \in Threads, LockExpire(t) PROVE UNCHANGED Service!serviceVars
  <2>1. UNCHANGED <<queue, task, started, stopped, events>>
    BY <1>6 DEF LockExpire
  <2>2. Executions' = Executions
    BY <1>0, <2>1, StagesKept DEF Executing
  <2> QED
    BY <1>stutter, <2>1, <2>2
<1>7. CASE Crash
  <2>1. /\ \A j \in Messages : ~Executing(j)'
        /\ UNCHANGED <<queue, started, stopped, events>>
    BY <1>7, OtherFrames DEF Crash, Executing, Registered, Waiting
  <2>2. StagesFollow'
    BY StagesKnownNext
  <2>3. \A r \in Runs, k \in Keys : Stage(r, k)' = "idle"
    BY <1>0, <2>1, <2>2 DEF StagesFollow
  <2> DEFINE lost == [r \in Runs |-> Keys]
  <2>4. /\ lost \in [Runs -> SUBSET Keys]
        /\ Executions' = [r \in Runs |-> [k \in Keys |->
                             IF k \in lost[r] THEN "idle" ELSE Executions[r][k]]]
    BY <2>3 DEF Executions
  <2>5. Commands' = Commands
    BY <2>1 DEF Commands, RunOf, KeyOf
  <2> HIDE DEF lost
  <2>6. Service!AgentCrash
    BY <2>1, <2>4, <2>5 DEF Service!AgentCrash, Service!Keys, Keys, Commands, Executions
  <2> QED
    BY <2>6 DEF Service!ServiceNext
<1>8. CASE UNCHANGED vars
  <2>1. UNCHANGED <<queue, task, started, stopped, events>>
    BY <1>8 DEF vars
  <2>2. Executions' = Executions
    BY <1>0, <2>1, StagesKept DEF Executing
  <2> QED
    BY <1>stutter, <2>1, <2>2
<1> QED
  BY <1>1, <1>2, <1>3, <1>4, <1>5, <1>6, <1>7, <1>8 DEF Next, Consume

\* The agent, with its queue, keys, locks and crashes, looks from the streams like
\* the service the chat API was modelled against.
THEOREM WorkerImplementsService == Spec => ImplementsService
<1>1. Init => Service!ServiceInit
  BY InitRefines
<1>2. IInv /\ IInv' /\ [Next]_vars => [Service!ServiceNext]_(Service!serviceVars)
  BY StepRefines
<1> QED
  BY <1>1, <1>2, Invariant, PTL DEF Spec, ImplementsService, Service!ServiceSpec
=============================================================================
