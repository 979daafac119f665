---------------------------- MODULE ReplayOrder ----------------------------
(***************************************************************************)
(* A program is run twice: once while RecordAndReplay writes the order of  *)
(* its promise jobs to the file, until it ends or is killed, and once while*)
(* the file decides which job runs next.  The events of the embedder (the  *)
(* completion of I/O, timers) come in any order, not the same in both runs.*)
(*                                                                         *)
(* The program is what its tasks do, in order.  The task of an event, or   *)
(* of a continuation that runs as a job, may register a continuation (its  *)
(* capability gets the next id), settle the promise one is registered at,  *)
(* and start what will lead to an event.  A continuation is enqueued by    *)
(* what comes last, its registration or the settling.                      *)
(***************************************************************************)
EXTENDS Integers, Sequences, SequencesExt

CONSTANTS
  Continuation,
  Event,
  Main,          \* the event that runs the main script
  Programs       \* the programs to consider

Task == Event \cup Continuation
Op   == [op : {"then", "settle"}, of : Continuation] \cup [op : {"start"}, of : Event]

ASSUME ProgramAssumption == /\ Main \in Event
                            /\ Programs \subseteq [Task -> Seq(Op)]

VARIABLES
  program,    \* what the tasks do
  phase,      \* "record" or "replay"
  id,         \* id of the capability of a continuation; 0: not registered
  lastId,     \* PromiseCapabilityRecord.identification
  settled,    \* continuations whose promise is settled
  started,    \* events that are going to happen
  happened,   \* ... and those that have
  todo,       \* what the current task has left to do
  processing, \* processAllPromises is (or is about to be) active
  queue,      \* jobs of the agent, oldest first, with their identifiers
  ran,        \* jobs that were run, in order
  file,       \* the identifiers in the file
  order,      \* RecordAndReplay.orderList
  recorded    \* the continuations the file's identifiers belonged to

vars == <<program, phase, id, lastId, settled, started, happened, todo,
          processing, queue, ran, file, order, recorded>>

(* The recorder in the mode of the phase. *)
Recorder == INSTANCE RecordAndReplay
              WITH TRACING <- phase = "record", REPLAY <- phase = "replay"

(* The job of a continuation has the capability that it was registered with. *)
Job == [of : Continuation, id : Nat \ {0}]

Ids(jobs) == [i \in DOMAIN jobs |-> jobs[i].id]

NoIds == [c \in Continuation |-> 0]

Init == /\ program \in Programs
        /\ phase = "record"
        /\ id = NoIds
        /\ lastId = 0
        /\ settled = {}
        /\ started = {Main}
        /\ happened = {}
        /\ todo = <<>>
        /\ processing = FALSE
        /\ queue = <<>>
        /\ ran = <<>>
        /\ file = <<>>
        /\ order = <<>>
        /\ recorded = <<>>

TypeOK == /\ program \in [Task -> Seq(Op)]
          /\ phase \in {"record", "replay"}
          /\ id \in [Continuation -> Nat]
          /\ lastId \in Nat
          /\ settled \subseteq Continuation
          /\ started \subseteq Event
          /\ happened \subseteq Event
          /\ todo \in Seq(Op)
          /\ processing \in BOOLEAN
          /\ queue \in Seq(Job)
          /\ ran \in Seq(Job)
          /\ file \in Seq(Nat)
          /\ order \in Seq(Nat)
          /\ recorded \in Seq(Continuation)
-----------------------------------------------------------------------------
(* JSAgent.enqueuePromiseJob: the identifier is written before the push. *)
Enqueue(c, i) ==
  /\ queue' = Append(queue, [of |-> c, id |-> i])
  /\ file' = file \o Recorder!Written(<<i>>)
  /\ recorded' = IF phase = "record" THEN Append(recorded, c) ELSE recorded

Doing(op) == todo # <<>> /\ Head(todo).op = op
Done      == /\ todo' = Tail(todo)
             /\ UNCHANGED <<program, phase, happened, processing, ran, order>>

(* A continuation is registered: its capability is created (the            *)
(* identification is incremented first) and passed to PerformPromiseThen.  *)
RegisterThen ==
  /\ Doing("then")
  /\ LET c == Head(todo).of
     IN  /\ lastId' = lastId + 1
         /\ id' = [id EXCEPT ![c] = lastId']
         /\ IF c \in settled THEN Enqueue(c, lastId')
                             ELSE UNCHANGED <<queue, file, recorded>>
  /\ UNCHANGED <<settled, started>>
  /\ Done

RegisteredAlways(c) == TRUE
Registered(c)       == id[c] # 0

(* Its promise is settled: TriggerPromiseReactions. *)
SettlePromise ==
  /\ Doing("settle")
  /\ LET c == Head(todo).of
     IN  /\ settled' = settled \cup {c}
         /\ IF c \notin settled /\ Registered(c)
            THEN Enqueue(c, id[c])
            ELSE UNCHANGED <<queue, file, recorded>>
  /\ UNCHANGED <<id, lastId, started>>
  /\ Done

StartEvent ==
  /\ Doing("start")
  /\ started' = started \cup {Head(todo).of}
  /\ UNCHANGED <<id, lastId, settled, queue, file, recorded>>
  /\ Done
-----------------------------------------------------------------------------
(* The embedder calls the program, and the jobs are processed afterwards. *)
EventHappens(e) ==
  /\ todo = <<>> /\ ~ processing
  /\ e \in started \ happened
  /\ happened' = happened \cup {e}
  /\ todo' = program[e]
  /\ processing' = TRUE
  /\ UNCHANGED <<program, phase, id, lastId, settled, started, queue, ran,
                 file, order, recorded>>

(* JSAgent.processAllPromises lets the next job run. *)
RunJob ==
  /\ processing /\ todo = <<>>
  /\ queue # <<>>
  /\ ~ Recorder!Blocked(Ids(queue), order)
  /\ LET i == Recorder!NextJob(Ids(queue), order)
     IN  /\ ran' = Append(ran, queue[i])
         /\ queue' = RemoveAt(queue, i)
         /\ todo' = program[queue[i].of]
  /\ order' = Recorder!Replayed(order)
  /\ UNCHANGED <<program, phase, id, lastId, settled, started, happened,
                 processing, file, recorded>>

(* ... or returns: the queue is empty or the recorded job not in it. *)
StopProcessing ==
  /\ processing /\ todo = <<>>
  /\ queue = <<>> \/ Recorder!Blocked(Ids(queue), order)
  /\ processing' = FALSE
  /\ UNCHANGED <<program, phase, id, lastId, settled, started, happened, todo,
                 queue, ran, file, order, recorded>>

(* The recorded process ends or is killed, at any moment; a new one reads  *)
(* the file (the RecordAndReplay constructor).                             *)
StartReplay ==
  /\ phase = "record"
  /\ phase' = "replay"
  /\ order' = file
  /\ id' = NoIds
  /\ lastId' = 0
  /\ settled' = {}
  /\ started' = {Main}
  /\ happened' = {}
  /\ todo' = <<>>
  /\ processing' = FALSE
  /\ queue' = <<>>
  /\ ran' = <<>>
  /\ UNCHANGED <<program, file, recorded>>

Step == \/ RegisterThen \/ SettlePromise \/ StartEvent \/ RunJob \/ StopProcessing

Next == Step \/ StartReplay \/ \E e \in Event : EventHappens(e)

Spec == Init /\ [][Next]_vars

(* The interpreter goes on; what was started leads to its event. *)
Fairness == WF_vars(Step) /\ \A e \in Event : WF_vars(EventHappens(e))

FairSpec == Spec /\ Fairness
-----------------------------------------------------------------------------
(* The jobs run in the order in which the file names them: this is what    *)
(* recording at the time of the enqueueing relies on, and what             *)
(* reorganizeJobQueue enforces in the replay as long as the file lasts.    *)
FollowsFile ==
  \A i \in 1..Len(ran) : i <= Len(file) => ran[i].id = file[i]

(* What is replayed are the very continuations of the recorded run: the    *)
(* ids mean the same in both.                                              *)
ReplaysRecordedJobs ==
  \A i \in 1..Len(ran) : i <= Len(recorded) => ran[i].of = recorded[i]

(* The ids are given in the order of the registrations, which is that of   *)
(* the jobs, as long as the events other than the main script register     *)
(* nothing.                                                                *)
EventsRegisterNothing ==
  \A tasks \in Programs : \A e \in Event \ {Main} :
    \A i \in DOMAIN tasks[e] : tasks[e][i].op # "then"

(* The replay never waits for ever: in whatever order the events come, it  *)
(* gets to the end of the file.                                            *)
ReplayCompletes == (phase = "replay") ~> (order = <<>>)

=============================================================================
