--------------------------- MODULE WorkerThreads ---------------------------
(***************************************************************************)
(* The worker threads of a Node process: node_worker.cc, the environments  *)
(* they run, and the platform whose tasks they wait for before they end.   *)
(*                                                                         *)
(* A thread starts workers, terminates them and ends by itself, at any     *)
(* moment of the start, the run and the end of the other.  A section that  *)
(* holds Worker::mutex_ is one step; what runs outside of it is not.       *)
(*                                                                         *)
(* Variants, each before the definition it changes: ExitUnsignalled,       *)
(* RecordAlways, CloseLate, StopSubUnjoined, DrainEndsEarly,               *)
(* TakeTaskCounted.                                                        *)
(***************************************************************************)
EXTENDS Integers, Sequences, FiniteSets

CONSTANTS
  Main,      \* the main thread
  Workers,
  Parent,    \* the thread whose program creates a worker
  Runners,   \* threads of the platform
  Codes,     \* exit codes a program uses
  Posters,   \* bound: threads one of whose programs posts the first task
  MaxTasks,  \* bound: tasks posted to the platform, by it and by other tasks
  None

Threads == Workers \cup {Main}

ASSUME ThreadsAssumption == /\ Main \notin Workers
                            /\ Parent \in [Workers -> Threads]
                            /\ {0, 1} \subseteq Codes /\ Codes \subseteq Nat
                            /\ Posters \subseteq Threads
                            /\ MaxTasks \in Nat \ {0}
                            /\ None \notin Threads \cup Codes
ASSUME RunnersAssumption == IsFiniteSet(Runners)

(* Parents are created first: there is no cycle among workers. *)
ASSUME TreeAssumption ==
  \A S \in SUBSET Workers : S # {} => \E w \in S : Parent[w] \notin S

VARIABLES
  pc,          \* where each thread is
  stopped,     \* Worker::stopped_
  published,   \* Worker::env_ is not null
  exitCode,    \* Worker::exit_code_
  joined,      \* Worker::thread_joined_
  finished,    \* Worker::on_thread_finished_
  js,          \* Environment::can_call_into_js_
  flag,        \* the flag of Environment::thread_stopper_
  stopper,     \* ... its handle
  wake,        \* ... and whether a signal to it is pending
  subs,        \* Environment::sub_worker_contexts_
  target,      \* the worker a thread waits for in JoinThread
  isolate,     \* PerIsolatePlatformData, from registration to shutdown
  foreground,  \* tasks in foreground_tasks_
  queue,       \* owners of the tasks in pending_worker_tasks_
  running,     \* ... and of those that are being run
  outstanding, \* TaskQueue::outstanding_tasks_
  down,        \* TaskQueue::stopped_
  posted,      \* number of tasks posted, for the bound
  asked,       \* code of the last Exit that reached the environment, or None
  events       \* what the 'exit' event was emitted with

worker   == <<stopped, published, exitCode, joined, finished>>
env      == <<js, flag, stopper, wake>>
tree     == <<subs, target>>
platform == <<isolate, foreground, queue, running, outstanding, down, posted>>
history  == <<asked, events>>
vars     == <<pc, worker, env, tree, platform, history>>

(* The places where the thread runs code of the program. *)
CodePcs == {"script", "callback", "beforeExit", "exiting", "listener"}

Pcs == CodePcs \cup
       {"unborn", "start", "publish", "loop", "poll", "drain", "finish",
        "record", "close", "stopSubs", "join", "joinStop", "lastDrain",
        "dispose", "exit", "done"}

TypeOK ==
  /\ pc \in [Threads -> Pcs]
  /\ stopped \in [Workers -> BOOLEAN]
  /\ published \in [Workers -> BOOLEAN]
  /\ exitCode \in [Workers -> Codes]
  /\ joined \in [Workers -> BOOLEAN]
  /\ finished \in [Workers -> {"none", "armed", "sent", "closed"}]
  /\ js \in [Threads -> BOOLEAN] /\ flag \in [Threads -> BOOLEAN]
  /\ stopper \in [Threads -> {"none", "open", "closed"}]
  /\ wake \in [Threads -> BOOLEAN]
  /\ subs \in [Threads -> SUBSET Workers]
  /\ target \in [Threads -> Workers \cup {None}]
  /\ isolate \in [Threads -> {"none", "registered", "closed"}]
  /\ foreground \in [Threads -> 0 .. MaxTasks]
  /\ queue \in Seq(Threads) /\ running \in [Runners -> Threads \cup {None}]
  /\ outstanding = Len(queue) + Cardinality({r \in Runners :
                                                running[r] # None})
  /\ down \in BOOLEAN /\ posted \in 0 .. MaxTasks
  /\ asked \in [Workers -> Codes \cup {None}]
  /\ events \in [Workers -> Seq(Codes)]

Init ==
  /\ pc = [t \in Threads |-> IF t = Main THEN "script" ELSE "unborn"]
  /\ stopped = [w \in Workers |-> TRUE]
  /\ published = [w \in Workers |-> FALSE]
  /\ exitCode = [w \in Workers |-> 0]
  /\ joined = [w \in Workers |-> TRUE]
  /\ finished = [w \in Workers |-> "none"]
  /\ js = [t \in Threads |-> TRUE]
  /\ flag = [t \in Threads |-> t # Main]
  /\ stopper = [t \in Threads |-> IF t = Main THEN "open" ELSE "none"]
  /\ wake = [t \in Threads |-> FALSE]
  /\ subs = [t \in Threads |-> {}]
  /\ target = [t \in Threads |-> None]
  /\ isolate = [t \in Threads |-> IF t = Main THEN "registered" ELSE "none"]
  /\ foreground = [t \in Threads |-> 0]
  /\ queue = <<>> /\ running = [r \in Runners |-> None]
  /\ outstanding = 0 /\ down = FALSE /\ posted = 0
  /\ asked = [w \in Workers |-> None]
  /\ events = [w \in Workers |-> <<>>]

(* Worker::is_stopped; the environment of the main thread is never stopped. *)
IsStopped(t) == t \in Workers /\ IF published[t] THEN flag[t] ELSE stopped[t]

(* Environment::can_call_into_js *)
CanCall(t) == js[t] /\ ~ flag[t]

Goto(t, place) == pc' = [pc EXCEPT ![t] = place]

(***************************************************************************)
(* Worker::Exit.  Stop also terminates the program that runs, which may    *)
(* get further before it notices: see CodeTerminates.                      *)
(***************************************************************************)
ExitUnsignalled(w, code) ==
  IF published[w]
  THEN /\ exitCode' = [exitCode EXCEPT ![w] = code]
       /\ asked' = [asked EXCEPT ![w] = code]
       /\ js' = [js EXCEPT ![w] = FALSE]
       /\ flag' = [flag EXCEPT ![w] = TRUE]
       /\ UNCHANGED <<stopped, wake>>
  ELSE /\ stopped' = [stopped EXCEPT ![w] = TRUE]
       /\ UNCHANGED <<exitCode, asked, js, flag, wake>>

Exit(w, code) ==
  IF published[w]
  THEN /\ exitCode' = [exitCode EXCEPT ![w] = code]
       /\ asked' = [asked EXCEPT ![w] = code]
       /\ js' = [js EXCEPT ![w] = FALSE]
       /\ flag' = [flag EXCEPT ![w] = TRUE]
       /\ wake' = [wake EXCEPT ![w] = TRUE]
       /\ UNCHANGED stopped
  ELSE /\ stopped' = [stopped EXCEPT ![w] = TRUE]
       /\ UNCHANGED <<exitCode, asked, js, flag, wake>>

UnchangedByExit == UNCHANGED <<published, joined, finished, stopper, events>>
-----------------------------------------------------------------------------
(* What a program does *)

CodeRuns(t) == pc[t] \in CodePcs

(* new Worker, which calls startThread *)
StartThread(t, w) ==
  /\ CodeRuns(t)
  /\ pc[w] = "unborn" /\ Parent[w] = t
  /\ subs' = [subs EXCEPT ![t] = @ \cup {w}]
  /\ stopped' = [stopped EXCEPT ![w] = FALSE]
  /\ joined' = [joined EXCEPT ![w] = FALSE]
  /\ finished' = [finished EXCEPT ![w] = "armed"]
  /\ Goto(w, "start")
  /\ UNCHANGED <<published, exitCode, env, target, platform, history>>

(* worker.terminate(): its handle is dropped when 'exit' is emitted. *)
Terminate(t, w) ==
  /\ CodeRuns(t)
  /\ Parent[w] = t /\ finished[w] \in {"armed", "sent"}
  /\ Exit(w, 1)
  /\ UnchangedByExit
  /\ UNCHANGED <<pc, tree, platform>>

(* process.exit() in a worker *)
ProcessExit(t, code) ==
  /\ CodeRuns(t) /\ t \in Workers
  /\ Exit(t, code)
  /\ UnchangedByExit
  /\ UNCHANGED <<pc, tree, platform>>

(* ... and in the main thread: the process ends from within the call. *)
ProcessExitMain ==
  /\ CodeRuns(Main)
  /\ Goto(Main, "stopSubs")
  /\ UNCHANGED <<worker, env, tree, platform, history>>

(* CallOnWorkerThread *)
PostWorkerTask(t) ==
  /\ CodeRuns(t) /\ t \in Posters
  /\ posted = 0
  /\ posted' = posted + 1
  /\ outstanding' = outstanding + 1
  /\ queue' = Append(queue, t)
  /\ UNCHANGED <<pc, worker, env, tree, isolate, foreground, running, down,
                 history>>

AfterCode(t) ==
  CASE pc[t] = "script"     -> {"loop"}
    [] pc[t] = "callback"   -> {"poll"}
    [] pc[t] = "beforeExit" -> IF IsStopped(t) THEN {"finish"}
                               ELSE {"loop", "finish"}
    [] pc[t] = "exiting"    -> {"record"}
    [] pc[t] = "listener"   -> {"stopSubs"}

CodeReturns(t) ==
  /\ CodeRuns(t)
  /\ \E place \in AfterCode(t) : Goto(t, place)
  /\ UNCHANGED <<worker, env, tree, platform, history>>
-----------------------------------------------------------------------------
(* Worker::Run up to the event loop *)

(***************************************************************************)
(* WorkerThreadData registers the isolate with the platform.  A worker     *)
(* that was stopped by now has no environment to clean up.                 *)
(***************************************************************************)
CreateEnvironment(w) ==
  /\ pc[w] = "start"
  /\ isolate' = [isolate EXCEPT ![w] = "registered"]
  /\ IF IsStopped(w)
     THEN Goto(w, "dispose") /\ UNCHANGED <<flag, stopper>>
     ELSE /\ flag' = [flag EXCEPT ![w] = FALSE]
          /\ stopper' = [stopper EXCEPT ![w] = "open"]
          /\ Goto(w, "publish")
  /\ UNCHANGED <<worker, js, wake, tree, foreground, queue, running,
                 outstanding, down, posted, history>>

Publish(w) ==
  /\ pc[w] = "publish"
  /\ published' = [published EXCEPT ![w] = ~ stopped[w]]
  /\ Goto(w, IF stopped[w] THEN "close" ELSE "script")
  /\ UNCHANGED <<stopped, exitCode, joined, finished, env, tree, platform,
                 history>>
-----------------------------------------------------------------------------
(* The event loop of Worker::Run, and of NodeMainInstance::Run *)

EnterLoop(t) ==
  /\ pc[t] = "loop"
  /\ Goto(t, IF IsStopped(t) THEN "finish" ELSE "poll")
  /\ UNCHANGED <<worker, env, tree, platform, history>>

AfterLoop(t) == IF IsStopped(t) THEN "finish" ELSE "drain"

(* An event calls the program. *)
PollCallback(t) ==
  /\ pc[t] = "poll" /\ CanCall(t)
  /\ Goto(t, "callback")
  /\ UNCHANGED <<worker, env, tree, platform, history>>

(* The thread stopper calls uv_stop. *)
PollStopped(t) ==
  /\ pc[t] = "poll" /\ wake[t]
  /\ wake' = [wake EXCEPT ![t] = FALSE]
  /\ Goto(t, AfterLoop(t))
  /\ UNCHANGED <<worker, js, flag, stopper, tree, platform, history>>

(* No handle is active any more, or all are unreferenced. *)
PollEnds(t) ==
  /\ pc[t] = "poll"
  /\ Goto(t, AfterLoop(t))
  /\ UNCHANGED <<worker, env, tree, platform, history>>

(* on_thread_finished_ of a worker runs: it joins the thread. *)
PollFinished(t, w) ==
  /\ pc[t] = "poll" /\ w \in subs[t] /\ finished[w] = "sent"
  /\ target' = [target EXCEPT ![t] = w]
  /\ Goto(t, "join")
  /\ UNCHANGED <<worker, env, subs, platform, history>>

(***************************************************************************)
(* JoinThread: the thread has ended, the handle is closed and 'exit' is    *)
(* emitted if the program of this thread can still be called.              *)
(***************************************************************************)
JoinThread(t) ==
  LET w == target[t]
  IN  /\ pc[t] \in {"join", "joinStop"}
      /\ pc[w] = "done"
      /\ joined' = [joined EXCEPT ![w] = TRUE]
      /\ finished' = [finished EXCEPT ![w] = "closed"]
      /\ subs' = [subs EXCEPT ![t] = @ \ {w}]
      /\ target' = [target EXCEPT ![t] = None]
      /\ events' = IF CanCall(t)
                   THEN [events EXCEPT ![w] = Append(@, exitCode[w])]
                   ELSE events
      /\ Goto(t, IF pc[t] = "join"
                 THEN IF CanCall(t) THEN "callback" ELSE "poll"
                 ELSE IF CanCall(t) THEN "listener" ELSE "stopSubs")
      /\ UNCHANGED <<stopped, published, exitCode, env, platform, asked>>

(* The 'exit' event of process is emitted unless the worker was stopped. *)
Finish(t) ==
  /\ pc[t] = "finish"
  /\ Goto(t, IF IsStopped(t) THEN "close" ELSE "exiting")
  /\ UNCHANGED <<worker, env, tree, platform, history>>

(***************************************************************************)
(* What EmitExit returns: process.exitCode, which process.exit(0) has set  *)
(* if that was the last request, and which a program sets as it likes.     *)
(***************************************************************************)
Natural(w) == IF asked[w] = 0 THEN {0} ELSE Codes

RecordAlways(t) ==
  /\ pc[t] = "record"
  /\ IF t = Main THEN UNCHANGED exitCode
     ELSE \E code \in Natural(t) : exitCode' = [exitCode EXCEPT ![t] = code]
  /\ Goto(t, "close")
  /\ UNCHANGED <<stopped, published, joined, finished, env, tree, platform,
                 history>>

Record(t) ==
  /\ pc[t] = "record"
  /\ IF t = Main \/ exitCode[t] # 0 THEN UNCHANGED exitCode
     ELSE \E code \in Natural(t) : exitCode' = [exitCode EXCEPT ![t] = code]
  /\ Goto(t, "close")
  /\ UNCHANGED <<stopped, published, joined, finished, env, tree, platform,
                 history>>
-----------------------------------------------------------------------------
(* The end of an environment *)

CloseLate(t) ==
  /\ pc[t] = "close"
  /\ js' = [js EXCEPT ![t] = FALSE]
  /\ Goto(t, "stopSubs")
  /\ IF t = Main THEN UNCHANGED <<stopped, flag>>
     ELSE /\ stopped' = [stopped EXCEPT ![t] = TRUE]
          /\ flag' = [flag EXCEPT ![t] = TRUE]
  /\ UNCHANGED <<published, exitCode, joined, finished, stopper, wake, tree,
                 platform, history>>

Close(t) ==
  /\ pc[t] = "close"
  /\ js' = [js EXCEPT ![t] = FALSE]
  /\ Goto(t, "stopSubs")
  /\ IF t = Main THEN UNCHANGED <<stopped, published, flag>>
     ELSE /\ stopped' = [stopped EXCEPT ![t] = TRUE]
          /\ published' = [published EXCEPT ![t] = FALSE]
          /\ flag' = [flag EXCEPT ![t] = TRUE]
  /\ UNCHANGED <<exitCode, joined, finished, stopper, wake, tree, platform,
                 history>>

(* stop_sub_worker_contexts: stop one, then join it, until there is none. *)
StopSubUnjoined(t, w) ==
  /\ pc[t] = "stopSubs" /\ w \in subs[t]
  /\ subs' = [subs EXCEPT ![t] = @ \ {w}]
  /\ Exit(w, 1)
  /\ UnchangedByExit
  /\ UNCHANGED <<pc, target, platform>>

StopSub(t, w) ==
  /\ pc[t] = "stopSubs" /\ w \in subs[t]
  /\ subs' = [subs EXCEPT ![t] = @ \ {w}]
  /\ Exit(w, 1)
  /\ target' = [target EXCEPT ![t] = w]
  /\ Goto(t, "joinStop")
  /\ UnchangedByExit
  /\ UNCHANGED platform

(* Environment::RunCleanup *)
RunCleanup(t) ==
  /\ pc[t] = "stopSubs" /\ subs[t] = {}
  /\ t = Main => ~ js[t]
  /\ stopper' = [stopper EXCEPT ![t] = "closed"]
  /\ wake' = [wake EXCEPT ![t] = FALSE]
  /\ Goto(t, "lastDrain")
  /\ UNCHANGED <<worker, js, flag, tree, platform, history>>

(* Environment::Exit of the main thread goes on without a cleanup. *)
ExitAtOnce ==
  /\ pc[Main] = "stopSubs" /\ subs[Main] = {}
  /\ js[Main]
  /\ Goto(Main, "exit")
  /\ UNCHANGED <<worker, env, tree, platform, history>>

(***************************************************************************)
(* ~WorkerThreadData unregisters the isolate and runs the loop until it is *)
(* closed; then the parent is told.                                        *)
(***************************************************************************)
EndThread(w) ==
  /\ pc[w] = "dispose"
  /\ isolate' = [isolate EXCEPT ![w] = "closed"]
  /\ finished' = [finished EXCEPT ![w] = "sent"]
  /\ Goto(w, "done")
  /\ UNCHANGED <<stopped, published, exitCode, joined, env, tree, foreground,
                 queue, running, outstanding, down, posted, history>>

(* DisposePlatform: the queue is stopped, its threads are joined. *)
DisposePlatform ==
  /\ pc[Main] = "exit" /\ ~ down
  /\ down' = TRUE
  /\ UNCHANGED <<pc, worker, env, tree, isolate, foreground, queue, running,
                 outstanding, posted, history>>

ProcessEnds ==
  /\ pc[Main] = "exit" /\ down
  /\ \A r \in Runners : running[r] = None
  /\ Goto(Main, "done")
  /\ UNCHANGED <<worker, env, tree, platform, history>>
-----------------------------------------------------------------------------
(* The platform *)

(***************************************************************************)
(* FlushForegroundTasksInternal takes all tasks and runs them; they may    *)
(* post others.                                                            *)
(***************************************************************************)
RunForeground(t) ==
  /\ foreground[t] > 0
  /\ foreground' = [foreground EXCEPT ![t] = 0]
  /\ \E n \in 0 .. foreground[t] :
       /\ posted + n <= MaxTasks
       /\ posted' = posted + n
       /\ outstanding' = outstanding + n
       /\ queue' = queue \o [i \in 1 .. n |-> t]

(* ... from the event loop, the tasks having signalled flush_tasks_. *)
FlushTasks(t) ==
  /\ pc[t] = "poll"
  /\ RunForeground(t)
  /\ UNCHANGED <<pc, worker, env, tree, isolate, running, down, history>>

(* DrainTasks: wait for the tasks of the platform, then flush, until both   *)
(* found nothing.                                                          *)
DrainContinues(t) ==
  /\ pc[t] \in {"drain", "lastDrain"}
  /\ outstanding = 0
  /\ RunForeground(t)
  /\ UNCHANGED <<pc, worker, env, tree, isolate, running, down, history>>

(***************************************************************************)
(* In the loop: if the loop is alive it goes on, else beforeExit is        *)
(* emitted.                                                                *)
(***************************************************************************)
AfterDrain(t) ==
  CASE pc[t] = "drain" -> IF IsStopped(t) THEN {"finish"}
                          ELSE {"loop", "beforeExit"}
    [] OTHER           -> IF t = Main THEN {"exit"} ELSE {"dispose"}

DrainEndsEarly(t) ==
  /\ pc[t] \in {"drain", "lastDrain"}
  /\ foreground[t] = 0
  /\ \E place \in AfterDrain(t) : Goto(t, place)
  /\ UNCHANGED <<worker, env, tree, platform, history>>

DrainEnds(t) ==
  /\ pc[t] \in {"drain", "lastDrain"}
  /\ outstanding = 0 /\ foreground[t] = 0
  /\ \E place \in AfterDrain(t) : Goto(t, place)
  /\ UNCHANGED <<worker, env, tree, platform, history>>

(* BlockingPop *)
TakeTaskCounted(r) ==
  /\ running[r] = None
  /\ queue # <<>> /\ ~ down
  /\ running' = [running EXCEPT ![r] = Head(queue)]
  /\ queue' = Tail(queue)
  /\ outstanding' = outstanding - 1
  /\ UNCHANGED <<pc, worker, env, tree, isolate, foreground, down, posted,
                 history>>

TakeTask(r) ==
  /\ running[r] = None
  /\ queue # <<>> /\ ~ down
  /\ running' = [running EXCEPT ![r] = Head(queue)]
  /\ queue' = Tail(queue)
  /\ UNCHANGED <<pc, worker, env, tree, isolate, foreground, outstanding,
                 down, posted, history>>

(* The task runs, which may post one to its isolate, and is reported done. *)
CompleteTask(r) ==
  LET t == running[r]
  IN  /\ t # None
      /\ running' = [running EXCEPT ![r] = None]
      /\ outstanding' = outstanding - 1
      /\ \/ UNCHANGED foreground
         \/ foreground' = [foreground EXCEPT ![t] = @ + 1]
      /\ UNCHANGED <<pc, worker, env, tree, isolate, queue, down, posted,
                     history>>
-----------------------------------------------------------------------------
Run(t) ==
  \/ CreateEnvironment(t) \/ Publish(t) \/ EnterLoop(t) \/ PollStopped(t)
  \/ FlushTasks(t)
  \/ (\E w \in Workers : PollFinished(t, w))
  \/ JoinThread(t) \/ Finish(t) \/ Record(t) \/ Close(t)
  \/ (\E w \in Workers : StopSub(t, w))
  \/ RunCleanup(t) \/ EndThread(t) \/ DrainContinues(t) \/ DrainEnds(t)
  \/ (t = Main /\ (ExitAtOnce \/ DisposePlatform \/ ProcessEnds))

Program(t) ==
  \/ \E w \in Workers : StartThread(t, w) \/ Terminate(t, w)
  \/ \E code \in Codes : ProcessExit(t, code)
  \/ (t = Main /\ ProcessExitMain)
  \/ PostWorkerTask(t)
  \/ PollCallback(t) \/ PollEnds(t)

Next ==
  \/ \E t \in Threads : Run(t) \/ Program(t) \/ CodeReturns(t)
  \/ \E r \in Runners : TakeTask(r) \/ CompleteTask(r)

Spec == Init /\ [][Next]_vars

(***************************************************************************)
(* Threads are scheduled and tasks end.  A program may run forever, unless *)
(* its environment is stopped: TerminateExecution makes it return.         *)
(***************************************************************************)
CodeTerminates(t) == flag[t] /\ CodeReturns(t)

FairSpec == /\ Spec
            /\ \A t \in Threads : WF_vars(Run(t) \/ CodeTerminates(t))
            /\ \A r \in Runners : WF_vars(TakeTask(r) \/ CompleteTask(r))
-----------------------------------------------------------------------------
(* Where a thread has no environment any more, or has none yet. *)
Gone == {"lastDrain", "dispose", "exit", "done"}

(***************************************************************************)
(* Exit may be called by another thread whenever env_ is set: it then      *)
(* finds an environment whose thread stopper is installed, and never one   *)
(* that is being cleaned up or freed.                                      *)
(***************************************************************************)
EnvironmentIsReachable ==
  \A w \in Workers : published[w] => stopper[w] = "open"

(***************************************************************************)
(* An environment is not cleaned up, nor the platform disposed of, while a *)
(* worker that was started under it still runs; what deletes a worker      *)
(* finds it stopped, without environment and joined.                       *)
(***************************************************************************)
NoOrphans ==
  /\ \A w \in Workers :
       /\ pc[Parent[w]] \in Gone =>
            /\ pc[w] \in {"unborn", "done"}
            /\ joined[w] /\ finished[w] \in {"none", "closed"}
       /\ joined[w] \/ finished[w] = "sent" => stopped[w] /\ ~ published[w]
  /\ down => \A w \in Workers : pc[w] \in {"unborn", "done"}

(***************************************************************************)
(* When an isolate is unregistered it has no task left, and none that runs *)
(* elsewhere can post to it later: the checks in Shutdown and PostTask     *)
(* hold.                                                                   *)
(***************************************************************************)
NoTaskOutlivesItsIsolate ==
  \A w \in Workers :
    pc[w] = "dispose" \/ isolate[w] = "closed" =>
      /\ foreground[w] = 0
      /\ \A i \in DOMAIN queue : queue[i] # w
      /\ \A r \in Runners : running[r] # w

(***************************************************************************)
(* 'exit' is emitted once at most, after the thread has ended, with the    *)
(* code of the last process.exit or terminate that reached the running     *)
(* environment, whatever it raced with.                                    *)
(***************************************************************************)
ExitEventTellsLastRequest ==
  \A w \in Workers :
    /\ Len(events[w]) <= 1
    /\ events[w] # <<>> => /\ pc[w] = "done" /\ joined[w]
                           /\ asked[w] # None => events[w] = <<asked[w]>>

(***************************************************************************)
(* Stopping a worker, at whatever moment of its start or run, comes to an  *)
(* end, and so does the main thread once its program has ended by itself.  *)
(***************************************************************************)
Ending(t) == IF t = Main THEN ~ js[t]
             ELSE pc[t] # "unborn" /\ IsStopped(t)

StopTakesEffect == \A t \in Threads : Ending(t) ~> pc[t] = "done"
=============================================================================
