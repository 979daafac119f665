------------------------ MODULE WorkerThreads_proofs ------------------------
(***************************************************************************)
(* The proofs, for any tree of workers, any number of platform threads and *)
(* any bound on the tasks, that whoever finds env_ set finds a live        *)
(* environment, that nothing is cleaned up under a running worker, that no *)
(* task outlives its isolate, and that 'exit' tells the last request.      *)
(*                                                                         *)
(* The invariant has one part per question, of which each proof needs the  *)
(* ones before: Life follows a worker through Run, Family relates it to    *)
(* its parent, Tasks to the platform, CodesAgree to who asked it to exit.  *)
(***************************************************************************)
EXTENDS WorkerThreads, SequenceTheorems, FiniteSetTheorems, TLAPS

NotYet == {"unborn", "start", "publish"}
Over == {"stopSubs", "joinStop", "lastDrain", "dispose", "done"}
Joining == {"join", "joinStop"}

(* The environment of a worker lives while env_ is set.                    *)
Life ==
  /\ pc[Main] \notin NotYet \cup {"dispose"}
  /\ \A w \in Workers :
       /\ pc[w] \notin {"listener", "exit"}
       /\ pc[w] \in NotYet => ~ published[w]
       /\ pc[w] = "unborn" => stopped[w]
       /\ pc[w] = "publish" => stopper[w] = "open"
       /\ pc[w] \in Over => stopped[w] /\ ~ published[w]
       /\ pc[w] \in {"stopSubs", "joinStop"} => ~ js[w]
       /\ published[w] => stopper[w] = "open"

(* A worker that is not joined is known to its parent, which has no other  *)
(* way to its end than to join it.                                         *)
Family ==
  /\ \A w \in Workers :
       /\ pc[w] = "unborn" => joined[w] /\ finished[w] = "none"
       /\ pc[Parent[w]] \in NotYet => pc[w] = "unborn"
       /\ joined[w] => pc[w] \in {"unborn", "done"}
       /\ joined[w] => finished[w] \in {"none", "closed"}
       /\ finished[w] = "sent" => pc[w] = "done"
       /\ ~ joined[w] => \/ w \in subs[Parent[w]]
                         \/ /\ target[Parent[w]] = w
                            /\ pc[Parent[w]] \in Joining
  /\ \A t \in Threads :
       /\ \A w \in subs[t] : Parent[w] = t /\ ~ joined[w]
       /\ pc[t] \in Joining => /\ target[t] \in Workers
                               /\ Parent[target[t]] = t
                               /\ ~ joined[target[t]]
       /\ pc[t] \in Gone => subs[t] = {}
  /\ down => pc[Main] \in {"exit", "done"}

(* A thread that has not begun, or has drained its tasks, has none.        *)
HasNoTask(w) ==
  /\ foreground[w] = 0
  /\ \A i \in DOMAIN queue : queue[i] # w
  /\ \A r \in Runners : running[r] # w

Tasks ==
  \A w \in Workers :
    /\ pc[w] \in NotYet \cup {"dispose", "done"} => HasNoTask(w)
    /\ isolate[w] = "closed" => pc[w] = "done"

(* Every task that was posted leads to one foreground task at most.        *)
TasksBounded == \A t \in Threads : foreground[t] + outstanding <= posted

(* exit_code_ is what the last request asked for.                          *)
CodesAgree ==
  \A w \in Workers :
    /\ asked[w] # None => exitCode[w] = asked[w]
    /\ Len(events[w]) <= 1
    /\ events[w] # <<>> => /\ pc[w] = "done" /\ joined[w]
                           /\ asked[w] # None => events[w] = <<asked[w]>>

IInv == TypeOK /\ Life /\ Family /\ TasksBounded /\ Tasks /\ CodesAgree
-----------------------------------------------------------------------------
(* The tasks that are counted *)

Busy(running_) == {r \in Runners : running_[r] # None}

LEMMA BusyIsFinite ==
  ASSUME NEW f
  PROVE  IsFiniteSet(Busy(f)) /\ Cardinality(Busy(f)) \in Nat
<1>1. Busy(f) \in SUBSET Runners
  BY DEF Busy
<1>2. IsFiniteSet(Busy(f))
  BY <1>1, FS_Subset, RunnersAssumption
<1> QED
  BY <1>2, FS_CardinalityType

LEMMA BusyMore ==
  ASSUME NEW f \in [Runners -> Threads \cup {None}], NEW r \in Runners,
         NEW t \in Threads, f[r] = None
  PROVE  Cardinality(Busy([f EXCEPT ![r] = t])) = Cardinality(Busy(f)) + 1
<1>1. Busy([f EXCEPT ![r] = t]) = Busy(f) \cup {r} /\ r \notin Busy(f)
  BY ThreadsAssumption DEF Busy
<1> QED
  BY <1>1, BusyIsFinite, FS_AddElement

LEMMA BusyLess ==
  ASSUME NEW f \in [Runners -> Threads \cup {None}], NEW r \in Runners,
         f[r] # None
  PROVE  Cardinality(Busy([f EXCEPT ![r] = None])) = Cardinality(Busy(f)) - 1
<1>1. Busy([f EXCEPT ![r] = None]) = Busy(f) \ {r} /\ r \in Busy(f)
  BY DEF Busy
<1> QED
  BY <1>1, BusyIsFinite, FS_RemoveElement

(* n tasks of t are put into the queue. *)
LEMMA TasksAppended ==
  ASSUME NEW q \in Seq(Threads), NEW n \in Nat, NEW t \in Threads
  PROVE  LET more == q \o [i \in 1 .. n |-> t]
         IN  /\ more \in Seq(Threads) /\ Len(more) = Len(q) + n
             /\ \A i \in DOMAIN more : more[i] = t \/ \E j \in DOMAIN q :
                                                       q[j] = more[i]
<1> DEFINE new == [i \in 1 .. n |-> t]
           more == q \o new
<1>1. new \in Seq(Threads) /\ Len(new) = n
  OBVIOUS
<1>2. \A i \in 1 .. n : new[i] = t
  OBVIOUS
<1> HIDE DEF new
<1>3. /\ more \in Seq(Threads) /\ Len(more) = Len(q) + Len(new)
      /\ \A i \in 1 .. Len(q) + Len(new) :
           more[i] = IF i <= Len(q) THEN q[i] ELSE new[i - Len(q)]
  BY <1>1, ConcatProperties
<1>4. Len(q) \in Nat /\ DOMAIN q = 1 .. Len(q)
      /\ DOMAIN more = 1 .. Len(more)
  BY <1>3, LenProperties
<1> HIDE DEF more
<1>5. ASSUME NEW i \in DOMAIN more, more[i] # t
      PROVE  \E j \in DOMAIN q : q[j] = more[i]
  <2>1. i \in 1 .. Len(q) + n
    BY <1>1, <1>3, <1>4
  <2>2. CASE i <= Len(q)
    <3>1. i \in DOMAIN q /\ q[i] = more[i]
      BY <1>1, <1>3, <1>4, <2>1, <2>2
    <3> QED
      BY <3>1
  <2>3. CASE ~ (i <= Len(q))
    <3>1. i - Len(q) \in 1 .. n
      BY <1>4, <2>1, <2>3
    <3> QED
      BY <1>1, <1>2, <1>3, <1>5, <2>1, <2>3, <3>1
  <2> QED
    BY <2>2, <2>3
<1> QED
  BY <1>1, <1>3, <1>5 DEF more, new
-----------------------------------------------------------------------------
(* Types *)

LEMMA InitTypeOK == Init => TypeOK
<1> SUFFICES ASSUME Init PROVE TypeOK
  OBVIOUS
<1>1. running = [r \in Runners |-> None] /\ queue = <<>> /\ outstanding = 0
  BY DEF Init
<1>2. Cardinality({}) = 0
  BY FS_EmptySet
<1>3. {r \in Runners : running[r] # None} = {}
  BY <1>1
<1>4. outstanding = Len(queue) + Cardinality({r \in Runners :
                                                running[r] # None})
  <2>1. Len(queue) = 0
    BY <1>1
  <2>2. Cardinality({r \in Runners : running[r] # None}) = 0
    BY <1>2, <1>3, Zenon
  <2> QED
    BY <1>1, <2>1, <2>2
<1>5. flag \in [Threads -> BOOLEAN]
  BY Zenon DEF Init
<1>6. /\ pc \in [Threads -> Pcs]
      /\ stopper \in [Threads -> {"none", "open", "closed"}]
      /\ isolate \in [Threads -> {"none", "registered", "closed"}]
  BY DEF Init, Pcs, CodePcs
<1>7. /\ stopped \in [Workers -> BOOLEAN] /\ published \in [Workers -> BOOLEAN]
      /\ joined \in [Workers -> BOOLEAN]
      /\ js \in [Threads -> BOOLEAN] /\ wake \in [Threads -> BOOLEAN]
      /\ down \in BOOLEAN
  BY Zenon DEF Init
<1>8. exitCode \in [Workers -> Codes] /\ foreground \in [Threads -> 0 .. MaxTasks]
      /\ posted \in 0 .. MaxTasks
  BY ThreadsAssumption DEF Init
<1>9. /\ finished \in [Workers -> {"none", "armed", "sent", "closed"}]
      /\ subs \in [Threads -> SUBSET Workers]
      /\ target \in [Threads -> Workers \cup {None}]
      /\ queue \in Seq(Threads) /\ running \in [Runners -> Threads \cup {None}]
      /\ asked \in [Workers -> Codes \cup {None}]
      /\ events \in [Workers -> Seq(Codes)]
  BY DEF Init
<1> QED
  BY <1>4, <1>5, <1>6, <1>7, <1>8, <1>9, Zenon DEF TypeOK

(* Exit keeps the types of what it changes. *)
LEMMA ExitTypeOK ==
  ASSUME TypeOK, NEW w \in Workers, NEW code \in Codes, Exit(w, code),
         UnchangedByExit
  PROVE  /\ stopped' \in [Workers -> BOOLEAN]
         /\ published' \in [Workers -> BOOLEAN]
         /\ exitCode' \in [Workers -> Codes]
         /\ joined' \in [Workers -> BOOLEAN]
         /\ finished' \in [Workers -> {"none", "armed", "sent", "closed"}]
         /\ js' \in [Threads -> BOOLEAN] /\ flag' \in [Threads -> BOOLEAN]
         /\ stopper' \in [Threads -> {"none", "open", "closed"}]
         /\ wake' \in [Threads -> BOOLEAN]
         /\ asked' \in [Workers -> Codes \cup {None}]
         /\ events' \in [Workers -> Seq(Codes)]
BY DEF TypeOK, Exit, UnchangedByExit, Threads

(* The steps that change no more than where a thread is. *)
LEMMA GotoTypeOK ==
  ASSUME TypeOK, NEW t \in Threads, NEW place \in Pcs, Goto(t, place),
         UNCHANGED <<worker, env, tree, platform, history>>
  PROVE  TypeOK'
BY DEF TypeOK, Goto, worker, env, tree, platform, history

LEMMA ProgramTypeOK ==
  ASSUME TypeOK, NEW t \in Threads, Program(t) \/ CodeReturns(t)
  PROVE  TypeOK'
<1>1. ASSUME NEW w \in Workers, StartThread(t, w)
      PROVE  TypeOK'
  BY <1>1 DEF StartThread, CodeRuns, TypeOK, Goto, Pcs, env, platform, history
<1>2. ASSUME NEW w \in Workers, Terminate(t, w)
      PROVE  TypeOK'
  <2>1. 1 \in Codes
    BY ThreadsAssumption
  <2> QED
    BY <1>2, <2>1, ExitTypeOK DEF Terminate, TypeOK, tree, platform
<1>3. ASSUME NEW code \in Codes, ProcessExit(t, code)
      PROVE  TypeOK'
  BY <1>3, ExitTypeOK DEF ProcessExit, TypeOK, tree, platform
<1>4. CASE ProcessExitMain
  BY <1>4, GotoTypeOK DEF ProcessExitMain, Pcs, Threads
<1>5. CASE PostWorkerTask(t)
  <2>1. queue' \in Seq(Threads) /\ Len(queue') = Len(queue) + 1
        /\ Len(queue) \in Nat
    BY <1>5, AppendProperties, LenProperties DEF PostWorkerTask, TypeOK
  <2>2. /\ outstanding = Len(queue) + Cardinality(Busy(running))
        /\ running' = running /\ outstanding' = outstanding + 1
    BY <1>5 DEF PostWorkerTask, TypeOK, Busy
  <2>3. outstanding' = Len(queue') + Cardinality(Busy(running'))
    BY <2>1, <2>2, BusyIsFinite
  <2>4. posted' \in 0 .. MaxTasks
    BY <1>5, ThreadsAssumption DEF PostWorkerTask, TypeOK
  <2> QED
    BY <1>5, <2>1, <2>3, <2>4 DEF PostWorkerTask, TypeOK, Busy, worker, env,
       tree, history
<1>6. CASE PollCallback(t) \/ PollEnds(t)
  BY <1>6, GotoTypeOK DEF PollCallback, PollEnds, AfterLoop, Pcs, CodePcs
<1>7. CASE CodeReturns(t)
  <2>1. PICK place \in AfterCode(t) : Goto(t, place)
    BY <1>7 DEF CodeReturns
  <2>2. place \in Pcs
    BY <1>7, <2>1 DEF CodeReturns, CodeRuns, CodePcs, AfterCode, Pcs
  <2> QED
    BY <1>7, <2>1, <2>2, GotoTypeOK DEF CodeReturns
<1> QED
  BY <1>1, <1>2, <1>3, <1>4, <1>5, <1>6, <1>7 DEF Program

(* What the platform does to its queue and its count. *)
LEMMA ForegroundTypeOK ==
  ASSUME TypeOK, NEW t \in Threads, RunForeground(t),
         UNCHANGED <<pc, worker, env, tree, isolate, running, down, history>>
  PROVE  TypeOK'
<1>1. PICK n \in 0 .. foreground[t] :
        /\ posted + n <= MaxTasks
        /\ posted' = posted + n
        /\ outstanding' = outstanding + n
        /\ queue' = queue \o [i \in 1 .. n |-> t]
  BY DEF RunForeground
<1>2. n \in Nat /\ queue \in Seq(Threads) /\ Len(queue) \in Nat
  BY LenProperties DEF TypeOK
<1>3. queue' \in Seq(Threads) /\ Len(queue') = Len(queue) + n
  BY <1>1, <1>2, TasksAppended
<1>4. outstanding' = Len(queue') + Cardinality(Busy(running'))
  <2>1. /\ outstanding = Len(queue) + Cardinality(Busy(running))
        /\ running' = running
    BY DEF TypeOK, Busy
  <2> QED
    BY <1>1, <1>2, <1>3, <2>1, BusyIsFinite
<1>5. posted' \in 0 .. MaxTasks
      /\ foreground' \in [Threads -> 0 .. MaxTasks]
  BY <1>1, <1>2, ThreadsAssumption DEF RunForeground, TypeOK
<1> QED
  BY <1>3, <1>4, <1>5 DEF TypeOK, Busy, worker, env, tree, history

LEMMA RunTypeOK ==
  ASSUME TypeOK, Life, Family, NEW t \in Threads, Run(t)
  PROVE  TypeOK'
<1>1. CASE CreateEnvironment(t)
  BY <1>1 DEF CreateEnvironment, TypeOK, Goto, Pcs, worker, tree, history
<1>2. CASE Publish(t)
  <2>1. t \in Workers /\ stopped[t] \in BOOLEAN
    BY <1>2 DEF Publish, Life, NotYet, Threads, TypeOK
  <2>2. published' \in [Workers -> BOOLEAN]
    BY <1>2, <2>1 DEF Publish, TypeOK
  <2>3. pc' \in [Threads -> Pcs]
    BY <1>2, <2>1 DEF Publish, TypeOK, Goto, Pcs, CodePcs
  <2> QED
    BY <1>2, <2>2, <2>3 DEF Publish, TypeOK, env, tree, platform, history
<1>3. CASE EnterLoop(t) \/ Finish(t) \/ DrainEnds(t)
  BY <1>3, GotoTypeOK DEF EnterLoop, Finish, DrainEnds, AfterDrain, Pcs,
     CodePcs
<1>4. CASE PollStopped(t)
  BY <1>4 DEF PollStopped, AfterLoop, TypeOK, Goto, Pcs, worker, tree,
     platform, history
<1>5. CASE FlushTasks(t) \/ DrainContinues(t)
  BY <1>5, ForegroundTypeOK DEF FlushTasks, DrainContinues
<1>6. ASSUME NEW w \in Workers, PollFinished(t, w)
      PROVE  TypeOK'
  BY <1>6 DEF PollFinished, TypeOK, Goto, Pcs, worker, env, platform, history
<1>7. CASE JoinThread(t)
  <2> DEFINE w == target[t]
  <2>1. w \in Workers
    BY <1>7 DEF JoinThread, Family, Joining
  <2>2. events' \in [Workers -> Seq(Codes)]
    BY <1>7, <2>1 DEF JoinThread, TypeOK
  <2>3. pc' \in [Threads -> Pcs]
    BY <1>7 DEF JoinThread, TypeOK, Goto, Pcs, CodePcs
  <2> QED
    BY <1>7, <2>1, <2>2, <2>3 DEF JoinThread, TypeOK, env, platform
<1>8. CASE Record(t)
  <2>1. exitCode' \in [Workers -> Codes]
    <3>1. CASE t = Main \/ exitCode[t] # 0
      BY <1>8, <3>1 DEF Record, TypeOK
    <3>2. CASE ~ (t = Main \/ exitCode[t] # 0)
      <4>1. PICK code \in Natural(t) : exitCode' = [exitCode EXCEPT ![t] = code]
        BY <1>8, <3>2 DEF Record
      <4>2. code \in Codes
        BY ThreadsAssumption DEF Natural
      <4> QED
        BY <4>1, <4>2 DEF TypeOK
    <3> QED
      BY <3>1, <3>2
  <2> QED
    BY <1>8, <2>1 DEF Record, TypeOK, Goto, Pcs, env, tree, platform, history
<1>9. CASE Close(t)
  BY <1>9 DEF Close, TypeOK, Goto, Pcs, Threads, tree, platform, history
<1>10. ASSUME NEW w \in Workers, StopSub(t, w)
       PROVE  TypeOK'
  <2>1. 1 \in Codes
    BY ThreadsAssumption
  <2> QED
    BY <1>10, <2>1, ExitTypeOK DEF StopSub, TypeOK, Goto, Pcs, platform
<1>11. CASE RunCleanup(t)
  BY <1>11 DEF RunCleanup, TypeOK, Goto, Pcs, worker, tree, platform, history
<1>12. CASE EndThread(t)
  BY <1>12 DEF EndThread, TypeOK, Goto, Pcs, env, tree, history
<1>13. CASE t = Main /\ (ExitAtOnce \/ ProcessEnds)
  BY <1>13, GotoTypeOK DEF ExitAtOnce, ProcessEnds, Pcs
<1>14. CASE DisposePlatform
  BY <1>14 DEF DisposePlatform, TypeOK, worker, env, tree, history
<1> QED
  BY <1>1, <1>2, <1>3, <1>4, <1>5, <1>6, <1>7, <1>8, <1>9, <1>10, <1>11,
     <1>12, <1>13, <1>14 DEF Run

LEMMA RunnerTypeOK ==
  ASSUME TypeOK, TasksBounded, NEW r \in Runners,
         TakeTask(r) \/ CompleteTask(r)
  PROVE  TypeOK'
<1>1. /\ queue \in Seq(Threads) /\ Len(queue) \in Nat
      /\ running \in [Runners -> Threads \cup {None}]
      /\ outstanding = Len(queue) + Cardinality(Busy(running))
      /\ Cardinality(Busy(running)) \in Nat
  BY LenProperties, BusyIsFinite DEF TypeOK, Busy
<1>2. CASE TakeTask(r)
  <2>1. /\ running' = [running EXCEPT ![r] = Head(queue)]
        /\ running[r] = None /\ queue # <<>>
        /\ queue' = Tail(queue) /\ outstanding' = outstanding
    BY <1>2 DEF TakeTask
  <2>2. /\ Head(queue) \in Threads /\ queue' \in Seq(Threads)
        /\ Len(queue') = Len(queue) - 1
    BY <1>1, <2>1, HeadTailProperties
  <2>3. Cardinality(Busy(running')) = Cardinality(Busy(running)) + 1
    BY <1>1, <2>1, <2>2, BusyMore
  <2>4. outstanding' = Len(queue') + Cardinality(Busy(running'))
    BY <1>1, <2>1, <2>2, <2>3
  <2>5. running' \in [Runners -> Threads \cup {None}]
    BY <1>1, <2>1, <2>2
  <2> QED
    BY <1>2, <2>2, <2>4, <2>5 DEF TakeTask, TypeOK, Busy, worker, env, tree,
       history
<1>3. CASE CompleteTask(r)
  <2>1. /\ running' = [running EXCEPT ![r] = None]
        /\ running[r] \in Threads /\ running[r] # None
        /\ queue' = queue /\ outstanding' = outstanding - 1
    BY <1>1, <1>3 DEF CompleteTask
  <2>2. Cardinality(Busy(running')) = Cardinality(Busy(running)) - 1
    BY <1>1, <2>1, BusyLess
  <2>3. outstanding' = Len(queue') + Cardinality(Busy(running'))
    BY <1>1, <2>1, <2>2
  <2>4. running' \in [Runners -> Threads \cup {None}]
    BY <1>1, <2>1
  <2>5. foreground' \in [Threads -> 0 .. MaxTasks]
    <3>1. /\ foreground \in [Threads -> 0 .. MaxTasks]
          /\ posted \in 0 .. MaxTasks /\ MaxTasks \in Nat
      BY ThreadsAssumption DEF TypeOK
    <3>2. outstanding \in Nat /\ outstanding >= 1
      <4>1. Cardinality(Busy(running')) \in Nat
        BY BusyIsFinite
      <4> QED
        BY <1>1, <2>2, <4>1
    <3>3. foreground[running[r]] + 1 \in 0 .. MaxTasks
      BY <2>1, <3>1, <3>2 DEF TasksBounded
    <3> QED
      BY <1>3, <2>1, <3>1, <3>3 DEF CompleteTask
  <2> QED
    BY <1>3, <2>1, <2>3, <2>4, <2>5 DEF CompleteTask, TypeOK, Busy, worker,
       env, tree, history
<1> QED
  BY <1>2, <1>3


LEMMA NextTypeOK ==
  ASSUME TypeOK, Life, Family, TasksBounded, [Next]_vars
  PROVE  TypeOK'
<1>1. CASE UNCHANGED vars
  BY <1>1 DEF vars, TypeOK, worker, env, tree, platform, history
<1> QED
  BY <1>1, ProgramTypeOK, RunTypeOK, RunnerTypeOK DEF Next
-----------------------------------------------------------------------------
(* The bound on the tasks *)

LEMMA NextTasksBounded ==
  ASSUME TypeOK, TasksBounded, [Next]_vars
  PROVE  TasksBounded'
<1>1. /\ foreground \in [Threads -> Nat] /\ posted \in Nat
      /\ outstanding \in Nat
  <2>1. foreground \in [Threads -> 0 .. MaxTasks] /\ MaxTasks \in Nat
    BY ThreadsAssumption DEF TypeOK
  <2>2. Len(queue) \in Nat /\ Cardinality(Busy(running)) \in Nat
    BY LenProperties, BusyIsFinite DEF TypeOK
  <2>3. outstanding = Len(queue) + Cardinality(Busy(running))
    BY DEF TypeOK, Busy
  <2> QED
    BY <2>1, <2>2, <2>3 DEF TypeOK
<1>2. ASSUME UNCHANGED <<foreground, outstanding, posted>>
      PROVE  TasksBounded'
  BY <1>2 DEF TasksBounded
<1>3. ASSUME NEW t \in Threads, PostWorkerTask(t)
      PROVE  TasksBounded'
  BY <1>1, <1>3 DEF PostWorkerTask, TasksBounded
<1>4. ASSUME NEW t \in Threads, RunForeground(t)
      PROVE  TasksBounded'
  <2>1. PICK n \in 0 .. foreground[t] :
          /\ posted' = posted + n
          /\ outstanding' = outstanding + n
    BY <1>4 DEF RunForeground
  <2>2. n \in Nat
    BY <1>1
  <2>3. foreground' = [foreground EXCEPT ![t] = 0]
    BY <1>4 DEF RunForeground
  <2> QED
    BY <1>1, <2>1, <2>2, <2>3 DEF TasksBounded
<1>5. ASSUME NEW r \in Runners, CompleteTask(r)
      PROVE  TasksBounded'
  <2>1. /\ outstanding' = outstanding - 1 /\ posted' = posted
        /\ \/ foreground' = foreground
           \/ foreground' = [foreground EXCEPT ![running[r]] = @ + 1]
    BY <1>5 DEF CompleteTask
  <2> QED
    BY <1>1, <2>1 DEF TasksBounded
<1>6. ASSUME NEW t \in Threads, Run(t) PROVE TasksBounded'
  BY <1>2, <1>4, <1>6 DEF Run, CreateEnvironment, Publish, EnterLoop,
     PollStopped, FlushTasks, PollFinished, JoinThread, Finish, Record, Close,
     StopSub, RunCleanup, EndThread, DrainContinues, DrainEnds, ExitAtOnce,
     DisposePlatform, ProcessEnds, platform
<1>7. ASSUME NEW t \in Threads, Program(t) \/ CodeReturns(t)
      PROVE  TasksBounded'
  BY <1>2, <1>3, <1>7 DEF Program, CodeReturns, StartThread, Terminate,
     ProcessExit, ProcessExitMain, PollCallback, PollEnds, platform
<1>8. ASSUME NEW r \in Runners, TakeTask(r) PROVE TasksBounded'
  BY <1>2, <1>8 DEF TakeTask
<1> QED
  BY <1>2, <1>5, <1>6, <1>7, <1>8 DEF Next, vars, platform

-----------------------------------------------------------------------------
(* The life of a worker *)

(* Exit stops a worker and starts none, whichever worker it is.            *)
LEMMA ExitStops ==
  ASSUME TypeOK, NEW w \in Workers, NEW code \in Codes, Exit(w, code),
         UnchangedByExit
  PROVE  /\ \A v \in Workers : stopped[v] => stopped'[v]
         /\ \A v \in Workers : ~ js[v] => ~ js'[v]
         /\ UNCHANGED <<published, stopper, joined, finished, events>>
<1>1. CASE published[w]
  BY <1>1 DEF Exit, UnchangedByExit, TypeOK, Threads
<1>2. CASE ~ published[w]
  BY <1>2 DEF Exit, UnchangedByExit, TypeOK, Threads
<1> QED
  BY <1>1, <1>2

LEMMA RunLife ==
  ASSUME TypeOK, Life, Family, NEW t \in Threads, Run(t)
  PROVE  Life'
<1> USE DEF Life, NotYet, Over, Goto, Threads
<1>1. CASE CreateEnvironment(t)
  BY <1>1, ThreadsAssumption DEF CreateEnvironment, IsStopped, TypeOK, worker
<1>2. CASE Publish(t)
  BY <1>2, ThreadsAssumption DEF Publish, TypeOK, env
<1>3. CASE EnterLoop(t) \/ Finish(t) \/ PollStopped(t)
  BY <1>3, ThreadsAssumption DEF EnterLoop, Finish, PollStopped, AfterLoop,
     TypeOK, worker, env
<1>4. CASE DrainEnds(t)
  BY <1>4, ThreadsAssumption DEF DrainEnds, AfterDrain, TypeOK, worker, env
<1>5. CASE FlushTasks(t) \/ DrainContinues(t) \/ (t = Main /\ DisposePlatform)
  BY <1>5 DEF FlushTasks, DrainContinues, DisposePlatform, worker, env
<1>6. ASSUME NEW w \in Workers, PollFinished(t, w)
      PROVE  Life'
  BY <1>6, ThreadsAssumption DEF PollFinished, TypeOK, worker, env
<1>7. CASE JoinThread(t)
  BY <1>7, ThreadsAssumption DEF JoinThread, CanCall, TypeOK, env
<1>8. CASE Record(t)
  BY <1>8, ThreadsAssumption DEF Record, TypeOK, env
<1>9. CASE Close(t)
  BY <1>9, ThreadsAssumption DEF Close, TypeOK
<1>10. ASSUME NEW w \in Workers, StopSub(t, w)
       PROVE  Life'
  <2>1. /\ pc[t] = "stopSubs" /\ pc' = [pc EXCEPT ![t] = "joinStop"]
        /\ Exit(w, 1) /\ UnchangedByExit /\ 1 \in Codes
    BY <1>10, ThreadsAssumption DEF StopSub
  <2>2. /\ \A v \in Workers : stopped[v] => stopped'[v]
        /\ \A v \in Workers : ~ js[v] => ~ js'[v]
        /\ UNCHANGED <<published, stopper>>
    BY <2>1, ExitStops
  <2> QED
    BY <2>1, <2>2, ThreadsAssumption DEF TypeOK
<1>11. CASE RunCleanup(t)
  BY <1>11, ThreadsAssumption DEF RunCleanup, TypeOK, worker
<1>12. CASE EndThread(t)
  BY <1>12, ThreadsAssumption DEF EndThread, TypeOK, env
<1>13. CASE t = Main /\ (ExitAtOnce \/ ProcessEnds)
  BY <1>13, ThreadsAssumption DEF ExitAtOnce, ProcessEnds, TypeOK, worker, env
<1> HIDE DEF Life, NotYet, Over, Goto, Threads
<1> QED
  BY <1>1, <1>2, <1>3, <1>4, <1>5, <1>6, <1>7, <1>8, <1>9, <1>10, <1>11,
     <1>12, <1>13 DEF Run

LEMMA ProgramLife ==
  ASSUME TypeOK, Life, NEW t \in Threads, Program(t) \/ CodeReturns(t)
  PROVE  Life'
<1> USE DEF Life, NotYet, Over, Goto, Threads, CodeRuns, CodePcs
<1>1. ASSUME NEW w \in Workers, StartThread(t, w)
      PROVE  Life'
  BY <1>1, ThreadsAssumption DEF StartThread, TypeOK, env
<1>2. ASSUME NEW w \in Workers, Terminate(t, w)
      PROVE  Life'
  <2>1. \E v \in Workers, c \in Codes : Exit(v, c) /\ UnchangedByExit
    BY <1>2, ThreadsAssumption DEF Terminate
  <2>2. /\ \A v \in Workers : stopped[v] => stopped'[v]
        /\ \A v \in Workers : ~ js[v] => ~ js'[v]
        /\ UNCHANGED <<published, stopper>>
    BY <2>1, ExitStops
  <2>3. pc' = pc
    BY <1>2 DEF Terminate
  <2> QED
    BY <2>2, <2>3
<1>3. ASSUME NEW code \in Codes, ProcessExit(t, code)
      PROVE  Life'
  <2>1. \E v \in Workers, c \in Codes : Exit(v, c) /\ UnchangedByExit
    BY <1>3, ThreadsAssumption DEF ProcessExit
  <2>2. /\ \A v \in Workers : stopped[v] => stopped'[v]
        /\ \A v \in Workers : ~ js[v] => ~ js'[v]
        /\ UNCHANGED <<published, stopper>>
    BY <2>1, ExitStops
  <2>3. pc' = pc
    BY <1>3 DEF ProcessExit
  <2> QED
    BY <2>2, <2>3
<1>4. CASE t = Main /\ ProcessExitMain
  BY <1>4, ThreadsAssumption DEF ProcessExitMain, TypeOK, worker, env
<1>5. CASE PostWorkerTask(t)
  BY <1>5 DEF PostWorkerTask, worker, env
<1>6. CASE PollCallback(t) \/ PollEnds(t)
  BY <1>6, ThreadsAssumption DEF PollCallback, PollEnds, AfterLoop, TypeOK,
     worker, env
<1>7. CASE CodeReturns(t)
  <2>1. PICK place \in AfterCode(t) : Goto(t, place)
    BY <1>7 DEF CodeReturns
  <2>2. /\ place \in {"loop", "poll", "finish", "record", "stopSubs"}
        /\ place = "stopSubs" => pc[t] = "listener"
    BY <1>7, <2>1 DEF CodeReturns, AfterCode
  <2> QED
    BY <1>7, <2>1, <2>2, ThreadsAssumption DEF CodeReturns, TypeOK, worker, env
<1> QED
  BY <1>1, <1>2, <1>3, <1>4, <1>5, <1>6, <1>7 DEF Program

LEMMA NextLife ==
  ASSUME TypeOK, Life, Family, [Next]_vars
  PROVE  Life'
<1>1. CASE UNCHANGED vars
  BY <1>1 DEF vars, Life, worker, env
<1>2. ASSUME NEW r \in Runners, TakeTask(r) \/ CompleteTask(r)
      PROVE  Life'
  BY <1>2 DEF TakeTask, CompleteTask, Life, worker, env
<1> QED
  BY <1>1, <1>2, RunLife, ProgramLife DEF Next
-----------------------------------------------------------------------------
(* Parents and children *)

(* A step from one place to another of a thread whose environment lives.   *)
Idling == {"loop", "poll", "finish", "close", "exiting", "drain", "callback",
           "beforeExit"}

LEMMA IdlingFamily ==
  ASSUME TypeOK, Family, NEW t \in Threads, pc[t] \in Idling,
         \E place \in Idling : pc' = [pc EXCEPT ![t] = place],
         UNCHANGED <<joined, finished, subs, target, down>>
  PROVE  Family'
<1>1. PICK place \in Idling : pc' = [pc EXCEPT ![t] = place]
  OBVIOUS
<1>2. \A u \in Threads : pc'[u] = IF u = t THEN place ELSE pc[u]
  BY <1>1 DEF TypeOK
<1> QED
  BY <1>2, ThreadsAssumption DEF Family, Idling, NotYet, Joining, Gone, Threads

LEMMA RunFamily ==
  ASSUME TypeOK, Life, Family, NEW t \in Threads, Run(t)
  PROVE  Family'
<1> USE DEF Family, NotYet, Joining, Gone, Goto, Threads
<1>1. CASE CreateEnvironment(t)
  <2>1. PICK place \in {"dispose", "publish"} : pc' = [pc EXCEPT ![t] = place]
    BY <1>1 DEF CreateEnvironment
  <2>2. pc[t] = "start" /\ t # Main
        /\ UNCHANGED <<joined, finished, subs, target, down>>
    BY <1>1 DEF CreateEnvironment, Life, worker, tree
  <2>3. subs[t] = {}
    BY <2>2, ThreadsAssumption DEF TypeOK
  <2>4. \A w \in Workers : Parent[w] = t => pc[w] = "unborn"
    BY <2>2
  <2>5. \A u \in Threads : pc'[u] = IF u = t THEN place ELSE pc[u]
    BY <2>1 DEF TypeOK
  <2>6. \A w \in Workers :
           /\ pc'[w] = "unborn" => joined[w] /\ finished[w] = "none"
           /\ pc'[Parent[w]] \in NotYet => pc'[w] = "unborn"
           /\ joined[w] => pc'[w] \in {"unborn", "done"}
           /\ finished[w] = "sent" => pc'[w] = "done"
    BY <2>2, <2>4, <2>5, ThreadsAssumption
  <2>7. \A w \in Workers :
           ~ joined[w] => \/ w \in subs[Parent[w]]
                          \/ /\ target[Parent[w]] = w
                             /\ pc'[Parent[w]] \in Joining
    BY <2>2, <2>5, ThreadsAssumption
  <2> QED
    BY <2>2, <2>3, <2>5, <2>6, <2>7
<1>2. CASE Publish(t)
  BY <1>2, ThreadsAssumption DEF Publish, TypeOK, Life, tree, platform
<1>3. CASE EnterLoop(t) \/ Finish(t) \/ PollStopped(t)
  <2>1. /\ pc[t] \in Idling
        /\ \E place \in Idling : pc' = [pc EXCEPT ![t] = place]
        /\ UNCHANGED <<joined, finished, subs, target, down>>
    BY <1>3 DEF EnterLoop, Finish, PollStopped, AfterLoop, Idling, worker,
       tree, platform
  <2> QED
    BY <2>1, IdlingFamily
<1>4. CASE DrainEnds(t)
  <2>1. /\ pc[t] \in {"drain", "lastDrain"}
        /\ UNCHANGED <<joined, finished, subs, target, down>>
    BY <1>4 DEF DrainEnds, worker, tree, platform
  <2>2. CASE pc[t] = "drain"
    <3>1. \E place \in Idling : pc' = [pc EXCEPT ![t] = place]
      BY <1>4, <2>2 DEF DrainEnds, AfterDrain, Idling
    <3>2. pc[t] \in Idling
      BY <2>2 DEF Idling
    <3> QED
      BY <2>1, <3>1, <3>2, IdlingFamily
  <2>3. CASE pc[t] # "drain"
    <3>1. PICK place \in {"exit", "dispose"} :
            /\ pc' = [pc EXCEPT ![t] = place]
            /\ place = "exit" <=> t = Main
      BY <1>4, <2>1, <2>3 DEF DrainEnds, AfterDrain
    <3>2. \A u \in Threads : pc'[u] = IF u = t THEN place ELSE pc[u]
      BY <3>1 DEF TypeOK
    <3>3. pc[t] = "lastDrain"
      BY <2>1, <2>3
    <3> QED
      BY <2>1, <3>1, <3>2, <3>3, ThreadsAssumption
  <2> QED
    BY <2>2, <2>3
<1>5. CASE FlushTasks(t) \/ DrainContinues(t)
  BY <1>5 DEF FlushTasks, DrainContinues, worker, tree
<1>6. ASSUME NEW w \in Workers, PollFinished(t, w)
      PROVE  Family'
  BY <1>6, ThreadsAssumption DEF PollFinished, TypeOK, worker, platform
<1>7. CASE JoinThread(t)
  BY <1>7, ThreadsAssumption DEF JoinThread, TypeOK, platform
<1>8. CASE Record(t)
  BY <1>8, ThreadsAssumption DEF Record, TypeOK, tree, platform
<1>9. CASE Close(t)
  BY <1>9, ThreadsAssumption DEF Close, TypeOK, tree, platform
<1>10. ASSUME NEW w \in Workers, StopSub(t, w)
       PROVE  Family'
  BY <1>10, ThreadsAssumption DEF StopSub, UnchangedByExit, TypeOK, platform
<1>11. CASE RunCleanup(t)
  BY <1>11, ThreadsAssumption DEF RunCleanup, TypeOK, worker, tree, platform
<1>12. CASE EndThread(t)
  BY <1>12, ThreadsAssumption DEF EndThread, TypeOK, Life, tree
<1>13. CASE t = Main /\ (ExitAtOnce \/ ProcessEnds)
  BY <1>13, ThreadsAssumption DEF ExitAtOnce, ProcessEnds, TypeOK, worker,
     tree, platform
<1>14. CASE t = Main /\ DisposePlatform
  BY <1>14 DEF DisposePlatform, worker, tree
<1> QED
  BY <1>1, <1>2, <1>3, <1>4, <1>5, <1>6, <1>7, <1>8, <1>9, <1>10, <1>11,
     <1>12, <1>13, <1>14 DEF Run

LEMMA ProgramFamily ==
  ASSUME TypeOK, Life, Family, NEW t \in Threads, Program(t) \/ CodeReturns(t)
  PROVE  Family'
<1> USE DEF Family, NotYet, Joining, Gone, Goto, Threads, CodeRuns, CodePcs
<1>1. ASSUME NEW w \in Workers, StartThread(t, w)
      PROVE  Family'
  BY <1>1, ThreadsAssumption DEF StartThread, TypeOK, platform
<1>2. ASSUME NEW w \in Workers, Terminate(t, w)
      PROVE  Family'
  BY <1>2 DEF Terminate, UnchangedByExit, tree, platform
<1>3. ASSUME NEW code \in Codes, ProcessExit(t, code)
      PROVE  Family'
  BY <1>3 DEF ProcessExit, UnchangedByExit, tree, platform
<1>4. CASE t = Main /\ ProcessExitMain
  BY <1>4, ThreadsAssumption DEF ProcessExitMain, TypeOK, worker, tree,
     platform
<1>5. CASE PostWorkerTask(t)
  BY <1>5 DEF PostWorkerTask, worker, tree
<1>6. CASE PollCallback(t) \/ PollEnds(t)
  <2>1. /\ pc[t] \in Idling
        /\ \E place \in Idling : pc' = [pc EXCEPT ![t] = place]
        /\ UNCHANGED <<joined, finished, subs, target, down>>
    BY <1>6 DEF PollCallback, PollEnds, AfterLoop, Idling, worker, tree,
       platform
  <2> QED
    BY <2>1, IdlingFamily
<1>7. CASE CodeReturns(t)
  <2>1. PICK place \in AfterCode(t) : Goto(t, place)
    BY <1>7 DEF CodeReturns
  <2>2. place \in {"loop", "poll", "finish", "record", "stopSubs"}
    BY <1>7, <2>1 DEF CodeReturns, AfterCode
  <2> QED
    BY <1>7, <2>1, <2>2, ThreadsAssumption DEF CodeReturns, TypeOK, worker,
       tree, platform
<1> QED
  BY <1>1, <1>2, <1>3, <1>4, <1>5, <1>6, <1>7 DEF Program

LEMMA NextFamily ==
  ASSUME TypeOK, Life, Family, [Next]_vars
  PROVE  Family'
<1>1. CASE UNCHANGED vars
  BY <1>1 DEF vars, Family, worker, tree, platform
<1>2. ASSUME NEW r \in Runners, TakeTask(r) \/ CompleteTask(r)
      PROVE  Family'
  BY <1>2 DEF TakeTask, CompleteTask, Family, worker, tree
<1> QED
  BY <1>1, <1>2, RunFamily, ProgramFamily DEF Next

-----------------------------------------------------------------------------
(* The tasks of an isolate *)

(* A thread that has no task gets none but by its own program.             *)
LEMMA NoNewTask ==
  ASSUME TypeOK, NEW w \in Workers, HasNoTask(w),
         UNCHANGED <<foreground, queue, running>>
  PROVE  HasNoTask(w)'
BY DEF HasNoTask

LEMMA ForegroundKeepsNone ==
  ASSUME TypeOK, NEW w \in Workers, HasNoTask(w), NEW t \in Threads,
         RunForeground(t), UNCHANGED running
  PROVE  HasNoTask(w)'
<1>1. PICK n \in 0 .. foreground[t] : queue' = queue \o [i \in 1 .. n |-> t]
  BY DEF RunForeground
<1>2. n \in Nat /\ t # w /\ foreground' = [foreground EXCEPT ![t] = 0]
  BY DEF RunForeground, TypeOK, HasNoTask
<1>3. \A i \in DOMAIN queue' : queue'[i] = t \/ \E j \in DOMAIN queue :
                                                  queue[j] = queue'[i]
  BY <1>1, <1>2, TasksAppended DEF TypeOK
<1> QED
  BY <1>2, <1>3 DEF HasNoTask, TypeOK, Threads

LEMMA PostKeepsNone ==
  ASSUME TypeOK, NEW w \in Workers, HasNoTask(w), NEW t \in Threads, t # w,
         PostWorkerTask(t)
  PROVE  HasNoTask(w)'
<1>1. /\ queue \in Seq(Threads) /\ Len(queue) \in Nat
      /\ queue' = Append(queue, t) /\ UNCHANGED <<foreground, running>>
  BY LenProperties DEF TypeOK, PostWorkerTask
<1>2. /\ queue' \in Seq(Threads) /\ Len(queue') = Len(queue) + 1
      /\ \A i \in 1 .. Len(queue) : queue'[i] = queue[i]
      /\ queue'[Len(queue) + 1] = t
  BY <1>1, AppendProperties
<1>3. DOMAIN queue = 1 .. Len(queue) /\ DOMAIN queue' = 1 .. Len(queue')
  BY <1>1, <1>2, LenProperties
<1>4. \A i \in DOMAIN queue' : queue'[i] # w
  BY <1>1, <1>2, <1>3 DEF HasNoTask
<1> QED
  BY <1>1, <1>4 DEF HasNoTask

LEMMA RunnerKeepsNone ==
  ASSUME TypeOK, NEW w \in Workers, HasNoTask(w), NEW r \in Runners,
         TakeTask(r) \/ CompleteTask(r)
  PROVE  HasNoTask(w)'
<1>1. queue \in Seq(Threads) /\ Len(queue) \in Nat
      /\ DOMAIN queue = 1 .. Len(queue)
  BY LenProperties DEF TypeOK
<1>2. CASE TakeTask(r)
  <2>1. queue # <<>> /\ queue' = Tail(queue)
        /\ running' = [running EXCEPT ![r] = Head(queue)]
        /\ UNCHANGED foreground
    BY <1>2 DEF TakeTask
  <2>2. /\ queue' \in Seq(Threads) /\ Len(queue') = Len(queue) - 1
        /\ \A i \in 1 .. Len(queue') : queue'[i] = queue[i + 1]
    BY <1>1, <2>1, HeadTailProperties
  <2>3. DOMAIN queue' = 1 .. Len(queue')
    BY <2>2, LenProperties
  <2>4. Head(queue) = queue[1] /\ 1 \in DOMAIN queue
    <3>1. Len(queue) \in Nat \ {0}
      BY <1>1, <2>1, EmptySeq
    <3> QED
      BY <1>1, <3>1
  <2>5. Head(queue) # w
    BY <2>4 DEF HasNoTask
  <2>6. \A i \in DOMAIN queue' : i + 1 \in DOMAIN queue
    BY <1>1, <2>2, <2>3
  <2>7. \A i \in DOMAIN queue' : queue'[i] # w
    BY <2>2, <2>3, <2>6 DEF HasNoTask
  <2>8. \A u \in Runners : running'[u] # w
    BY <2>1, <2>5 DEF HasNoTask, TypeOK
  <2> QED
    BY <2>1, <2>7, <2>8 DEF HasNoTask
<1>3. CASE CompleteTask(r)
  <2>1. /\ running[r] # None /\ running[r] # w
        /\ running' = [running EXCEPT ![r] = None]
        /\ UNCHANGED queue
        /\ \/ UNCHANGED foreground
           \/ foreground' = [foreground EXCEPT ![running[r]] = @ + 1]
    BY <1>3 DEF CompleteTask, HasNoTask
  <2>2. foreground'[w] = foreground[w]
    BY <2>1 DEF TypeOK, Threads
  <2>3. \A u \in Runners : running'[u] # w
    BY <2>1, ThreadsAssumption DEF HasNoTask, TypeOK, Threads
  <2> QED
    BY <2>1, <2>2, <2>3 DEF HasNoTask
<1> QED
  BY <1>2, <1>3

(* A drain finds the platform without a task, and so without one of w.     *)
LEMMA DrainedHasNone ==
  ASSUME TypeOK, NEW w \in Workers, outstanding = 0, foreground[w] = 0
  PROVE  HasNoTask(w)
<1>1. /\ outstanding = Len(queue) + Cardinality(Busy(running))
      /\ queue \in Seq(Threads)
  BY DEF TypeOK, Busy
<1>2. Len(queue) \in Nat /\ DOMAIN queue = 1 .. Len(queue)
      /\ Cardinality(Busy(running)) \in Nat /\ IsFiniteSet(Busy(running))
  BY <1>1, LenProperties, BusyIsFinite
<1>3. Len(queue) = 0 /\ Cardinality(Busy(running)) = 0
  BY <1>1, <1>2
<1>4. Busy(running) = {}
  BY <1>2, <1>3, FS_EmptySet
<1>5. \A r \in Runners : running[r] # w
  BY <1>4, ThreadsAssumption DEF Busy, Threads
<1> QED
  BY <1>2, <1>3, <1>5 DEF HasNoTask

Quiet == NotYet \cup {"dispose", "done"}

(* The steps of a thread other than posting, flushing and draining: what   *)
(* has a task had it before.                                               *)
LEMMA QuietTasks ==
  ASSUME TypeOK, Tasks, NEW t \in Threads, NEW place,
         pc' = [pc EXCEPT ![t] = place],
         t \in Workers /\ place \in Quiet => pc[t] \in Quiet,
         t \in Workers => pc[t] # "done" \/ place = "done",
         UNCHANGED <<foreground, queue, running>>,
         \A w \in Workers :
           isolate'[w] = "closed" => isolate[w] = "closed" \/ pc'[w] = "done"
  PROVE  Tasks'
BY DEF Tasks, Quiet, HasNoTask, TypeOK, Threads


LEMMA RunTasks ==
  ASSUME TypeOK, Life, Tasks, NEW t \in Threads, Run(t)
  PROVE  Tasks'
<1>1. ASSUME CreateEnvironment(t) \/ EndThread(t)
      PROVE  Tasks'
  <2>1. PICK place \in {"dispose", "publish", "done"} :
          /\ pc' = [pc EXCEPT ![t] = place]
          /\ pc[t] \in {"start", "dispose"}
          /\ place = "done" \/ isolate' = [isolate EXCEPT ![t] = "registered"]
          /\ place = "done" => isolate' = [isolate EXCEPT ![t] = "closed"]
          /\ UNCHANGED <<foreground, queue, running>>
    BY <1>1 DEF CreateEnvironment, EndThread, Goto
  <2>2. \A w \in Workers :
           isolate'[w] = "closed" => isolate[w] = "closed" \/ pc'[w] = "done"
    BY <2>1 DEF TypeOK, Threads
  <2> QED
    BY <2>1, <2>2, QuietTasks DEF Quiet, NotYet
<1>2. ASSUME Publish(t) \/ EnterLoop(t) \/ Finish(t) \/ PollStopped(t)
             \/ (\E w \in Workers : PollFinished(t, w))
             \/ JoinThread(t) \/ Record(t) \/ Close(t)
             \/ (\E w \in Workers : StopSub(t, w))
             \/ RunCleanup(t) \/ (t = Main /\ ExitAtOnce)
      PROVE  Tasks'
  <2>1. PICK place \in {"close", "script", "finish", "poll", "exiting",
                        "drain", "join", "callback", "listener", "stopSubs",
                        "joinStop", "lastDrain", "exit"} :
          /\ pc' = [pc EXCEPT ![t] = place]
          /\ pc[t] # "done"
          /\ UNCHANGED <<isolate, foreground, queue, running>>
    BY <1>2 DEF Publish, EnterLoop, Finish, PollStopped, PollFinished,
       JoinThread, Record, Close, StopSub, RunCleanup, ExitAtOnce, AfterLoop,
       Goto, platform
  <2> QED
    BY <2>1, QuietTasks DEF Quiet, NotYet
<1>3. ASSUME FlushTasks(t) \/ DrainContinues(t)
      PROVE  Tasks'
  BY <1>3, ForegroundKeepsNone DEF FlushTasks, DrainContinues, Tasks
<1>4. ASSUME DrainEnds(t)
      PROVE  Tasks'
  <2>1. /\ pc[t] \in {"drain", "lastDrain"}
        /\ outstanding = 0 /\ foreground[t] = 0
        /\ \E place \in AfterDrain(t) : pc' = [pc EXCEPT ![t] = place]
        /\ UNCHANGED <<isolate, foreground, queue, running>>
    BY <1>4 DEF DrainEnds, Goto, platform
  <2>2. \A w \in Workers : w # t => pc'[w] = pc[w]
    BY <2>1 DEF TypeOK, Threads
  <2>3. \A w \in Workers : w = t => HasNoTask(w) /\ isolate[w] # "closed"
    BY <2>1, DrainedHasNone DEF Tasks
  <2>4. \A w \in Workers : HasNoTask(w) => HasNoTask(w)'
    BY <2>1, NoNewTask
  <2> QED
    BY <2>1, <2>2, <2>3, <2>4 DEF Tasks
<1>5. ASSUME t = Main, DisposePlatform \/ ProcessEnds
      PROVE  Tasks'
  <2>1. \A w \in Workers : pc'[w] = pc[w]
    BY <1>5, ThreadsAssumption DEF DisposePlatform, ProcessEnds, Goto, TypeOK,
       Threads
  <2>2. UNCHANGED <<isolate, foreground, queue, running>>
    BY <1>5 DEF DisposePlatform, ProcessEnds, platform
  <2> QED
    BY <2>1, <2>2 DEF Tasks, HasNoTask
<1> QED
  BY <1>1, <1>2, <1>3, <1>4, <1>5 DEF Run

LEMMA ProgramTasks ==
  ASSUME TypeOK, Tasks, NEW t \in Threads, Program(t) \/ CodeReturns(t)
  PROVE  Tasks'
<1>1. ASSUME NEW w \in Workers, StartThread(t, w)
      PROVE  Tasks'
  BY <1>1, QuietTasks DEF StartThread, Goto, Quiet, NotYet, platform, Threads
<1>2. ASSUME NEW w \in Workers, NEW code \in Codes,
             Terminate(t, w) \/ ProcessExit(t, code)
      PROVE  Tasks'
  BY <1>2 DEF Terminate, ProcessExit, platform, Tasks, HasNoTask
<1>3. ASSUME PostWorkerTask(t)
      PROVE  Tasks'
  <2>1. UNCHANGED <<pc, isolate>> /\ pc[t] \notin Quiet
    BY <1>3 DEF PostWorkerTask, CodeRuns, CodePcs, Quiet, NotYet
  <2> QED
    BY <1>3, <2>1, PostKeepsNone DEF Tasks, Quiet
<1>4. ASSUME (ProcessExitMain /\ t = Main) \/ PollCallback(t) \/ PollEnds(t)
             \/ CodeReturns(t)
      PROVE  Tasks'
  <2>1. PICK place \in {"stopSubs", "callback", "finish", "drain", "loop",
                        "poll", "record"} :
          /\ pc' = [pc EXCEPT ![t] = place]
          /\ pc[t] # "done"
          /\ UNCHANGED <<isolate, foreground, queue, running>>
    BY <1>4 DEF ProcessExitMain, PollCallback, PollEnds, CodeReturns, CodeRuns,
       CodePcs, AfterCode, AfterLoop, Goto, platform
  <2> QED
    BY <2>1, QuietTasks DEF Quiet, NotYet
<1>5. 0 \in Codes
  BY ThreadsAssumption
<1> QED
  BY <1>1, <1>2, <1>3, <1>4, <1>5 DEF Program, ProcessExit

LEMMA NextTasks ==
  ASSUME TypeOK, Life, Tasks, [Next]_vars
  PROVE  Tasks'
<1>1. CASE UNCHANGED vars
  BY <1>1 DEF vars, platform, Tasks, HasNoTask
<1>2. ASSUME NEW r \in Runners, TakeTask(r) \/ CompleteTask(r)
      PROVE  Tasks'
  <2>1. UNCHANGED <<pc, isolate>>
    BY <1>2 DEF TakeTask, CompleteTask
  <2> QED
    BY <1>2, <2>1, RunnerKeepsNone DEF Tasks
<1> QED
  BY <1>1, <1>2, RunTasks, ProgramTasks DEF Next
-----------------------------------------------------------------------------
(* The code of a worker that exits *)

LEMMA ExitCodes ==
  ASSUME TypeOK, CodesAgree, NEW w \in Workers, NEW code \in Codes,
         pc[w] = "done" => ~ published[w],
         Exit(w, code), UnchangedByExit,
         \A v \in Workers : pc[v] = "done" => pc'[v] = "done"
  PROVE  CodesAgree'
<1>1. CASE published[w]
  <2>1. /\ exitCode' = [exitCode EXCEPT ![w] = code]
        /\ asked' = [asked EXCEPT ![w] = code]
        /\ UNCHANGED <<joined, events>>
    BY <1>1 DEF Exit, UnchangedByExit
  <2> QED
    BY <1>1, <2>1 DEF CodesAgree, TypeOK
<1>2. CASE ~ published[w]
  <2>1. UNCHANGED <<exitCode, asked, joined, events>>
    BY <1>2 DEF Exit, UnchangedByExit
  <2> QED
    BY <2>1 DEF CodesAgree
<1> QED
  BY <1>1, <1>2

Moves(u) == pc[u] # "done" /\ \E place : pc' = [pc EXCEPT ![u] = place]

(* A worker that is done stays so.                                         *)
LEMMA DoneIsStable ==
  ASSUME TypeOK, Life, Family, [Next]_vars
  PROVE  \A v \in Workers : pc[v] = "done" => pc'[v] = "done"
<1> SUFFICES ASSUME NEW v \in Workers, pc[v] = "done" PROVE pc'[v] = "done"
  OBVIOUS
<1>1. ASSUME UNCHANGED pc \/ \E u \in Threads : Moves(u)
      PROVE  pc'[v] = "done"
  BY <1>1 DEF Moves, TypeOK, Threads
<1>2. ASSUME NEW t \in Threads, Run(t)
      PROVE  UNCHANGED pc \/ Moves(t)
  BY <1>2 DEF Run, CreateEnvironment, Publish, EnterLoop, PollStopped,
     FlushTasks, PollFinished, JoinThread, Finish, Record, Close, StopSub,
     RunCleanup, EndThread, DrainContinues, DrainEnds, ExitAtOnce,
     DisposePlatform, ProcessEnds, Goto, Moves
<1>3. ASSUME NEW t \in Threads, Program(t) \/ CodeReturns(t)
      PROVE  UNCHANGED pc \/ \E u \in Threads : Moves(u)
  <2>1. ASSUME NEW w \in Workers, StartThread(t, w)
        PROVE  Moves(w)
    BY <2>1 DEF StartThread, Goto, Moves
  <2>2. CASE UNCHANGED pc
    BY <2>2
  <2>3. ASSUME \/ t = Main /\ ProcessExitMain
               \/ PollCallback(t) \/ PollEnds(t) \/ CodeReturns(t)
        PROVE  Moves(t)
    BY <2>3 DEF ProcessExitMain, PollCallback, PollEnds, CodeReturns, CodeRuns,
       CodePcs, Goto, Moves
  <2> QED
    BY <1>3, <2>1, <2>2, <2>3 DEF Program, Terminate, ProcessExit,
       PostWorkerTask, Threads
<1>4. ASSUME NEW r \in Runners, TakeTask(r) \/ CompleteTask(r)
      PROVE  UNCHANGED pc
  BY <1>4 DEF TakeTask, CompleteTask
<1> QED
  BY <1>1, <1>2, <1>3, <1>4 DEF Next, vars

LEMMA NextCodes ==
  ASSUME TypeOK, Life, Family, CodesAgree, [Next]_vars
  PROVE  CodesAgree'
<1>1. \A v \in Workers : pc[v] = "done" => pc'[v] = "done"
  BY DoneIsStable
<1>2. \A v \in Workers : pc[v] = "done" => ~ published[v]
  BY DEF Life, Over
<1>3. ASSUME UNCHANGED <<exitCode, asked, joined, events>>
      PROVE  CodesAgree'
  BY <1>1, <1>3 DEF CodesAgree
<1>4. ASSUME NEW w \in Workers, NEW code \in Codes, Exit(w, code),
             UnchangedByExit
      PROVE  CodesAgree'
  BY <1>1, <1>2, <1>4, ExitCodes
<1>5. ASSUME NEW t \in Threads, JoinThread(t)
      PROVE  CodesAgree'
  <2> DEFINE w == target[t]
  <2>1. /\ w \in Workers /\ ~ joined[w] /\ pc[w] = "done"
        /\ joined' = [joined EXCEPT ![w] = TRUE]
        /\ UNCHANGED <<exitCode, asked>>
        /\ events' = IF CanCall(t)
                     THEN [events EXCEPT ![w] = Append(@, exitCode[w])]
                     ELSE events
    BY <1>5 DEF JoinThread, Family, Joining
  <2>2. events[w] = <<>> /\ exitCode[w] \in Codes
    BY <2>1 DEF CodesAgree, TypeOK
  <2>3. Append(<<>>, exitCode[w]) = <<exitCode[w]>>
    BY <2>2
  <2>4. Len(<<exitCode[w]>>) = 1 /\ <<exitCode[w]>> # <<>>
    BY <2>2
  <2> HIDE DEF w
  <2>5. ASSUME NEW v \in Workers, v # w
        PROVE  joined'[v] = joined[v] /\ events'[v] = events[v]
    BY <2>1, <2>5 DEF TypeOK
  <2>6. joined'[w] /\ (events'[w] = <<>> \/ events'[w] = <<exitCode[w]>>)
    <3>1. joined'[w]
      BY <2>1, Zenon DEF TypeOK
    <3>2. \/ events' = events
          \/ events' = [events EXCEPT ![w] = Append(@, exitCode[w])]
      BY <2>1
    <3>3. [events EXCEPT ![w] = Append(@, exitCode[w])][w] = <<exitCode[w]>>
      BY <2>1, <2>2, <2>3 DEF TypeOK
    <3> QED
      BY <2>2, <3>1, <3>2, <3>3, Zenon
  <2>7. Len(events'[w]) <= 1 /\ pc'[w] = "done"
    <3>1. Len(<<>>) <= 1 /\ Len(<<exitCode[w]>>) <= 1
      BY <2>4
    <3>2. Len(events'[w]) <= 1
      BY <2>6, <3>1, Zenon
    <3> QED
      BY <1>1, <2>1, <3>2
  <2>8. \A v \in Workers : asked'[v] # None => exitCode'[v] = asked'[v]
    BY <2>1 DEF CodesAgree
  <2>9. \A v \in Workers :
          /\ Len(events'[v]) <= 1
          /\ events'[v] # <<>> =>
               /\ pc'[v] = "done" /\ joined'[v]
               /\ asked'[v] # None => events'[v] = <<asked'[v]>>
    <3> SUFFICES ASSUME NEW v \in Workers
                 PROVE  /\ Len(events'[v]) <= 1
                        /\ events'[v] # <<>> =>
                             /\ pc'[v] = "done" /\ joined'[v]
                             /\ asked'[v] # None => events'[v] = <<asked'[v]>>
      OBVIOUS
    <3>1. CASE v = w
      BY <2>1, <2>6, <2>7, <2>8, <3>1
    <3>2. CASE v # w
      BY <1>1, <2>1, <2>5, <3>2 DEF CodesAgree
    <3> QED
      BY <3>1, <3>2
  <2> QED
    BY <2>8, <2>9 DEF CodesAgree
<1>6. ASSUME NEW t \in Threads, Record(t)
      PROVE  CodesAgree'
  <2>1. UNCHANGED <<asked, joined, events>>
    BY <1>6 DEF Record, history
  <2>2. \A v \in Workers : asked[v] # None => exitCode'[v] = asked[v]
    <3>1. CASE t = Main \/ exitCode[t] # 0
      BY <1>6, <3>1 DEF Record, CodesAgree
    <3>2. CASE ~ (t = Main \/ exitCode[t] # 0)
      <4>1. PICK code \in Natural(t) : exitCode' = [exitCode EXCEPT ![t] = code]
        BY <1>6, <3>2 DEF Record
      <4>2. asked[t] # None => asked[t] = 0 /\ code = 0
        BY <3>2, <4>1 DEF Natural, CodesAgree, Threads
      <4> QED
        BY <3>2, <4>1, <4>2 DEF CodesAgree, TypeOK
    <3> QED
      BY <3>1, <3>2
  <2> QED
    BY <1>1, <2>1, <2>2 DEF CodesAgree
<1>7. ASSUME NEW t \in Threads, Run(t)
      PROVE  CodesAgree'
  <2>1. ASSUME NEW w \in Workers, StopSub(t, w)
        PROVE  CodesAgree'
    BY <1>4, <2>1, ThreadsAssumption DEF StopSub
  <2> QED
    BY <1>3, <1>5, <1>6, <1>7, <2>1 DEF Run, CreateEnvironment, Publish,
       EnterLoop, PollStopped, FlushTasks, PollFinished, Finish, Close,
       RunCleanup, EndThread, DrainContinues, DrainEnds, ExitAtOnce,
       DisposePlatform, ProcessEnds, worker, history
<1>8. ASSUME NEW t \in Threads, Program(t) \/ CodeReturns(t)
      PROVE  CodesAgree'
  <2>1. ASSUME NEW w \in Workers, StartThread(t, w)
        PROVE  CodesAgree'
    <3>1. /\ joined' = [joined EXCEPT ![w] = FALSE] /\ pc[w] = "unborn"
          /\ UNCHANGED <<exitCode, asked, events>>
      BY <2>1 DEF StartThread, history
    <3> QED
      BY <1>1, <3>1 DEF CodesAgree, TypeOK
  <2>2. ASSUME NEW w \in Workers, Terminate(t, w)
        PROVE  CodesAgree'
    BY <1>4, <2>2, ThreadsAssumption DEF Terminate
  <2>3. ASSUME NEW code \in Codes, ProcessExit(t, code)
        PROVE  CodesAgree'
    BY <1>4, <2>3 DEF ProcessExit
  <2> QED
    BY <1>3, <1>8, <2>1, <2>2, <2>3 DEF Program, CodeReturns, ProcessExitMain,
       PostWorkerTask, PollCallback, PollEnds, worker, history
<1>9. ASSUME NEW r \in Runners, TakeTask(r) \/ CompleteTask(r)
      PROVE  CodesAgree'
  BY <1>3, <1>9 DEF TakeTask, CompleteTask, worker, history
<1> QED
  BY <1>3, <1>7, <1>8, <1>9 DEF Next, vars, worker, history
-----------------------------------------------------------------------------
(* The theorems *)

LEMMA InitIInv == Init => IInv
<1> SUFFICES ASSUME Init PROVE IInv
  OBVIOUS
<1>1. TypeOK
  BY InitTypeOK
<1>2. Life
  BY ThreadsAssumption DEF Init, Life, NotYet, Over, Threads
<1>3. Family
  BY ThreadsAssumption DEF Init, Family, NotYet, Joining, Gone, Threads
<1>4. TasksBounded
  BY DEF Init, TasksBounded
<1>5. Tasks
  BY ThreadsAssumption DEF Init, Tasks, HasNoTask, Threads
<1>6. CodesAgree
  BY DEF Init, CodesAgree
<1> QED
  BY <1>1, <1>2, <1>3, <1>4, <1>5, <1>6 DEF IInv

LEMMA NextIInv == IInv /\ [Next]_vars => IInv'
BY NextTypeOK, NextLife, NextFamily, NextTasksBounded, NextTasks, NextCodes
   DEF IInv

(* Whoever finds env_ set finds an environment that can be stopped: for    *)
(* any tree of workers, in whatever order they start, stop and end.        *)
THEOREM ExitFindsAnEnvironment == Spec => []EnvironmentIsReachable
<1>1. IInv => EnvironmentIsReachable
  BY DEF IInv, Life, EnvironmentIsReachable
<1> QED
  BY <1>1, InitIInv, NextIInv, PTL DEF Spec

(* A worker that still ran when the platform is disposed of would have a   *)
(* parent that still runs, and so on: TreeAssumption refutes that.         *)
LEMMA FamilyHasNoOrphans == ASSUME IInv PROVE NoOrphans
<1> USE DEF IInv
<1>1. ASSUME NEW w \in Workers, pc[Parent[w]] \in Gone
      PROVE  /\ pc[w] \in {"unborn", "done"}
             /\ joined[w] /\ finished[w] \in {"none", "closed"}
  <2>1. Parent[w] \in Threads
    BY ThreadsAssumption
  <2>2. subs[Parent[w]] = {} /\ pc[Parent[w]] \notin Joining
    BY <1>1, <2>1 DEF Family, Gone, Joining
  <2>3. joined[w]
    BY <2>2 DEF Family
  <2> QED
    BY <2>3 DEF Family
<1>2. ASSUME NEW w \in Workers, joined[w] \/ finished[w] = "sent"
      PROVE  stopped[w] /\ ~ published[w]
  <2>1. pc[w] \in {"unborn", "done"}
    BY <1>2 DEF Family
  <2> QED
    BY <2>1 DEF Life, NotYet, Over
<1>3. ASSUME down
      PROVE  \A w \in Workers : pc[w] \in {"unborn", "done"}
  <2> DEFINE S == {w \in Workers : pc[w] \notin {"unborn", "done"}}
  <2> SUFFICES ASSUME S # {} PROVE FALSE
    OBVIOUS
  <2>1. PICK w \in S : Parent[w] \notin S
    BY TreeAssumption
  <2>2. w \in Workers /\ pc[w] \notin {"unborn", "done"}
        /\ Parent[w] \in Threads
    BY ThreadsAssumption
  <2>3. pc[Parent[w]] \notin Gone
    BY <1>1, <2>2
  <2>4. pc[Parent[w]] # "unborn"
    BY <2>2 DEF Family, NotYet
  <2>5. Parent[w] # Main
    BY <1>3, <2>3 DEF Family, Gone
  <2>6. Parent[w] \in S
    BY <2>2, <2>3, <2>4, <2>5 DEF Gone, Threads
  <2> QED
    BY <2>1, <2>6
<1> QED
  BY <1>1, <1>2, <1>3 DEF NoOrphans

(***************************************************************************)
(* All workers have ended when their parent's environment is cleaned up,   *)
(* and all of the tree when the platform is disposed of.                   *)
(***************************************************************************)
THEOREM ParentsEndLast == Spec => []NoOrphans
BY FamilyHasNoOrphans, InitIInv, NextIInv, PTL DEF Spec

(* The drain that precedes the end of an isolate leaves it no task.        *)
THEOREM IsolatesEndWithoutTasks == Spec => []NoTaskOutlivesItsIsolate
<1>1. IInv => NoTaskOutlivesItsIsolate
  BY DEF IInv, Tasks, HasNoTask, NoTaskOutlivesItsIsolate
<1> QED
  BY <1>1, InitIInv, NextIInv, PTL DEF Spec

(* The code of 'exit' is the one of the last request that was in time.     *)
THEOREM ExitCodeIsTheLastRequest == Spec => []ExitEventTellsLastRequest
<1>1. IInv => ExitEventTellsLastRequest
  BY DEF IInv, CodesAgree, ExitEventTellsLastRequest
<1> QED
  BY <1>1, InitIInv, NextIInv, PTL DEF Spec

(* The types, and that outstanding_tasks_ counts the tasks that are queued *)
(* and those that run.                                                     *)
THEOREM TypeCorrect == Spec => []TypeOK
<1>1. IInv => TypeOK
  BY DEF IInv
<1> QED
  BY <1>1, InitIInv, NextIInv, PTL DEF Spec

=============================================================================
