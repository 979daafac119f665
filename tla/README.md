# Verification of Graal.js and its Node: promise jobs, their recording and replay, and threads

The repository is Graal.js, a JavaScript engine in Java on Truffle, with Node
on top of it (`graal-nodejs`), and an addition of its own: `RecordAndReplay`
writes the order in which promise jobs are enqueued to a file
(`-Dtracing=true`) and makes a later run of the program follow it
(`-Dreplay=true`). The project models the part of the engine that this rests
on (promises, their jobs, the agent's queue and when it is processed) and the
recorder itself; async generators, which are built on it; and the parts of the
Node runtime where threads meet: thread-safe functions, message ports, and worker
threads with the platform that runs their tasks. Paths below are relative to
`graal-js/src/com.oracle.truffle.js/src/com/oracle/truffle/js/` unless they
start with `graal-nodejs/`.

## 1. Inventory

| Part | State it keeps | Operations | Who calls it |
|---|---|---|---|
| `runtime/RecordAndReplay` | `orderList` (what is left of the recording), the output stream | `serialize(job)`, `reorganizeJobQueue`, `reOrder`, `getIdentifier` | `JSAgent`; one instance per process |
| `runtime/JSAgent`, job queue | `promiseJobsQueue` (a deque) | `enqueuePromiseJob`, `processAllPromises` | promise nodes, Node, the interop boundary |
| `runtime/JSAgent`, boundary | `interopCallStackDepth` | `interopBoundaryEnter/Exit`, called from `lang/JavaScriptLanguage` | every call of the embedder or of host code |
| promises, `nodes/promise`, `runtime/builtins/JSPromise` | per promise: state, result, reactions, `isHandled`; per pair of resolving functions: `alreadyResolved`; per capability: its id, from a static counter | constructor, `NewPromiseCapability`, resolve and reject functions, `PerformPromiseThen`, `FulfillPromise`, `RejectPromise`, `PromiseReactionJob`, `PromiseResolveThenable` | the program, jobs, async functions |
| async functions, `nodes/control/Async*`, `Await*` | the suspended frame, the capability of the result | start of the body, `suspendAwait`, resumption, return, throw | the program, reaction jobs |
| rejection tracker, `runtime/PromiseRejectionTracker` | kept by the host: rejections nobody handled | `promiseRejected`, `promiseRejectionHandled` | `RejectPromise`, `PerformPromiseThen` |
| Node's embedding, `graal-nodejs/.../GraalJSAccess.java`, `node_task_queue.cc`, `api/callback.cc` | none of its own; uses the agent's queue | `functionCall`, `isolateRunMicrotasks`, `isolateEnqueueMicrotask` | Node's event loop, the tick function |
| promise hooks, `runtime/PromiseHook` | `parentPromise` in the context | INIT, BEFORE, AFTER, RESOLVE events | promise nodes |
| combinators, `finally` | counters and value lists in closures | `Promise.all`, `allSettled`, `race`, `finally` | the program |
| async generators, `nodes/control/AsyncGenerator*` | per generator: state, queue of requests, the suspended frame | enqueue, resume next, await, yield, resolve, reject, return processors | the program (the body included), reaction jobs |
| thread-safe functions, `graal-nodejs/src/node_api.cc` | a bounded queue, the thread count, `is_closing`, an async and an idle handle | `Push`, `Acquire`, `Release` by any thread; `DispatchOne`, closing and finalizing by the loop thread | threads of an addon, the event loop |
| message ports, `graal-nodejs/src/node_messaging.cc` | per `MessagePortData`: queue, sibling, owner; per `MessagePort`: `receiving_messages_`, its async handle | post, start, stop, close, transfer, `OnMessage`, `receiveMessageOnPort`, disentangle | programs of several threads, their loops |
| worker threads, `graal-nodejs/src/node_worker.cc`, `env.cc` | per worker: `stopped_`, `env_`, `exit_code_`; per environment: the thread stopper, the workers it runs | `StartThread`, `Run`, `Exit`, `JoinThread`, `stop_sub_worker_contexts`, cleanup | programs of the parent and of the worker |
| platform, `graal-nodejs/src/node_platform.cc` | the task queue with `outstanding_tasks_`, per isolate `foreground_tasks_` | post, `BlockingPop`, `BlockingDrain`, flush, `DrainTasks`, register, unregister, shutdown | threads of the platform, event loops, workers that end |
| `Atomics.wait/notify`, `JSAgentWaiterList`, `SharedMemorySync` | waiter lists per location, a lock, the agent's critical section | wait with timeout, notify | agents on different threads |
| debug agents, Node agents | spawned agents, broadcast and report queues | start, broadcast, report, wake | agents on different threads |
| `JSHashMap` | linked entries, cursors | put, remove, clear, advance | maps and sets under iteration |
| dynamic arrays, modules, generators, property caches, parser, builtins, Node's library | | | see `PROJECT.json` |

How the parts interact. The nodes of `nodes/promise` change promises and hand
jobs to the agent. The agent tells the recorder of each (before it is queued)
and asks it, before each job is run, which one to take. Jobs are run by
`processAllPromises`, which is called when the outermost call across the
interop boundary is left (normally or by an exception) and, in Node, by
`isolateRunMicrotasks` after each callback. A job calls back into the program, which changes
promises, enqueues more jobs, and may call host code that crosses the boundary
again.

Between the threads of Node there are other paths. An addon's thread pushes data
and the loop thread calls JavaScript with them. A program posts to a port whose
sibling may be on another thread, or on its way there in a message. A parent
starts, terminates and joins a worker, which may be starting, running or ending
by itself, and which may have workers of its own; both post tasks to the platform
and wait for them before they end.

What is hard here. There are no threads in one agent, yet much happens in an
order nobody writes down: any function of the program may run between two steps
of a chain of promises; the queue is processed while a job of the queue is
running; an error of the recorder leaves a node in the middle of its work and
unwinds through jobs and boundaries; the events of the embedder come in another
order in the replay; the recorded process may be killed between writing an
identifier and running its job. Between threads, a flag is read under one lock and
used after it is released; a wake-up is sent, or not sent, because of a state that the other
side is about to change; an object is destroyed while another thread may still reach it;
everyone who ends waits for somebody else. `PROJECT.json` lists the hazards with their lines.

What makes the parts correct:

* a promise is settled once, and a promise resolved with another gets the
  outcome of that one and no other (`FulfillPromiseNode` only asserts it);
* each continuation (of a `then`, an `await`, an adoption) is in exactly one
  place until it has run: it is never lost and never runs twice;
* the host's view of unhandled rejections is the true one;
* the queue is empty when the embedder is back on top, and each job gets its turn;
* the boundary depth returns to 0, whatever unwinds;
* the file of a recording is the order in which the jobs run; the replay runs
  the same jobs in that order and does not get stuck;
* an async generator answers each request once and in order, and its body is never active
  twice;
* a thread-safe function delivers what it accepted once and in order, and goes away when, and only
  when, nobody uses it any more;
* the messages of a port arrive once and in order wherever it is transferred; a
  port that receives is woken, and a port whose sibling is gone learns it, after all messages;
* a worker can be stopped at every moment; an environment outlives its workers, an isolate its
  tasks; the exit code is that of the last request.

## 2. Modules

    RecordAndReplay      which job runs next, what is written (operators)
      PromiseHeap        promises, pairs, reactions, queue: one record, one operator per node
        PromiseJobs      the agent: activations, boundary, program, processAllPromises
          MCPromiseJobs  constants for TLC
    PromiseFates         what a promise promises (abstract; PromiseJobs implements it)
    ReplayOrder          a recorded run, killed, then replayed (uses RecordAndReplay)
      MCReplayOrder      constants for TLC
    AsyncGenerators      one async generator
    GeneratorRequests    what it promises to its callers (abstract)
    ThreadSafeFunction   one thread-safe function and the threads that use it
    MessagePorts         channels, threads, ports on the move
      MCMessagePorts     constants for TLC
    WorkerThreads        a tree of workers, their environments, the platform
      MCWorkerThreads    constants for TLC
    SequenceLemmas, PromiseHeap_proofs, PromiseJobs_proofs, ReplayOrder_proofs,
    AsyncGenerators_proofs, ThreadSafeFunction_proofs, MessagePorts_proofs,
    WorkerThreads_proofs

**RecordAndReplay** models `RecordAndReplay.java` on sequences of identifiers,
oldest job first. `NextJob` is `reorganizeJobQueue` with `reOrder`: the index of
the job that will be polled, 0 when the recorded one is not queued (`Blocked`,
the `return false`). `Unidentifiable` says when the search dereferences a
capability that is null, or a reaction that a job does not have (the jobs of
`PromiseResolveThenable`, of Node's microtasks, and those of `await`, whose
reaction has no capability).

**PromiseHeap** has the state of `JSPromise` and of the resolving functions as
functions over promises and *pairs*. A pair is the two closures that share one
`alreadyResolved` flag; each call of `CreateResolvingFunctionNode` makes one.
`ResolveFunction`, `RejectFunction`, `Settle`, `PerformPromiseThen` and the rest take
a heap and return the one the node leaves. `heap.error` is set when the
recorder's NullPointerException escapes from `Enqueue`; each operator then
stops where the node would, so that what was done before remains and what would
follow does not happen.

**PromiseJobs** is one agent. `stack` holds the activations that matter, `depth` is
`interopCallStackDepth`, `order` is `orderList`. The actions are in four groups:

* `Embedder`: `EnterBoundary`, and with `NODE` `NodeCall` and `RunMicrotasks`;
* `Program`: what a function of the program may do: make a promise, call a
  resolve or reject function it holds, call `then` or an async function,
  enqueue a microtask;
* `Leaves`: an activation returns, throws, awaits, or is unwound by an error;
  leaving the outermost boundary turns it into an activation of
  `processAllPromises` (kind `"loop"`, or `"finally"` after an error, whose own
  error is then lost if another one is thrown);
* `Loop`: one action for each kind of job `processAllPromises` polls, and its end
  or failure.

Where a node calls no function of the program, the whole job is one step
(`RunAdopt` runs `PromiseResolveThenable`, the call of `then` with the new pair
and `PerformPromiseThen`). Where it does, the call is an activation of its own
(`RunHandler`), and everything else can happen before it leaves.

**PromiseFates** is the abstract specification: a promise is absent, open, locked
on another, bound to the outcome of that one, or settled. The refinement mapping `Fate`
reads it off the heap: locked while a thenable job or a reaction with
resolving functions waits at the other promise, bound while a job carries the
outcome.

**ReplayOrder** composes two runs of one program. A program is what the task of
each event and of each continuation does (register a continuation, settle the
promise one is registered at, start what leads to an event); the specification
quantifies over a set of programs. `StartReplay` may happen in any state of the
recording: the process ends or is killed, a new one reads the file.

**AsyncGenerators** has the hidden properties of the generator (`state`, `queue`) and
where it is: nowhere (`"idle"`), in its body, or in the loop of
`AsyncGeneratorResumeNext`. `Enqueue` is `AsyncGeneratorEnqueueNode`; one action per branch of
`AsyncGeneratorResumeNextNode` (`AwaitReturn`, `RejectRequest`, `AnswerDone`,
`ResumeBody`, `ReturnFromYield`); the body is any sequence of awaits, yields and an end; the
reactions that resume it are `ResumeAwait`, `SuspendYield` and `ReturnProcessed`. Where
`promiseResolve` throws out of an operand, the node keeps the state it has set
(`OperandFails`, `YieldUnawaited`), or leaves the generator in `AwaitingReturn` (`wedged`).
**GeneratorRequests** is the contract: a queue of calls, a life of three stages, and
what each kind of call is answered with in each; `Life` maps the states to the stages.

**ThreadSafeFunction** is the class of that name. Each method that holds the
mutex is one action. A thread that waits on `cond` is in the wait set (`pc[t] = "wait"`)
and, once woken, runs the loop of `Push` again. `DispatchOne` is the
critical section of the idle callback; the call into JavaScript (`CallJs`) is a step of its own,
during which the threads go on. `handles` follows the two handles through
closing, the finalizer and `EmptyQueueAndDelete`.

**MessagePorts** knows a port by its `MessagePortData`. `place[p]` is the thread whose `MessagePort`
owns it, `"moving"` while a message or a thread that is posting or destroying it holds
it, or `"gone"`. Posting is two steps, `Serialize` (which detaches the transferred port) and
`PostMessage` (under the sibling's lock); `Iterate` is one turn of the loop of `OnMessage`, up to the call of
the program; `running[t]` is the port whose handler runs on `t`. `Disentangle` ends one
data and takes the ports in its undelivered messages to their end in turn (`dying`). `LoseMessage`
has both outcomes of a message that cannot be deserialized: the port that it carries is destroyed with it, or it has
been adopted (`Adopt`) and stays. The actions of the program are open to a port that stayed, since an async hook is
given it (`AsyncWrap::EmitAsyncInit`); that none of them happens is among the behaviours, as no fairness is
assumed of them.

**WorkerThreads** has one `pc` per thread, which follows `Worker::Run` from the
creation of the environment through the event loop to the end of the thread, and the main thread from its
script to the disposal of the platform. `Exit` is `Worker::Exit` under
`mutex_`, called by the worker itself, by its parent (`Terminate`) and by a parent that ends
(`StopSub`). A thread runs the program at the places `CodePcs`; there it may start workers, terminate them,
exit, and post a platform task. `TakeTask` and `CompleteTask` are the platform's threads,
`DrainContinues` and `DrainEnds` the loop of `DrainTasks`.

Definitions with a suffix (`PassOnFulfilling`, `RestUnpolled`, `NextJobAny`, ...)
stand before the definition they are a variant of. They are that definition with a
plausible bug, and are used by nothing; each property was seen to fail when one
of them takes the place of the definition (`mutants` in `PROJECT.json`).

## 3. Runs

| Run | Constants | Distinct states | Shows |
|---|---|---|---|
| `jobs` | 3 promises, 4 pairs, nesting 3, no recorder | 49,538 | the engine on its own: one resolver per promise (`SingleResolver`), one place per continuation (`OneHolder`), the tracker's view is true (`TrackerAgrees`), the queue is drained (`DrainedWhenIdle`), `PromiseFates` is implemented, queued jobs run, adoptions complete |
| `node` | same with Node, nesting 1 | 19,094 | nothing is lost and every job gets its turn when only `RunMicrotasks` processes the queue and a microtask may throw out of it |
| `tracing` | same as `jobs`, recording, Node calls and boundaries | 28,016 | with the recorder's errors unwinding everything: nothing twice (`NeverTwice`), the depth is the number of boundaries (`BoundaryBalance`), the file ends with the queue and repeats no identifier (`RecordingIsQueueOrder`) |
| `replay` | same as `jobs`, any file of at most 2 identifiers | 134,334 | no file, however wrong, makes a promise take an outcome it may not, or a continuation run twice |
| `replay_order` | 3 continuations, 3 events, all programs of `MCPrograms` | 1,086,836 | the replay runs the recorded continuations (`ReplaysRecordedJobs`) in the order of the file (`FollowsFile`) and reaches its end (`ReplayCompletes`) |
| `async_gen` | 6 requests, 2 awaits between two answers | 27,876 | the body is active once and the assertions of the nodes hold (`OneActivation`), `GeneratorRequests` is implemented (`KeepsPromise`), every request is answered (`RequestsAnswered`) |
| `tsfn` | 3 threads and the loop, queue of 2, 5 data | 9,889 | order and completeness (`InOrderOnce`), no wake-up lost (`DispatchDue`), releasing loses nothing (`GracefulDelivery`), it is deleted once unused (`ClosesOnceUnused`), the one thread that may block is woken (`BlockedReturns`) |
| `ports` | 2 channels, 2 threads, 2 messages | 383,355 | a data has one holder (`TypeOK`), messages in order and once (`InOrder`), a receiving port is woken (`NoLostWakeup`), the other end is told (`PeerLearns`), listeners get all messages and the close of a peer that is gone or was left behind by a stopped thread (`ListenersProgress`) |
| `worker` | main thread, a worker and its worker, 1 platform thread, 2 tasks | 237,038 | whoever finds an environment may stop it (`EnvironmentIsReachable`), nothing is cleaned up under a running worker (`NoOrphans`) or a task (`NoTaskOutlivesItsIsolate`), `ExitEventTellsLastRequest`, every stop of a worker takes effect, and the main thread ends when its program does (`StopTakesEffect`) |
| `nested` | 2 promises, 2 pairs | violated | `ProcessedOnEmptyStack` |
| `tracing_lost` | same, recording | violated | `EachReactionIsEnqueued` |
| `tsfn_blocked` | 2 blocking threads and the loop, queue of 2, 4 data | violated | `BlockedReturns` |

Bounds and why they are enough. `MaxPromises` and `MaxPairs` bound what is created
in one behaviour, not what is alive: three promises and four pairs are the
least with which a promise adopts another (the promise, the one adopted, the
result of the internal `then`; two pairs for the first, one for each of the others)
and so reach every action. `Room` keeps enough of
both for the thenable jobs that are queued, so that the bound never blocks the
processing loop. Nesting 3 allows a boundary, a job's
function and a boundary in it, with a loop on top. Two identifiers in a file are
enough for one job to wait for another. At most one microtask is queued. In
`MCReplayOrder` every program starts with a script that registers two
continuations and starts two events; tasks do at most two things each. Identifiers
are given only by the script and by jobs: a program whose *events* create
capabilities gets other identifiers when the events come in another order, so
that `ReplaysRecordedJobs` is a statement about the programs of this kind.

In `async_gen` six requests are two more than a return that is processed, a throw, and
a next before and after them. In `tsfn` a queue of two is the least that can be neither full
nor empty; five data fill it twice; one thread blocks, so that `BlockedReturns` is the statement that
`tsfn_blocked` refutes for two. In `ports` one port starts on the other thread, so that the
first transfer already crosses threads; two messages let one wait in the queue behind another, and a port travel
in a message while a message to it is under way. `Senders` and `Receivers` name the two
ports that post and the two that are read; transferring, closing and teardown are open to
all four. In `worker` the tree has two levels, so that a thread that is stopped is itself stopping and
joining another; one task may post another, back and forth, within `MaxTasks`.

`CHECK_DEADLOCK FALSE` is used where the system may stop: when the replay has ended, when nobody uses
a function, a port or a generator any more, and when the process has ended.

Fairness, and why the code justifies it. The loop goes on with what it does
(`WF(Loop)`: it is sequential code). A function of the program that is on top
again and again leaves at last (`SF(Len(stack) = d /\ Leaves)` for each depth `d`):
functions terminate; it has to be strong because calls nested in it disable it.
In Node the microtasks are run after each callback (`SF(RunMicrotasks)`;
`graal-nodejs/src/node_task_queue.cc` and `InternalCallbackScope::Close` in
`graal-nodejs/src/api/callback.cc`). No fairness is assumed of the program or the
embedder. In `ReplayOrder`, what was started leads to its event
(`WF(EventHappens(e))`), in any order. Safety-only runs use the specification
without fairness.

For async generators: calls come to an end, and what is awaited is settled. For
thread-safe functions: the loop runs while it has handles, a woken thread runs on, and a thread that is
told `napi_closing` stops using the function, as `n-api.md` asks; nobody is obliged to push or
release. For ports: loops run, also those of an environment that is torn down
until its handles are closed (`Environment::CleanupHandles`), and handlers return or
throw. For workers: threads are scheduled and platform tasks end; a program may run for ever
unless its environment is stopped, since `TerminateExecution` makes it return (`CodeTerminates`).

## 4. Disagreements found

* **`nested`**: `JSAgent.java:75-77` says the queue is processed when the stack is
  empty and no interop call is nested. `interopBoundaryExit` has brought the depth to
  0 before the queue is processed, so that a job that calls host code which calls
  back into JavaScript looks like an outermost call, and the queue is processed
  inside that job.
* **`tracing_lost`**: `TriggerPromiseReactionsNode.java:63-64` says a job is enqueued
  for each reaction. With `-Dtracing=true`, `serialize(job)` runs first and throws for
  the job of an `await`; the promise is settled and its reactions are cleared, so this
  job and those after it never exist.

* **`tsfn_blocked`**: `n-api.md` says that an abort makes all subsequent calls return
  `napi_closing` and that a blocking call blocks until there is room. Closing
  signals `cond` once (`node_api.cc:194`, 285, 350) and nothing signals it later: of two
  threads that are blocked on the full queue, one waits for ever, and with it a finalizer
  that joins it.

Seen while modelling, not stated as findings:

* Thread-safe functions: `n-api.md:4900-4903` says that no thread may use the function once all have released it;
  `Acquire` revives it until `DispatchOne` has run. `n-api.md:4886-4889` describes an abort as closing at
  once; the datum that is being delivered still is.
* Ports: a message that cannot be deserialized ends `OnMessage` without rescheduling
  it (`node_messaging.cc:622`, against the comment at 639); those behind it wait for the next signal
  (`failed`). The port that such a message carries is destroyed only when no `MessagePort` could be made for it
  (111-117, 602). When the content fails later (127-128, 168-171) the new `MessagePort` has adopted the data (105-120): it
  stays with the thread, the program has no way to close it, and the other end is told at the teardown
  of the thread and not before. `receiveMessageOnPort` on a port that has been transferred, but is not yet closed, dereferences the data it
  has lost (579). The ports of a transfer list are checked before the getters of the value run (272). A close message
  that was signalled while a message was in front of it is not signalled again when `receiveMessageOnPort`
  fetches that message (586). Two ports that travel in each other's queues are reachable by nobody and are never destroyed.
* Workers: `terminate()` before `env_` is published leaves the exit code 0 (`worker_threads.md:541-542` says 1).
  A `vm` timeout cancels the termination it asked for, and with it one that came meanwhile
  (`node_contextify.cc:939`, `GraalJSAccess.java:2680-2687`); without the debugger instrument
  `terminateExecution` does nothing (2697). `BlockingDrain` waits for the tasks of all isolates,
  and counts no delayed task. `AddIsolateFinishedCallback` dereferences the end of the map for an isolate that is not registered.
* Async generators: a `then` on `Object.prototype` may re-enter `AsyncGeneratorResumeNext` from
  the resolution of a request, and meets its assertion (113) or resumes the body twice. `promiseResolve` that throws for
  the value of a return leaves the generator in `AwaitingReturn` for good (131).

Two more on promises: in a replay the
search throws at a job without an identifier, and unwinding drops
continuations (`OneHolder` does not hold there, `NeverTwice` does); and
`PerformPromiseThen` tells the tracker that a rejection is handled before the
enqueueing that may throw and before it marks the promise, so that
`TrackerAgrees` is claimed only without recording.

## 5. Proofs

TLAPS proves, for every value of the constants:

* `TypeCorrect`: `Spec => []TypeOK` of `PromiseJobs`. The heap's part, `HeapOK`, says
  that queued jobs, registered reactions and activations refer to promises
  and pairs that exist, that a reaction has the capability and the functions its handler needs
  and no others, and that a settled promise has a result.
* `PromisesHaveOneResolver`: `Spec => []SingleResolver`.
* `DepthCountsBoundaries`: `Spec => []BoundaryBalance`, also when recorder errors unwind the stack.
* `NoJobIsLeftBehind`: without the recorder and without Node, `Spec => []DrainedWhenIdle`.
* `TrackerKnowsTheTruth`: when nothing is recorded, `Spec => []TrackerAgrees`.
* `TheFileIsTheQueue`: while recording, `Spec => []RecordingIsQueueOrder`.
* `NoContinuationRunsTwice`: `Spec => []NeverTwice`, in every mode; `NoContinuationIsLost`: without the recorder
  (`NoRecorder`), `Spec => []OneHolder`, in Node and outside.
* `PromisesKeepTheirFates`: when nothing is recorded, `Spec => ImplementsFates`, the refinement of `PromiseFates`; replaying
  too, whose errors may stop the program anywhere.
* `JobsFollowTheFile`: `Spec => []FollowsFile` of `ReplayOrder`; `TypeCorrect`: its types; `IdsMeanTheSame`:
  `Spec => []ReplaysRecordedJobs` for programs whose events register nothing.
* `TheBodyIsActiveOnce`: `Spec => [](TypeOK /\ OneActivation)` of `AsyncGenerators`.
* `RequestsAreServedInOrder`: `Spec => KeepsPromise`, the refinement of `GeneratorRequests`.
* `CountsItsUsers`, `NoWakeupIsLost`, `ReleasingLosesNothing`, `DataComeOutInOrder`: `CountIsUsers`, `DispatchDue`,
  `GracefulDelivery` and `InOrderOnce` of `ThreadSafeFunction`; `TypeCorrect`: its types and the bound of its queue.
* `NoWakeupOfAPortIsLost`, `TheOtherEndIsTold`, `MessagesKeepTheirOrder`: `NoLostWakeup`, `PeerLearns` and `InOrder`
  of `MessagePorts`; `TypeCorrect`: its types, with the one holder of each port's data.
* `ExitFindsAnEnvironment`, `ParentsEndLast`, `IsolatesEndWithoutTasks`, `ExitCodeIsTheLastRequest` and `TypeCorrect` of
  `WorkerThreads`: its four safety invariants and its types.

Assumptions: `ModesAssumption`, `BoundsAssumption`, `EmbeddingAssumption`,
`ProgramAssumption` (types of the constants; a recording is a sequence of
identifiers); `ThreadsAssumption` and `SizeAssumption` of a thread-safe function (finitely many
threads, the loop thread among them); `PortsAssumption`, `RolesAssumption` and `PlacesAssumption` of the ports (`Peer` pairs
them off; the names of places are no threads or ports); `ThreadsAssumption`,
`RunnersAssumption` (the platform has finitely many threads) and `TreeAssumption` (parents are created before
their workers, so that there is no cycle). `IdsMeanTheSame` assumes `EventsRegisterNothing`: only the main script and the jobs
register continuations. The ids come from one counter, so a program whose events register, and come in another order,
gets other ids: this is a limit of the recorder and not of the model (section 3). `NoContinuationIsLost`
assumes `NoRecorder`: an error of the recorder drops the activations it unwinds (`tracing_lost`); `PromisesKeepTheirFates`
assumes `~ TRACING`. Nothing bounds the number of promises, pairs, activations, events,
continuations, requests, data, messages, threads, ports, workers or tasks.

*The argument for one resolver.* `SingleResolver` is not inductive without `TypeOK`
(the new pair must be one that refers to nothing yet), so the invariant is `Inv ==
TypeOK /\ SingleResolver`. `PromiseHeap_proofs` has one lemma per operator of the
heap: from `HeapOK(h)` and `Single(h)`, the same of the heap it returns. The
two that carry the weight: `UseOK` (using the one unused pair of a promise leaves nothing that may
decide it, so that it may be settled or be given a thenable job) and `PollOK`
(polling the thenable job of a promise leaves nothing either, so that
`CreateResolvingFunctions` may add its pair). `PromiseJobs_proofs` goes through the
actions by group (`EmbedderKeepsInv`, `ProgramKeepsInv`, `LeavesKeepInv`,
`LoopKeepsInv`).

*The argument for the stack.* Each step pushes, pops, replaces or leaves one activation
(`EachStepMovesStack`), except that a microtask that throws takes two; what it takes is
never a boundary, since the loop that called it is below it (`CalledByLoop`). Counting the
boundaries step by step gives `BoundaryBalance`. `DrainedWhenIdle` needs it: a
boundary that is left as the last activation is the outermost one only because
the depth then is 1. With it, the last activation that is left is the loop
(`Grounded`), which ends with an empty queue as nothing is recorded or replayed (`Calm`).

*The argument for the tracker.* `Tracked` holds of each heap that an operation returns: a
promise is settled once (`SingleResolver`), so that `Settle` meets a promise the tracker
does not hold, and `PerformPromiseThen` marks what it told the tracker of,
because `Enqueue` fails only while recording.

*The argument for the recording.* `Recording` is proved with `Tracked`, in one walk over the actions (`Books`). The file is aligned
with the queue (`Aligned`): `Enqueue` writes what it pushes and, without a replay, the oldest job is polled. That nothing is
written twice needs the reactions, whose jobs are still to be written: an identifier is in one place of the file or in one
reaction (`WrittenOnce`), and in neither before the pair is made (`Unwritten`), so that `PerformPromiseThen` always registers a fresh one.

*The argument for continuations.* `Fine` counts the places of a pair over heap and stack together: it is in at
most one reaction or job (`Once`) and in at most one activation, not in both, and in none once used, when the
program does not hold it. Each operation on heaps keeps it (`Keeps`) and, unless
an error happens, drops nothing (`Saves`); polling empties the place of the job (`PolledCarries`) and the activation or the
registration fills one. That no place is lost is `Present`, proved where no error ever happens: `Quiet`
says that without the recorder neither a queued job nor an activation can raise one. The strengthening of the types
(a reaction has exactly what its handler needs) is what makes `Holds` say the same of a reaction and of its job.

*The argument for the order.* While recording, the file is the identifiers of the
jobs that ran followed by those of the queue (`RecordInv`); in the replay, what is
left of the recording is the file without as many identifiers as jobs ran
(`ReplayInv`). Both hold in every state, so that stopping the recording anywhere
establishes the second. `SequenceLemmas` has what is needed of `RemoveAt` and of
`SelectLastInSeq`. `ReplaysRecordedJobs` compares the two runs of one program. As only the main script and the jobs
register, the names that the ids get depend on the jobs that ran and on nothing else: they are read off a path
through the points of the program's run (`Path`: jobs done, operations left, ids given), which is the invariant's witness
(`SameInv`). The recording walks to the end of this path, the replay follows it (`OnPath`), so that the job found
by its identifier is the continuation that was recorded.

*The argument for generators.* `OneActivation` needs only the types: while the generator executes, either its
body is on the stack or one reaction will resume it. The refinement maps each action to an action of
`GeneratorRequests` or to a stutter; that `Life` is `"open"` whenever the body answers is what
`OneActivation` gives.

*The argument for thread-safe functions.* `IInv` adds to the properties that a handle is only closed when
`is_closing` is set. `CountIsUsers` carries the rest: `DispatchOne` closes the function because
`thread_count` is 0, and it is the count that says that there is no user. Order is a second invariant, `OrderInv`: a datum
leaves the queue at its front and enters `calling`, `delivered` or `returned` at the end.

*The argument for the fates.* `PromiseFates` says what each promise does; a step of the heap may move several, and the mapping `Fate`
looks for what a promise waits for among all jobs and reactions. Two facts make it one thing. First, what the program holds and what
continuations use are kept apart (`Apart`, an invariant of its own): a pair whose functions the program holds is in no reaction and no job, and
no handler or async function settles it. Hence the functions of an adoption belong to a pair that is none of the program's, so they
are in one place and unused (`AdoptionsOK`, from `Continuations`). Second, by `SingleResolver` a promise has one such pair or
one thenable job, so it waits for at most one other, or is given one outcome, and is
pending (`OneFate`). Then each operation of the heap has a lemma that says whom it touches: it is uneventful, or settles one promise and
turns the reactions of those that wait for it into jobs with its outcome (`Settles`), or makes one wait (`StartsWaiting`). A
function that is called and is not one of an adoption finds its promise open (`UnusedUndecided`); the three jobs
of an adoption are walked through one by one (`AdoptMoves`, `AdoptionMoves`, `PassThroughMoves`). That nothing is recorded is
needed: an error of `serialize` drops the reactions behind it (`tracing_lost`), and what waited by one of them would be open again.

*The argument for ports.* `Places` says where each data is: owned by a thread, or held by exactly one of a message, a
thread that posts and a thread that destroys; and a handler runs for a port only on the thread that owns it.
`NoLostWakeup` follows from it, since a port that changes hands is signalled by
who adopts it, and nobody else's step can take the signal or the handler away. `PeerLearns` follows since siblings are each other's, and the
lock makes disentangling and posting exclude each other: no message comes after a close. It says nothing sooner of a
port that was left behind by a failed deserialization: that one is still a sibling, and that the other end
is told after the teardown is part of `ListenersProgress`. For the order (`Sequenced`) the numbers
of the messages in a queue are those from the number taken plus one to the number posted, in this order; a post
appends the next, and a transfer moves the queue as a whole. The types of the variables add that a port in
transfer is in one message or one hand (`Held`).

*The argument for workers.* Four invariants, each using those before: `Life` (what holds of a worker at each place
of `Run`), `Family` (a worker that is not joined is known to its parent, or is the one its parent is
waiting for), `Tasks` (a thread past its drain has no task: the owners of the tasks are counted by `outstanding_tasks_`)
and `CodesAgree` (while `env_` is set, the exit code is that of the last request). That the platform is disposed of last is an
induction over the tree: `TreeAssumption` applied to the set of workers that run.

Only model-checked: liveness (`QueuedJobsRun`, `AdoptionCompletes`, `ReplayCompletes`, `RequestsAnswered`, `ClosesOnceUnused`,
`BlockedReturns`, `ListenersProgress`, `StopTakesEffect`),
which TLAPS does not reach. Every safety invariant that a passing run checks is proved, and so are both refinements.

## 6. Abstractions

* The id of a capability is the number of its pair. Ids and pairs are both counted up,
  so that order and equality are preserved; ids have gaps in the model.
* A value that is no object is known by the pair that brought it in. A thenable that is
  no promise is one value; an object whose `then` cannot be read another.
* The list of fulfil reactions and that of reject reactions are one list of pairs of
  handlers: the code always adds to and clears both.
* The program may call only the pairs it holds (`exposed`) and the promises it can see
  (`visible`); the promises of adoptions and of the wrapped value of an `await` are never visible, that of
  an async function is when its body is left.
* An exception of the program that reaches host code ends that call. Host code may or
  may not catch an internal error on its way.
* The file is written line by line (`println`, no buffer in between); a line cut in two by a kill
  is not modelled. Recording and replaying at the same time is not run: the constructor
  truncates the file before reading it.
* ECMAScript 2019, the default: an `await` has no throwaway capability.
* The tracker's events for promises resolved after they were resolved change no state and are left out.

* Thread-safe functions: `uv_ref` and `uv_unref` and the failures of libuv calls that the code checks for are left out.
* Ports: messages carry at most one port; array buffers, WASM modules, `ref` and `unref` are left out, and so is user code
  that runs in the middle of serializing.
* Workers: delayed tasks, the inspector, stack limits and the collection of `Worker` objects are left out; the port
  between parent and child is a port of `MessagePorts`. An event loop may end at any time (`PollEnds`), since what keeps it alive
  is not modelled. `ToLocalEmpty` aborts nothing in this engine, so that `terminate()` during `beforeExit` does not
  skip what follows.
* Async generators: resolving the promise of a request runs no code of the program.

## 7. Plan

Done so far: the promise jobs with their recording and replay, async generators, and the three parts of
Node where threads meet. What is left, most important first:

1. `AtomicsWait` (with debug agents and Node agents): waiter lists, sleep and interrupt, timeout racing
   notify, broadcast: a notification wakes one waiter, and who is notified wakes up.
   Abstract specification: the waiter list of the standard.
2. `ReplayAgents`: several agents on threads share the recorder, its list and its counter
   of ids without a lock: one job per identifier, no agent waits for ever.
3. `PromiseHooks`: the parent of an INIT event is the promise it was made for; each
   promise gets its RESOLVE event.
4. `PromiseCombinators`: `all`, `allSettled`, `race`, `finally` over the heap.
5. `JSHashMap`: cursors under removal and clearing implement an abstract list with marks.
6. Dynamic arrays and module linking, as pure algorithms and a state machine.

## 8. Not modelled, and why

Parser, builtins and property caches are sequential and hold no protocol (the caches rest
on Truffle's object model, which is not in the repository). Most of the C++ under `graal-nodejs/src` binds
vendored libraries to JavaScript (crypto, HTTP/2, zlib, URLs, files, ICU) or converts values between
the engine and the V8 interface: it is argument checking and data conversion of upstream Node, calls into code that
is not in the repository's own part, and has no state of its own that several actors share; the patches under `tools/icu`
and everything in `deps/` are vendored. What was chosen instead is the code that has locks, queues,
handles and threads. What is planned is in section 7; `PROJECT.json` says for each part what is covered.
