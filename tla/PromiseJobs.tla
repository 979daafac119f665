---------------------------- MODULE PromiseJobs ----------------------------
(***************************************************************************)
(* One JavaScript agent: the code it runs, its promises and its job queue. *)
(*                                                                         *)
(* The stack holds the activations that matter to the queue: calls from    *)
(* the embedder that cross the interop boundary, activations of            *)
(* processAllPromises, and the functions of the program called from a job. *)
(* Whatever function of the program is on top may do any of the things a   *)
(* JavaScript function can do to promises, then return or throw.           *)
(***************************************************************************)
EXTENDS PromiseHeap

CONSTANTS
  NODE,        \* embedded in Node (no boundary, explicit RunMicrotasks)
  MaxDepth,    \* bound: activations under which the program nests calls
  Recordings   \* the contents the file may have when replaying

ASSUME EmbeddingAssumption == /\ NODE \in BOOLEAN
                              /\ MaxDepth \in Nat \ {0}
                              /\ Recordings \subseteq Seq(Pair)

VARIABLES
  heap,      \* promises and jobs, see PromiseHeap
  stack,     \* activations, innermost first
  depth,     \* JSAgent.interopCallStackDepth
  order,     \* RecordAndReplay.orderList
  visible,   \* promises the program holds a reference to
  exposed    \* pairs whose functions the program holds

vars == <<heap, stack, depth, order, visible, exposed>>

(***************************************************************************)
(* "boundary": a call between interopBoundaryEnter and -Exit.  "call": one *)
(* from Node.  "loop", "finally", "microtasks": processAllPromises, called *)
(* when a boundary is left, left by an error, and from isolateRunMicrotasks*)
(* "handler", "async", "then", "microtask": functions called from a job    *)
(* (an async function also from other code), with the pair they settle.    *)
(***************************************************************************)
LoopKind  == {"loop", "finally", "microtasks"}
CodeKind  == {"boundary", "call", "handler", "async", "then", "microtask"}
Frame     == [kind : LoopKind \cup CodeKind, pair : Pair \cup {None}]

New(kind, k) == [kind |-> kind, pair |-> k]
Push(f)      == <<f>> \o stack
Replace(f)   == <<f>> \o Tail(stack)
Top(kinds)   == stack # <<>> /\ Head(stack).kind \in kinds

CodeRuns == ~ heap.error /\ Top(CodeKind)
LoopRuns == ~ heap.error /\ Top(LoopKind)

(* The state is of this form: whatever is queued, registered or active     *)
(* refers to promises and pairs that were created.                         *)
StackOK(s, h) == /\ s \in Seq(Frame)
                 /\ \A i \in DOMAIN s :
                      s[i].kind \in {"handler", "async", "then"} =>
                        s[i].pair \in Made(h)

TypeOK == /\ HeapOK(heap)
          /\ StackOK(stack, heap)
          /\ depth \in Int
          /\ order \in Seq(Pair)
          /\ visible \subseteq Created(heap)
          /\ exposed \subseteq Made(heap)

Init == /\ heap = EmptyHeap
        /\ stack = <<>>
        /\ depth = 0
        /\ order \in IF REPLAY THEN Recordings ELSE {<<>>}
        /\ visible = {}
        /\ exposed = {}

(* The bounds leave room for np promises and nk pairs, besides what the    *)
(* queued thenable jobs are going to create.                               *)
Reserved == Cardinality({i \in DOMAIN heap.queue :
                           heap.queue[i].type = "thenable"})
Room(np, nk) == /\ heap.promises + np + Reserved <= MaxPromises
                /\ heap.pairs + nk + 2 * Reserved <= MaxPairs

(* What the program may resolve pair k with. *)
Resolutions(k) ==
  {[kind |-> "value", ref |-> k], [kind |-> "poisoned", ref |-> None]}
    \cup IF Room(1, 2)
         THEN {[kind |-> "thenable", ref |-> None]}
                \cup [kind : {"promise"}, ref : visible]
         ELSE {}
-----------------------------------------------------------------------------
(* Calls from the embedder *)

(* interopBoundaryEnter: a script is run or a function executed through    *)
(* interop, by the embedder or by host code that the program called.       *)
EnterBoundary ==
  /\ CodeRuns \/ (stack = <<>> /\ ~ NODE)
  /\ Len(stack) < MaxDepth
  /\ depth' = depth + 1
  /\ stack' = Push(New("boundary", None))
  /\ UNCHANGED <<heap, order, visible, exposed>>

(* Whether an error that reaches host code goes on from there. *)
HostMayCatch == IF heap.error /\ Len(stack) > 1 THEN BOOLEAN ELSE {FALSE}

(* interopBoundaryExit, in the finally of the call. *)
DepthAfterExitSkipped == IF heap.error THEN depth ELSE depth - 1
DepthAfterExit        == depth - 1

OutermostPostDecrement == depth = 0
Outermost              == DepthAfterExit = 0

(* The outermost call starts processing the jobs, also when an error leaves it. *)
ExitOutermost ==
  /\ Top({"boundary"})
  /\ Outermost
  /\ depth' = DepthAfterExit
  /\ stack' = Replace(New(IF heap.error THEN "finally" ELSE "loop", None))
  /\ heap' = [heap EXCEPT !.error = FALSE]
  /\ UNCHANGED <<order, visible, exposed>>

(* ... any other just returns to the host. *)
ExitNested ==
  /\ Top({"boundary"})
  /\ ~ Outermost
  /\ depth' = DepthAfterExit
  /\ stack' = Tail(stack)
  /\ \E e \in HostMayCatch : heap' = [heap EXCEPT !.error = e]
  /\ UNCHANGED <<order, visible, exposed>>

(* Node calls a function. *)
NodeCall ==
  /\ NODE
  /\ stack = <<>>
  /\ stack' = Push(New("call", None))
  /\ UNCHANGED <<heap, depth, order, visible, exposed>>

(* isolateRunMicrotasks: by Node itself or from its tick function. *)
RunMicrotasks ==
  /\ NODE
  /\ ~ heap.error
  /\ stack = <<>> \/ Top({"call"})
  /\ stack' = Push(New("microtasks", None))
  /\ UNCHANGED <<heap, depth, order, visible, exposed>>
-----------------------------------------------------------------------------
(* What a function of the program does *)

CreatePromise ==
  /\ CodeRuns
  /\ Room(1, 1)
  /\ heap' = NewPromise(heap)
  /\ visible' = visible \cup {heap'.promises}
  /\ exposed' = exposed \cup {heap'.pairs}
  /\ UNCHANGED <<stack, depth, order>>

CallResolve(k) ==
  /\ CodeRuns
  /\ k \in exposed
  /\ \E x \in Resolutions(k) : heap' = ResolveFunction(heap, k, x)
  /\ UNCHANGED <<stack, depth, order, visible, exposed>>

CallReject(k) ==
  /\ CodeRuns
  /\ k \in exposed
  /\ heap' = RejectFunction(heap, k, k)
  /\ UNCHANGED <<stack, depth, order, visible, exposed>>

(* Promise.prototype.then *)
CallThen(p, onFulfilled, onRejected) ==
  /\ CodeRuns
  /\ p \in visible
  /\ Room(1, 1)
  /\ LET g == NewPromise(heap)
     IN  /\ heap' = PerformPromiseThen(g, p,
                      [cap |-> g.pairs, fn |-> None,
                       onFulfilled |-> onFulfilled, onRejected |-> onRejected])
         /\ visible' = IF heap'.error THEN visible ELSE visible \cup {g.promises}
  /\ UNCHANGED <<stack, depth, order, exposed>>

(* AsyncFunctionBodyNode.execute: the body runs at once. *)
CallAsync ==
  /\ CodeRuns
  /\ Room(1, 1)
  /\ Len(stack) < MaxDepth
  /\ heap' = NewPromise(heap)
  /\ stack' = Push(New("async", heap'.pairs))
  /\ UNCHANGED <<depth, order, visible, exposed>>

(* The caller of an async function gets its promise when the body leaves. *)
Leave(f) == visible' = IF f.kind = "async" /\ ~ heap'.error
                       THEN visible \cup {heap.target[f.pair]} ELSE visible

(***************************************************************************)
(* AwaitNode.suspendAwait: a value that is no promise is wrapped in a new  *)
(* one; the continuation is registered without a result capability.        *)
(***************************************************************************)
Await(x) ==
  /\ CodeRuns
  /\ Top({"async"})
  /\ x.kind # "promise" => Room(1, 1)
  /\ LET k == heap.pairs + 1
         p == IF x.kind = "promise" THEN x.ref ELSE heap.promises + 1
         g == IF x.kind = "promise" THEN heap
              ELSE ResolveFunction(NewPromise(heap), k, x)
     IN  heap' = PerformPromiseThen(g, p,
                   [cap |-> None, fn |-> Head(stack).pair,
                    onFulfilled |-> "resume", onRejected |-> "resume"])
  /\ stack' = Tail(stack)
  /\ Leave(Head(stack))
  /\ UNCHANGED <<depth, order, exposed>>

Awaitable ==
  [kind : {"value"}, ref : {heap.pairs + 1}]
    \cup [kind : {"promise"}, ref : visible]
    \cup IF Room(2, 3) THEN [kind : {"thenable"}, ref : {None}] ELSE {}

(* isolateEnqueueMicrotask; one is queued at a time, to bound the model. *)
EnqueueMicrotask ==
  /\ CodeRuns
  /\ NODE
  /\ \A i \in DOMAIN heap.queue : heap.queue[i].type # "microtask"
  /\ heap' = Enqueue(heap, <<[type |-> "microtask"]>>)
  /\ UNCHANGED <<stack, depth, order, visible, exposed>>

(* A handler or the body of an async function returns: its capability is   *)
(* resolved with the result.                                               *)
ReturnResult ==
  /\ CodeRuns
  /\ Top({"handler", "async"})
  /\ \E x \in Resolutions(Head(stack).pair) :
       heap' = ResolveFunction(heap, Head(stack).pair, x)
  /\ stack' = Tail(stack)
  /\ Leave(Head(stack))
  /\ UNCHANGED <<depth, order, exposed>>

(* ... or throws, as the then method of an object may: reject is called. *)
Throw ==
  /\ CodeRuns
  /\ Top({"handler", "async", "then"})
  /\ heap' = RejectFunction(heap, Head(stack).pair, Head(stack).pair)
  /\ stack' = Tail(stack)
  /\ Leave(Head(stack))
  /\ UNCHANGED <<depth, order, exposed>>

(* A then method, a microtask or a function called by Node returns (or the *)
(* latter throws): the result is dropped.                                  *)
Return ==
  /\ CodeRuns
  /\ Top({"then", "microtask", "call"})
  /\ stack' = Tail(stack)
  /\ UNCHANGED <<heap, depth, order, visible, exposed>>

(* Nothing catches what a microtask throws: processAllPromises is left too. *)
MicrotaskThrows ==
  /\ CodeRuns
  /\ Top({"microtask"})
  /\ stack' = SubSeq(stack, 3, Len(stack))
  /\ UNCHANGED <<heap, depth, order, visible, exposed>>
-----------------------------------------------------------------------------
(* JSAgent.processAllPromises *)

Ids == Identifiers(heap.queue)

(* The queue is empty, or the replay waits for a job that is not queued. *)
NothingToRunOffByOne == Len(heap.queue) <= 1 \/ Blocked(Ids, order)
NothingToRun         == heap.queue = <<>> \/ Blocked(Ids, order)

LoopEnds ==
  /\ LoopRuns
  /\ NothingToRun
  /\ stack' = Tail(stack)
  /\ \E e \in IF Top({"finally"}) /\ Len(stack) > 1 THEN BOOLEAN ELSE {FALSE} :
       heap' = [heap EXCEPT !.error = e]
  /\ UNCHANGED <<depth, order, visible, exposed>>

(* The replay asks a job without an identifier for it. *)
LoopFails ==
  /\ LoopRuns
  /\ heap.queue # <<>>
  /\ Unidentifiable(Ids, order)
  /\ heap' = [heap EXCEPT !.error = TRUE]
  /\ UNCHANGED <<stack, depth, order, visible, exposed>>

(* reorganizeJobQueue and pollLast pick the next job; Rest is the heap     *)
(* that is left when it is called.                                         *)
Polled == heap.queue[NextJob(Ids, order)]

RestUnpolled == heap

RestReordered ==
  [heap EXCEPT !.queue = IF NextJob(Ids, order) = 1 THEN Tail(@) ELSE @]

Rest == [heap EXCEPT !.queue = RemoveAt(@, NextJob(Ids, order))]

Poll(type) ==
  /\ LoopRuns
  /\ ~ NothingToRun /\ ~ Unidentifiable(Ids, order)
  /\ Polled.type = type
  /\ order' = Replayed(order)
  /\ UNCHANGED depth

(* PromiseReactionJobNode without a handler: the argument is passed on. *)
RunPassThrough ==
  /\ Poll("reaction")
  /\ Polled.handler = "none"
  /\ heap' = PassOn(Rest, Polled.cap, Polled.outcome, Polled.argument)
  /\ UNCHANGED <<stack, visible, exposed>>

(* ... whose handlers are resolving functions, which return undefined. *)
RunAdoption ==
  /\ Poll("reaction")
  /\ Polled.handler = "resolving"
  /\ LET g == PassOn(Rest, Polled.fn, Polled.outcome, Polled.argument)
     IN  heap' = ResolveFunction(g, Polled.cap,
                                 [kind |-> "value", ref |-> Polled.cap])
  /\ UNCHANGED <<stack, visible, exposed>>

(* ... with a handler of the program. *)
RunHandler ==
  /\ Poll("reaction")
  /\ Polled.handler = "user"
  /\ heap' = Rest
  /\ stack' = Push(New("handler", Polled.cap))
  /\ UNCHANGED <<visible, exposed>>

(* ... that resumes an async function (AwaitResumeNode). *)
RunResume ==
  /\ Poll("reaction")
  /\ Polled.handler = "resume"
  /\ heap' = Rest
  /\ stack' = Push(New("async", Polled.fn))
  /\ UNCHANGED <<visible, exposed>>

(* PromiseResolveThenableNode, for a promise: Promise.prototype.then is    *)
(* called with a new pair for the promise to resolve.                      *)
AdoptingHalf(k, fn) == [cap |-> k, fn |-> fn,
                        onFulfilled |-> "resolving", onRejected |-> "none"]
Adopting(k, fn)     == [cap |-> k, fn |-> fn,
                        onFulfilled |-> "resolving", onRejected |-> "resolving"]

RunAdopt ==
  /\ Poll("thenable")
  /\ Polled.thenable # None
  /\ heap.promises < MaxPromises /\ heap.pairs + 1 < MaxPairs
  /\ LET g == NewPromise(CreateResolvingFunctions(Rest, Polled.promise))
     IN  heap' = PerformPromiseThen(g, Polled.thenable,
                                    Adopting(g.pairs, heap.pairs + 1))
  /\ UNCHANGED <<stack, visible, exposed>>

(* ... for another object: its then method gets the new pair. *)
RunThen ==
  /\ Poll("thenable")
  /\ Polled.thenable = None
  /\ heap.pairs < MaxPairs
  /\ heap' = CreateResolvingFunctions(Rest, Polled.promise)
  /\ exposed' = exposed \cup {heap'.pairs}
  /\ stack' = Push(New("then", heap'.pairs))
  /\ UNCHANGED visible

RunMicrotask ==
  /\ Poll("microtask")
  /\ heap' = Rest
  /\ stack' = Push(New("microtask", None))
  /\ UNCHANGED <<visible, exposed>>

(* An error that JavaScript cannot catch leaves the innermost activation;  *)
(* isolateRunMicrotasks catches it, other host code may.                   *)
Unwind ==
  /\ heap.error
  /\ stack # <<>>
  /\ ~ Top({"boundary"})
  /\ stack' = Tail(stack)
  /\ \E e \in CASE Top({"loop", "finally"}) -> HostMayCatch
                [] Top({"microtasks"}) -> {FALSE}
                [] OTHER -> {Len(stack) > 1} :
       heap' = [heap EXCEPT !.error = e]
  /\ UNCHANGED <<depth, order, visible, exposed>>
-----------------------------------------------------------------------------
Embedder == EnterBoundary \/ NodeCall \/ RunMicrotasks

Program == \/ CreatePromise \/ CallAsync \/ EnqueueMicrotask
           \/ \E k \in Pair : CallResolve(k) \/ CallReject(k)
           \/ \E p \in Promise, f, r \in {"none", "user"} : CallThen(p, f, r)

Leaves == \/ ExitOutermost \/ ExitNested \/ ReturnResult \/ Throw \/ Return
          \/ MicrotaskThrows \/ Unwind
          \/ \E x \in Awaitable : Await(x)

Loop == \/ LoopEnds \/ LoopFails \/ RunPassThrough \/ RunAdoption
        \/ RunHandler \/ RunResume \/ RunAdopt \/ RunThen \/ RunMicrotask

Next == Embedder \/ Program \/ Leaves \/ Loop

Spec == Init /\ [][Next]_vars

(***************************************************************************)
(* The interpreter goes on with what it does; an activation of the program *)
(* that is on top again and again leaves at last (functions terminate);    *)
(* Node runs the microtasks after its callbacks.                           *)
(***************************************************************************)
MaxStack == MaxDepth + IF NODE THEN 2 ELSE 1

Fairness == /\ WF_vars(Loop)
            /\ \A d \in 1..MaxStack : SF_vars(Len(stack) = d /\ Leaves)
            /\ NODE => SF_vars(RunMicrotasks)

FairSpec == Spec /\ Fairness
-----------------------------------------------------------------------------
(* Safety *)

Settled(p) == heap.state[p] # "pending"

(* At any time at most one thing may still decide what becomes of a        *)
(* promise: one pair of its resolving functions that has not been used, or *)
(* a thenable job that is going to make one; nothing when it is settled.   *)
(* Several pairs exist for one promise after each PromiseResolveThenable,  *)
(* and FulfillPromise only asserts that the promise is pending.            *)
SingleResolver == Single(heap)

(***************************************************************************)
(* The places that hold the continuation of pair k: reactions, jobs and    *)
(* activations that settle it.                                             *)
(***************************************************************************)
Queued(k) == {i \in DOMAIN heap.queue : /\ heap.queue[i].type = "reaction"
                                        /\ Holds(heap.queue[i], k)}
Waiting(p, k) == {i \in DOMAIN heap.reactions[p] :
                    Holds(heap.reactions[p][i], k)}
Active(k) == {i \in DOMAIN stack : stack[i].pair = k}

Holders(k) == {<<"queue", None, i>> : i \in Queued(k)}
                \cup {<<"stack", None, i>> : i \in Active(k)}
                \cup UNION {{<<"promise", p, i>> : i \in Waiting(p, k)} :
                              p \in Promise}

(* No continuation is lost or runs twice: whatever settles a promise that  *)
(* the program cannot settle itself (the result of a then, of an async     *)
(* function, an adoption) is in exactly one place until it has done so,    *)
(* and in none afterwards.                                                 *)
OneHolder ==
  \A k \in 1..heap.pairs : k \notin exposed =>
    Cardinality(Holders(k)) = IF k \in heap.resolved THEN 0 ELSE 1

(* ... and when an error of the recorder unwinds the stack, and drops       *)
(* continuations with it, still none is left in two places.                *)
NeverTwice ==
  \A k \in 1..heap.pairs : k \notin exposed =>
    Cardinality(Holders(k)) <= IF k \in heap.resolved THEN 0 ELSE 1

(* What a host knows from promiseRejected and promiseRejectionHandled is   *)
(* what is true: the rejected promises that were never handled.            *)
TrackerAgrees ==
  heap.unhandled = {p \in Promise : /\ heap.state[p] = "rejected"
                                    /\ p \notin heap.handled}

(* interopCallStackDepth counts the calls between boundaryEnter and -Exit, *)
(* whatever returns, throws or is unwound in between.                      *)
BoundaryBalance ==
  depth = Cardinality({i \in DOMAIN stack : stack[i].kind = "boundary"})

(* Without Node, no job is left behind when the embedder is back on top:   *)
(* leaving the outermost call processes the queue until it is empty.       *)
DrainedWhenIdle == stack = <<>> => heap.queue = <<>>

(* The file of a recording ends with the identifiers of the queued jobs,   *)
(* in the order they will run in, and holds no identifier twice (replaying *)
(* it, the search for a job finds at most one).                            *)
RecordingIsQueueOrder ==
  /\ Len(heap.queue) <= Len(heap.log)
  /\ Ids = SubSeq(heap.log, Len(heap.log) - Len(heap.queue) + 1, Len(heap.log))
  /\ IsInjective(heap.log)
-----------------------------------------------------------------------------
(* The detailed specification implements PromiseFates *)

(* The promises that p waits for to adopt their outcome ... *)
LockedOn(p) ==
  {q \in Promise :
     \/ \E i \in DOMAIN heap.queue : /\ Adopts(heap.queue[i], p)
                                     /\ heap.queue[i].thenable = q
     \/ \E i \in DOMAIN heap.reactions[q] :
          LET r == heap.reactions[q][i]
          IN  r.onFulfilled = "resolving" /\ heap.target[r.fn] = p}

(* ... and the jobs that will give it one. *)
BoundBy(p) ==
  {i \in DOMAIN heap.queue :
     LET job == heap.queue[i]
     IN  /\ job.type = "reaction"
         /\ job.handler = "resolving"
         /\ heap.target[job.fn] = p}

Fate(p) ==
  CASE p \notin Created(heap) -> [is |-> "absent"]
    [] Settled(p) -> [is |-> "settled", outcome |-> heap.state[p],
                      value |-> heap.result[p]]
    [] ~ Settled(p) /\ LockedOn(p) # {} ->
         [is |-> "locked", on |-> CHOOSE q \in LockedOn(p) : TRUE]
    [] ~ Settled(p) /\ LockedOn(p) = {} /\ BoundBy(p) # {} ->
         LET job == heap.queue[CHOOSE i \in BoundBy(p) : TRUE]
         IN  [is |-> "bound", outcome |-> job.outcome, value |-> job.argument]
    [] OTHER -> [is |-> "open"]

Fates == INSTANCE PromiseFates
           WITH Value <- Pair, fate <- [p \in Promise |-> Fate(p)]

(* Jobs, reactions and resolving functions give each promise a fate of the *)
(* abstract kind: once locked, it takes the outcome of the promise it was  *)
(* resolved with and no other, and what is settled stays so.               *)
ImplementsFates == Fates!Spec
-----------------------------------------------------------------------------
(* Liveness *)

(* Every queued continuation leaves the queue, however many jobs the ones  *)
(* before it enqueue, nest or fail.                                        *)
QueuedJobsRun == \A k \in Pair : (Queued(k) # {}) ~> (Queued(k) = {})

(* A promise that is resolved with another gets settled once that is.      *)
AdoptionCompletes ==
  \A p \in Promise : (\E q \in LockedOn(p) : Settled(q)) ~> Settled(p)
-----------------------------------------------------------------------------
(* What comments of the source say and the code does not do *)

(* JSAgent: the queue of pending jobs must be processed when the current   *)
(* stack is empty, that is, with nothing below processAllPromises.         *)
ProcessedOnEmptyStack == Top(LoopKind) => Len(stack) = 1

(* TriggerPromiseReactionsNode: for each reaction of a promise that is     *)
(* settled a job is enqueued.                                              *)
EachReactionIsEnqueued ==
  [][\A p \in Promise :
       Settled(p)' => \A i \in DOMAIN heap.reactions[p] :
         \E j \in DOMAIN heap'.queue :
           /\ heap'.queue[j].type = "reaction"
           /\ heap'.queue[j].cap = heap.reactions[p][i].cap
           /\ heap'.queue[j].fn = heap.reactions[p][i].fn]_vars
=============================================================================
