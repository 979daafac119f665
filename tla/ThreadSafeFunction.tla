------------------------ MODULE ThreadSafeFunction ------------------------
(***************************************************************************)
(* ThreadSafeFunction of node_api.cc: threads push data into a bounded     *)
(* queue, the loop thread takes one datum per idle callback and calls into *)
(* JavaScript with it; when the threads have released the function, one of *)
(* them aborts it or the environment is torn down, two handles are closed  *)
(* one after the other, the addon's finalizer runs and the object goes.    *)
(*                                                                         *)
(* A method that holds the mutex is one action.  A thread that waits on    *)
(* cond has let go of the mutex: it is in the wait set (pc "wait"), and    *)
(* once signalled (pc "woken") it runs the loop of Push again.  pc is      *)
(* "out" for the threads that do not use the function: they call nothing   *)
(* but Acquire.  The n-th datum accepted is n.                             *)
(*                                                                         *)
(* The calls of libuv that the code checks (of uv_async and uv_idle) fail  *)
(* only for arguments that do not occur here; their failure paths are left *)
(* out, as are uv_ref and uv_unref.                                        *)
(*                                                                         *)
(* FullOffByOne, EndsUseByAbort, WakesProducerAfterPop, StopsIdleOffByOne, *)
(* EndsUnusedAtOnce and HandedBackNone are variants, with a bug, of the    *)
(* definitions that follow them.                                           *)
(***************************************************************************)
EXTENDS Naturals, Sequences, FiniteSets

CONSTANTS
  Threads,        \* the threads of the addon, with the loop thread
  Main,           \* the loop thread
  Initial,        \* initial_thread_count, as the threads it stands for
  Blocking,       \* the threads that call with napi_tsfn_blocking
  MaxQueueSize,   \* 0: no limit
  MaxData         \* bound: data accepted

ASSUME ThreadsAssumption ==
  /\ IsFiniteSet(Threads) /\ Main \in Threads
  /\ Initial \subseteq Threads /\ Initial # {}
  /\ Blocking \subseteq Threads \ {Main}
ASSUME SizeAssumption == MaxQueueSize \in Nat /\ MaxData \in Nat

VARIABLES
  pc,             \* what each thread does with the function
  queue, thread_count, is_closing,
  async,          \* uv_async_send has been called, AsyncCb has not run
  idle,           \* the idle handle is active
  handles,        \* "open", or what is being closed, up to "deleted"
  accepted,       \* history: the number of data accepted
  calling,        \* the datum call_js_cb is called with, or none
  delivered,      \* history: the data JavaScript was called with
  returned,       \* history: the data handed back by EmptyQueueAndDelete
  cut             \* what ended its use early: "abort", "cleanup"

producers == <<pc, queue, thread_count, is_closing, accepted>>
results == <<delivered, returned, cut>>
vars == <<producers, async, idle, handles, calling, results>>

Users == {t \in Threads : pc[t] # "out"}

Init ==
  /\ pc = [t \in Threads |-> IF t \in Initial THEN "in" ELSE "out"]
  /\ queue = <<>>
  /\ thread_count = Cardinality(Initial)
  /\ is_closing = FALSE
  /\ async = FALSE
  /\ idle = FALSE
  /\ handles = "open"
  /\ accepted = 0
  /\ calling = <<>>
  /\ delivered = <<>>
  /\ returned = <<>>
  /\ cut = {}

(***************************************************************************)
(* cond->Signal: one waiter leaves the wait set, if there is one.          *)
(***************************************************************************)
Signal(states) ==
  LET waiters == {t \in Threads : states[t] = "wait"}
  IN  IF MaxQueueSize = 0 \/ waiters = {} THEN {states}
      ELSE {[states EXCEPT ![t] = "woken"] : t \in waiters}

FullOffByOne == MaxQueueSize > 0 /\ Len(queue) > MaxQueueSize
Full == MaxQueueSize > 0 /\ Len(queue) >= MaxQueueSize

(***************************************************************************)
(* Push: the loop of the waiting, then the three outcomes.  A thread that  *)
(* is told napi_closing makes no further use of the function.              *)
(***************************************************************************)
Calls(t) == handles # "deleted" /\ pc[t] \in {"in", "woken"}

PushWaits(t) ==
  /\ Calls(t)
  /\ Full /\ ~ is_closing
  /\ t \in Blocking
  /\ pc' = [pc EXCEPT ![t] = "wait"]
  /\ UNCHANGED <<queue, thread_count, is_closing, async, idle, handles,
                 accepted, calling, results>>

PushAccepted(t) ==
  /\ Calls(t)
  /\ ~ Full /\ ~ is_closing
  /\ accepted < MaxData
  /\ accepted' = accepted + 1
  /\ async' = TRUE
  /\ queue' = Append(queue, accepted + 1)
  /\ pc' = [pc EXCEPT ![t] = "in"]
  /\ UNCHANGED <<thread_count, is_closing, idle, handles, calling, results>>

PushClosing(t) ==
  /\ Calls(t)
  /\ is_closing
  /\ thread_count > 0
  /\ thread_count' = thread_count - 1
  /\ pc' = [pc EXCEPT ![t] = "out"]
  /\ UNCHANGED <<queue, is_closing, async, idle, handles, accepted, calling,
                 results>>

Acquire(t) ==
  /\ handles # "deleted" /\ pc[t] = "out"
  /\ ~ is_closing
  /\ thread_count' = thread_count + 1
  /\ pc' = [pc EXCEPT ![t] = "in"]
  /\ UNCHANGED <<queue, is_closing, async, idle, handles, accepted, calling,
                 results>>

EndsUseByAbort(count, mode) == mode = "abort"
EndsUse(count, mode) == count = 0 \/ mode = "abort"

Release(t, mode) ==
  /\ handles # "deleted" /\ pc[t] = "in"
  /\ thread_count > 0
  /\ thread_count' = thread_count - 1
  /\ LET ends == EndsUse(thread_count - 1, mode) /\ ~ is_closing
         left == [pc EXCEPT ![t] = "out"]
     IN  /\ is_closing' = (is_closing \/ (ends /\ mode = "abort"))
         /\ cut' = IF ends /\ mode = "abort" THEN cut \cup {mode} ELSE cut
         /\ pc' \in IF ends /\ mode = "abort" THEN Signal(left) ELSE {left}
         /\ async' = (async \/ ends)
  /\ UNCHANGED <<queue, idle, handles, accepted, calling, delivered, returned>>

(***************************************************************************)
(* The loop thread.  It is in the code of the addon while call_js_cb runs  *)
(* and while the finalizer runs; otherwise its loop runs the callbacks of  *)
(* the handles in any order.                                               *)
(***************************************************************************)
InLoop == calling = <<>> /\ handles \notin {"finalizing", "deleted"}

(* AsyncCb and MaybeStartIdle *)
AsyncCb ==
  /\ InLoop /\ handles = "open"
  /\ async
  /\ async' = FALSE
  /\ idle' = TRUE
  /\ UNCHANGED <<producers, handles, calling, results>>

WakesProducerAfterPop(size) == size - 1 = MaxQueueSize
WakesProducer(size) == size = MaxQueueSize

StopsIdleOffByOne(left) == left <= 1
StopsIdle(left) == left = 0

EndsUnusedAtOnce(left) == thread_count = 0
EndsUnused(left) == left = 0 /\ thread_count = 0

HandlesClosing == IF handles = "open" THEN "async" ELSE handles

(***************************************************************************)
(* DispatchOne, up to the call of call_js_cb: the critical section.  The   *)
(* idle handle stays active while data are left, and when the function is  *)
(* closed (closing the handle stops it).                                   *)
(***************************************************************************)
DispatchClosing ==
  /\ InLoop /\ handles \in {"open", "async"}
  /\ idle /\ is_closing
  /\ handles' = HandlesClosing
  /\ UNCHANGED <<producers, async, idle, calling, results>>

DispatchOne ==
  /\ InLoop /\ handles \in {"open", "async"}
  /\ idle /\ ~ is_closing
  /\ LET size == Len(queue)
         left == IF size > 0 THEN size - 1 ELSE 0
         popped == IF size > 0 THEN Tail(queue) ELSE queue
         ends == EndsUnused(left)
     IN  /\ queue' = popped
         /\ calling' = SubSeq(queue, 1, size - left)
         /\ \E woken \in IF size > 0 /\ WakesProducer(size)
                        THEN Signal(pc) ELSE {pc} :
              pc' \in IF ends THEN Signal(woken) ELSE {woken}
         /\ is_closing' = ends
         /\ handles' = IF ends THEN HandlesClosing ELSE handles
         /\ idle' = (ends \/ ~ StopsIdle(left))
  /\ UNCHANGED <<thread_count, async, accepted, results>>

(* The call into JavaScript returns. *)
CallJs ==
  /\ calling # <<>>
  /\ calling' = <<>>
  /\ delivered' = delivered \o calling
  /\ UNCHANGED <<producers, async, idle, handles, returned, cut>>

(***************************************************************************)
(* The environment is torn down: CloseHandlesAndMaybeDelete(true).  The    *)
(* loop runs on until all handles are closed (CleanupHandles in env.cc).   *)
(***************************************************************************)
Cleanup ==
  /\ InLoop
  /\ "cleanup" \notin cut
  /\ cut' = cut \cup {"cleanup"}
  /\ is_closing' = TRUE
  /\ pc' \in Signal(pc)
  /\ handles' = HandlesClosing
  /\ UNCHANGED <<queue, thread_count, async, idle, accepted, calling,
                 delivered, returned>>

(* The callbacks of CloseHandle, and the start of Finalize. *)
AsyncClosed ==
  /\ InLoop /\ handles = "async"
  /\ handles' = "idle"
  /\ idle' = FALSE
  /\ UNCHANGED <<producers, async, calling, results>>

IdleClosed ==
  /\ InLoop /\ handles = "idle"
  /\ handles' = "finalizing"
  /\ UNCHANGED <<producers, async, idle, calling, results>>

(***************************************************************************)
(* The finalizer of the addon returns; then EmptyQueueAndDelete.  That the *)
(* threads are gone by then is what n-api.md asks of the finalizer ("e.g.  *)
(* by calling uv_thread_join()").                                          *)
(***************************************************************************)
HandedBackNone(data) == <<>>
HandedBack(data) == data

Finalized ==
  /\ handles = "finalizing"
  /\ Users \subseteq {Main}
  /\ handles' = "deleted"
  /\ pc' = [t \in Threads |-> "out"]
  /\ returned' = HandedBack(queue)
  /\ queue' = <<>>
  /\ UNCHANGED <<thread_count, is_closing, async, idle, accepted, calling,
                 delivered, cut>>

(***************************************************************************)
(* The loop thread calls the function only while it is not in its loop's   *)
(* own work on it, that is, not from within the finalizer.                 *)
(***************************************************************************)
ThreadStep(t) ==
  /\ t = Main => handles # "finalizing"
  /\ \/ PushWaits(t) \/ PushAccepted(t) \/ PushClosing(t) \/ Acquire(t)
     \/ \E mode \in {"release", "abort"} : Release(t, mode)

(* Waits may end without a signal (POSIX). *)
SpuriousWakeup(t) ==
  /\ handles # "deleted" /\ pc[t] = "wait"
  /\ pc' = [pc EXCEPT ![t] = "woken"]
  /\ UNCHANGED <<queue, thread_count, is_closing, async, idle, handles,
                 accepted, calling, results>>

LoopStep ==
  \/ AsyncCb \/ DispatchClosing \/ DispatchOne \/ CallJs
  \/ AsyncClosed \/ IdleClosed \/ Finalized

Next ==
  \/ LoopStep
  \/ Cleanup
  \/ \E t \in Threads : ThreadStep(t) \/ SpuriousWakeup(t)

Spec == Init /\ [][Next]_vars

(***************************************************************************)
(* The loop runs while it has handles, a woken thread runs on, and a       *)
(* thread that finds the function closing stops using it: n-api.md calls   *)
(* napi_closing the criterion for terminating the thread.  Nobody is       *)
(* obliged to push, to release or to abort.                                *)
(***************************************************************************)
Fairness ==
  /\ WF_vars(LoopStep)
  /\ \A t \in Threads :
       /\ WF_vars(PushWaits(t) /\ pc[t] = "woken")
       /\ WF_vars(PushAccepted(t) /\ pc[t] = "woken")
       /\ WF_vars(ThreadStep(t) /\ PushClosing(t))

FairSpec == Spec /\ Fairness
-----------------------------------------------------------------------------

TypeOK ==
  /\ pc \in [Threads -> {"out", "in", "wait", "woken"}]
  /\ queue \in Seq(1..MaxData)
  /\ MaxQueueSize > 0 => Len(queue) <= MaxQueueSize
  /\ thread_count \in Nat
  /\ is_closing \in BOOLEAN /\ async \in BOOLEAN /\ idle \in BOOLEAN
  /\ handles \in {"open", "async", "idle", "finalizing", "deleted"}
  /\ accepted \in 0..MaxData
  /\ calling \in Seq(1..MaxData) /\ Len(calling) <= 1
  /\ delivered \in Seq(1..MaxData) /\ returned \in Seq(1..MaxData)
  /\ cut \subseteq {"abort", "cleanup"}

(* The data come out in the order in which they were accepted, each once:  *)
(* to JavaScript, then, from EmptyQueueAndDelete, to the addon; none is    *)
(* left in the queue of a deleted object.                                  *)
InOrderOnce ==
  /\ delivered \o calling \o returned \o queue = [n \in 1..accepted |-> n]
  /\ returned # <<>> => handles = "deleted"
  /\ handles = "deleted" => queue = <<>> /\ calling = <<>>

(* While there is something for the loop to do (data to call JavaScript    *)
(* with, or a function to close), one of the two handles will run          *)
(* DispatchOne: stopping the idle handle loses no wake-up that came in     *)
(* between.                                                                *)
DispatchDue ==
  handles = "open" /\ (queue # <<>> \/ is_closing \/ thread_count = 0)
    => async \/ idle

(* thread_count is the number of threads that use the function: each was   *)
(* counted once when it came and once when it left, by a release or by     *)
(* napi_closing, whatever happened in between.                             *)
CountIsUsers == handles # "deleted" => thread_count = Cardinality(Users)

(* A function that is neither aborted nor torn down is closed only when    *)
(* no thread uses it and all its data have been delivered.                 *)
GracefulDelivery ==
  cut = {} => /\ is_closing => Users = {} /\ queue = <<>>
              /\ returned = <<>>

(* Once the function is closing, or no thread uses it, it is finalized and *)
(* deleted, unless a thread starts to use it before it is closed.          *)
ClosesOnceUnused ==
  is_closing \/ Users = {}
    ~> handles = "deleted" \/ (~ is_closing /\ Users # {})

(* A call that blocks on the full queue is woken at some time: there is    *)
(* room, or the function is closing.  If others take the room first it     *)
(* waits again.                                                            *)
BlockedReturns == \A t \in Threads : pc[t] = "wait" ~> pc[t] # "wait"
=============================================================================
