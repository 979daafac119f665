---------------------------- MODULE PromiseHeap ----------------------------
(***************************************************************************)
(* The promises of an agent, their resolving functions and its job queue,  *)
(* as one record, and the operations of the promise nodes on it.  The      *)
(* operations are those of nodes/promise: each takes a heap and returns    *)
(* the heap it leaves.  heap.error means that an error that JavaScript     *)
(* code cannot catch is propagating: what would follow does not happen.    *)
(*                                                                         *)
(* A Pair is the pair of resolving functions made for a promise; the id of *)
(* a PromiseCapabilityRecord is modelled by the pair it holds.  A value    *)
(* that is no object is known by the pair that brought it in.              *)
(*                                                                         *)
(* A definition that is preceded by one or two with its name and a suffix  *)
(* (PassOn by PassOnFulfilling) is preceded by variants of it with a bug.  *)
(* The specification does not use them; the properties are shown to fail   *)
(* when they take the place of the definition.                             *)
(***************************************************************************)
EXTENDS RecordAndReplay

CONSTANTS
  MaxPromises,   \* bound: promises created in a behaviour
  MaxPairs       \* bound: pairs of resolving functions created

ASSUME BoundsAssumption == /\ MaxPromises \in Nat \ {0}
                           /\ MaxPairs \in Nat \ {0}

Promise == 1..MaxPromises
Pair    == 1..MaxPairs
None    == 0                  \* no capability, no promise

Outcome == {"fulfilled", "rejected"}

(***************************************************************************)
(* The handlers of a PromiseReactionRecord: Undefined, a function of the   *)
(* program, the resolving functions fn of a promise that adopts the state  *)
(* of the one it is registered at, or the continuation of the async        *)
(* function with capability fn.                                            *)
(***************************************************************************)
Handler == {"none", "user", "resolving", "resume"}

Reaction == [cap : Pair \cup {None}, onFulfilled : Handler,
             onRejected : Handler, fn : Pair \cup {None}]

ReactionJob == [type : {"reaction"}, cap : Pair \cup {None}, handler : Handler,
                fn : Pair \cup {None}, outcome : Outcome, argument : Pair]
ThenableJob == [type : {"thenable"}, promise : Promise,
                thenable : Promise \cup {None}]     \* None: not a promise
Microtask   == [type : {"microtask"}]
Job         == ReactionJob \cup ThenableJob \cup Microtask

(* What a resolve function can be called with.  A "poisoned" object throws *)
(* when its property then is read.                                         *)
Resolution == [kind : {"value"}, ref : Pair]
                \cup [kind : {"promise"}, ref : Promise]
                \cup [kind : {"thenable", "poisoned"}, ref : {None}]

Heap == [promises  : 0..MaxPromises,            \* promises created
         pairs     : 0..MaxPairs,               \* pairs created
         state     : [Promise -> {"pending"} \cup Outcome],
         result    : [Promise -> Pair \cup {None}],
         handled   : SUBSET Promise,
         reactions : [Promise -> Seq(Reaction)],
         target    : [Pair -> Promise \cup {None}],
         resolved  : SUBSET Pair,               \* alreadyResolved.value
         unhandled : SUBSET Promise,            \* the rejection tracker's
         queue     : Seq(Job),                  \* oldest job first
         log       : Seq(Pair),                 \* the file of a recording
         error     : BOOLEAN]

EmptyHeap ==
  [promises  |-> 0, pairs |-> 0,
   state     |-> [p \in Promise |-> "pending"],
   result    |-> [p \in Promise |-> None],
   handled   |-> {},
   reactions |-> [p \in Promise |-> <<>>],
   target    |-> [k \in Pair |-> None],
   resolved  |-> {}, unhandled |-> {},
   queue     |-> <<>>, log |-> <<>>, error |-> FALSE]

Created(h) == 1..h.promises
Made(h)    == 1..h.pairs

(***************************************************************************)
(* Well-formed heaps: what refers to a promise or a pair refers to one     *)
(* that exists, and a reaction or job has the capability and the functions *)
(* that its handler needs, and no others.                                  *)
(***************************************************************************)
ReactionOK(h, r) ==
  \A handler \in {r.onFulfilled, r.onRejected} :
    /\ r.cap \in Made(h) \cup {None} /\ r.fn \in Made(h) \cup {None}
    /\ handler # "resume" <=> r.cap # None
    /\ handler \in {"resolving", "resume"} <=> r.fn # None

JobOK(h, job) ==
  /\ job.type = "reaction" =>
       /\ job.cap \in Made(h) \cup {None} /\ job.fn \in Made(h) \cup {None}
       /\ job.handler # "resume" <=> job.cap # None
       /\ job.handler \in {"resolving", "resume"} <=> job.fn # None
  /\ job.type = "thenable" =>
       job.promise \in Created(h) /\ job.thenable \in Created(h) \cup {None}

HeapOK(h) ==
  /\ h \in Heap
  /\ \A k \in Made(h) : h.target[k] \in Created(h)
  /\ \A p \in Promise : h.state[p] # "pending" =>
       p \in Created(h) /\ h.result[p] # None
  /\ \A p \in Promise : \A i \in DOMAIN h.reactions[p] :
       ReactionOK(h, h.reactions[p][i])
  /\ \A i \in DOMAIN h.queue : JobOK(h, h.queue[i])

(***************************************************************************)
(* What may still decide what becomes of promise p: a pair of its          *)
(* resolving functions that has not been used, or a thenable job, which is *)
(* going to make one.                                                      *)
(***************************************************************************)
Adopts(job, p) == job.type = "thenable" /\ job.promise = p

Unused(h, p)    == {k \in Made(h) \ h.resolved : h.target[k] = p}
Adoptions(h, p) == {i \in DOMAIN h.queue : Adopts(h.queue[i], p)}
Undecided(h, p) == Unused(h, p) # {} \/ Adoptions(h, p) # {}

(* There is at most one such thing, and none when the promise is settled. *)
Single(h) ==
  \A p \in Promise :
    /\ \A k, l \in Unused(h, p) : k = l
    /\ \A i, j \in Adoptions(h, p) : i = j
    /\ Unused(h, p) = {} \/ Adoptions(h, p) = {}
    /\ h.state[p] # "pending" => ~ Undecided(h, p)

(* A reaction or its job r is to settle the promise of pair k. *)
Holds(r, k) == r.cap = k \/ r.fn = k

-----------------------------------------------------------------------------
(* RecordAndReplay.getIdentifier. *)
Identifier(job) == IF job.type = "reaction" THEN job.cap ELSE NoIdentifier

Identifiers(jobs) == [i \in DOMAIN jobs |-> Identifier(jobs[i])]

(* JSAgent.enqueuePromiseJob for each of jobs, in order. *)
EnqueuePushFirst(h, jobs) ==
  LET n == Serializable(Identifiers(jobs))
  IN  [h EXCEPT !.queue = @ \o SubSeq(jobs, 1, n + 1),
                !.log   = @ \o Written(Identifiers(SubSeq(jobs, 1, n))),
                !.error = n < Len(jobs)]

Enqueue(h, jobs) ==
  LET n      == Serializable(Identifiers(jobs))
      pushed == SubSeq(jobs, 1, n)
  IN  [h EXCEPT !.queue = @ \o pushed,
                !.log   = @ \o Written(Identifiers(pushed)),
                !.error = n < Len(jobs)]

NewReactionJob(r, outcome, argument) ==
  [type    |-> "reaction", cap |-> r.cap, fn |-> r.fn, outcome |-> outcome,
   handler |-> IF outcome = "fulfilled" THEN r.onFulfilled ELSE r.onRejected,
   argument |-> argument]

(***************************************************************************)
(* FulfillPromise and RejectPromise: the promise is settled and the        *)
(* tracker told of a rejection nobody handles before the reactions are     *)
(* turned into jobs (TriggerPromiseReactions).                             *)
(***************************************************************************)
SetStateKeepingReactions(h, p, outcome, value) ==
  [h EXCEPT !.state[p] = outcome, !.result[p] = value]

SetState(h, p, outcome, value) ==
  [h EXCEPT !.state[p]     = outcome,
            !.result[p]    = value,
            !.reactions[p] = <<>>,
            !.unhandled    = IF outcome = "rejected" /\ p \notin h.handled
                             THEN @ \cup {p} ELSE @]

Settle(h, p, outcome, value) ==
  LET TriggerPromiseReactions ==
        [i \in DOMAIN h.reactions[p] |->
           NewReactionJob(h.reactions[p][i], outcome, value)]
  IN  Enqueue(SetState(h, p, outcome, value), TriggerPromiseReactions)

(* alreadyResolved.value is tested and set by both functions of a pair. *)
UsableAgain(h, k) == ~ h.error
Usable(h, k)      == ~ h.error /\ k \notin h.resolved

UseUnnoted(h, k) == h
Use(h, k)        == [h EXCEPT !.resolved = @ \cup {k}]

(* The reject function of pair k. *)
RejectFunction(h, k, reason) ==
  IF Usable(h, k) THEN Settle(Use(h, k), h.target[k], "rejected", reason)
  ELSE h

(* The resolve function of pair k. *)
ResolveFunction(h, k, x) ==
  LET p == h.target[k]
      g == Use(h, k)
  IN  IF ~ Usable(h, k) THEN h
      ELSE CASE x.kind = "value" -> Settle(g, p, "fulfilled", x.ref)
             [] x.kind = "poisoned" \/ (x.kind = "promise" /\ x.ref = p)
                  -> Settle(g, p, "rejected", k)
             [] OTHER -> Enqueue(g, <<[type |-> "thenable", promise |-> p,
                                       thenable |-> x.ref]>>)

(* One of them gets the outcome of another promise. *)
PassOnFulfilling(h, k, outcome, value) ==
  ResolveFunction(h, k, [kind |-> "value", ref |-> value])

PassOnUnrejected(h, k, outcome, value) ==
  IF outcome = "fulfilled"
  THEN ResolveFunction(h, k, [kind |-> "value", ref |-> value])
  ELSE h

PassOn(h, k, outcome, value) ==
  IF outcome = "fulfilled"
  THEN ResolveFunction(h, k, [kind |-> "value", ref |-> value])
  ELSE RejectFunction(h, k, value)

(* CreateResolvingFunctionNode: one more pair for promise p. *)
CreateResolvingFunctionsOffByOne(h, p) ==
  [h EXCEPT !.pairs = @ + 1, !.target[h.pairs] = p]

CreateResolvingFunctions(h, p) ==
  [h EXCEPT !.pairs = @ + 1, !.target[h.pairs + 1] = p]

(* The Promise constructor, and NewPromiseCapability. *)
NewPromise(h) ==
  CreateResolvingFunctions([h EXCEPT !.promises = @ + 1], h.promises + 1)

(***************************************************************************)
(* PerformPromiseThen.  A promise is marked handled last: not at all when  *)
(* enqueueing the job failed, though the tracker was told already.         *)
(***************************************************************************)
TellHandledNever(h, p) == h
TellHandled(h, p)      == [h EXCEPT !.unhandled = @ \ {p}]

PerformPromiseThen(h, p, r) ==
  LET done == Enqueue(TellHandled(h, p),
                      <<NewReactionJob(r, h.state[p], h.result[p])>>)
  IN  IF h.error THEN h
      ELSE IF h.state[p] = "pending"
      THEN [h EXCEPT !.reactions[p] = Append(@, r),
                     !.handled = @ \cup {p}]
      ELSE [done EXCEPT !.handled = IF done.error THEN @ ELSE @ \cup {p}]
=============================================================================
