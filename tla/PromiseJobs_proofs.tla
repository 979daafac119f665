------------------------- MODULE PromiseJobs_proofs -------------------------
(***************************************************************************)
(* Proofs about PromiseJobs, for all values of its constants.  The type    *)
(* invariant is inductive; with it so is SingleResolver: no interleaving   *)
(* of settling, adopting, recording and replaying lets a promise be        *)
(* settled twice.  Then the stack: the call depth is that of the           *)
(* boundaries on it, and without the recorder its outermost activation is  *)
(* a boundary or the loop, so that the queue is empty once it is left.     *)
(* Then what is kept besides the promises: the rejection tracker is told   *)
(* the truth while nothing is written to a recording, and the file of a    *)
(* recording ends with the queue.  Then the continuations: each is in one  *)
(* place, in none once it has run.  Last the refinement: no promise waits  *)
(* for two others, and each step moves the fates as PromiseFates allows.   *)
(***************************************************************************)
EXTENDS PromiseJobs, PromiseHeap_proofs, FiniteSetTheorems

(* An activation is entered, left, or replaced. *)
LEMMA PushOK ==
  ASSUME NEW h, NEW s, StackOK(s, h), NEW f \in Frame,
         f.kind \in {"handler", "async", "then"} => f.pair \in Made(h)
  PROVE  StackOK(<<f>> \o s, h)
<1>1. s \in Seq(Frame) /\ <<f>> \in Seq(Frame) /\ Len(<<f>>) = 1 /\ <<f>>[1] = f
  BY DEF StackOK
<1>2. /\ <<f>> \o s \in Seq(Frame) /\ Len(<<f>> \o s) = 1 + Len(s)
      /\ \A i \in 1 .. 1 + Len(s) :
           (<<f>> \o s)[i] = IF i <= 1 THEN <<f>>[i] ELSE s[i - 1]
  <2>1. /\ <<f>> \o s \in Seq(Frame) /\ Len(<<f>> \o s) = Len(<<f>>) + Len(s)
        /\ \A i \in 1 .. Len(<<f>>) + Len(s) :
             (<<f>> \o s)[i] = IF i <= Len(<<f>>) THEN <<f>>[i]
                               ELSE s[i - Len(<<f>>)]
    BY <1>1, ConcatProperties
  <2> QED
    BY <1>1, <2>1
<1>3. Len(s) \in Nat /\ DOMAIN s = 1..Len(s)
  BY <1>1, LenProperties
<1>4. DOMAIN (<<f>> \o s) = 1..(1 + Len(s))
  BY <1>2, LenProperties
<1>5. ASSUME NEW i \in DOMAIN (<<f>> \o s)
      PROVE  (<<f>> \o s)[i] = f \/ \E j \in DOMAIN s : (<<f>> \o s)[i] = s[j]
  <2>1. i \in 1..(1 + Len(s))
    BY <1>4
  <2>2. CASE i = 1
    BY <1>1, <1>2, <2>1, <2>2
  <2>3. CASE i # 1
    <3>1. i - 1 \in DOMAIN s /\ ~ (i <= 1)
      BY <1>3, <2>1, <2>3
    <3> QED
      BY <1>2, <2>1, <3>1
  <2> QED
    BY <2>2, <2>3
<1> QED
  BY <1>2, <1>5 DEF StackOK

LEMMA PopOK ==
  ASSUME NEW h, NEW s, StackOK(s, h), s # <<>>
  PROVE  /\ StackOK(Tail(s), h)
         /\ Head(s) \in Frame
         /\ Head(s).kind \in {"handler", "async", "then"} =>
              Head(s).pair \in Made(h)
<1>1. s \in Seq(Frame) /\ Len(s) \in Nat \ {0} /\ DOMAIN s = 1..Len(s)
  BY EmptySeq, LenProperties DEF StackOK
<1>2. /\ Head(s) \in Frame /\ Tail(s) \in Seq(Frame)
      /\ Len(Tail(s)) = Len(s) - 1
      /\ \A i \in 1..Len(Tail(s)) : Tail(s)[i] = s[i + 1]
  BY <1>1, HeadTailProperties
<1>3. DOMAIN Tail(s) = 1..Len(Tail(s))
  BY <1>2, LenProperties
<1>4. \A i \in DOMAIN Tail(s) : i + 1 \in DOMAIN s
  BY <1>1, <1>2, <1>3
<1>5. StackOK(Tail(s), h)
  BY <1>2, <1>3, <1>4 DEF StackOK
<1>6. Head(s) = s[1] /\ 1 \in DOMAIN s
  BY <1>1
<1> QED
  BY <1>2, <1>5, <1>6 DEF StackOK

LEMMA PopTwoOK ==
  ASSUME NEW h, NEW s, StackOK(s, h)
  PROVE  StackOK(SubSeq(s, 3, Len(s)), h)
<1> DEFINE t == SubSeq(s, 3, Len(s))
<1>1. s \in Seq(Frame) /\ Len(s) \in Nat /\ DOMAIN s = 1..Len(s)
  BY LenProperties DEF StackOK
<1>2. 3 \in Int /\ Len(s) \in Int /\ \A i \in 3..Len(s) : s[i] \in Frame
  BY <1>1, ElementOfSeq
<1>3. /\ t \in Seq(Frame)
      /\ Len(t) = IF 3 <= Len(s) THEN Len(s) - 3 + 1 ELSE 0
      /\ \A i \in 1 .. Len(s) - 3 + 1 : t[i] = s[3 + i - 1]
  BY <1>2, SubSeqProperties
<1>4. DOMAIN t = 1..Len(t)
  BY <1>3, LenProperties
<1> HIDE DEF t
<1>5. \A i \in DOMAIN t : 3 + i - 1 \in DOMAIN s /\ i \in 1 .. Len(s) - 3 + 1
  <2>1. CASE 3 <= Len(s)
    <3>1. DOMAIN t = 1..(Len(s) - 2)
      BY <1>1, <1>3, <1>4, <2>1
    <3> QED
      BY <1>1, <3>1
  <2>2. CASE ~ (3 <= Len(s))
    <3>1. DOMAIN t = {}
      BY <1>3, <1>4, <2>2
    <3> QED
      BY <3>1
  <2> QED
    BY <2>1, <2>2
<1>6. \A i \in DOMAIN t : \E j \in DOMAIN s : t[i] = s[j]
  BY <1>3, <1>5
<1>7. StackOK(t, h)
  BY <1>3, <1>6 DEF StackOK
<1> QED
  BY <1>7 DEF t

(* The bounds hold in the abstraction that Room makes of them. *)
LEMMA RoomOK ==
  ASSUME TypeOK, NEW np \in Nat, NEW nk \in Nat, Room(np, nk)
  PROVE  /\ heap.promises + np <= MaxPromises
         /\ heap.pairs + nk <= MaxPairs
<1>1. heap.queue \in Seq(Job) /\ heap.promises \in Nat /\ heap.pairs \in Nat
  BY DEF TypeOK, HeapOK, Heap
<1>2. Len(heap.queue) \in Nat /\ DOMAIN heap.queue = 1..Len(heap.queue)
  BY <1>1, LenProperties
<1>3. IsFiniteSet(DOMAIN heap.queue)
  BY <1>2, FS_Interval
<1>4. IsFiniteSet({i \in DOMAIN heap.queue : heap.queue[i].type = "thenable"})
  BY <1>3, FS_Subset
<1>5. Reserved \in Nat
  BY <1>4, FS_CardinalityType DEF Reserved
<1>6. QED
  BY <1>1, <1>5, BoundsAssumption DEF Room

(* A stack stays as it should be when promises are created. *)
LEMMA StackGrows ==
  ASSUME NEW g, NEW h, NEW s, StackOK(s, h), Made(h) \subseteq Made(g)
  PROVE  StackOK(s, g)
BY DEF StackOK

LEMMA SameNamesSameSets ==
  ASSUME NEW g, NEW h, SameNames(g, h)
  PROVE  /\ Created(g) = Created(h) /\ Made(g) = Made(h)
         /\ \A s : StackOK(s, h) => StackOK(s, g)
BY DEF SameNames, Created, Made, StackOK

LEMMA NewPromiseGrows ==
  ASSUME NEW h, HeapOK(h), h.promises < MaxPromises, h.pairs < MaxPairs
  PROVE  /\ Created(h) \subseteq Created(NewPromise(h))
         /\ Made(h) \subseteq Made(NewPromise(h))
         /\ NewPromise(h).promises \in Created(NewPromise(h))
         /\ NewPromise(h).pairs \in Made(NewPromise(h))
         /\ NewPromise(h).promises = h.promises + 1
         /\ NewPromise(h).pairs = h.pairs + 1
<1>1. h.promises \in Nat /\ h.pairs \in Nat
  BY DEF HeapOK, Heap
<1>2. /\ NewPromise(h).promises = h.promises + 1
      /\ NewPromise(h).pairs = h.pairs + 1
  BY NewPromiseOK
<1> QED
  BY <1>1, <1>2 DEF Created, Made

-----------------------------------------------------------------------------
(* The inductive invariant. *)
Inv == TypeOK /\ SingleResolver

(* What the embedder does leaves the heap alone. *)
LEMMA EmbedderKeepsInv ==
  ASSUME Inv, Embedder
  PROVE  Inv'
<1>1. /\ TypeOK /\ Single(heap)
      /\ HeapOK(heap) /\ StackOK(stack, heap) /\ depth \in Int
  BY DEF Inv, TypeOK, SingleResolver
<1>2. \A kind \in {"boundary", "call", "microtasks"} :
        StackOK(Push(New(kind, None)), heap)
  <2> TAKE kind \in {"boundary", "call", "microtasks"}
  <2>1. /\ New(kind, None) \in Frame
        /\ New(kind, None).kind \notin {"handler", "async", "then"}
    BY DEF New, Frame, LoopKind, CodeKind
  <2> QED
    BY <1>1, <2>1, PushOK DEF Push
<1>3. CASE EnterBoundary
  BY <1>1, <1>2, <1>3 DEF EnterBoundary, Inv, TypeOK, SingleResolver
<1>4. CASE NodeCall
  BY <1>1, <1>2, <1>4 DEF NodeCall, Inv, TypeOK, SingleResolver
<1>5. CASE RunMicrotasks
  BY <1>1, <1>2, <1>5 DEF RunMicrotasks, Inv, TypeOK, SingleResolver
<1> QED
  BY <1>3, <1>4, <1>5 DEF Embedder

(* What the program may resolve a pair with, and what it may await, exists. *)
LEMMA ResolutionsOK ==
  ASSUME TypeOK, NEW k \in Made(heap), NEW x \in Resolutions(k)
  PROVE  ResolvesWith(heap, x)
<1>1. visible \subseteq Created(heap) /\ Created(heap) \subseteq Promise
      /\ k \in Pair
  BY CreatedIsPromise DEF TypeOK
<1> QED
  BY <1>1 DEF Resolutions, ResolvesWith, Resolution

(* What a function of the program does to its promises. *)
LEMMA ProgramKeepsInv ==
  ASSUME Inv, Program
  PROVE  Inv'
<1>1. /\ TypeOK /\ Single(heap)
      /\ HeapOK(heap) /\ StackOK(stack, heap) /\ depth \in Int
      /\ order \in Seq(Pair)
      /\ visible \subseteq Created(heap) /\ exposed \subseteq Made(heap)
  BY DEF Inv, TypeOK, SingleResolver
<1>2. ASSUME Room(1, 1)
      PROVE  heap.promises < MaxPromises /\ heap.pairs < MaxPairs
  <2>1. heap.promises + 1 <= MaxPromises /\ heap.pairs + 1 <= MaxPairs
    BY <1>1, <1>2, RoomOK
  <2>2. heap.promises \in Nat /\ heap.pairs \in Nat
    BY <1>1 DEF HeapOK, Heap
  <2> QED
    BY <2>1, <2>2, BoundsAssumption
<1>3. CASE CreatePromise
  <2>1. Room(1, 1) /\ heap' = NewPromise(heap)
    BY <1>3 DEF CreatePromise
  <2>2. HeapOK(heap') /\ Single(heap')
    BY <1>1, <1>2, <2>1, NewPromiseOK
  <2>3. /\ Created(heap) \subseteq Created(heap') /\ Made(heap) \subseteq Made(heap')
        /\ heap'.promises \in Created(heap') /\ heap'.pairs \in Made(heap')
    BY <1>1, <1>2, <2>1, NewPromiseGrows
  <2>4. StackOK(stack, heap')
    BY <1>1, <2>3, StackGrows
  <2>5. visible' \subseteq Created(heap') /\ exposed' \subseteq Made(heap')
    BY <1>1, <1>3, <2>3 DEF CreatePromise
  <2> QED
    BY <1>1, <1>3, <2>2, <2>4, <2>5 DEF CreatePromise, Inv, TypeOK, SingleResolver
<1>4. CASE CallAsync
  <2>1. Room(1, 1) /\ heap' = NewPromise(heap)
    BY <1>4 DEF CallAsync
  <2>2. HeapOK(heap') /\ Single(heap')
    BY <1>1, <1>2, <2>1, NewPromiseOK
  <2>3. /\ Created(heap) \subseteq Created(heap') /\ Made(heap) \subseteq Made(heap')
        /\ heap'.pairs \in Made(heap')
    BY <1>1, <1>2, <2>1, NewPromiseGrows
  <2>4. New("async", heap'.pairs) \in Frame
    BY <2>2, <2>3, CreatedIsPromise DEF New, Frame, CodeKind, LoopKind
  <2>5. StackOK(Push(New("async", heap'.pairs)), heap')
    <3>1. StackOK(stack, heap')
      BY <1>1, <2>3, StackGrows
    <3>2. New("async", heap'.pairs).pair \in Made(heap')
      BY <2>3 DEF New
    <3> QED
      BY <2>4, <3>1, <3>2, PushOK DEF Push
  <2> QED
    BY <1>1, <1>4, <2>2, <2>3, <2>5 DEF CallAsync, Inv, TypeOK, SingleResolver
<1>5. CASE EnqueueMicrotask
  <2>1. heap' = Enqueue(heap, <<[type |-> "microtask"]>>)
    BY <1>5 DEF EnqueueMicrotask
  <2>2. HeapOK(heap') /\ SameNames(heap', heap) /\ Single(heap')
    BY <1>1, <2>1, EnqueueMicrotaskOK
  <2>3. /\ Created(heap') = Created(heap) /\ Made(heap') = Made(heap)
        /\ StackOK(stack, heap')
    BY <1>1, <2>2, SameNamesSameSets
  <2> QED
    BY <1>1, <1>5, <2>2, <2>3 DEF EnqueueMicrotask, Inv, TypeOK, SingleResolver
<1>6. ASSUME NEW k \in Pair, CallResolve(k)
      PROVE  Inv'
  <2>1. PICK x \in Resolutions(k) : heap' = ResolveFunction(heap, k, x)
    BY <1>6 DEF CallResolve
  <2>2. k \in Made(heap)
    BY <1>1, <1>6 DEF CallResolve
  <2>3. ResolvesWith(heap, x)
    BY <1>1, <2>2, ResolutionsOK
  <2>4. HeapOK(heap') /\ SameNames(heap', heap) /\ Single(heap')
    BY <1>1, <2>1, <2>2, <2>3, ResolveFunctionOK
  <2>5. /\ Created(heap') = Created(heap) /\ Made(heap') = Made(heap)
        /\ StackOK(stack, heap')
    BY <1>1, <2>4, SameNamesSameSets
  <2> QED
    BY <1>1, <1>6, <2>4, <2>5 DEF CallResolve, Inv, TypeOK, SingleResolver
<1>7. ASSUME NEW k \in Pair, CallReject(k)
      PROVE  Inv'
  <2>1. heap' = RejectFunction(heap, k, k) /\ k \in Made(heap)
    BY <1>1, <1>7 DEF CallReject
  <2>2. HeapOK(heap') /\ SameNames(heap', heap) /\ Single(heap')
    BY <1>1, <2>1, RejectFunctionOK
  <2>3. /\ Created(heap') = Created(heap) /\ Made(heap') = Made(heap)
        /\ StackOK(stack, heap')
    BY <1>1, <2>2, SameNamesSameSets
  <2> QED
    BY <1>1, <1>7, <2>2, <2>3 DEF CallReject, Inv, TypeOK, SingleResolver
<1>8. ASSUME NEW p \in Promise, NEW f \in {"none", "user"},
             NEW r \in {"none", "user"}, CallThen(p, f, r)
      PROVE  Inv'
  <2> DEFINE g == NewPromise(heap)
             reaction == [cap |-> g.pairs, fn |-> None,
                          onFulfilled |-> f, onRejected |-> r]
  <2>1. /\ Room(1, 1) /\ p \in visible
        /\ heap' = PerformPromiseThen(g, p, reaction)
        /\ visible' \subseteq visible \cup {g.promises}
    BY <1>8 DEF CallThen
  <2>2. HeapOK(g) /\ Single(g)
    BY <1>1, <1>2, <2>1, NewPromiseOK
  <2>3. /\ Created(heap) \subseteq Created(g) /\ Made(heap) \subseteq Made(g)
        /\ g.promises \in Created(g) /\ g.pairs \in Made(g)
    BY <1>1, <1>2, <2>1, NewPromiseGrows
  <2> HIDE DEF g
  <2>4. reaction \in Reaction /\ ReactionOK(g, reaction)
    <3>1. g.pairs \in Pair /\ g.pairs # None
      BY <2>2, <2>3, CreatedIsPromise DEF Pair, None
    <3> QED
      BY <2>3, <3>1 DEF Reaction, Handler, ReactionOK
  <2>5. p \in Created(g)
    BY <1>1, <2>1, <2>3
  <2> HIDE DEF reaction
  <2>6. HeapOK(heap') /\ SameNames(heap', g) /\ Single(heap')
    BY <2>1, <2>2, <2>4, <2>5, PerformPromiseThenOK
  <2>7. Created(heap') = Created(g) /\ Made(heap') = Made(g)
    BY <2>6, SameNamesSameSets
  <2>8. StackOK(stack, heap')
    BY <1>1, <2>3, <2>7, StackGrows
  <2> QED
    BY <1>1, <1>8, <2>1, <2>3, <2>6, <2>7, <2>8
       DEF CallThen, Inv, TypeOK, SingleResolver
<1> QED
  BY <1>3, <1>4, <1>5, <1>6, <1>7, <1>8 DEF Program

-----------------------------------------------------------------------------
(* Activations are left by return, throw, await and by errors. *)
LEMMA LeavesKeepInv ==
  ASSUME Inv, Leaves
  PROVE  Inv'
<1>1. /\ TypeOK /\ Single(heap)
      /\ HeapOK(heap) /\ StackOK(stack, heap) /\ depth \in Int
      /\ order \in Seq(Pair)
      /\ visible \subseteq Created(heap) /\ exposed \subseteq Made(heap)
  BY DEF Inv, TypeOK, SingleResolver
<1>2. ASSUME stack # <<>>
      PROVE  /\ StackOK(Tail(stack), heap) /\ Head(stack) \in Frame
             /\ Head(stack).kind \in {"handler", "async", "then"} =>
                  Head(stack).pair \in Made(heap)
  BY <1>1, <1>2, PopOK
<1>3. ASSUME NEW e \in BOOLEAN, heap' = [heap EXCEPT !.error = e]
      PROVE  /\ HeapOK(heap') /\ Single(heap')
             /\ Created(heap') = Created(heap) /\ Made(heap') = Made(heap)
             /\ \A s : StackOK(s, heap) => StackOK(s, heap')
  <2>1. HeapOK(heap') /\ SameNames(heap', heap) /\ Single(heap')
    BY <1>1, <1>3, ErrorOK
  <2> QED
    BY <2>1, SameNamesSameSets
<1>4. HostMayCatch \subseteq BOOLEAN
  BY DEF HostMayCatch
<1>5. ASSUME NEW f \in Frame, f.pair \in Made(heap) \/ f.kind # "async",
             visible' = (IF f.kind = "async" /\ ~ heap'.error
                         THEN visible \cup {heap.target[f.pair]} ELSE visible)
      PROVE  visible' \subseteq Created(heap)
  BY <1>1, <1>5 DEF HeapOK
<1>6. CASE ExitOutermost
  <2>1. stack # <<>> /\ heap' = [heap EXCEPT !.error = FALSE]
    BY <1>6 DEF ExitOutermost, Top
  <2>2. PICK kind \in {"loop", "finally"} : stack' = Replace(New(kind, None))
    BY <1>6, Zenon DEF ExitOutermost, DepthAfterExit
  <2>3. /\ New(kind, None) \in Frame
        /\ New(kind, None).kind \notin {"handler", "async", "then"}
    BY DEF New, Frame, LoopKind, CodeKind
  <2>4. StackOK(stack', heap)
    BY <1>2, <2>1, <2>2, <2>3, PushOK DEF Replace
  <2>5. /\ HeapOK(heap') /\ Single(heap') /\ StackOK(stack', heap')
        /\ Created(heap') = Created(heap) /\ Made(heap') = Made(heap)
    BY <1>3, <2>1, <2>4
  <2>6. /\ depth' \in Int /\ order' = order
        /\ visible' = visible /\ exposed' = exposed
    BY <1>1, <1>6 DEF ExitOutermost, DepthAfterExit
  <2> QED
    BY <1>1, <2>5, <2>6 DEF Inv, TypeOK, SingleResolver
<1>7. CASE ExitNested
  <2>1. PICK e \in HostMayCatch : heap' = [heap EXCEPT !.error = e]
    BY <1>7 DEF ExitNested
  <2>2. StackOK(stack', heap)
    BY <1>2, <1>7 DEF ExitNested, Top
  <2>3. /\ HeapOK(heap') /\ Single(heap') /\ StackOK(stack', heap')
        /\ Created(heap') = Created(heap) /\ Made(heap') = Made(heap)
    BY <1>3, <1>4, <2>1, <2>2
  <2> QED
    BY <1>1, <1>7, <2>3 DEF ExitNested, DepthAfterExit, Inv, TypeOK, SingleResolver
<1>8. CASE ReturnResult
  <2> DEFINE k == Head(stack).pair
  <2>1. /\ stack # <<>> /\ stack' = Tail(stack)
        /\ Head(stack).kind \in {"handler", "async"}
    BY <1>8 DEF ReturnResult, Top
  <2>2. k \in Made(heap) /\ Head(stack) \in Frame /\ StackOK(stack', heap)
    BY <1>2, <2>1
  <2>3. PICK x \in Resolutions(k) : heap' = ResolveFunction(heap, k, x)
    BY <1>8 DEF ReturnResult
  <2>4. ResolvesWith(heap, x)
    BY <1>1, <2>2, ResolutionsOK
  <2>5. HeapOK(heap') /\ SameNames(heap', heap) /\ Single(heap')
    BY <1>1, <2>2, <2>3, <2>4, ResolveFunctionOK
  <2>6. /\ Created(heap') = Created(heap) /\ Made(heap') = Made(heap)
        /\ StackOK(stack', heap')
    BY <2>2, <2>5, SameNamesSameSets
  <2>7. visible' \subseteq Created(heap)
    BY <1>5, <1>8, <2>2 DEF ReturnResult, Leave
  <2> QED
    BY <1>1, <1>8, <2>5, <2>6, <2>7 DEF ReturnResult, Inv, TypeOK, SingleResolver
<1>9. CASE Throw
  <2> DEFINE k == Head(stack).pair
  <2>1. /\ stack # <<>> /\ stack' = Tail(stack)
        /\ Head(stack).kind \in {"handler", "async", "then"}
    BY <1>9 DEF Throw, Top
  <2>2. k \in Made(heap) /\ Head(stack) \in Frame /\ StackOK(stack', heap)
    BY <1>2, <2>1
  <2>3. k \in Pair
    BY <1>1, <2>2, CreatedIsPromise
  <2>4. heap' = RejectFunction(heap, k, k)
    BY <1>9 DEF Throw
  <2>5. HeapOK(heap') /\ SameNames(heap', heap) /\ Single(heap')
    BY <1>1, <2>2, <2>3, <2>4, RejectFunctionOK
  <2>6. /\ Created(heap') = Created(heap) /\ Made(heap') = Made(heap)
        /\ StackOK(stack', heap')
    BY <2>2, <2>5, SameNamesSameSets
  <2>7. visible' \subseteq Created(heap)
    BY <1>5, <1>9, <2>2 DEF Throw, Leave
  <2> QED
    BY <1>1, <1>9, <2>5, <2>6, <2>7 DEF Throw, Inv, TypeOK, SingleResolver
<1>10. CASE Return
  <2>1. StackOK(stack', heap)
    BY <1>2, <1>10 DEF Return, Top
  <2> QED
    BY <1>1, <1>10, <2>1 DEF Return, Inv, TypeOK, SingleResolver
<1>11. CASE MicrotaskThrows
  <2>1. StackOK(stack', heap)
    BY <1>1, <1>11, PopTwoOK DEF MicrotaskThrows
  <2> QED
    BY <1>1, <1>11, <2>1 DEF MicrotaskThrows, Inv, TypeOK, SingleResolver
<1>12. CASE Unwind
  <2>1. PICK e \in BOOLEAN : heap' = [heap EXCEPT !.error = e]
    <3>1. (CASE Top({"loop", "finally"}) -> HostMayCatch
             [] Top({"microtasks"}) -> {FALSE}
             [] OTHER -> {Len(stack) > 1}) \subseteq BOOLEAN
      <4>1. (Len(stack) > 1) \in BOOLEAN
        BY <1>1, LenProperties DEF StackOK
      <4>2. ~ (Top({"loop", "finally"}) /\ Top({"microtasks"}))
        BY DEF Top
      <4> QED
        BY <1>4, <4>1, <4>2
    <3> QED
      BY <1>12, <3>1 DEF Unwind
  <2>2. StackOK(stack', heap)
    BY <1>2, <1>12 DEF Unwind
  <2>3. /\ HeapOK(heap') /\ Single(heap') /\ StackOK(stack', heap')
        /\ Created(heap') = Created(heap) /\ Made(heap') = Made(heap)
    BY <1>3, <2>1, <2>2
  <2> QED
    BY <1>1, <1>12, <2>3 DEF Unwind, Inv, TypeOK, SingleResolver
<1>13. ASSUME NEW x \in Awaitable, Await(x)
       PROVE  Inv'
  <2> DEFINE k == heap.pairs + 1
             p == IF x.kind = "promise" THEN x.ref ELSE heap.promises + 1
             g == IF x.kind = "promise" THEN heap
                  ELSE ResolveFunction(NewPromise(heap), k, x)
             reaction == [cap |-> None, fn |-> Head(stack).pair,
                          onFulfilled |-> "resume", onRejected |-> "resume"]
  <2>1. /\ stack # <<>> /\ stack' = Tail(stack) /\ Head(stack).kind = "async"
        /\ x.kind # "promise" => Room(1, 1)
        /\ heap' = PerformPromiseThen(g, p, reaction)
    BY <1>13 DEF Await, Top
  <2>2. /\ Head(stack).pair \in Made(heap) /\ Head(stack) \in Frame
        /\ StackOK(stack', heap)
    BY <1>2, <2>1
  <2>3. /\ HeapOK(g) /\ Single(g) /\ p \in Created(g)
        /\ Created(heap) \subseteq Created(g) /\ Made(heap) \subseteq Made(g)
    <3>1. CASE x.kind = "promise"
      <4>1. x.ref \in visible
        BY <3>1 DEF Awaitable
      <4> QED
        BY <1>1, <3>1, <4>1
    <3>2. CASE x.kind # "promise"
      <4> DEFINE n == NewPromise(heap)
      <4>1. heap.promises < MaxPromises /\ heap.pairs < MaxPairs
        <5>1. heap.promises + 1 <= MaxPromises /\ heap.pairs + 1 <= MaxPairs
          BY <1>1, <2>1, <3>2, RoomOK
        <5>2. heap.promises \in Nat /\ heap.pairs \in Nat
          BY <1>1 DEF HeapOK, Heap
        <5> QED
          BY <5>1, <5>2, BoundsAssumption
      <4>2. HeapOK(n) /\ Single(n)
        BY <1>1, <4>1, NewPromiseOK
      <4>3. /\ Created(heap) \subseteq Created(n) /\ Made(heap) \subseteq Made(n)
            /\ heap.promises + 1 \in Created(n) /\ k \in Made(n)
        BY <1>1, <4>1, NewPromiseGrows
      <4>4. ResolvesWith(n, x)
        <5>1. k \in Pair
          BY <4>2, <4>3, CreatedIsPromise
        <5> QED
          BY <3>2, <5>1 DEF Awaitable, ResolvesWith, Resolution
      <4> HIDE DEF n, k
      <4>5. /\ HeapOK(ResolveFunction(n, k, x)) /\ Single(ResolveFunction(n, k, x))
            /\ SameNames(ResolveFunction(n, k, x), n)
        BY <4>2, <4>3, <4>4, ResolveFunctionOK
      <4>6. g = ResolveFunction(n, k, x) /\ p = heap.promises + 1
        BY <3>2 DEF n, k
      <4> HIDE DEF g, p
      <4>7. Created(g) = Created(n) /\ Made(g) = Made(n)
        BY <4>5, <4>6, SameNamesSameSets
      <4> QED
        BY <4>3, <4>5, <4>6, <4>7
    <3> QED
      BY <3>1, <3>2
  <2> HIDE DEF g, p
  <2>4. reaction \in Reaction /\ ReactionOK(g, reaction)
    <3>1. /\ Head(stack).pair \in Made(g) /\ Head(stack).pair \in Pair
          /\ Head(stack).pair # None
      BY <1>1, <2>2, <2>3, CreatedIsPromise DEF Pair, None
    <3> QED
      BY <3>1 DEF Reaction, Handler, ReactionOK
  <2> HIDE DEF reaction
  <2>5. HeapOK(heap') /\ SameNames(heap', g) /\ Single(heap')
    BY <2>1, <2>3, <2>4, PerformPromiseThenOK
  <2>6. Created(heap') = Created(g) /\ Made(heap') = Made(g)
    BY <2>5, SameNamesSameSets
  <2>7. StackOK(stack', heap')
    BY <2>2, <2>3, <2>6, StackGrows
  <2>8. visible' \subseteq Created(heap)
    BY <1>5, <1>13, <2>2 DEF Await, Leave
  <2> QED
    BY <1>1, <1>13, <2>3, <2>5, <2>6, <2>7, <2>8
       DEF Await, Inv, TypeOK, SingleResolver
<1> QED
  BY <1>6, <1>7, <1>8, <1>9, <1>10, <1>11, <1>12, <1>13 DEF Leaves

-----------------------------------------------------------------------------
(* Jobs are polled and run. *)
LEMMA LoopKeepsInv ==
  ASSUME Inv, Loop
  PROVE  Inv'
<1>1. /\ TypeOK /\ Single(heap)
      /\ HeapOK(heap) /\ StackOK(stack, heap) /\ depth \in Int
      /\ order \in Seq(Pair)
      /\ visible \subseteq Created(heap) /\ exposed \subseteq Made(heap)
  BY DEF Inv, TypeOK, SingleResolver
<1>2. ASSUME NEW e \in BOOLEAN, heap' = [heap EXCEPT !.error = e]
      PROVE  /\ HeapOK(heap') /\ Single(heap')
             /\ Created(heap') = Created(heap) /\ Made(heap') = Made(heap)
             /\ \A s : StackOK(s, heap) => StackOK(s, heap')
  <2>1. HeapOK(heap') /\ SameNames(heap', heap) /\ Single(heap')
    BY <1>1, <1>2, ErrorOK
  <2> QED
    BY <2>1, SameNamesSameSets
<1>3. CASE LoopEnds
  <2>1. stack # <<>> /\ stack' = Tail(stack)
    BY <1>3 DEF LoopEnds, LoopRuns, Top
  <2>2. PICK e \in BOOLEAN : heap' = [heap EXCEPT !.error = e]
    BY <1>3, Zenon DEF LoopEnds
  <2>3. StackOK(stack', heap)
    BY <1>1, <2>1, PopOK
  <2>4. /\ HeapOK(heap') /\ Single(heap') /\ StackOK(stack', heap')
        /\ Created(heap') = Created(heap) /\ Made(heap') = Made(heap)
    BY <1>2, <2>2, <2>3
  <2> QED
    BY <1>1, <1>3, <2>4 DEF LoopEnds, Inv, TypeOK, SingleResolver
<1>4. CASE LoopFails
  <2>1. heap' = [heap EXCEPT !.error = TRUE] /\ UNCHANGED stack
    BY <1>4 DEF LoopFails
  <2>2. /\ HeapOK(heap') /\ Single(heap') /\ StackOK(stack', heap')
        /\ Created(heap') = Created(heap) /\ Made(heap') = Made(heap)
    BY <1>1, <1>2, <2>1
  <2> QED
    BY <1>1, <1>4, <2>2 DEF LoopFails, Inv, TypeOK, SingleResolver
(* Whatever job is polled is in the queue, and the heap without it is fine. *)
<1>5. ASSUME NEW type, Poll(type)
      PROVE  /\ HeapOK(Rest) /\ Single(Rest) /\ SameNames(Rest, heap)
             /\ Created(Rest) = Created(heap) /\ Made(Rest) = Made(heap)
             /\ StackOK(stack, Rest)
             /\ Polled \in Job /\ Polled.type = type /\ JobOK(Rest, Polled)
             /\ Polled.type = "thenable" => /\ ~ Undecided(Rest, Polled.promise)
                                            /\ Rest.state[Polled.promise] = "pending"
             /\ depth' \in Int /\ order' \in Seq(Pair)
  <2>1. /\ heap.queue # <<>> /\ ~ Blocked(Ids, order)
        /\ ~ Unidentifiable(Ids, order)
        /\ order' = Replayed(order) /\ depth' = depth /\ Polled.type = type
    BY <1>5 DEF Poll, NothingToRun
  <2>2. heap.queue \in Seq(Job)
    BY <1>1 DEF HeapOK, Heap
  <2>3. Len(heap.queue) \in Nat \ {0} /\ DOMAIN heap.queue = 1..Len(heap.queue)
    BY <2>1, <2>2, EmptySeq, LenProperties
  <2>4. Ids \in Seq(Pair \cup {NoIdentifier}) /\ Len(Ids) = Len(heap.queue)
    BY <1>1, IdentifiersOfQueue DEF Ids
  <2>5. Ids # <<>>
    BY <2>3, <2>4, EmptySeq
  <2>6. NextJob(Ids, order) \in 1..Len(Ids)
    BY <2>1, <2>4, <2>5, NextJobInQueue
  <2> DEFINE n == NextJob(Ids, order)
  <2>7. n \in DOMAIN heap.queue
    BY <2>3, <2>4, <2>6
  <2>8. Polled = heap.queue[n] /\ Rest = [heap EXCEPT !.queue = RemoveAt(@, n)]
    BY DEF Polled, Rest
  <2> HIDE DEF n
  <2>9. /\ HeapOK(Rest) /\ SameNames(Rest, heap) /\ Single(Rest)
        /\ Polled \in Job /\ JobOK(Rest, Polled)
        /\ Polled.type = "thenable" => /\ ~ Undecided(Rest, Polled.promise)
                                       /\ Rest.state[Polled.promise] = "pending"
    BY <1>1, <2>7, <2>8, PollOK
  <2>10. order' \in Seq(Pair)
    BY <1>1, <2>1, HeadTailProperties DEF Replayed, Replaying
  <2>11. /\ Created(Rest) = Created(heap) /\ Made(Rest) = Made(heap)
         /\ StackOK(stack, Rest)
    BY <1>1, <2>9, SameNamesSameSets
  <2> QED
    BY <1>1, <2>1, <2>9, <2>10, <2>11
<1> HIDE DEF Rest, Polled
<1>6. ASSUME Poll("reaction")
      PROVE  /\ Polled.argument \in Pair /\ Polled.cap \in Pair \cup {None}
             /\ Polled.fn \in Pair \cup {None} /\ Polled.handler \in Handler
             /\ Polled.handler # "resume" => Polled.cap \in Made(Rest)
             /\ Polled.handler \in {"resolving", "resume"} =>
                  Polled.fn \in Made(Rest)
             /\ \A h, v : [kind |-> "value", ref |-> Polled.argument] = v =>
                  ResolvesWith(h, v)
  <2>1. /\ Polled \in Job /\ Polled.type = "reaction" /\ JobOK(Rest, Polled)
    BY <1>5, <1>6
  <2>2. Polled \in ReactionJob
    BY <2>1 DEF Job, ThenableJob, Microtask
  <2> QED
    BY <2>1, <2>2 DEF ReactionJob, JobOK, ResolvesWith, Resolution
<1>7. ASSUME Poll("thenable")
      PROVE  /\ Polled.promise \in Created(Rest)
             /\ Polled.thenable \in Created(Rest) \cup {None}
  BY <1>5, <1>7 DEF JobOK
<1>8. CASE RunPassThrough
  <2>1. Poll("reaction") /\ Polled.handler = "none" /\ UNCHANGED <<stack, visible, exposed>>
    BY <1>8 DEF RunPassThrough
  <2>2. HeapOK(Rest) /\ Single(Rest) /\ Polled.cap \in Made(Rest)
    BY <1>5, <1>6, <2>1
  <2>3. HeapOK(heap') /\ SameNames(heap', Rest) /\ Single(heap')
    <3>1. heap' = PassOn(Rest, Polled.cap, Polled.outcome, Polled.argument)
      BY <1>8 DEF RunPassThrough
    <3>2. Polled.argument \in Pair
      BY <1>6, <2>1
    <3> QED
      BY <2>2, <3>1, <3>2, PassOnOK
  <2>4. /\ Created(heap') = Created(heap) /\ Made(heap') = Made(heap)
        /\ StackOK(stack, heap')
    BY <1>5, <2>1, <2>3, SameNamesSameSets
  <2> QED
    BY <1>1, <1>5, <2>1, <2>3, <2>4 DEF Inv, TypeOK, SingleResolver
<1>9. CASE RunAdoption
  <2> DEFINE y == [kind |-> "value", ref |-> Polled.cap]
             g == PassOn(Rest, Polled.fn, Polled.outcome, Polled.argument)
  <2>1. /\ Poll("reaction") /\ Polled.handler = "resolving"
        /\ UNCHANGED <<stack, visible, exposed>>
        /\ heap' = ResolveFunction(g, Polled.cap, y)
    BY <1>9 DEF RunAdoption
  <2>2. /\ HeapOK(Rest) /\ Single(Rest) /\ Polled.cap \in Made(Rest)
        /\ Polled.fn \in Made(Rest) /\ Polled.argument \in Pair
    BY <1>5, <1>6, <2>1
  <2>3. HeapOK(g) /\ SameNames(g, Rest) /\ Single(g)
    BY <2>2, PassOnOK
  <2> HIDE DEF g
  <2>4. Created(g) = Created(heap) /\ Made(g) = Made(heap) /\ StackOK(stack, g)
    BY <1>5, <2>1, <2>3, SameNamesSameSets
  <2>5. Polled.cap \in Made(g) /\ ResolvesWith(g, y)
    <3>1. Polled.cap \in Made(g)
      BY <1>5, <2>1, <2>2, <2>4
    <3>2. Polled.cap \in Pair
      BY <2>3, <3>1, CreatedIsPromise
    <3> QED
      BY <3>1, <3>2 DEF ResolvesWith, Resolution
  <2> HIDE DEF y
  <2>6. HeapOK(heap') /\ SameNames(heap', g) /\ Single(heap')
    BY <2>1, <2>3, <2>5, ResolveFunctionOK
  <2>7. /\ Created(heap') = Created(heap) /\ Made(heap') = Made(heap)
        /\ StackOK(stack, heap')
    BY <2>4, <2>6, SameNamesSameSets
  <2> QED
    BY <1>1, <1>5, <2>1, <2>6, <2>7 DEF Inv, TypeOK, SingleResolver
<1>10. CASE RunHandler
  <2>1. /\ Poll("reaction") /\ Polled.handler = "user" /\ heap' = Rest
        /\ stack' = Push(New("handler", Polled.cap))
        /\ UNCHANGED <<visible, exposed>>
    BY <1>10 DEF RunHandler
  <2>2. /\ New("handler", Polled.cap) \in Frame
        /\ New("handler", Polled.cap).pair \in Made(Rest)
    BY <1>6, <2>1 DEF New, Frame, CodeKind, LoopKind
  <2>3. StackOK(stack', Rest)
    BY <1>5, <2>1, <2>2, PushOK DEF Push
  <2> QED
    BY <1>1, <1>5, <2>1, <2>3 DEF Inv, TypeOK, SingleResolver
<1>11. CASE RunResume
  <2>1. /\ Poll("reaction") /\ Polled.handler = "resume" /\ heap' = Rest
        /\ stack' = Push(New("async", Polled.fn))
        /\ UNCHANGED <<visible, exposed>>
    BY <1>11 DEF RunResume
  <2>2. /\ New("async", Polled.fn) \in Frame
        /\ New("async", Polled.fn).pair \in Made(Rest)
    BY <1>6, <2>1 DEF New, Frame, CodeKind, LoopKind
  <2>3. StackOK(stack', Rest)
    BY <1>5, <2>1, <2>2, PushOK DEF Push
  <2> QED
    BY <1>1, <1>5, <2>1, <2>3 DEF Inv, TypeOK, SingleResolver
<1>12. CASE RunMicrotask
  <2>1. /\ Poll("microtask") /\ heap' = Rest
        /\ stack' = Push(New("microtask", None))
        /\ UNCHANGED <<visible, exposed>>
    BY <1>12 DEF RunMicrotask
  <2>2. /\ New("microtask", None) \in Frame
        /\ New("microtask", None).kind = "microtask"
    BY DEF New, Frame, CodeKind, LoopKind
  <2>3. StackOK(stack', Rest)
    BY <1>5, <2>1, <2>2, PushOK DEF Push
  <2> QED
    BY <1>1, <1>5, <2>1, <2>3 DEF Inv, TypeOK, SingleResolver
<1>13. CASE RunThen
  <2> DEFINE p == Polled.promise
  <2>1. /\ Poll("thenable") /\ heap.pairs < MaxPairs
        /\ heap' = CreateResolvingFunctions(Rest, p)
        /\ exposed' = exposed \cup {heap'.pairs}
        /\ stack' = Push(New("then", heap'.pairs)) /\ UNCHANGED visible
    BY <1>13 DEF RunThen
  <2>2. /\ HeapOK(Rest) /\ Single(Rest) /\ p \in Created(Rest)
        /\ ~ Undecided(Rest, p) /\ Rest.state[p] = "pending"
        /\ Rest.pairs = heap.pairs /\ Rest.promises = heap.promises
    BY <1>5, <1>7, <2>1 DEF SameNames
  <2> HIDE DEF p
  <2>3. /\ HeapOK(heap') /\ Single(heap')
        /\ heap'.promises = heap.promises /\ heap'.pairs = heap.pairs + 1
    <3>1. HeapOK(Rest) /\ Rest.pairs < MaxPairs
      BY <2>1, <2>2
    <3>2. /\ HeapOK(CreateResolvingFunctions(Rest, p))
          /\ Single(CreateResolvingFunctions(Rest, p))
          /\ CreateResolvingFunctions(Rest, p).promises = Rest.promises
          /\ CreateResolvingFunctions(Rest, p).pairs = Rest.pairs + 1
      BY <2>2, <3>1, CreateResolvingFunctionsOK
    <3> QED
      BY <2>1, <2>2, <3>2
  <2>4. /\ Created(heap') = Created(heap) /\ Made(heap) \subseteq Made(heap')
        /\ heap'.pairs \in Made(heap')
    <3>1. heap.pairs \in Nat
      BY <1>1 DEF HeapOK, Heap
    <3> QED
      BY <2>3, <3>1 DEF Created, Made
  <2>5. StackOK(stack', heap')
    <3>1. /\ New("then", heap'.pairs) \in Frame
          /\ New("then", heap'.pairs).pair \in Made(heap')
      BY <2>3, <2>4, CreatedIsPromise DEF New, Frame, CodeKind, LoopKind
    <3>2. StackOK(stack, heap')
      BY <1>1, <2>4, StackGrows
    <3> QED
      BY <2>1, <3>1, <3>2, PushOK DEF Push
  <2> QED
    BY <1>1, <1>5, <2>1, <2>3, <2>4, <2>5 DEF Inv, TypeOK, SingleResolver
<1>14. CASE RunAdopt
  <2> DEFINE p == Polled.promise
             f == CreateResolvingFunctions(Rest, p)
             g == NewPromise(f)
             reaction == Adopting(g.pairs, heap.pairs + 1)
  <2>1. /\ Poll("thenable") /\ Polled.thenable # None
        /\ heap.promises < MaxPromises /\ heap.pairs + 1 < MaxPairs
        /\ heap' = PerformPromiseThen(g, Polled.thenable, reaction)
        /\ UNCHANGED <<stack, visible, exposed>>
    BY <1>14 DEF RunAdopt
  <2>2. /\ HeapOK(Rest) /\ Single(Rest) /\ p \in Created(Rest)
        /\ Polled.thenable \in Created(Rest)
        /\ ~ Undecided(Rest, p) /\ Rest.state[p] = "pending"
        /\ Rest.pairs = heap.pairs /\ Rest.promises = heap.promises
    BY <1>5, <1>7, <2>1 DEF SameNames
  <2>3. heap.pairs \in Nat /\ heap.promises \in Nat /\ MaxPairs \in Nat
    BY <1>1, BoundsAssumption DEF HeapOK, Heap
  <2>4. Rest.pairs < MaxPairs
    BY <2>1, <2>2, <2>3
  <2> HIDE DEF p
  <2>5. /\ HeapOK(f) /\ Single(f)
        /\ f.promises = heap.promises /\ f.pairs = heap.pairs + 1
    <3>1. HeapOK(Rest)
      BY <2>2
    <3>2. HeapOK(f) /\ Single(f) /\ f.promises = Rest.promises /\ f.pairs = Rest.pairs + 1
      BY <2>2, <2>4, <3>1, CreateResolvingFunctionsOK
    <3> QED
      BY <2>2, <3>2
  <2>6. Created(f) = Created(heap) /\ Made(heap) \subseteq Made(f) /\ f.pairs \in Made(f)
    BY <2>3, <2>5 DEF Created, Made
  <2> HIDE DEF f
  <2>7. f.promises < MaxPromises /\ f.pairs < MaxPairs
    BY <2>1, <2>5
  <2>8. /\ HeapOK(g) /\ Single(g)
        /\ Created(f) \subseteq Created(g) /\ Made(f) \subseteq Made(g)
        /\ g.pairs \in Made(g)
    BY <2>5, <2>7, NewPromiseOK, NewPromiseGrows
  <2> HIDE DEF g
  <2>9. reaction \in Reaction /\ ReactionOK(g, reaction)
    <3>1. /\ g.pairs \in Pair /\ g.pairs # None /\ g.pairs \in Made(g)
          /\ heap.pairs + 1 \in Made(g) /\ heap.pairs + 1 \in Pair
          /\ heap.pairs + 1 # None
      BY <2>3, <2>5, <2>6, <2>8, CreatedIsPromise DEF Pair, None
    <3> QED
      BY <3>1 DEF Adopting, Reaction, Handler, ReactionOK
  <2>10. Polled.thenable \in Created(g)
    BY <1>5, <2>1, <2>2, <2>6, <2>8
  <2> HIDE DEF reaction
  <2>11. HeapOK(heap') /\ SameNames(heap', g) /\ Single(heap')
    BY <2>1, <2>8, <2>9, <2>10, PerformPromiseThenOK
  <2>12. Created(heap') = Created(g) /\ Made(heap') = Made(g)
    BY <2>11, SameNamesSameSets
  <2>13. StackOK(stack, heap')
    BY <1>1, <2>6, <2>8, <2>12, StackGrows
  <2> QED
    BY <1>1, <1>5, <2>1, <2>6, <2>8, <2>11, <2>12, <2>13
       DEF Inv, TypeOK, SingleResolver
<1> QED
  BY <1>3, <1>4, <1>8, <1>9, <1>10, <1>11, <1>12, <1>13, <1>14 DEF Loop

-----------------------------------------------------------------------------
LEMMA InitInv == Init => Inv
<1> SUFFICES ASSUME Init PROVE Inv
  OBVIOUS
<1>1. HeapOK(heap) /\ Single(heap)
  BY EmptyHeapOK DEF Init
<1>2. StackOK(stack, heap)
  BY EmptySeq DEF Init, StackOK
<1>3. order \in Seq(Pair)
  BY EmbeddingAssumption, EmptySeq DEF Init
<1> QED
  BY <1>1, <1>2, <1>3 DEF Init, Inv, TypeOK, SingleResolver

LEMMA NextKeepsInv == Inv /\ [Next]_vars => Inv'
<1> SUFFICES ASSUME Inv, [Next]_vars PROVE Inv'
  OBVIOUS
<1>1. CASE Next
  BY <1>1, EmbedderKeepsInv, ProgramKeepsInv, LeavesKeepInv, LoopKeepsInv DEF Next
<1>2. CASE UNCHANGED vars
  BY <1>2 DEF vars, Inv, TypeOK, SingleResolver
<1> QED
  BY <1>1, <1>2

LEMMA InvAlways == Spec => []Inv
BY InitInv, NextKeepsInv, PTL DEF Spec

(* Whatever is queued, registered or active refers to promises and pairs   *)
(* of resolving functions that exist, in every state of every program, in  *)
(* each mode of the recorder.                                              *)
THEOREM TypeCorrect == Spec => []TypeOK
<1>1. Inv => TypeOK
  BY DEF Inv
<1> QED
  BY <1>1, InvAlways, PTL

(* At most one pair or job may settle a promise, and none a settled one:   *)
(* the assertions of FulfillPromiseNode and RejectPromiseNode hold.        *)
THEOREM PromisesHaveOneResolver == Spec => []SingleResolver
<1>1. Inv => SingleResolver
  BY DEF Inv
<1> QED
  BY <1>1, InvAlways, PTL
-----------------------------------------------------------------------------
(* The stack with one more activation on top. *)
LEMMA Pushed ==
  ASSUME NEW s \in Seq(Frame), NEW f \in Frame
  PROVE  /\ <<f>> \o s \in Seq(Frame) /\ Len(<<f>> \o s) = 1 + Len(s)
         /\ \A i \in 1 .. 1 + Len(s) :
              (<<f>> \o s)[i] = IF i <= 1 THEN <<f>>[i] ELSE s[i - 1]
<1> DEFINE t == <<f>> \o s
<1>1. <<f>> \in Seq(Frame) /\ Len(<<f>>) = 1
  OBVIOUS
<1>2. /\ t \in Seq(Frame) /\ Len(t) = Len(<<f>>) + Len(s)
      /\ \A i \in 1 .. Len(<<f>>) + Len(s) :
           t[i] = IF i <= Len(<<f>>) THEN <<f>>[i] ELSE s[i - Len(<<f>>)]
  BY <1>1, ConcatProperties
<1> QED
  BY <1>1, <1>2

(* The calls between interopBoundaryEnter and -Exit on a stack. *)
Boundaries(s) == {i \in DOMAIN s : s[i].kind = "boundary"}

LEMMA BoundariesFinite ==
  ASSUME NEW s \in Seq(Frame)
  PROVE  IsFiniteSet(Boundaries(s)) /\ Cardinality(Boundaries(s)) \in Nat
<1>1. Len(s) \in Nat /\ DOMAIN s = 1..Len(s)
  BY LenProperties
<1>2. IsFiniteSet(DOMAIN s)
  BY <1>1, FS_Interval
<1>3. IsFiniteSet(Boundaries(s))
  BY <1>2, FS_Subset DEF Boundaries
<1> QED
  BY <1>3, FS_CardinalityType

(* One more activation on top moves the others down by one. *)
LEMMA PushCounts ==
  ASSUME NEW s \in Seq(Frame), NEW f \in Frame
  PROVE  Cardinality(Boundaries(<<f>> \o s)) =
           IF f.kind = "boundary" THEN Cardinality(Boundaries(s)) + 1
           ELSE Cardinality(Boundaries(s))
<1> DEFINE t == <<f>> \o s
           S == Boundaries(s)
           M == {i + 1 : i \in S}
           move == [i \in S |-> i + 1]
<1>1. Len(s) \in Nat /\ DOMAIN s = 1..Len(s)
  BY LenProperties
<1>2. /\ t \in Seq(Frame) /\ Len(t) = 1 + Len(s)
      /\ \A i \in 1 .. 1 + Len(s) : t[i] = IF i <= 1 THEN <<f>>[i] ELSE s[i - 1]
  BY Pushed
<1>3. DOMAIN t = 1 .. 1 + Len(s)
  BY <1>2, LenProperties
<1>4. t[1] = f /\ \A i \in DOMAIN s : i + 1 \in DOMAIN t /\ t[i + 1] = s[i]
  <2>1. t[1] = f
    BY <1>1, <1>2
  <2>2. ASSUME NEW i \in DOMAIN s
        PROVE  i + 1 \in DOMAIN t /\ t[i + 1] = s[i]
    <3>1. /\ i + 1 \in 1 .. 1 + Len(s) /\ ~ (i + 1 <= 1) /\ (i + 1) - 1 = i
      BY <1>1
    <3> QED
      BY <1>2, <1>3, <3>1
  <2> QED
    BY <2>1, <2>2
<1> HIDE DEF t
<1>5. \A i \in DOMAIN t : i = 1 \/ \E j \in DOMAIN s : i = j + 1
  <2>1. \A i \in DOMAIN t : i = 1 \/ (i - 1 \in DOMAIN s /\ i = (i - 1) + 1)
    BY <1>1, <1>3
  <2> QED
    BY <2>1
<1>6. Boundaries(t) = IF f.kind = "boundary" THEN M \cup {1} ELSE M
  <2>1. \A i \in DOMAIN t : i = 1 => (i \in Boundaries(t) <=> f.kind = "boundary")
    BY <1>4 DEF Boundaries
  <2>2. \A j \in DOMAIN s : j + 1 \in Boundaries(t) <=> j \in S
    BY <1>4 DEF Boundaries
  <2>3. 1 \in DOMAIN t /\ Boundaries(t) \subseteq DOMAIN t
        /\ S \subseteq DOMAIN s
    BY <1>1, <1>3 DEF Boundaries
  <2>4. \A i \in M : \E j \in S : i = j + 1
    OBVIOUS
  <2> HIDE DEF S
  <2>5. M \subseteq Boundaries(t)
    BY <2>2, <2>3
  <2>6. \A i \in Boundaries(t) : i = 1 \/ i \in M
    BY <1>5, <2>2, <2>3
  <2>7. 1 \notin M
    <3>1. \A j \in S : j + 1 # 1
      BY <1>1, <2>3
    <3> QED
      BY <3>1
  <2> QED
    BY <2>1, <2>3, <2>5, <2>6, <2>7
<1>7. S \subseteq Nat \ {0}
  BY <1>1 DEF Boundaries
<1> HIDE DEF S
<1>8. IsFiniteSet(S) /\ Cardinality(S) \in Nat
  BY BoundariesFinite DEF S
<1>9. IsFiniteSet(M) /\ Cardinality(M) = Cardinality(S)
  <2>1. move \in Bijection(S, M)
    <3>1. move \in [S -> M]
      OBVIOUS
    <3>2. \A i, j \in S : move[i] = move[j] => i = j
      BY <1>7
    <3>3. \A m \in M : \E i \in S : move[i] = m
      OBVIOUS
    <3> HIDE DEF move, M
    <3> QED
      BY <3>1, <3>2, <3>3 DEF Bijection, Injection, Surjection, IsInjective
  <2>2. ExistsBijection(S, M)
    BY <2>1 DEF ExistsBijection
  <2> QED
    BY <1>8, <2>2, FS_Bijection
<1>10. 1 \notin M
  BY <1>7
<1> HIDE DEF M, move
<1>11. Cardinality(M \cup {1}) = Cardinality(M) + 1
  BY <1>9, <1>10, FS_AddElement
<1> QED
  BY <1>6, <1>9, <1>11 DEF t, S

(* A stack is its innermost activation and what that was put upon. *)
LEMMA PopCounts ==
  ASSUME NEW s \in Seq(Frame), s # <<>>
  PROVE  /\ Head(s) \in Frame /\ Tail(s) \in Seq(Frame)
         /\ Cardinality(Boundaries(Tail(s))) =
              IF Head(s).kind = "boundary" THEN Cardinality(Boundaries(s)) - 1
              ELSE Cardinality(Boundaries(s))
<1> DEFINE h == Head(s)
           t == Tail(s)
<1>1. h \in Frame /\ t \in Seq(Frame)
  BY HeadTailProperties
<1>2. s = <<h>> \o t
  <2>1. Len(s) \in Nat \ {0} /\ DOMAIN s = 1..Len(s)
    BY EmptySeq, LenProperties
  <2>2. /\ Len(t) = Len(s) - 1 /\ \A i \in 1..Len(t) : t[i] = s[i + 1]
    BY HeadTailProperties
  <2>3. h = s[1]
    BY <2>1
  <2> HIDE DEF h, t
  <2> DEFINE u == <<h>> \o t
  <2>4. <<h>> \in Seq(Frame) /\ Len(<<h>>) = 1 /\ <<h>>[1] = h
    BY <1>1
  <2>5. /\ u \in Seq(Frame) /\ Len(u) = Len(<<h>>) + Len(t)
        /\ \A i \in 1 .. Len(<<h>>) + Len(t) :
             u[i] = IF i <= Len(<<h>>) THEN <<h>>[i] ELSE t[i - Len(<<h>>)]
    BY <1>1, <2>4, ConcatProperties
  <2> HIDE DEF u
  <2>6. Len(u) = Len(s)
    BY <2>1, <2>2, <2>4, <2>5
  <2>7. ASSUME NEW i \in 1..Len(s)
        PROVE  u[i] = s[i]
    <3>1. CASE i = 1
      BY <2>1, <2>2, <2>3, <2>4, <2>5, <3>1
    <3>2. CASE i # 1
      <4>1. i - 1 \in 1..Len(t) /\ ~ (i <= 1) /\ i \in 1 .. 1 + Len(t)
            /\ (i - 1) + 1 = i
        BY <2>1, <2>2, <3>2
      <4> QED
        BY <2>2, <2>4, <2>5, <4>1
    <3> QED
      BY <3>1, <3>2
  <2>8. u = s
    BY <2>5, <2>6, <2>7, SeqEqual
  <2> QED
    BY <2>8 DEF u
<1> HIDE DEF h, t
<1>3. Cardinality(Boundaries(s)) =
        IF h.kind = "boundary" THEN Cardinality(Boundaries(t)) + 1
        ELSE Cardinality(Boundaries(t))
  BY <1>1, <1>2, PushCounts
<1>4. Cardinality(Boundaries(t)) \in Nat
  BY <1>1, BoundariesFinite
<1> QED
  BY <1>1, <1>3, <1>4 DEF h, t

(* A microtask is called by the loop below it. *)
CalledByLoop(s) ==
  \A i \in DOMAIN s : s[i].kind = "microtask" =>
    i + 1 \in DOMAIN s /\ s[i + 1].kind \in LoopKind

LEMMA PushCalled ==
  ASSUME NEW s \in Seq(Frame), NEW f \in Frame, CalledByLoop(s),
         f.kind = "microtask" => s # <<>> /\ Head(s).kind \in LoopKind
  PROVE  CalledByLoop(<<f>> \o s)
<1> DEFINE t == <<f>> \o s
<1>1. Len(s) \in Nat /\ DOMAIN s = 1..Len(s) /\ (s # <<>> => Len(s) # 0)
  BY EmptySeq, LenProperties
<1>2. /\ t \in Seq(Frame) /\ Len(t) = 1 + Len(s)
      /\ \A i \in 1 .. 1 + Len(s) : t[i] = IF i <= 1 THEN <<f>>[i] ELSE s[i - 1]
  BY Pushed
<1>3. DOMAIN t = 1 .. 1 + Len(s)
  BY <1>2, LenProperties
<1> HIDE DEF t
<1>4. t[1] = f
  <2>1. 1 \in 1 .. 1 + Len(s) /\ <<f>>[1] = f
    BY <1>1
  <2> QED
    BY <1>2, <2>1
<1>5. ASSUME NEW i \in DOMAIN t, t[i].kind = "microtask"
      PROVE  i + 1 \in DOMAIN t /\ t[i + 1].kind \in LoopKind
  <2>1. CASE i = 1
    <3>1. s # <<>> /\ Head(s).kind \in LoopKind /\ Head(s) = s[1] /\ Len(s) # 0
      BY <1>1, <1>4, <1>5, <2>1
    <3>2. 2 \in 1 .. 1 + Len(s) /\ ~ (2 <= 1) /\ 2 - 1 = 1 /\ 1 + 1 = 2
      BY <1>1, <3>1
    <3>3. t[2] = s[1]
      BY <1>2, <3>2
    <3> QED
      BY <1>3, <2>1, <3>1, <3>2, <3>3
  <2>2. CASE i # 1
    <3>1. /\ i - 1 \in DOMAIN s /\ ~ (i <= 1) /\ i \in 1 .. 1 + Len(s)
          /\ (i - 1) + 1 = i /\ i \in Int
      BY <1>1, <1>3, <2>2
    <3>2. t[i] = s[i - 1]
      BY <1>2, <3>1
    <3>3. i \in DOMAIN s /\ s[i].kind \in LoopKind
      BY <1>5, <3>1, <3>2 DEF CalledByLoop
    <3>4. /\ i + 1 \in 1 .. 1 + Len(s) /\ ~ (i + 1 <= 1) /\ (i + 1) - 1 = i
      BY <1>1, <3>3
    <3>5. t[i + 1] = s[i]
      BY <1>2, <3>4
    <3> QED
      BY <1>3, <3>3, <3>4, <3>5
  <2> QED
    BY <2>1, <2>2
<1> QED
  BY <1>5 DEF t, CalledByLoop

LEMMA PopCalled ==
  ASSUME NEW s \in Seq(Frame), s # <<>>, CalledByLoop(s)
  PROVE  /\ CalledByLoop(Tail(s))
         /\ Head(s).kind = "microtask" =>
              Tail(s) # <<>> /\ Head(Tail(s)).kind \in LoopKind
<1> DEFINE t == Tail(s)
<1>1. Len(s) \in Nat \ {0} /\ DOMAIN s = 1..Len(s) /\ Head(s) = s[1]
  BY EmptySeq, LenProperties
<1>2. /\ t \in Seq(Frame) /\ Len(t) = Len(s) - 1
      /\ \A i \in 1..Len(t) : t[i] = s[i + 1]
  BY HeadTailProperties
<1>3. DOMAIN t = 1..Len(t)
  BY <1>2, LenProperties
<1> HIDE DEF t
<1>4. ASSUME NEW i \in DOMAIN t, t[i].kind = "microtask"
      PROVE  i + 1 \in DOMAIN t /\ t[i + 1].kind \in LoopKind
  <2>1. i + 1 \in DOMAIN s /\ s[i + 1].kind = "microtask" /\ i \in Nat
    BY <1>1, <1>2, <1>3, <1>4
  <2>2. (i + 1) + 1 \in DOMAIN s /\ s[(i + 1) + 1].kind \in LoopKind
    BY <2>1 DEF CalledByLoop
  <2>3. i + 1 \in 1..Len(t)
    BY <1>1, <1>2, <2>1, <2>2
  <2> QED
    BY <1>2, <1>3, <2>2, <2>3
<1>5. ASSUME Head(s).kind = "microtask"
      PROVE  t # <<>> /\ Head(t).kind \in LoopKind
  <2>1. 1 + 1 \in DOMAIN s /\ s[1 + 1].kind \in LoopKind
    BY <1>1, <1>5 DEF CalledByLoop
  <2>2. 1 \in 1..Len(t)
    BY <1>1, <1>2, <2>1
  <2>3. t[1] = s[1 + 1]
    BY <1>2, <2>2
  <2>4. t # <<>>
    BY <1>2, <2>2, EmptySeq
  <2>5. Head(t) = t[1]
    BY <1>2, <2>4
  <2> QED
    BY <2>1, <2>3, <2>4, <2>5
<1> QED
  BY <1>4, <1>5 DEF t, CalledByLoop

(* MicrotaskThrows leaves two activations. *)
LEMMA PopTwo ==
  ASSUME NEW s \in Seq(Frame), s # <<>>, Tail(s) # <<>>
  PROVE  SubSeq(s, 3, Len(s)) = Tail(Tail(s))
<1> DEFINE t == Tail(s)
           u == Tail(t)
           v == SubSeq(s, 3, Len(s))
<1>1. /\ t \in Seq(Frame) /\ Len(t) = Len(s) - 1
      /\ \A i \in 1..Len(t) : t[i] = s[i + 1]
  BY HeadTailProperties
<1>2. Len(s) \in Nat /\ Len(t) \in Nat \ {0}
  BY <1>1, EmptySeq, LenProperties
<1> HIDE DEF t
<1>3. /\ u \in Seq(Frame) /\ Len(u) = Len(t) - 1
      /\ \A i \in 1..Len(u) : u[i] = t[i + 1]
  BY <1>1, HeadTailProperties DEF t
<1> HIDE DEF u
<1>4. 3 \in Int /\ Len(s) \in Int /\ \A i \in 3..Len(s) : s[i] \in Frame
  BY <1>2, ElementOfSeq
<1>5. /\ v \in Seq(Frame)
      /\ Len(v) = IF 3 <= Len(s) THEN Len(s) - 3 + 1 ELSE 0
      /\ \A i \in 1 .. Len(s) - 3 + 1 : v[i] = s[3 + i - 1]
  BY <1>4, SubSeqProperties
<1> HIDE DEF v
<1>6. Len(u) = Len(v) /\ Len(u) = Len(s) - 2 /\ Len(u) \in Nat
  BY <1>1, <1>2, <1>3, <1>5
<1>7. ASSUME NEW i \in 1..Len(u)
      PROVE  u[i] = v[i]
  <2>1. /\ i + 1 \in 1..Len(t) /\ i \in 1 .. Len(s) - 3 + 1
        /\ (i + 1) + 1 = 3 + i - 1
    BY <1>1, <1>2, <1>3, <1>6
  <2> QED
    BY <1>1, <1>3, <1>5, <2>1
<1>8. u = v
  BY <1>3, <1>5, <1>6, <1>7, SeqEqual
<1> QED
  BY <1>8 DEF u, v, t

LEMMA PushedIsFrame ==
  ASSUME NEW s \in Seq(Frame), NEW f, <<f>> \o s \in Seq(Frame)
  PROVE  f \in Frame
<1> DEFINE S == Frame \cup {f}
           t == <<f>> \o s
<1>1. Len(s) \in Nat /\ DOMAIN s = 1..Len(s) /\ \A i \in 1..Len(s) : s[i] \in Frame
  BY LenProperties, ElementOfSeq
<1>2. s \in Seq(S) /\ <<f>> \in Seq(S) /\ Len(<<f>>) = 1 /\ <<f>>[1] = f
  OBVIOUS
<1> HIDE DEF S
<1>3. /\ Len(t) = Len(<<f>>) + Len(s)
      /\ \A i \in 1 .. Len(<<f>>) + Len(s) :
           t[i] = IF i <= Len(<<f>>) THEN <<f>>[i] ELSE s[i - Len(<<f>>)]
  BY <1>2, ConcatProperties
<1> HIDE DEF t
<1>4. 1 \in 1..Len(t) /\ t[1] = f
  BY <1>1, <1>2, <1>3
<1>5. t \in Seq(Frame)
  BY DEF t
<1> QED
  BY <1>4, <1>5, ElementOfSeq

-----------------------------------------------------------------------------
(* Activations that settle no pair have none; that of a then method has    *)
(* one the program holds.                                                  *)
FrameShaped(f, e) == /\ f.kind = "then" => f.pair \in e
                     /\ f.kind \notin {"handler", "async", "then"} => f.pair = None

(* What a step does to the stack and to the depth. *)
Pushes(f) == /\ stack' = <<f>> \o stack
             /\ depth' = IF f.kind = "boundary" THEN depth + 1 ELSE depth
             /\ f.kind = "microtask" => stack # <<>> /\ Head(stack).kind \in LoopKind
             /\ FrameShaped(f, exposed') /\ f.kind # "finally"

Pops == /\ stack # <<>>
        /\ stack' = Tail(stack)
        /\ depth' = IF Head(stack).kind = "boundary" THEN depth - 1 ELSE depth

Replaces(f) == /\ stack # <<>> /\ Head(stack).kind = "boundary"
               /\ f.kind \in LoopKind /\ f.pair = None
               /\ ~ heap.error => f.kind # "finally"
               /\ stack' = <<f>> \o Tail(stack)
               /\ depth' = depth - 1

PopsTwo == /\ stack # <<>> /\ Head(stack).kind = "microtask"
           /\ stack' = SubSeq(stack, 3, Len(stack))
           /\ depth' = depth

Stays == stack' = stack /\ depth' = depth

MovesStack == \/ Stays \/ Pops \/ PopsTwo
              \/ \E f : Pushes(f) \/ Replaces(f)

LEMMA EachStepMovesStack ==
  ASSUME [Next]_vars
  PROVE  MovesStack
<1>1. \A kind, k : New(kind, k).kind = kind /\ New(kind, k).pair = k
  BY DEF New
<1>2. CASE Embedder
  <2>1. CASE EnterBoundary
    <3>1. Pushes(New("boundary", None))
      BY <1>1, <2>1 DEF EnterBoundary, Push, Pushes, FrameShaped
    <3> QED
      BY <3>1 DEF MovesStack
  <2>2. CASE NodeCall
    <3>1. Pushes(New("call", None))
      BY <1>1, <2>2 DEF NodeCall, Push, Pushes, FrameShaped
    <3> QED
      BY <3>1 DEF MovesStack
  <2>3. CASE RunMicrotasks
    <3>1. Pushes(New("microtasks", None))
      BY <1>1, <2>3 DEF RunMicrotasks, Push, Pushes, FrameShaped
    <3> QED
      BY <3>1 DEF MovesStack
  <2> QED
    BY <1>2, <2>1, <2>2, <2>3 DEF Embedder
<1>3. CASE Program
  <2>1. CASE CallAsync
    <3>1. Pushes(New("async", heap'.pairs))
      BY <1>1, <2>1 DEF CallAsync, Push, Pushes, FrameShaped
    <3> QED
      BY <3>1 DEF MovesStack
  <2>2. CASE CreatePromise
    BY <2>2 DEF CreatePromise, MovesStack, Stays
  <2>3. CASE EnqueueMicrotask
    BY <2>3 DEF EnqueueMicrotask, MovesStack, Stays
  <2>4. ASSUME NEW k \in Pair, CallResolve(k) \/ CallReject(k)
        PROVE  MovesStack
    BY <2>4 DEF CallResolve, CallReject, MovesStack, Stays
  <2>5. ASSUME NEW p \in Promise, NEW f \in {"none", "user"},
               NEW r \in {"none", "user"}, CallThen(p, f, r)
        PROVE  MovesStack
    BY <2>5 DEF CallThen, MovesStack, Stays
  <2> QED
    BY <1>3, <2>1, <2>2, <2>3, <2>4, <2>5 DEF Program
<1>4. CASE Leaves
  <2>1. CASE ExitOutermost
    <3>1. PICK kind \in {"loop", "finally"} :
            /\ stack' = Replace(New(kind, None))
            /\ ~ heap.error => kind # "finally"
      <4>1. stack' = Replace(New(IF heap.error THEN "finally" ELSE "loop", None))
        BY <2>1 DEF ExitOutermost
      <4>2. CASE heap.error
        BY <4>1, <4>2
      <4>3. CASE ~ heap.error
        BY <4>1, <4>3
      <4> QED
        BY <4>2, <4>3
    <3>2. Replaces(New(kind, None))
      <4>1. /\ New(kind, None).kind \in LoopKind /\ New(kind, None).pair = None
            /\ ~ heap.error => New(kind, None).kind # "finally"
        BY <1>1, <3>1 DEF LoopKind
      <4> QED
        BY <2>1, <3>1, <4>1
           DEF ExitOutermost, DepthAfterExit, Top, Replace, Replaces
    <3> QED
      BY <3>2 DEF MovesStack
  <2>2. CASE ExitNested
    BY <2>2 DEF ExitNested, DepthAfterExit, Top, Pops, MovesStack
  <2>3. CASE ReturnResult
    BY <2>3 DEF ReturnResult, Top, Pops, MovesStack
  <2>4. CASE Throw
    BY <2>4 DEF Throw, Top, Pops, MovesStack
  <2>5. CASE Return
    BY <2>5 DEF Return, Top, Pops, MovesStack
  <2>6. CASE MicrotaskThrows
    BY <2>6 DEF MicrotaskThrows, Top, PopsTwo, MovesStack
  <2>7. CASE Unwind
    BY <2>7 DEF Unwind, Top, Pops, MovesStack
  <2>8. ASSUME NEW x \in Awaitable, Await(x)
        PROVE  MovesStack
    <3>1. Top({"async"}) /\ stack' = Tail(stack) /\ depth' = depth
      BY <2>8 DEF Await
    <3> QED
      BY <3>1 DEF Top, Pops, MovesStack
  <2> QED
    BY <1>4, <2>1, <2>2, <2>3, <2>4, <2>5, <2>6, <2>7, <2>8 DEF Leaves
<1>5. CASE Loop
  <2>1. ASSUME NEW type, Poll(type)
        PROVE  depth' = depth /\ stack # <<>> /\ Head(stack).kind \in LoopKind
    BY <2>1 DEF Poll, LoopRuns, Top
  <2>2. CASE LoopEnds
    BY <2>2 DEF LoopEnds, LoopRuns, Top, LoopKind, Pops, MovesStack
  <2>3. CASE LoopFails
    BY <2>3 DEF LoopFails, MovesStack, Stays
  <2>4. CASE RunPassThrough
    BY <2>1, <2>4 DEF RunPassThrough, MovesStack, Stays
  <2>5. CASE RunAdoption
    BY <2>1, <2>5 DEF RunAdoption, MovesStack, Stays
  <2>6. CASE RunAdopt
    BY <2>1, <2>6 DEF RunAdopt, MovesStack, Stays
  <2>7. CASE RunHandler
    <3>1. Pushes(New("handler", Polled.cap))
      <4>1. stack' = <<New("handler", Polled.cap)>> \o stack /\ depth' = depth
        BY <2>1, <2>7 DEF RunHandler, Push
      <4> QED
        BY <1>1, <4>1 DEF Pushes, FrameShaped
    <3> QED
      BY <3>1 DEF MovesStack
  <2>8. CASE RunResume
    <3>1. Pushes(New("async", Polled.fn))
      <4>1. stack' = <<New("async", Polled.fn)>> \o stack /\ depth' = depth
        BY <2>1, <2>8 DEF RunResume, Push
      <4> QED
        BY <1>1, <4>1 DEF Pushes, FrameShaped
    <3> QED
      BY <3>1 DEF MovesStack
  <2>9. CASE RunThen
    <3>1. Pushes(New("then", heap'.pairs))
      <4>1. /\ stack' = <<New("then", heap'.pairs)>> \o stack /\ depth' = depth
            /\ heap'.pairs \in exposed'
        BY <2>1, <2>9 DEF RunThen, Push
      <4> QED
        BY <1>1, <4>1 DEF Pushes, FrameShaped
    <3> QED
      BY <3>1 DEF MovesStack
  <2>10. CASE RunMicrotask
    <3>1. Pushes(New("microtask", None))
      <4>1. /\ stack' = <<New("microtask", None)>> \o stack /\ depth' = depth
            /\ stack # <<>> /\ Head(stack).kind \in LoopKind
        BY <2>1, <2>10 DEF RunMicrotask, Push
      <4> QED
        BY <1>1, <4>1 DEF Pushes, FrameShaped
    <3> QED
      BY <3>1 DEF MovesStack
  <2> QED
    BY <1>5, <2>2, <2>3, <2>4, <2>5, <2>6, <2>7, <2>8, <2>9, <2>10 DEF Loop
<1>6. CASE UNCHANGED vars
  BY <1>6 DEF vars, MovesStack, Stays
<1> QED
  BY <1>2, <1>3, <1>4, <1>5, <1>6 DEF Next

(* With the type of the stack, and what is below a microtask on it. *)
Balanced == BoundaryBalance /\ CalledByLoop(stack)

LEMMA BalanceKept ==
  ASSUME stack \in Seq(Frame), stack' \in Seq(Frame), depth \in Int,
         Balanced, MovesStack
  PROVE  Balanced'
<1>1. /\ depth = Cardinality(Boundaries(stack)) /\ CalledByLoop(stack)
      /\ BoundaryBalance' <=> depth' = Cardinality(Boundaries(stack'))
  BY DEF Balanced, BoundaryBalance, Boundaries
<1>2. LoopKind \subseteq {"loop", "finally", "microtasks"}
  BY DEF LoopKind
<1>3. CASE Stays
  BY <1>1, <1>3 DEF Stays, Balanced
<1>4. CASE Pops
  <2>1. stack # <<>> /\ stack' = Tail(stack)
    BY <1>4 DEF Pops
  <2>2. CalledByLoop(stack')
    BY <1>1, <2>1, PopCalled
  <2>3. depth' = Cardinality(Boundaries(stack'))
    BY <1>1, <1>4, <2>1, PopCounts DEF Pops
  <2> QED
    BY <1>1, <2>2, <2>3 DEF Balanced
<1>5. CASE PopsTwo
  <2> DEFINE t == Tail(stack)
  <2>1. stack # <<>> /\ Head(stack).kind = "microtask" /\ depth' = depth
    BY <1>5 DEF PopsTwo
  <2>2. /\ t # <<>> /\ Head(t).kind \in LoopKind /\ CalledByLoop(t)
    BY <1>1, <2>1, PopCalled
  <2>3. t \in Seq(Frame) /\ Cardinality(Boundaries(t)) = depth
    BY <1>1, <2>1, PopCounts
  <2>4. stack' = Tail(t)
    BY <1>5, <2>1, <2>2, PopTwo DEF PopsTwo
  <2> HIDE DEF t
  <2>5. CalledByLoop(stack')
    BY <2>2, <2>3, <2>4, PopCalled
  <2>6. Cardinality(Boundaries(stack')) = Cardinality(Boundaries(t))
    BY <1>2, <2>2, <2>3, <2>4, PopCounts
  <2> QED
    BY <1>1, <2>1, <2>3, <2>5, <2>6 DEF Balanced
<1>6. ASSUME NEW f, Pushes(f)
      PROVE  Balanced'
  <2>1. /\ stack' = <<f>> \o stack
        /\ depth' = IF f.kind = "boundary" THEN depth + 1 ELSE depth
        /\ f.kind = "microtask" => stack # <<>> /\ Head(stack).kind \in LoopKind
    BY <1>6 DEF Pushes
  <2>2. f \in Frame
    BY <2>1, PushedIsFrame
  <2>3. CalledByLoop(stack')
    BY <1>1, <2>1, <2>2, PushCalled
  <2>4. depth' = Cardinality(Boundaries(stack'))
    BY <1>1, <2>1, <2>2, PushCounts
  <2> QED
    BY <1>1, <2>3, <2>4 DEF Balanced
<1>7. ASSUME NEW f, Replaces(f)
      PROVE  Balanced'
  <2> DEFINE t == Tail(stack)
  <2>1. /\ stack # <<>> /\ Head(stack).kind = "boundary"
        /\ f.kind \in LoopKind /\ stack' = <<f>> \o t /\ depth' = depth - 1
    BY <1>7 DEF Replaces
  <2>2. /\ t \in Seq(Frame) /\ CalledByLoop(t)
        /\ Cardinality(Boundaries(t)) = depth - 1
    BY <1>1, <2>1, PopCounts, PopCalled
  <2> HIDE DEF t
  <2>3. f \in Frame
    BY <2>1, <2>2, PushedIsFrame
  <2>4. f.kind # "boundary" /\ f.kind # "microtask"
    BY <1>2, <2>1
  <2>5. CalledByLoop(stack')
    BY <2>1, <2>2, <2>3, <2>4, PushCalled
  <2>6. Cardinality(Boundaries(stack')) = depth - 1
    BY <2>1, <2>2, <2>3, <2>4, PushCounts
  <2> QED
    BY <1>1, <2>1, <2>5, <2>6 DEF Balanced
<1> QED
  BY <1>3, <1>4, <1>5, <1>6, <1>7 DEF MovesStack

LEMMA BalancedAlways == Spec => []Balanced
<1>1. Init => Balanced
  <2> SUFFICES ASSUME Init PROVE Balanced
    OBVIOUS
  <2>1. stack = <<>> /\ depth = 0 /\ DOMAIN stack = {}
    BY DEF Init
  <2>2. {i \in DOMAIN stack : stack[i].kind = "boundary"} = {}
    BY <2>1
  <2>3. BoundaryBalance
    BY <2>1, <2>2, FS_EmptySet DEF BoundaryBalance
  <2> QED
    BY <2>1, <2>3 DEF Balanced, CalledByLoop
<1>2. Inv /\ Inv' /\ Balanced /\ [Next]_vars => Balanced'
  <2> SUFFICES ASSUME Inv, Inv', Balanced, [Next]_vars PROVE Balanced'
    OBVIOUS
  <2>1. stack \in Seq(Frame) /\ stack' \in Seq(Frame) /\ depth \in Int
    BY DEF Inv, TypeOK, StackOK
  <2> QED
    BY <2>1, EachStepMovesStack, BalanceKept
<1> QED
  BY <1>1, <1>2, InvAlways, PTL DEF Spec

(* Whatever returns, throws or is unwound, by recorder errors too, the     *)
(* agent's call depth is the number of calls that crossed the boundary.    *)
THEOREM DepthCountsBoundaries == Spec => []BoundaryBalance
<1>1. Balanced => BoundaryBalance
  BY DEF Balanced
<1> QED
  BY <1>1, BalancedAlways, PTL
-----------------------------------------------------------------------------
(* Without the recorder no error is thrown that JavaScript cannot catch,   *)
(* and without Node there are no microtasks of the embedder.               *)
NoRecorder == ~ TRACING /\ ~ REPLAY

Calm(h) == /\ ~ h.error
           /\ NODE \/ \A i \in DOMAIN h.queue : h.queue[i].type # "microtask"

(* Nothing is written: every job is pushed. *)
LEMMA EnqueueTakesAll ==
  ASSUME ~ TRACING, NEW h \in Heap, NEW jobs \in Seq(Job)
  PROVE  /\ ~ Enqueue(h, jobs).error
         /\ Enqueue(h, jobs).queue = h.queue \o jobs
<1> DEFINE g == Enqueue(h, jobs)
           n == Serializable(Identifiers(jobs))
<1>1. Len(jobs) \in Nat /\ DOMAIN jobs = 1..Len(jobs)
  BY LenProperties
<1>2. n = Len(jobs)
  <2>1. Identifiers(jobs) = [i \in 1..Len(jobs) |-> Identifier(jobs[i])]
    BY <1>1 DEF Identifiers
  <2>2. Len(Identifiers(jobs)) = Len(jobs)
    BY <1>1, <2>1
  <2> QED
    BY <2>2 DEF Serializable
<1>3. SubSeq(jobs, 1, n) = jobs
  <2>1. 1 \in Int /\ Len(jobs) \in Int /\ \A i \in 1..Len(jobs) : jobs[i] \in Job
    BY <1>1, ElementOfSeq
  <2>2. /\ SubSeq(jobs, 1, Len(jobs)) \in Seq(Job)
        /\ Len(SubSeq(jobs, 1, Len(jobs))) =
             IF 1 <= Len(jobs) THEN Len(jobs) - 1 + 1 ELSE 0
        /\ \A i \in 1 .. Len(jobs) - 1 + 1 :
             SubSeq(jobs, 1, Len(jobs))[i] = jobs[1 + i - 1]
    BY <2>1, SubSeqProperties
  <2> DEFINE t == SubSeq(jobs, 1, Len(jobs))
  <2> HIDE DEF t
  <2>3. Len(t) = Len(jobs) /\ t \in Seq(Job)
    BY <1>1, <2>2 DEF t
  <2>4. \A i \in 1..Len(jobs) : t[i] = jobs[i]
    <3>1. \A i \in 1..Len(jobs) : i \in 1 .. Len(jobs) - 1 + 1 /\ 1 + i - 1 = i
      BY <1>1
    <3> QED
      BY <2>2, <3>1 DEF t
  <2>5. t = jobs
    BY <2>3, <2>4, SeqEqual
  <2> QED
    BY <1>2, <2>5 DEF t
<1>4. g.queue = h.queue \o jobs /\ g.error = (n < Len(jobs))
  <2> HIDE DEF n
  <2> QED
    BY <1>3 DEF Enqueue, Heap, n
<1>5. ~ g.error
  <2> HIDE DEF g, n
  <2>1. ~ (n < Len(jobs))
    BY <1>1, <1>2
  <2> QED
    BY <1>4, <2>1
<1> QED
  BY <1>4, <1>5

LEMMA CalmEnqueue ==
  ASSUME NoRecorder, NEW h \in Heap, Calm(h), NEW jobs \in Seq(Job),
         NODE \/ \A i \in DOMAIN jobs : jobs[i].type # "microtask"
  PROVE  Calm(Enqueue(h, jobs))
<1> DEFINE g == Enqueue(h, jobs)
           q == h.queue
<1>1. Len(jobs) \in Nat /\ DOMAIN jobs = 1..Len(jobs)
  BY LenProperties
<1>2. g.queue = q \o jobs /\ ~ g.error
  BY EnqueueTakesAll DEF NoRecorder
<1>3. q \in Seq(Job) /\ Len(q) \in Nat /\ DOMAIN q = 1..Len(q)
  BY LenProperties DEF Heap
<1>4. NODE \/ \A i \in DOMAIN q : q[i].type # "microtask"
  BY DEF Calm
<1> HIDE DEF g, q
<1> DEFINE u == q \o jobs
<1>5. /\ u \in Seq(Job) /\ Len(u) = Len(q) + Len(jobs)
      /\ \A i \in 1 .. Len(q) + Len(jobs) :
           u[i] = IF i <= Len(q) THEN q[i] ELSE jobs[i - Len(q)]
  BY <1>3, ConcatProperties
<1> HIDE DEF u
<1>6. DOMAIN u = 1 .. Len(q) + Len(jobs)
  BY <1>5, LenProperties
<1>7. ASSUME ~ NODE, NEW i \in DOMAIN u
      PROVE  u[i].type # "microtask"
  <2>1. i \in 1 .. Len(q) + Len(jobs)
    BY <1>6
  <2>2. CASE i <= Len(q)
    BY <1>3, <1>4, <1>5, <1>7, <2>1, <2>2
  <2>3. CASE ~ (i <= Len(q))
    <3>1. i - Len(q) \in DOMAIN jobs
      BY <1>1, <1>3, <2>1, <2>3
    <3> QED
      BY <1>5, <1>7, <2>1, <2>3, <3>1
  <2> QED
    BY <2>2, <2>3
<1> QED
  BY <1>2, <1>7 DEF Calm, g, u

LEMMA CalmEnqueueOne ==
  ASSUME NoRecorder, NEW h \in Heap, Calm(h), NEW job \in Job,
         NODE \/ job.type # "microtask"
  PROVE  Calm(Enqueue(h, <<job>>))
<1>1. /\ <<job>> \in Seq(Job)
      /\ NODE \/ \A i \in DOMAIN <<job>> : <<job>>[i].type # "microtask"
  OBVIOUS
<1> QED
  BY <1>1, CalmEnqueue

LEMMA CalmUse ==
  ASSUME NEW h, HeapOK(h), Calm(h), NEW k \in Made(h)
  PROVE  Calm(Use(h, k)) /\ HeapOK(Use(h, k)) /\ SameNames(Use(h, k), h)
<1>1. HeapOK(Use(h, k)) /\ SameNames(Use(h, k), h)
  BY UseOK
<1>2. Calm(Use(h, k))
  BY DEF Calm, Use, HeapOK, Heap
<1> QED
  BY <1>1, <1>2

LEMMA CalmSettle ==
  ASSUME NoRecorder, NEW h, HeapOK(h), Calm(h), NEW p \in Created(h),
         NEW outcome \in Outcome, NEW value \in Pair
  PROVE  Calm(Settle(h, p, outcome, value))
<1> DEFINE s == SetState(h, p, outcome, value)
           rs == h.reactions[p]
           jobs == [i \in DOMAIN rs |-> NewReactionJob(rs[i], outcome, value)]
<1>1. h \in Heap /\ p \in Promise
  BY CreatedIsPromise DEF HeapOK
<1>2. Settle(h, p, outcome, value) = Enqueue(s, jobs)
  BY DEF Settle
<1>3. s \in Heap /\ s.error = h.error /\ s.queue = h.queue
  BY SetStateType
<1>4. rs \in Seq(Reaction) /\ \A i \in DOMAIN rs : ReactionOK(h, rs[i])
  BY <1>1 DEF HeapOK, Heap
<1>5. jobs \in Seq(Job) /\ \A i \in DOMAIN jobs : jobs[i].type # "microtask"
  <2> HIDE DEF rs
  <2>1. Len(rs) \in Nat /\ DOMAIN rs = 1..Len(rs)
    BY <1>4, LenProperties
  <2>2. \A i \in 1..Len(rs) : /\ NewReactionJob(rs[i], outcome, value) \in ReactionJob
                              /\ NewReactionJob(rs[i], outcome, value) \in Job
    BY <1>4, <2>1, NewReactionJobOK, ElementOfSeq DEF Job
  <2>3. jobs \in [1..Len(rs) -> Job]
    BY <2>1, <2>2
  <2>4. jobs \in Seq(Job)
    BY <2>1, <2>3, IsASeq
  <2> QED
    BY <2>1, <2>2, <2>4 DEF ReactionJob
<1> HIDE DEF s, jobs
<1>6. Calm(s)
  BY <1>3 DEF Calm
<1> QED
  BY <1>2, <1>3, <1>5, <1>6, CalmEnqueue

LEMMA CalmReject ==
  ASSUME NoRecorder, NEW h, HeapOK(h), Calm(h), NEW k \in Made(h),
         NEW reason \in Pair
  PROVE  Calm(RejectFunction(h, k, reason))
<1> DEFINE g == Use(h, k)
           p == h.target[k]
<1>1. Calm(g) /\ HeapOK(g) /\ SameNames(g, h)
  BY CalmUse
<1>2. p \in Created(g) /\ "rejected" \in Outcome
  BY <1>1 DEF HeapOK, SameNames, Made, Created, Outcome
<1> HIDE DEF g, p
<1>3. Calm(Settle(g, p, "rejected", reason))
  BY <1>1, <1>2, CalmSettle
<1> QED
  BY <1>3 DEF RejectFunction, g, p

LEMMA CalmResolve ==
  ASSUME NoRecorder, NEW h, HeapOK(h), Calm(h), NEW k \in Made(h),
         NEW x, ResolvesWith(h, x)
  PROVE  Calm(ResolveFunction(h, k, x))
<1> DEFINE g == Use(h, k)
           p == h.target[k]
           job == [type |-> "thenable", promise |-> p, thenable |-> x.ref]
           f == ResolveFunction(h, k, x)
<1>1. Calm(g) /\ HeapOK(g) /\ SameNames(g, h)
  BY CalmUse
<1>2. /\ p \in Created(g) /\ p \in Promise /\ k \in Pair
      /\ {"fulfilled", "rejected"} \subseteq Outcome
  BY <1>1, CreatedIsPromise DEF HeapOK, SameNames, Made, Created, Outcome
<1>3. \/ f = h
      \/ x.kind = "value" /\ f = Settle(g, p, "fulfilled", x.ref)
      \/ f = Settle(g, p, "rejected", k)
      \/ x.kind \notin {"value", "poisoned"} /\ f = Enqueue(g, <<job>>)
  BY DEF ResolveFunction
<1> HIDE DEF g, p, f
<1>4. CASE x.kind = "value" /\ f = Settle(g, p, "fulfilled", x.ref)
  <2>1. x.ref \in Pair
    BY <1>4 DEF ResolvesWith, Resolution
  <2> QED
    BY <1>1, <1>2, <1>4, <2>1, CalmSettle DEF f
<1>5. CASE f = Settle(g, p, "rejected", k)
  BY <1>1, <1>2, <1>5, CalmSettle DEF f
<1>6. CASE x.kind \notin {"value", "poisoned"} /\ f = Enqueue(g, <<job>>)
  <2>1. x.ref \in Promise \cup {None}
    BY <1>6 DEF ResolvesWith, Resolution
  <2>2. job \in Job /\ job.type # "microtask" /\ g \in Heap
    BY <1>1, <1>2, <2>1 DEF Job, ThenableJob, HeapOK
  <2> HIDE DEF job
  <2> QED
    BY <1>1, <1>6, <2>2, CalmEnqueueOne DEF f
<1> QED
  BY <1>3, <1>4, <1>5, <1>6 DEF f

LEMMA CalmPassOn ==
  ASSUME NoRecorder, NEW h, HeapOK(h), Calm(h), NEW k \in Made(h),
         NEW outcome, NEW value \in Pair
  PROVE  Calm(PassOn(h, k, outcome, value))
<1> DEFINE x == [kind |-> "value", ref |-> value]
<1>1. ResolvesWith(h, x)
  BY DEF ResolvesWith, Resolution
<1>2. PassOn(h, k, outcome, value) = IF outcome = "fulfilled"
                                     THEN ResolveFunction(h, k, x)
                                     ELSE RejectFunction(h, k, value)
  BY DEF PassOn
<1> HIDE DEF x
<1> QED
  BY <1>1, <1>2, CalmResolve, CalmReject

LEMMA CalmNewPair ==
  ASSUME NEW h \in Heap, NEW p, Calm(h)
  PROVE  Calm(CreateResolvingFunctions(h, p)) /\ Calm(NewPromise(h))
<1>1. \A g : g = [h EXCEPT !.promises = @ + 1] =>
               g.queue = h.queue /\ g.error = h.error
  BY DEF Heap
<1>2. /\ CreateResolvingFunctions(h, p).queue = h.queue
      /\ CreateResolvingFunctions(h, p).error = h.error
      /\ NewPromise(h).queue = h.queue
      /\ NewPromise(h).error = h.error
  BY DEF Heap, CreateResolvingFunctions, NewPromise
<1> QED
  BY <1>2 DEF Calm

LEMMA CalmThen ==
  ASSUME NoRecorder, NEW h, HeapOK(h), Calm(h), NEW p \in Created(h),
         NEW r \in Reaction, ReactionOK(h, r)
  PROVE  Calm(PerformPromiseThen(h, p, r))
<1> DEFINE f == PerformPromiseThen(h, p, r)
           told == [h EXCEPT !.unhandled = h.unhandled \ {p}]
           job == NewReactionJob(r, h.state[p], h.result[p])
           done == Enqueue(told, <<job>>)
<1>1. h \in Heap /\ p \in Promise /\ ~ h.error
  BY CreatedIsPromise DEF HeapOK, Calm
<1>2. CASE h.state[p] = "pending"
  <2>1. f.queue = h.queue /\ f.error = h.error
    BY <1>1, <1>2 DEF PerformPromiseThen, Heap
  <2> QED
    BY <2>1 DEF Calm
<1>3. CASE h.state[p] # "pending"
  <2>1. h.state[p] \in Outcome /\ h.result[p] \in Pair
    BY <1>1, <1>3 DEF HeapOK, Heap
  <2>2. job \in Job /\ job.type # "microtask"
    BY <2>1, NewReactionJobOK DEF Job, ReactionJob
  <2>3. told \in Heap /\ told.queue = h.queue /\ told.error = h.error
    BY <1>1 DEF Heap
  <2>4. f = [done EXCEPT !.handled = IF done.error THEN done.handled
                                     ELSE done.handled \cup {p}]
    BY <1>1, <1>3 DEF PerformPromiseThen, TellHandled
  <2> HIDE DEF told, job, f
  <2>5. Calm(told)
    BY <2>3 DEF Calm
  <2>6. Calm(done)
    BY <2>2, <2>3, <2>5, CalmEnqueueOne
  <2>7. done = [told EXCEPT !.queue = done.queue, !.log = done.log,
                            !.error = done.error]
    BY <2>3 DEF Enqueue, Heap
  <2> HIDE DEF done
  <2>8. f.queue = done.queue /\ f.error = done.error
    BY <2>3, <2>4, <2>7 DEF Heap
  <2> QED
    BY <2>6, <2>8 DEF Calm, f
<1> QED
  BY <1>2, <1>3

(* The loop takes a job that is queued. *)
PollsAt(n) == /\ n \in DOMAIN heap.queue
              /\ Polled = heap.queue[n]
              /\ Rest = [heap EXCEPT !.queue = RemoveAt(@, n)]

LEMMA PolledIsQueued ==
  ASSUME HeapOK(heap), NEW type, Poll(type)
  PROVE  /\ Polled.type = type
         /\ \E n : PollsAt(n)
         /\ ~ REPLAY => PollsAt(1)
<1>1. /\ heap.queue # <<>> /\ ~ Blocked(Ids, order)
      /\ ~ Unidentifiable(Ids, order) /\ Polled.type = type
  BY DEF Poll, NothingToRun
<1>2. heap.queue \in Seq(Job)
  BY DEF HeapOK, Heap
<1>3. Len(heap.queue) \in Nat \ {0} /\ DOMAIN heap.queue = 1..Len(heap.queue)
  BY <1>1, <1>2, EmptySeq, LenProperties
<1>4. Ids \in Seq(Pair \cup {NoIdentifier}) /\ Len(Ids) = Len(heap.queue)
  BY IdentifiersOfQueue DEF Ids
<1>5. Ids # <<>>
  BY <1>3, <1>4, EmptySeq
<1>6. NextJob(Ids, order) \in DOMAIN heap.queue
  BY <1>1, <1>3, <1>4, <1>5, NextJobInQueue
<1>7. PollsAt(NextJob(Ids, order))
  BY <1>6 DEF PollsAt, Polled, Rest
<1>8. ~ REPLAY => NextJob(Ids, order) = 1
  BY DEF NextJob, Replaying
<1> QED
  BY <1>1, <1>7, <1>8

(* The steps of a function of the program ... *)
LEMMA CalmElsewhere ==
  ASSUME NEW h \in Heap, Calm(h), NEW g, g = h \/ g = [h EXCEPT !.error = FALSE]
  PROVE  Calm(g)
<1>1. g.queue = h.queue /\ (g.error = h.error \/ ~ g.error)
  BY DEF Heap
<1> QED
  BY <1>1 DEF Calm

LEMMA CodeCalm ==
  ASSUME NoRecorder, Inv, Calm(heap), Program \/ Leaves
  PROVE  Calm(heap')
<1>1. /\ TypeOK /\ HeapOK(heap) /\ heap \in Heap /\ Single(heap)
      /\ StackOK(stack, heap)
      /\ visible \subseteq Created(heap) /\ exposed \subseteq Made(heap)
  BY DEF Inv, TypeOK, HeapOK, SingleResolver
<1>2. ASSUME Room(1, 1)
      PROVE  heap.promises < MaxPromises /\ heap.pairs < MaxPairs
  <2>1. heap.promises + 1 <= MaxPromises /\ heap.pairs + 1 <= MaxPairs
    BY <1>1, <1>2, RoomOK
  <2>2. heap.promises \in Nat /\ heap.pairs \in Nat
    BY <1>1 DEF HeapOK, Heap
  <2> QED
    BY <2>1, <2>2, BoundsAssumption
<1>3. ASSUME stack # <<>>,
             Head(stack).kind \in {"handler", "async", "then"}
      PROVE  Head(stack).pair \in Made(heap)
  BY <1>1, <1>3, PopOK
<1>4. ASSUME NEW k \in Made(heap), NEW x \in Resolutions(k)
      PROVE  Calm(ResolveFunction(heap, k, x))
  BY <1>1, <1>4, ResolutionsOK, CalmResolve
<1>5. ASSUME NEW k \in Made(heap)
      PROVE  Calm(RejectFunction(heap, k, k))
  BY <1>1, <1>5, CreatedIsPromise, CalmReject
<1>6. CASE CreatePromise \/ CallAsync
  BY <1>1, <1>6, CalmNewPair DEF CreatePromise, CallAsync
<1>7. CASE EnqueueMicrotask
  <2>1. NODE /\ heap' = Enqueue(heap, <<[type |-> "microtask"]>>)
    BY <1>7 DEF EnqueueMicrotask
  <2>2. [type |-> "microtask"] \in Job
    BY DEF Job, Microtask
  <2> QED
    BY <1>1, <2>1, <2>2, CalmEnqueueOne
<1>8. ASSUME NEW k \in Pair, CallResolve(k) \/ CallReject(k)
      PROVE  Calm(heap')
  BY <1>1, <1>4, <1>5, <1>8 DEF CallResolve, CallReject
<1>9. ASSUME NEW p \in Promise, NEW f \in {"none", "user"},
             NEW r \in {"none", "user"}, CallThen(p, f, r)
      PROVE  Calm(heap')
  <2> DEFINE g == NewPromise(heap)
             reaction == [cap |-> g.pairs, fn |-> None,
                          onFulfilled |-> f, onRejected |-> r]
  <2>1. /\ Room(1, 1) /\ p \in visible
        /\ heap' = PerformPromiseThen(g, p, reaction)
    BY <1>9 DEF CallThen
  <2>2. HeapOK(g) /\ Calm(g)
    BY <1>1, <1>2, <2>1, NewPromiseOK, CalmNewPair
  <2>3. Created(heap) \subseteq Created(g) /\ g.pairs \in Made(g)
    BY <1>1, <1>2, <2>1, NewPromiseGrows
  <2> HIDE DEF g
  <2>4. reaction \in Reaction /\ ReactionOK(g, reaction)
    <3>1. g.pairs \in Pair /\ g.pairs # None
      BY <2>2, <2>3, CreatedIsPromise DEF Pair, None
    <3> QED
      BY <2>3, <3>1 DEF Reaction, Handler, ReactionOK
  <2>5. p \in Created(g)
    BY <1>1, <2>1, <2>3
  <2> HIDE DEF reaction
  <2> QED
    BY <2>1, <2>2, <2>4, <2>5, CalmThen
<1>10. CASE ReturnResult
  <2>1. /\ Head(stack).pair \in Made(heap)
        /\ \E x \in Resolutions(Head(stack).pair) :
             heap' = ResolveFunction(heap, Head(stack).pair, x)
    BY <1>3, <1>10 DEF ReturnResult, Top
  <2> QED
    BY <1>4, <2>1
<1>11. CASE Throw
  <2>1. /\ Head(stack).pair \in Made(heap)
        /\ heap' = RejectFunction(heap, Head(stack).pair, Head(stack).pair)
    BY <1>3, <1>11 DEF Throw, Top
  <2> QED
    BY <1>5, <2>1
<1>12. CASE ExitOutermost \/ ExitNested \/ Return \/ MicrotaskThrows \/ Unwind
  <2>1. ~ heap.error
    BY DEF Calm
  <2>2. CASE ExitNested
    BY <1>1, <2>1, <2>2, CalmElsewhere DEF ExitNested, HostMayCatch
  <2>3. CASE ExitOutermost \/ Return \/ MicrotaskThrows
    BY <1>1, <2>3, CalmElsewhere DEF ExitOutermost, Return, MicrotaskThrows
  <2>4. CASE Unwind
    BY <2>1, <2>4 DEF Unwind
  <2> QED
    BY <1>12, <2>2, <2>3, <2>4
<1>13. ASSUME NEW x \in Awaitable, Await(x)
       PROVE  Calm(heap')
  <2> DEFINE k == heap.pairs + 1
             p == IF x.kind = "promise" THEN x.ref ELSE heap.promises + 1
             g == IF x.kind = "promise" THEN heap
                  ELSE ResolveFunction(NewPromise(heap), k, x)
             reaction == [cap |-> None, fn |-> Head(stack).pair,
                          onFulfilled |-> "resume", onRejected |-> "resume"]
  <2>1. /\ stack # <<>> /\ Head(stack).kind = "async"
        /\ x.kind # "promise" => Room(1, 1)
        /\ heap' = PerformPromiseThen(g, p, reaction)
    BY <1>13 DEF Await, Top
  <2>2. Head(stack).pair \in Made(heap)
    BY <1>3, <2>1
  <2>3. HeapOK(g) /\ Calm(g) /\ p \in Created(g) /\ Made(heap) \subseteq Made(g)
    <3>1. CASE x.kind = "promise"
      <4>1. x.ref \in visible
        BY <3>1 DEF Awaitable
      <4> QED
        BY <1>1, <3>1, <4>1
    <3>2. CASE x.kind # "promise"
      <4> DEFINE n == NewPromise(heap)
      <4>1. heap.promises < MaxPromises /\ heap.pairs < MaxPairs
        BY <1>2, <2>1, <3>2
      <4>2. HeapOK(n) /\ Single(n) /\ Calm(n)
        BY <1>1, <4>1, NewPromiseOK, CalmNewPair
      <4>3. /\ Made(heap) \subseteq Made(n)
            /\ heap.promises + 1 \in Created(n) /\ k \in Made(n)
        BY <1>1, <4>1, NewPromiseGrows
      <4>4. ResolvesWith(n, x)
        <5>1. k \in Pair
          BY <4>2, <4>3, CreatedIsPromise
        <5> QED
          BY <3>2, <5>1 DEF Awaitable, ResolvesWith, Resolution
      <4> HIDE DEF n, k
      <4> DEFINE m == ResolveFunction(n, k, x)
      <4>5. HeapOK(m) /\ SameNames(m, n)
        BY <4>2, <4>3, <4>4, ResolveFunctionOK
      <4>6. Calm(m)
        BY <4>2, <4>3, <4>4, CalmResolve
      <4>7. g = m /\ p = heap.promises + 1
        BY <3>2 DEF n, k
      <4> HIDE DEF g, p, m
      <4>8. Created(m) = Created(n) /\ Made(m) = Made(n)
        BY <4>5, SameNamesSameSets
      <4> QED
        BY <4>3, <4>5, <4>6, <4>7, <4>8
    <3> QED
      BY <3>1, <3>2
  <2> HIDE DEF g, p
  <2>4. reaction \in Reaction /\ ReactionOK(g, reaction)
    <3>1. /\ Head(stack).pair \in Made(g) /\ Head(stack).pair \in Pair
          /\ Head(stack).pair # None
      BY <1>1, <2>2, <2>3, CreatedIsPromise DEF Pair, None
    <3> QED
      BY <3>1 DEF Reaction, Handler, ReactionOK
  <2> HIDE DEF reaction
  <2> QED
    BY <2>1, <2>3, <2>4, CalmThen
<1> QED
  BY <1>6, <1>7, <1>8, <1>9, <1>10, <1>11, <1>12, <1>13 DEF Program, Leaves

(* ... and the loop, when it is not the one of an error. *)
LEMMA LoopCalm ==
  ASSUME NoRecorder, Inv, Calm(heap), ~ Top({"finally"}), Loop
  PROVE  Calm(heap')
<1>1. HeapOK(heap) /\ heap \in Heap /\ Single(heap)
  BY DEF Inv, TypeOK, HeapOK, SingleResolver
<1>2. ASSUME NEW type, Poll(type)
      PROVE  /\ HeapOK(Rest) /\ Rest \in Heap /\ Single(Rest) /\ Calm(Rest)
             /\ ~ NODE => type # "microtask"
             /\ Rest.pairs = heap.pairs /\ Rest.promises = heap.promises
             /\ Polled \in Job /\ Polled.type = type /\ JobOK(Rest, Polled)
             /\ Polled.type = "thenable" =>
                  /\ ~ Undecided(Rest, Polled.promise)
                  /\ Rest.state[Polled.promise] = "pending"
  <2>1. Polled.type = type
    BY <1>1, <1>2, PolledIsQueued
  <2>2. PICK n : PollsAt(n)
    BY <1>1, <1>2, PolledIsQueued
  <2>3. /\ n \in DOMAIN heap.queue /\ Polled = heap.queue[n]
        /\ Rest = [heap EXCEPT !.queue = RemoveAt(@, n)]
    BY <2>2 DEF PollsAt
  <2>4. /\ HeapOK(Rest) /\ SameNames(Rest, heap) /\ Single(Rest)
        /\ Polled \in Job /\ JobOK(Rest, Polled)
        /\ Polled.type = "thenable" => /\ ~ Undecided(Rest, Polled.promise)
                                       /\ Rest.state[Polled.promise] = "pending"
    BY <1>1, <2>3, PollOK
  <2>5. Calm(Rest)
    <3> DEFINE q == heap.queue
               t == RemoveAt(q, n)
    <3>1. Rest.queue = t /\ Rest.error = heap.error
      BY <1>1, <2>3 DEF Heap
    <3>2. NODE \/ \A i \in DOMAIN q : q[i].type # "microtask"
      BY DEF Calm
    <3> HIDE DEF q
    <3>3. n \in 1..Len(q) /\ q \in Seq(Job) /\ Len(q) \in Nat /\ DOMAIN q = 1..Len(q)
      BY <1>1, <2>3, LenProperties DEF q, Heap
    <3>4. /\ t \in Seq(Job) /\ Len(t) = Len(q) - 1
          /\ \A j \in 1..Len(q) - 1 : t[j] = IF j < n THEN q[j] ELSE q[j + 1]
      BY <3>3, RemoveAtProperties
    <3> HIDE DEF t
    <3>5. DOMAIN t = 1..Len(q) - 1
      BY <3>4, LenProperties
    <3>6. ASSUME NEW j \in DOMAIN t
          PROVE  \E i \in DOMAIN q : t[j] = q[i]
      <4>1. j \in DOMAIN q /\ j + 1 \in DOMAIN q /\ j \in 1..Len(q) - 1
        BY <3>3, <3>5
      <4> QED
        BY <3>4, <4>1
    <3> QED
      BY <3>1, <3>2, <3>6 DEF Calm
  <2>6. ~ NODE => type # "microtask"
    BY <2>1, <2>3 DEF Calm
  <2> QED
    BY <2>1, <2>4, <2>5, <2>6 DEF SameNames, HeapOK
<1> HIDE DEF Rest, Polled
<1>3. ASSUME Poll("reaction")
      PROVE  /\ Polled.argument \in Pair
             /\ Polled.handler # "resume" => Polled.cap \in Made(Rest)
             /\ Polled.handler \in {"resolving", "resume"} =>
                  Polled.fn \in Made(Rest)
  <2>1. /\ Polled \in Job /\ Polled.type = "reaction" /\ JobOK(Rest, Polled)
    BY <1>2, <1>3
  <2>2. Polled \in ReactionJob
    BY <2>1 DEF Job, ThenableJob, Microtask
  <2> QED
    BY <2>1, <2>2 DEF ReactionJob, JobOK
<1>4. CASE LoopEnds \/ LoopFails
  <2>1. ~ LoopFails
    BY DEF LoopFails, NoRecorder, Unidentifiable, Replaying
  <2>2. heap' = [heap EXCEPT !.error = FALSE]
    BY <1>4, <2>1 DEF LoopEnds
  <2> QED
    BY <1>1, <2>2, CalmElsewhere
<1>5. CASE RunPassThrough
  <2>1. /\ Poll("reaction") /\ Polled.handler = "none"
        /\ heap' = PassOn(Rest, Polled.cap, Polled.outcome, Polled.argument)
    BY <1>5 DEF RunPassThrough
  <2>2. /\ HeapOK(Rest) /\ Single(Rest) /\ Calm(Rest)
        /\ Polled.cap \in Made(Rest) /\ Polled.argument \in Pair
    BY <1>2, <1>3, <2>1
  <2> QED
    BY <2>1, <2>2, CalmPassOn
<1>6. CASE RunAdoption
  <2> DEFINE y == [kind |-> "value", ref |-> Polled.cap]
             g == PassOn(Rest, Polled.fn, Polled.outcome, Polled.argument)
  <2>1. /\ Poll("reaction") /\ Polled.handler = "resolving"
        /\ heap' = ResolveFunction(g, Polled.cap, y)
    BY <1>6 DEF RunAdoption
  <2>2. /\ HeapOK(Rest) /\ Single(Rest) /\ Calm(Rest)
        /\ Polled.cap \in Made(Rest)
        /\ Polled.fn \in Made(Rest) /\ Polled.argument \in Pair
    BY <1>2, <1>3, <2>1
  <2>3. HeapOK(g) /\ SameNames(g, Rest) /\ Single(g) /\ Calm(g)
    BY <2>2, PassOnOK, CalmPassOn
  <2> HIDE DEF g
  <2>4. Polled.cap \in Made(g) /\ ResolvesWith(g, y)
    <3>1. Polled.cap \in Made(g)
      BY <2>2, <2>3, SameNamesSameSets
    <3>2. Polled.cap \in Pair
      BY <2>3, <3>1, CreatedIsPromise
    <3> QED
      BY <3>1, <3>2 DEF ResolvesWith, Resolution
  <2> HIDE DEF y
  <2> QED
    BY <2>1, <2>3, <2>4, CalmResolve
<1>7. CASE RunHandler \/ RunResume \/ RunMicrotask
  BY <1>2, <1>7 DEF RunHandler, RunResume, RunMicrotask
<1>8. CASE RunThen
  BY <1>2, <1>8, CalmNewPair DEF RunThen
<1>9. CASE RunAdopt
  <2> DEFINE p == Polled.promise
             f == CreateResolvingFunctions(Rest, p)
             g == NewPromise(f)
             reaction == Adopting(g.pairs, heap.pairs + 1)
  <2>1. /\ Poll("thenable") /\ Polled.thenable # None
        /\ heap.promises < MaxPromises /\ heap.pairs + 1 < MaxPairs
        /\ heap' = PerformPromiseThen(g, Polled.thenable, reaction)
    BY <1>9 DEF RunAdopt
  <2>2. /\ HeapOK(Rest) /\ Calm(Rest) /\ Rest \in Heap
        /\ p \in Created(Rest) /\ Polled.thenable \in Created(Rest)
        /\ Rest.pairs = heap.pairs /\ Rest.promises = heap.promises
    BY <1>2, <2>1 DEF JobOK
  <2>3. heap.pairs \in Nat /\ heap.promises \in Nat /\ MaxPairs \in Nat
    BY <1>1, BoundsAssumption DEF Heap
  <2>4. Rest.pairs < MaxPairs
    BY <2>1, <2>2, <2>3
  <2> HIDE DEF p
  <2>5. /\ HeapOK(f) /\ Calm(f) /\ f \in Heap
        /\ f.promises = heap.promises /\ f.pairs = heap.pairs + 1
    <3>1. HeapOK(f) /\ f.promises = Rest.promises /\ f.pairs = Rest.pairs + 1
      BY <2>2, <2>4, CreateResolvingFunctionsOK
    <3>2. Calm(f)
      BY <2>2, CalmNewPair
    <3> QED
      BY <2>2, <3>1, <3>2 DEF HeapOK
  <2>6. Created(f) = Created(Rest) /\ f.pairs \in Made(f)
    BY <2>2, <2>3, <2>5 DEF Created, Made
  <2> HIDE DEF f
  <2>7. f.promises < MaxPromises /\ f.pairs < MaxPairs
    BY <2>1, <2>5
  <2>8. /\ HeapOK(g) /\ Calm(g)
        /\ Created(f) \subseteq Created(g) /\ Made(f) \subseteq Made(g)
        /\ g.pairs \in Made(g)
    BY <2>5, <2>7, NewPromiseOK, NewPromiseGrows, CalmNewPair
  <2> HIDE DEF g
  <2>9. reaction \in Reaction /\ ReactionOK(g, reaction)
    <3>1. /\ g.pairs \in Pair /\ g.pairs # None /\ g.pairs \in Made(g)
          /\ heap.pairs + 1 \in Made(g) /\ heap.pairs + 1 \in Pair
          /\ heap.pairs + 1 # None
      BY <2>3, <2>5, <2>6, <2>8, CreatedIsPromise DEF Pair, None
    <3> QED
      BY <3>1 DEF Adopting, Reaction, Handler, ReactionOK
  <2>10. Polled.thenable \in Created(g)
    BY <2>2, <2>6, <2>8
  <2> HIDE DEF reaction
  <2> QED
    BY <2>1, <2>8, <2>9, <2>10, CalmThen
<1> QED
  BY <1>4, <1>5, <1>6, <1>7, <1>8, <1>9 DEF Loop

-----------------------------------------------------------------------------
(* A stack without Node and without errors: its outermost activation is a  *)
(* boundary, or the loop that took its place.                              *)
EngineKind == {"boundary", "loop", "handler", "async", "then"}

Grounded(s) == /\ \A i \in DOMAIN s : s[i].kind \in EngineKind
               /\ s # <<>> => s[Len(s)].kind \in {"boundary", "loop"}

LEMMA PushGrounded ==
  ASSUME NEW s \in Seq(Frame), NEW f \in Frame, Grounded(s),
         f.kind \in EngineKind,
         s = <<>> => f.kind \in {"boundary", "loop"}
  PROVE  Grounded(<<f>> \o s)
<1> DEFINE t == <<f>> \o s
<1>1. Len(s) \in Nat /\ DOMAIN s = 1..Len(s) /\ (s = <<>> <=> Len(s) = 0)
  BY EmptySeq, LenProperties
<1>2. /\ t \in Seq(Frame) /\ Len(t) = 1 + Len(s)
      /\ \A i \in 1 .. 1 + Len(s) : t[i] = IF i <= 1 THEN <<f>>[i] ELSE s[i - 1]
  BY Pushed
<1>3. DOMAIN t = 1 .. 1 + Len(s)
  BY <1>2, LenProperties
<1> HIDE DEF t
<1>4. \A i \in 1 .. 1 + Len(s) : t[i] = IF i = 1 THEN f ELSE s[i - 1]
  <2>1. \A i \in 1 .. 1 + Len(s) : i <= 1 <=> i = 1
    BY <1>1
  <2> QED
    BY <1>2, <2>1
<1>5. \A i \in DOMAIN t : i # 1 => i - 1 \in DOMAIN s
  BY <1>1, <1>3
<1>6. \A i \in DOMAIN t : t[i].kind \in EngineKind
  BY <1>3, <1>4, <1>5 DEF Grounded
<1>7. t[Len(t)].kind \in {"boundary", "loop"}
  <2>1. CASE Len(s) = 0
    <3>1. Len(t) = 1 /\ 1 \in 1 .. 1 + Len(s)
      BY <1>2, <2>1
    <3>2. t[Len(t)] = f
      BY <1>4, <3>1
    <3> QED
      BY <1>1, <2>1, <3>2
  <2>2. CASE Len(s) # 0
    <3>1. Len(t) \in 1 .. 1 + Len(s) /\ Len(t) # 1 /\ Len(t) - 1 = Len(s)
      BY <1>1, <1>2, <2>2
    <3>2. t[Len(t)] = s[Len(s)]
      BY <1>4, <3>1
    <3> QED
      BY <1>1, <2>2, <3>2 DEF Grounded
  <2> QED
    BY <2>1, <2>2
<1> QED
  BY <1>6, <1>7 DEF Grounded, t

LEMMA PopGrounded ==
  ASSUME NEW s \in Seq(Frame), s # <<>>, Grounded(s)
  PROVE  /\ Grounded(Tail(s))
         /\ Head(s).kind \in EngineKind
         /\ Head(s).kind \notin {"boundary", "loop"} => Tail(s) # <<>>
         /\ Head(s).kind = "boundary" /\ Tail(s) = <<>> =>
              Cardinality(Boundaries(s)) = 1
<1> DEFINE t == Tail(s)
<1>1. Len(s) \in Nat \ {0} /\ DOMAIN s = 1..Len(s) /\ Head(s) = s[1]
  BY EmptySeq, LenProperties
<1>2. /\ t \in Seq(Frame) /\ Len(t) = Len(s) - 1
      /\ \A i \in 1..Len(t) : t[i] = s[i + 1]
  BY HeadTailProperties
<1>3. DOMAIN t = 1..Len(t) /\ (t = <<>> <=> Len(t) = 0)
  BY <1>2, EmptySeq, LenProperties
<1>4. /\ Cardinality(Boundaries(t)) =
           IF Head(s).kind = "boundary" THEN Cardinality(Boundaries(s)) - 1
           ELSE Cardinality(Boundaries(s))
      /\ Cardinality(Boundaries(s)) \in Nat
  BY PopCounts, BoundariesFinite
<1> HIDE DEF t
<1>5. Head(s).kind \in EngineKind
  BY <1>1 DEF Grounded
<1>6. \A i \in DOMAIN t : t[i].kind \in EngineKind
  <2>1. \A i \in DOMAIN t : i + 1 \in DOMAIN s /\ t[i] = s[i + 1]
    BY <1>1, <1>2, <1>3
  <2> QED
    BY <2>1 DEF Grounded
<1>7. ASSUME t # <<>>
      PROVE  t[Len(t)].kind \in {"boundary", "loop"}
  <2>1. Len(t) \in 1..Len(t) /\ Len(t) + 1 = Len(s)
    BY <1>1, <1>2, <1>3, <1>7
  <2>2. t[Len(t)] = s[Len(s)]
    BY <1>2, <2>1
  <2> QED
    BY <2>2 DEF Grounded
<1>8. ASSUME t = <<>>
      PROVE  Head(s).kind \in {"boundary", "loop"}
  <2>0. Len(t) = 0
    BY <1>3, <1>8, Zenon
  <2> DEFINE n == Len(s)
  <2>1. n \in Nat /\ Len(t) = n - 1
    BY <1>1, <1>2
  <2> HIDE DEF n
  <2>2. n = 1
    BY <2>0, <2>1
  <2>3. s[1].kind \in {"boundary", "loop"}
    BY <2>2 DEF Grounded, n
  <2> QED
    BY <1>1, <2>3
<1>9. ASSUME Head(s).kind = "boundary", t = <<>>
      PROVE  Cardinality(Boundaries(s)) = 1
  <2>1. Boundaries(t) = {}
    BY <1>2, <1>3, <1>9 DEF Boundaries
  <2>2. Cardinality(Boundaries(t)) = 0
    BY <2>1, FS_EmptySet
  <2> QED
    BY <1>4, <1>9, <2>2
<1> QED
  BY <1>5, <1>6, <1>7, <1>8, <1>9 DEF Grounded, t

-----------------------------------------------------------------------------
(* The embedder is back on top only when the queue is empty. *)
Drained == /\ Calm(heap)
           /\ Grounded(stack)
           /\ DrainedWhenIdle

(* Every step leaves activations behind, but for the outermost loop when   *)
(* it has nothing left to run: leaving the outermost call starts it.       *)
LEMMA GroundedStaysPushed ==
  ASSUME stack \in Seq(Frame), stack' \in Seq(Frame), Grounded(stack),
         NEW f, f.kind \in EngineKind, stack' = <<f>> \o stack, stack # <<>>
  PROVE  Grounded(stack') /\ stack' # <<>>
<1>1. f \in Frame
  BY PushedIsFrame
<1>2. Grounded(stack')
  BY <1>1, PushGrounded
<1>3. stack' # <<>>
  <2>1. Len(stack') = 1 + Len(stack) /\ Len(stack) \in Nat
    BY <1>1, Pushed, LenProperties
  <2> QED
    BY <2>1, EmptySeq
<1> QED
  BY <1>2, <1>3

LEMMA EmbedderDrained ==
  ASSUME NoRecorder, ~ NODE, Inv, Inv', Balanced, Drained, Embedder
  PROVE  Drained'
<1>1. EnterBoundary
  BY DEF Embedder, NodeCall, RunMicrotasks
<1>2. stack \in Seq(Frame) /\ stack' \in Seq(Frame)
  BY DEF Inv, TypeOK, StackOK
<1> DEFINE f == New("boundary", None)
<1>3. stack' = <<f>> \o stack /\ heap' = heap /\ f.kind = "boundary"
  BY <1>1 DEF EnterBoundary, Push, New
<1> HIDE DEF f
<1>4. f \in Frame
  BY <1>2, <1>3, PushedIsFrame
<1>5. Grounded(stack')
  BY <1>2, <1>3, <1>4, PushGrounded DEF Drained, EngineKind
<1>6. stack' # <<>>
  <2>1. Len(stack') = 1 + Len(stack) /\ Len(stack) \in Nat
    BY <1>2, <1>3, <1>4, Pushed, LenProperties
  <2> QED
    BY <2>1, EmptySeq
<1> QED
  BY <1>3, <1>5, <1>6 DEF Drained, DrainedWhenIdle

LEMMA ProgramDrained ==
  ASSUME NoRecorder, ~ NODE, Inv, Inv', Drained, Program
  PROVE  Drained'
<1>1. /\ stack \in Seq(Frame) /\ stack' \in Seq(Frame) /\ Grounded(stack)
      /\ Calm(heap')
  BY CodeCalm DEF Inv, TypeOK, StackOK, Drained
(* The program runs: there is an activation. *)
<1>2. stack # <<>>
  BY DEF Program, CreatePromise, CallAsync, EnqueueMicrotask, CallResolve,
         CallReject, CallThen, CodeRuns, Top
<1>3. CASE CallAsync
  <2> DEFINE f == New("async", heap'.pairs)
  <2>1. stack' = <<f>> \o stack
    BY <1>3 DEF CallAsync, Push
  <2>2. f.kind \in EngineKind
    BY DEF New, EngineKind
  <2> HIDE DEF f
  <2>3. Grounded(stack') /\ stack' # <<>>
    BY <1>1, <1>2, <2>1, <2>2, GroundedStaysPushed
  <2> QED
    BY <1>1, <2>3 DEF Drained, DrainedWhenIdle
<1>4. CASE ~ CallAsync
  <2>1. stack' = stack
    BY <1>4 DEF Program, CreatePromise, EnqueueMicrotask, CallResolve,
                CallReject, CallThen
  <2> QED
    BY <1>1, <1>2, <2>1 DEF Drained, DrainedWhenIdle
<1> QED
  BY <1>3, <1>4

LEMMA LeavesDrained ==
  ASSUME NoRecorder, ~ NODE, Inv, Inv', Balanced, Drained, Leaves
  PROVE  Drained'
<1>1. /\ Grounded(stack) /\ stack \in Seq(Frame) /\ stack' \in Seq(Frame)
      /\ Calm(heap') /\ ~ heap.error
      /\ depth = Cardinality(Boundaries(stack))
  BY CodeCalm
     DEF Inv, TypeOK, StackOK, Drained, Calm, Balanced, BoundaryBalance, Boundaries
<1>2. ASSUME stack # <<>>
      PROVE  /\ Grounded(Tail(stack)) /\ Head(stack).kind \in EngineKind
             /\ Head(stack).kind \notin {"boundary", "loop"} => Tail(stack) # <<>>
             /\ Head(stack).kind = "boundary" /\ Tail(stack) = <<>> => depth = 1
             /\ Tail(stack) \in Seq(Frame)
  BY <1>1, <1>2, PopGrounded, PopCounts
<1>3. ASSUME stack # <<>>, Tail(stack) # <<>>, stack' = Tail(stack)
      PROVE  Drained'
  BY <1>1, <1>2, <1>3 DEF Drained, DrainedWhenIdle
<1>4. CASE ExitOutermost
  <2> DEFINE f == New("loop", None)
             t == Tail(stack)
  <2>1. stack # <<>> /\ stack' = <<f>> \o t
    BY <1>1, <1>4 DEF ExitOutermost, Top, Replace
  <2>2. f.kind = "loop"
    BY DEF New
  <2>3. t \in Seq(Frame) /\ Grounded(t)
    BY <1>2, <2>1
  <2> HIDE DEF f, t
  <2>4. f \in Frame
    BY <1>1, <2>1, <2>3, PushedIsFrame
  <2>5. Grounded(stack')
    BY <2>1, <2>2, <2>3, <2>4, PushGrounded DEF EngineKind
  <2>6. stack' # <<>>
    <3>1. Len(stack') = 1 + Len(t) /\ Len(t) \in Nat
      BY <2>1, <2>3, <2>4, Pushed, LenProperties
    <3> QED
      BY <3>1, EmptySeq
  <2> QED
    BY <1>1, <2>5, <2>6 DEF Drained, DrainedWhenIdle
(* It was not the only call: the depth would have been 1. *)
<1>5. CASE ExitNested
  <2>1. /\ stack # <<>> /\ Head(stack).kind = "boundary" /\ depth - 1 # 0
        /\ stack' = Tail(stack)
    BY <1>5 DEF ExitNested, Top, Outermost, DepthAfterExit
  <2> QED
    BY <1>2, <1>3, <2>1
<1>6. CASE ReturnResult \/ Throw \/ Return \/ MicrotaskThrows
             \/ \E x \in Awaitable : Await(x)
  <2>1. /\ stack # <<>>
        /\ Head(stack).kind \in {"handler", "async", "then", "microtask", "call"}
        /\ Head(stack).kind # "microtask" => stack' = Tail(stack)
    BY <1>6 DEF ReturnResult, Throw, Return, MicrotaskThrows, Await, Top
  <2>2. Head(stack).kind \in {"handler", "async", "then"}
    BY <1>2, <2>1 DEF EngineKind
  <2> QED
    BY <1>2, <1>3, <2>1, <2>2
<1> QED
  BY <1>1, <1>4, <1>5, <1>6 DEF Leaves, Unwind

LEMMA LoopDrained ==
  ASSUME NoRecorder, ~ NODE, Inv, Inv', Drained, Loop
  PROVE  Drained'
<1>1. /\ stack \in Seq(Frame) /\ stack' \in Seq(Frame) /\ Grounded(stack)
      /\ Calm(heap) /\ heap \in Heap
  BY DEF Inv, TypeOK, StackOK, HeapOK, Drained
(* The loop runs: there is an activation. *)
<1>2. stack # <<>>
  BY DEF Loop, LoopEnds, LoopFails, RunPassThrough, RunAdoption, RunHandler,
         RunResume, RunAdopt, RunThen, RunMicrotask, Poll, LoopRuns, Top
<1>3. Grounded(Tail(stack)) /\ Head(stack).kind \in EngineKind
  BY <1>1, <1>2, PopGrounded
<1>4. ~ Top({"finally"})
  BY <1>3 DEF Top, EngineKind
<1>5. Calm(heap')
  BY <1>1, <1>4, LoopCalm
<1>6. ~ Blocked(Ids, order) /\ ~ Unidentifiable(Ids, order)
  BY DEF NoRecorder, Replaying, Blocked, Unidentifiable
<1>7. ASSUME stack' = stack
      PROVE  Drained'
  BY <1>1, <1>2, <1>5, <1>7 DEF Drained, DrainedWhenIdle
<1>8. ASSUME NEW f, f.kind \in EngineKind, stack' = <<f>> \o stack
      PROVE  Drained'
  <2>1. Grounded(stack') /\ stack' # <<>>
    BY <1>1, <1>2, <1>8, GroundedStaysPushed
  <2> QED
    BY <1>5, <2>1 DEF Drained, DrainedWhenIdle
(* The queue is empty when the loop ends: the recorder holds nothing up. *)
<1>9. CASE LoopEnds
  <2>1. heap.queue = <<>> /\ stack' = Tail(stack)
    BY <1>6, <1>9 DEF LoopEnds, NothingToRun
  <2>2. heap'.queue = <<>>
    BY <1>1, <1>9, <2>1 DEF LoopEnds, Heap
  <2> QED
    BY <1>3, <1>5, <2>1, <2>2 DEF Drained, DrainedWhenIdle
<1>10. CASE LoopFails
  BY <1>6, <1>10 DEF LoopFails
<1>11. CASE RunPassThrough \/ RunAdoption \/ RunAdopt
  BY <1>7, <1>11 DEF RunPassThrough, RunAdoption, RunAdopt
<1>12. CASE RunHandler
  <2> DEFINE f == New("handler", Polled.cap)
  <2>1. stack' = <<f>> \o stack /\ f.kind \in EngineKind
    BY <1>12 DEF RunHandler, Push, New, EngineKind
  <2> HIDE DEF f
  <2> QED
    BY <1>8, <2>1
<1>13. CASE RunResume
  <2> DEFINE f == New("async", Polled.fn)
  <2>1. stack' = <<f>> \o stack /\ f.kind \in EngineKind
    BY <1>13 DEF RunResume, Push, New, EngineKind
  <2> HIDE DEF f
  <2> QED
    BY <1>8, <2>1
<1>14. CASE RunMicrotask
  <2>1. Poll("microtask")
    BY <1>14 DEF RunMicrotask
  <2>2. HeapOK(heap)
    BY DEF Inv, TypeOK
  <2>3. Polled.type = "microtask" /\ \E n : PollsAt(n)
    BY <2>1, <2>2, PolledIsQueued
  <2> QED
    BY <1>1, <2>3 DEF PollsAt, Calm
<1>15. CASE RunThen
  <2> DEFINE f == New("then", heap'.pairs)
  <2>1. stack' = <<f>> \o stack /\ f.kind \in EngineKind
    BY <1>15 DEF RunThen, Push, New, EngineKind
  <2> HIDE DEF f
  <2> QED
    BY <1>8, <2>1
<1> QED
  BY <1>9, <1>10, <1>11, <1>12, <1>13, <1>14, <1>15 DEF Loop

(* Without the recorder and without Node, no job is left behind when the   *)
(* embedder is back on top: by return, by a throw, through nested calls.   *)
THEOREM NoJobIsLeftBehind ==
  NoRecorder /\ ~ NODE => (Spec => []DrainedWhenIdle)
<1> SUFFICES ASSUME NoRecorder, ~ NODE
             PROVE  Spec => []DrainedWhenIdle
  OBVIOUS
<1>1. Init => Drained
  <2> SUFFICES ASSUME Init PROVE Drained
    OBVIOUS
  <2>1. stack = <<>> /\ heap = EmptyHeap /\ DOMAIN stack = {}
    BY DEF Init
  <2>2. heap.queue = <<>> /\ ~ heap.error /\ DOMAIN heap.queue = {}
    BY <2>1 DEF EmptyHeap
  <2> QED
    BY <2>1, <2>2 DEF Drained, Calm, Grounded, DrainedWhenIdle
<1>2. Inv /\ Inv' /\ Balanced /\ Drained /\ [Next]_vars => Drained'
  <2> SUFFICES ASSUME Inv, Inv', Balanced, Drained, [Next]_vars
               PROVE  Drained'
    OBVIOUS
  <2>1. CASE Next
    BY <2>1, EmbedderDrained, ProgramDrained, LeavesDrained, LoopDrained DEF Next
  <2>2. CASE UNCHANGED vars
    BY <2>2 DEF vars, Drained, DrainedWhenIdle
  <2> QED
    BY <2>1, <2>2
<1>3. Drained => DrainedWhenIdle
  BY DEF Drained
<1> QED
  BY <1>1, <1>2, <1>3, InvAlways, BalancedAlways, PTL DEF Spec

-----------------------------------------------------------------------------
(* What the rejection tracker knows is true, as long as no job is refused  *)
(* by serialize: PerformPromiseThen tells the tracker first and marks the  *)
(* promise after the job was enqueued.                                     *)
Tracked(h) == h.unhandled = {p \in Promise : /\ h.state[p] = "rejected"
                                             /\ p \notin h.handled}

LEMMA TrackedEnqueue ==
  ASSUME NEW h \in Heap, Tracked(h), NEW jobs
  PROVE  Tracked(Enqueue(h, jobs))
<1>1. /\ Enqueue(h, jobs).unhandled = h.unhandled
      /\ Enqueue(h, jobs).state = h.state
      /\ Enqueue(h, jobs).handled = h.handled
  BY DEF Enqueue, Heap
<1> QED
  BY <1>1 DEF Tracked

(* The promise was pending: what is settled leaves no pair to settle it.   *)
LEMMA TrackedSettle ==
  ASSUME NEW h, HeapOK(h), Tracked(h), NEW p \in Created(h),
         h.state[p] = "pending", NEW outcome \in Outcome, NEW value \in Pair
  PROVE  Tracked(Settle(h, p, outcome, value))
<1> DEFINE s == SetState(h, p, outcome, value)
<1>1. h \in Heap /\ p \in Promise
  BY CreatedIsPromise DEF HeapOK
<1>2. s \in Heap
  BY SetStateType
<1>3. /\ s.state = [h.state EXCEPT ![p] = outcome] /\ s.handled = h.handled
      /\ s.unhandled = IF outcome = "rejected" /\ p \notin h.handled
                       THEN h.unhandled \cup {p} ELSE h.unhandled
  BY <1>1 DEF SetState, Heap
<1> HIDE DEF s
<1>4. \A q \in Promise : s.state[q] = IF q = p THEN outcome ELSE h.state[q]
  BY <1>1, <1>3 DEF Heap
<1>5. p \notin h.unhandled
  BY DEF Tracked
<1>6. Tracked(s)
  BY <1>1, <1>3, <1>4, <1>5 DEF Tracked
<1> QED
  BY <1>2, <1>6, TrackedEnqueue DEF Settle, s

LEMMA TrackedUse ==
  ASSUME NEW h, HeapOK(h), Single(h), Tracked(h), NEW k \in Made(h),
         k \notin h.resolved
  PROVE  /\ Tracked(Use(h, k)) /\ HeapOK(Use(h, k)) /\ SameNames(Use(h, k), h)
         /\ h.target[k] \in Created(Use(h, k))
         /\ Use(h, k).state[h.target[k]] = "pending"
<1> DEFINE p == h.target[k]
           g == Use(h, k)
<1>1. HeapOK(g) /\ SameNames(g, h) /\ g.state = h.state
  BY UseOK
<1>2. p \in Created(h) /\ p \in Promise
  BY CreatedIsPromise DEF HeapOK
<1>3. k \in Unused(h, p)
  BY DEF Unused
<1>4. h.state[p] = "pending"
  BY <1>2, <1>3 DEF Single, Undecided
<1>5. g.unhandled = h.unhandled /\ g.handled = h.handled
  BY DEF Use, HeapOK, Heap
<1> HIDE DEF g, p
<1>6. Tracked(g)
  BY <1>1, <1>5 DEF Tracked
<1>7. p \in Created(g) /\ g.state[p] = "pending"
  BY <1>1, <1>2, <1>4 DEF SameNames, Created
<1> QED
  BY <1>1, <1>6, <1>7 DEF g, p

LEMMA TrackedReject ==
  ASSUME NEW h, HeapOK(h), Single(h), Tracked(h), NEW k \in Made(h),
         NEW reason \in Pair
  PROVE  Tracked(RejectFunction(h, k, reason))
<1> DEFINE g == Use(h, k)
           p == h.target[k]
<1>1. CASE ~ Usable(h, k)
  BY <1>1 DEF RejectFunction
<1>2. CASE Usable(h, k)
  <2>1. /\ Tracked(g) /\ HeapOK(g) /\ p \in Created(g)
        /\ g.state[p] = "pending"
    BY <1>2, TrackedUse DEF Usable
  <2>2. "rejected" \in Outcome
    BY DEF Outcome
  <2> HIDE DEF g, p
  <2>3. Tracked(Settle(g, p, "rejected", reason))
    BY <2>1, <2>2, TrackedSettle
  <2> QED
    BY <1>2, <2>3 DEF RejectFunction, g, p
<1> QED
  BY <1>1, <1>2

LEMMA TrackedResolve ==
  ASSUME NEW h, HeapOK(h), Single(h), Tracked(h), NEW k \in Made(h),
         NEW x, ResolvesWith(h, x)
  PROVE  Tracked(ResolveFunction(h, k, x))
<1> DEFINE g == Use(h, k)
           p == h.target[k]
           job == [type |-> "thenable", promise |-> p, thenable |-> x.ref]
           f == ResolveFunction(h, k, x)
<1>1. CASE ~ Usable(h, k)
  BY <1>1 DEF ResolveFunction
<1>2. CASE Usable(h, k)
  <2>1. /\ Tracked(g) /\ HeapOK(g) /\ p \in Created(g) /\ g \in Heap
        /\ g.state[p] = "pending"
    BY <1>2, TrackedUse DEF Usable, HeapOK
  <2>2. {"fulfilled", "rejected"} \subseteq Outcome /\ k \in Pair
    BY CreatedIsPromise DEF Outcome
  <2>3. \/ x.kind = "value" /\ f = Settle(g, p, "fulfilled", x.ref)
        \/ f = Settle(g, p, "rejected", k)
        \/ f = Enqueue(g, <<job>>)
    BY <1>2 DEF ResolveFunction
  <2> HIDE DEF g, p, f, job
  <2>4. CASE x.kind = "value" /\ f = Settle(g, p, "fulfilled", x.ref)
    <3>1. x.ref \in Pair
      BY <2>4 DEF ResolvesWith, Resolution
    <3> QED
      BY <2>1, <2>2, <2>4, <3>1, TrackedSettle DEF f
  <2>5. CASE f = Settle(g, p, "rejected", k)
    BY <2>1, <2>2, <2>5, TrackedSettle DEF f
  <2>6. CASE f = Enqueue(g, <<job>>)
    BY <2>1, <2>6, TrackedEnqueue DEF f
  <2> QED
    BY <2>3, <2>4, <2>5, <2>6
<1> QED
  BY <1>1, <1>2

LEMMA TrackedPassOn ==
  ASSUME NEW h, HeapOK(h), Single(h), Tracked(h), NEW k \in Made(h),
         NEW outcome, NEW value \in Pair
  PROVE  Tracked(PassOn(h, k, outcome, value))
<1> DEFINE x == [kind |-> "value", ref |-> value]
<1>1. ResolvesWith(h, x)
  BY DEF ResolvesWith, Resolution
<1>2. PassOn(h, k, outcome, value) = IF outcome = "fulfilled"
                                     THEN ResolveFunction(h, k, x)
                                     ELSE RejectFunction(h, k, value)
  BY DEF PassOn
<1> HIDE DEF x
<1> QED
  BY <1>1, <1>2, TrackedResolve, TrackedReject

LEMMA TrackedNewPair ==
  ASSUME NEW h \in Heap, NEW p, Tracked(h)
  PROVE  Tracked(CreateResolvingFunctions(h, p)) /\ Tracked(NewPromise(h))
<1>1. \A g \in {CreateResolvingFunctions(h, p), NewPromise(h)} :
        g.unhandled = h.unhandled /\ g.state = h.state /\ g.handled = h.handled
  BY DEF Heap, CreateResolvingFunctions, NewPromise
<1> QED
  BY <1>1 DEF Tracked

LEMMA TrackedThen ==
  ASSUME ~ TRACING, NEW h, HeapOK(h), Tracked(h), NEW p \in Created(h),
         NEW r \in Reaction, ReactionOK(h, r)
  PROVE  Tracked(PerformPromiseThen(h, p, r))
<1> DEFINE f == PerformPromiseThen(h, p, r)
           told == [h EXCEPT !.unhandled = h.unhandled \ {p}]
           job == NewReactionJob(r, h.state[p], h.result[p])
           done == Enqueue(told, <<job>>)
<1>1. h \in Heap /\ p \in Promise
  BY CreatedIsPromise DEF HeapOK
<1>2. CASE h.error
  BY <1>2 DEF PerformPromiseThen
<1>3. CASE ~ h.error /\ h.state[p] = "pending"
  <2>1. /\ f.unhandled = h.unhandled /\ f.state = h.state
        /\ f.handled = h.handled \cup {p}
    BY <1>1, <1>3 DEF PerformPromiseThen, Heap
  <2> QED
    BY <1>3, <2>1 DEF Tracked
<1>4. CASE ~ h.error /\ h.state[p] # "pending"
  <2>1. h.state[p] \in Outcome /\ h.result[p] \in Pair
    BY <1>1, <1>4 DEF HeapOK, Heap
  <2>2. job \in Job /\ <<job>> \in Seq(Job)
    BY <2>1, NewReactionJobOK DEF Job
  <2>3. /\ told \in Heap /\ told.state = h.state /\ told.handled = h.handled
        /\ told.unhandled = h.unhandled \ {p}
    BY <1>1 DEF Heap
  <2>4. f = [done EXCEPT !.handled = IF done.error THEN done.handled
                                     ELSE done.handled \cup {p}]
    BY <1>1, <1>4 DEF PerformPromiseThen, TellHandled
  <2> HIDE DEF told, job, f
  <2>5. ~ done.error
    BY <2>2, <2>3, EnqueueTakesAll
  <2>6. /\ done = [told EXCEPT !.queue = done.queue, !.log = done.log,
                               !.error = done.error]
    BY <2>3 DEF Enqueue, Heap
  <2> HIDE DEF done
  <2>7. /\ f.unhandled = h.unhandled \ {p} /\ f.state = h.state
        /\ f.handled = h.handled \cup {p}
    BY <2>3, <2>4, <2>5, <2>6 DEF Heap
  <2> QED
    BY <2>7 DEF Tracked, f
<1> QED
  BY <1>2, <1>3, <1>4

(***************************************************************************)
(* What the tracker and the recorder have noted is right.                  *)
(***************************************************************************)
Books(h) == /\ ~ TRACING => Tracked(h)
            /\ TRACING /\ ~ REPLAY => Recording(h)

(* Pair c can be the identifier of one more reaction. *)
Fresh(h, c) == TRACING /\ ~ REPLAY /\ c # None => Unwritten(h, c)

LEMMA BooksMicrotask ==
  ASSUME NEW h, HeapOK(h), Books(h)
  PROVE  Books(Enqueue(h, <<[type |-> "microtask"]>>))
<1> DEFINE job == [type |-> "microtask"]
<1>1. h \in Heap /\ job \in Job /\ job.type # "reaction"
  BY DEF HeapOK, Job, Microtask
<1> HIDE DEF job
<1>2. ~ TRACING => Tracked(Enqueue(h, <<job>>))
  BY <1>1, TrackedEnqueue DEF Books
<1>3. TRACING /\ ~ REPLAY => Recording(Enqueue(h, <<job>>))
  BY <1>1, RecordingEnqueueOther DEF Books
<1> QED
  BY <1>2, <1>3 DEF Books, job

LEMMA BooksReject ==
  ASSUME NEW h, HeapOK(h), Single(h), Books(h), NEW k \in Made(h),
         NEW reason \in Pair
  PROVE  Books(RejectFunction(h, k, reason))
BY TrackedReject, RecordingReject DEF Books

LEMMA BooksResolve ==
  ASSUME NEW h, HeapOK(h), Single(h), Books(h), NEW k \in Made(h),
         NEW x, ResolvesWith(h, x)
  PROVE  Books(ResolveFunction(h, k, x))
BY TrackedResolve, RecordingResolve DEF Books

LEMMA BooksPassOn ==
  ASSUME NEW h, HeapOK(h), Single(h), Books(h), NEW k \in Made(h),
         NEW outcome, NEW value \in Pair
  PROVE  Books(PassOn(h, k, outcome, value))
BY TrackedPassOn, RecordingPassOn DEF Books

LEMMA BooksNewPair ==
  ASSUME NEW h, HeapOK(h), Books(h), h.pairs < MaxPairs, NEW p
  PROVE  /\ Books(CreateResolvingFunctions(h, p))
         /\ Books(NewPromise(h))
         /\ Fresh(NewPromise(h), NewPromise(h).pairs)
<1>1. h \in Heap
  BY DEF HeapOK
<1>2. ~ TRACING => /\ Tracked(CreateResolvingFunctions(h, p))
                   /\ Tracked(NewPromise(h))
  BY <1>1, TrackedNewPair DEF Books
<1>3. TRACING /\ ~ REPLAY =>
        /\ Recording(CreateResolvingFunctions(h, p))
        /\ Recording(NewPromise(h))
        /\ Unwritten(NewPromise(h), NewPromise(h).pairs)
  BY RecordingNewPair DEF Books
<1> QED
  BY <1>2, <1>3 DEF Books, Fresh

LEMMA BooksThen ==
  ASSUME NEW h, HeapOK(h), Books(h), NEW p \in Created(h),
         NEW r \in Reaction, ReactionOK(h, r), Fresh(h, r.cap)
  PROVE  Books(PerformPromiseThen(h, p, r))
BY TrackedThen, RecordingThen DEF Books, Fresh

(* The steps that leave promises alone ... *)
LEMMA BooksElsewhere ==
  ASSUME HeapOK(heap), Books(heap),
         heap' = heap \/ \E e : heap' = [heap EXCEPT !.error = e]
  PROVE  Books(heap')
<1>1. /\ heap'.unhandled = heap.unhandled /\ heap'.state = heap.state
      /\ heap'.handled = heap.handled /\ heap'.queue = heap.queue
      /\ heap'.log = heap.log /\ heap'.reactions = heap.reactions
      /\ heap'.pairs = heap.pairs
  BY DEF HeapOK, Heap
<1>2. PICK g : g = heap'
  OBVIOUS
<1>3. Tracked(heap) => Tracked(g)
  BY <1>1, <1>2 DEF Tracked
<1>4. Recording(heap) => Recording(g)
  BY <1>1, <1>2, RecordingElsewhere DEF Made
<1> QED
  BY <1>2, <1>3, <1>4 DEF Books

(* ... those of a function of the program ... *)
LEMMA CodeKeepsBooks ==
  ASSUME Inv, Books(heap), Program \/ Leaves
  PROVE  Books(heap')
<1>1. /\ TypeOK /\ HeapOK(heap) /\ heap \in Heap /\ Single(heap)
      /\ StackOK(stack, heap)
      /\ visible \subseteq Created(heap) /\ exposed \subseteq Made(heap)
  BY DEF Inv, TypeOK, HeapOK, SingleResolver
<1>2. ASSUME Room(1, 1)
      PROVE  heap.promises < MaxPromises /\ heap.pairs < MaxPairs
  <2>1. heap.promises + 1 <= MaxPromises /\ heap.pairs + 1 <= MaxPairs
    BY <1>1, <1>2, RoomOK
  <2>2. heap.promises \in Nat /\ heap.pairs \in Nat
    BY <1>1 DEF HeapOK, Heap
  <2> QED
    BY <2>1, <2>2, BoundsAssumption
<1>3. ASSUME stack # <<>>,
             Head(stack).kind \in {"handler", "async", "then"}
      PROVE  Head(stack).pair \in Made(heap)
  BY <1>1, <1>3, PopOK
<1>4. ASSUME NEW k \in Made(heap), NEW x \in Resolutions(k)
      PROVE  Books(ResolveFunction(heap, k, x))
  BY <1>1, <1>4, ResolutionsOK, BooksResolve
<1>5. ASSUME NEW k \in Made(heap)
      PROVE  Books(RejectFunction(heap, k, k))
  BY <1>1, <1>5, CreatedIsPromise, BooksReject
<1>6. CASE CreatePromise \/ CallAsync
  BY <1>1, <1>2, <1>6, BooksNewPair DEF CreatePromise, CallAsync
<1>7. CASE EnqueueMicrotask
  BY <1>1, <1>7, BooksMicrotask DEF EnqueueMicrotask
<1>8. ASSUME NEW k \in Pair, CallResolve(k) \/ CallReject(k)
      PROVE  Books(heap')
  BY <1>1, <1>4, <1>5, <1>8 DEF CallResolve, CallReject
<1>9. ASSUME NEW p \in Promise, NEW f \in {"none", "user"},
             NEW r \in {"none", "user"}, CallThen(p, f, r)
      PROVE  Books(heap')
  <2> DEFINE g == NewPromise(heap)
             reaction == [cap |-> g.pairs, fn |-> None,
                          onFulfilled |-> f, onRejected |-> r]
  <2>1. /\ Room(1, 1) /\ p \in visible
        /\ heap' = PerformPromiseThen(g, p, reaction)
    BY <1>9 DEF CallThen
  <2>2. HeapOK(g) /\ Books(g) /\ Fresh(g, g.pairs)
    BY <1>1, <1>2, <2>1, NewPromiseOK, BooksNewPair
  <2>3. Created(heap) \subseteq Created(g) /\ g.pairs \in Made(g)
    BY <1>1, <1>2, <2>1, NewPromiseGrows
  <2> HIDE DEF g
  <2>4. reaction \in Reaction /\ ReactionOK(g, reaction)
    <3>1. g.pairs \in Pair /\ g.pairs # None
      BY <2>2, <2>3, CreatedIsPromise DEF Pair, None
    <3> QED
      BY <2>3, <3>1 DEF Reaction, Handler, ReactionOK
  <2>5. p \in Created(g) /\ Fresh(g, reaction.cap)
    BY <1>1, <2>1, <2>2, <2>3
  <2> HIDE DEF reaction
  <2> QED
    BY <2>1, <2>2, <2>4, <2>5, BooksThen
<1>10. CASE ReturnResult
  <2>1. /\ Head(stack).pair \in Made(heap)
        /\ \E x \in Resolutions(Head(stack).pair) :
             heap' = ResolveFunction(heap, Head(stack).pair, x)
    BY <1>3, <1>10 DEF ReturnResult, Top
  <2> QED
    BY <1>4, <2>1
<1>11. CASE Throw
  <2>1. /\ Head(stack).pair \in Made(heap)
        /\ heap' = RejectFunction(heap, Head(stack).pair, Head(stack).pair)
    BY <1>3, <1>11 DEF Throw, Top
  <2> QED
    BY <1>5, <2>1
<1>12. CASE ExitOutermost \/ ExitNested \/ Return \/ MicrotaskThrows \/ Unwind
  BY <1>1, <1>12, BooksElsewhere
     DEF ExitOutermost, ExitNested, Return, MicrotaskThrows, Unwind
<1>13. ASSUME NEW x \in Awaitable, Await(x)
       PROVE  Books(heap')
  <2> DEFINE k == heap.pairs + 1
             p == IF x.kind = "promise" THEN x.ref ELSE heap.promises + 1
             g == IF x.kind = "promise" THEN heap
                  ELSE ResolveFunction(NewPromise(heap), k, x)
             reaction == [cap |-> None, fn |-> Head(stack).pair,
                          onFulfilled |-> "resume", onRejected |-> "resume"]
  <2>1. /\ stack # <<>> /\ Head(stack).kind = "async"
        /\ x.kind # "promise" => Room(1, 1)
        /\ heap' = PerformPromiseThen(g, p, reaction)
    BY <1>13 DEF Await, Top
  <2>2. Head(stack).pair \in Made(heap)
    BY <1>3, <2>1
  <2>3. HeapOK(g) /\ Books(g) /\ p \in Created(g) /\ Made(heap) \subseteq Made(g)
    <3>1. CASE x.kind = "promise"
      <4>1. x.ref \in visible
        BY <3>1 DEF Awaitable
      <4> QED
        BY <1>1, <3>1, <4>1
    <3>2. CASE x.kind # "promise"
      <4> DEFINE n == NewPromise(heap)
      <4>1. heap.promises < MaxPromises /\ heap.pairs < MaxPairs
        BY <1>2, <2>1, <3>2
      <4>2. HeapOK(n) /\ Single(n) /\ Books(n)
        BY <1>1, <4>1, NewPromiseOK, BooksNewPair
      <4>3. /\ Made(heap) \subseteq Made(n)
            /\ heap.promises + 1 \in Created(n) /\ k \in Made(n)
        BY <1>1, <4>1, NewPromiseGrows
      <4>4. ResolvesWith(n, x)
        <5>1. k \in Pair
          BY <4>2, <4>3, CreatedIsPromise
        <5> QED
          BY <3>2, <5>1 DEF Awaitable, ResolvesWith, Resolution
      <4> HIDE DEF n, k
      <4> DEFINE m == ResolveFunction(n, k, x)
      <4>5. HeapOK(m) /\ SameNames(m, n)
        BY <4>2, <4>3, <4>4, ResolveFunctionOK
      <4>6. Books(m)
        BY <4>2, <4>3, <4>4, BooksResolve
      <4>7. g = m /\ p = heap.promises + 1
        BY <3>2 DEF n, k
      <4> HIDE DEF g, p, m
      <4>8. Created(m) = Created(n) /\ Made(m) = Made(n)
        BY <4>5, SameNamesSameSets
      <4> QED
        BY <4>3, <4>5, <4>6, <4>7, <4>8
    <3> QED
      BY <3>1, <3>2
  <2> HIDE DEF g, p
  <2>4. reaction \in Reaction /\ ReactionOK(g, reaction)
    <3>1. /\ Head(stack).pair \in Made(g) /\ Head(stack).pair \in Pair
          /\ Head(stack).pair # None
      BY <1>1, <2>2, <2>3, CreatedIsPromise DEF Pair, None
    <3> QED
      BY <3>1 DEF Reaction, Handler, ReactionOK
  <2>5. Fresh(g, reaction.cap)
    BY DEF Fresh
  <2> HIDE DEF reaction
  <2> QED
    BY <2>1, <2>3, <2>4, <2>5, BooksThen
<1> QED
  BY <1>6, <1>7, <1>8, <1>9, <1>10, <1>11, <1>12, <1>13 DEF Program, Leaves

(* ... and those of the loop. *)
LEMMA LoopKeepsBooks ==
  ASSUME Inv, Books(heap), Loop
  PROVE  Books(heap')
<1>1. HeapOK(heap) /\ heap \in Heap /\ Single(heap)
  BY DEF Inv, TypeOK, HeapOK, SingleResolver
<1>2. ASSUME NEW type, Poll(type)
      PROVE  /\ HeapOK(Rest) /\ Rest \in Heap /\ Single(Rest) /\ Books(Rest)
             /\ Rest.pairs = heap.pairs /\ Rest.promises = heap.promises
             /\ Polled \in Job /\ Polled.type = type /\ JobOK(Rest, Polled)
             /\ Polled.type = "thenable" =>
                  /\ ~ Undecided(Rest, Polled.promise)
                  /\ Rest.state[Polled.promise] = "pending"
  <2>1. Polled.type = type
    BY <1>1, <1>2, PolledIsQueued
  <2>2. PICK n : PollsAt(n)
    BY <1>1, <1>2, PolledIsQueued
  <2>3. /\ n \in DOMAIN heap.queue /\ Polled = heap.queue[n]
        /\ Rest = [heap EXCEPT !.queue = RemoveAt(@, n)]
    BY <2>2 DEF PollsAt
  <2>4. /\ HeapOK(Rest) /\ SameNames(Rest, heap) /\ Single(Rest)
        /\ Polled \in Job /\ JobOK(Rest, Polled)
        /\ Polled.type = "thenable" => /\ ~ Undecided(Rest, Polled.promise)
                                       /\ Rest.state[Polled.promise] = "pending"
    BY <1>1, <2>3, PollOK
  <2>5. /\ Rest.unhandled = heap.unhandled /\ Rest.state = heap.state
        /\ Rest.handled = heap.handled
    BY <1>1, <2>3 DEF Heap
  <2>6. Tracked(heap) => Tracked(Rest)
    BY <2>5 DEF Tracked
  <2>7. ~ REPLAY /\ Recording(heap) => Recording(Rest)
    <3>1. ~ REPLAY => PollsAt(1)
      BY <1>1, <1>2, PolledIsQueued
    <3> QED
      BY <1>1, <3>1, RecordingPoll DEF PollsAt
  <2>8. Books(Rest)
    BY <2>6, <2>7 DEF Books
  <2> QED
    BY <2>1, <2>4, <2>8 DEF SameNames, HeapOK
<1> HIDE DEF Rest, Polled
<1>3. ASSUME Poll("reaction")
      PROVE  /\ Polled.argument \in Pair
             /\ Polled.handler # "resume" => Polled.cap \in Made(Rest)
             /\ Polled.handler \in {"resolving", "resume"} =>
                  Polled.fn \in Made(Rest)
  <2>1. /\ Polled \in Job /\ Polled.type = "reaction" /\ JobOK(Rest, Polled)
    BY <1>2, <1>3
  <2>2. Polled \in ReactionJob
    BY <2>1 DEF Job, ThenableJob, Microtask
  <2> QED
    BY <2>1, <2>2 DEF ReactionJob, JobOK
<1>4. CASE LoopEnds \/ LoopFails
  BY <1>1, <1>4, BooksElsewhere DEF LoopEnds, LoopFails
<1>5. CASE RunPassThrough
  <2>1. /\ Poll("reaction") /\ Polled.handler = "none"
        /\ heap' = PassOn(Rest, Polled.cap, Polled.outcome, Polled.argument)
    BY <1>5 DEF RunPassThrough
  <2>2. /\ HeapOK(Rest) /\ Single(Rest) /\ Books(Rest)
        /\ Polled.cap \in Made(Rest) /\ Polled.argument \in Pair
    BY <1>2, <1>3, <2>1
  <2> QED
    BY <2>1, <2>2, BooksPassOn
<1>6. CASE RunAdoption
  <2> DEFINE y == [kind |-> "value", ref |-> Polled.cap]
             g == PassOn(Rest, Polled.fn, Polled.outcome, Polled.argument)
  <2>1. /\ Poll("reaction") /\ Polled.handler = "resolving"
        /\ heap' = ResolveFunction(g, Polled.cap, y)
    BY <1>6 DEF RunAdoption
  <2>2. /\ HeapOK(Rest) /\ Single(Rest) /\ Books(Rest)
        /\ Polled.cap \in Made(Rest)
        /\ Polled.fn \in Made(Rest) /\ Polled.argument \in Pair
    BY <1>2, <1>3, <2>1
  <2>3. HeapOK(g) /\ SameNames(g, Rest) /\ Single(g) /\ Books(g)
    BY <2>2, PassOnOK, BooksPassOn
  <2> HIDE DEF g
  <2>4. Polled.cap \in Made(g) /\ ResolvesWith(g, y)
    <3>1. Polled.cap \in Made(g)
      BY <2>2, <2>3, SameNamesSameSets
    <3>2. Polled.cap \in Pair
      BY <2>3, <3>1, CreatedIsPromise
    <3> QED
      BY <3>1, <3>2 DEF ResolvesWith, Resolution
  <2> HIDE DEF y
  <2> QED
    BY <2>1, <2>3, <2>4, BooksResolve
<1>7. CASE RunHandler \/ RunResume \/ RunMicrotask
  BY <1>2, <1>7 DEF RunHandler, RunResume, RunMicrotask
<1>8. CASE RunThen
  <2>1. /\ Poll("thenable") /\ heap.pairs < MaxPairs
        /\ heap' = CreateResolvingFunctions(Rest, Polled.promise)
    BY <1>8 DEF RunThen
  <2>2. HeapOK(Rest) /\ Books(Rest) /\ Rest.pairs < MaxPairs
    BY <1>2, <2>1
  <2> QED
    BY <2>1, <2>2, BooksNewPair
<1>9. CASE RunAdopt
  <2> DEFINE p == Polled.promise
             f == CreateResolvingFunctions(Rest, p)
             g == NewPromise(f)
             reaction == Adopting(g.pairs, heap.pairs + 1)
  <2>1. /\ Poll("thenable") /\ Polled.thenable # None
        /\ heap.promises < MaxPromises /\ heap.pairs + 1 < MaxPairs
        /\ heap' = PerformPromiseThen(g, Polled.thenable, reaction)
    BY <1>9 DEF RunAdopt
  <2>2. /\ HeapOK(Rest) /\ Books(Rest) /\ Rest \in Heap
        /\ p \in Created(Rest) /\ Polled.thenable \in Created(Rest)
        /\ Rest.pairs = heap.pairs /\ Rest.promises = heap.promises
    BY <1>2, <2>1 DEF JobOK
  <2>3. heap.pairs \in Nat /\ heap.promises \in Nat /\ MaxPairs \in Nat
    BY <1>1, BoundsAssumption DEF Heap
  <2>4. Rest.pairs < MaxPairs
    BY <2>1, <2>2, <2>3
  <2> HIDE DEF p
  <2>5. /\ HeapOK(f) /\ Books(f) /\ f \in Heap
        /\ f.promises = heap.promises /\ f.pairs = heap.pairs + 1
    <3>1. HeapOK(f) /\ f.promises = Rest.promises /\ f.pairs = Rest.pairs + 1
      BY <2>2, <2>4, CreateResolvingFunctionsOK
    <3>2. Books(f)
      BY <2>2, <2>4, BooksNewPair
    <3> QED
      BY <2>2, <3>1, <3>2 DEF HeapOK
  <2>6. Created(f) = Created(Rest) /\ f.pairs \in Made(f)
    BY <2>2, <2>3, <2>5 DEF Created, Made
  <2> HIDE DEF f
  <2>7. f.promises < MaxPromises /\ f.pairs < MaxPairs
    BY <2>1, <2>5
  <2>8. /\ HeapOK(g) /\ Books(g) /\ Fresh(g, g.pairs)
        /\ Created(f) \subseteq Created(g) /\ Made(f) \subseteq Made(g)
        /\ g.pairs \in Made(g)
    BY <2>5, <2>7, NewPromiseOK, NewPromiseGrows, BooksNewPair
  <2> HIDE DEF g
  <2>9. reaction \in Reaction /\ ReactionOK(g, reaction)
    <3>1. /\ g.pairs \in Pair /\ g.pairs # None /\ g.pairs \in Made(g)
          /\ heap.pairs + 1 \in Made(g) /\ heap.pairs + 1 \in Pair
          /\ heap.pairs + 1 # None
      BY <2>3, <2>5, <2>6, <2>8, CreatedIsPromise DEF Pair, None
    <3> QED
      BY <3>1 DEF Adopting, Reaction, Handler, ReactionOK
  <2>10. Polled.thenable \in Created(g) /\ Fresh(g, reaction.cap)
    BY <2>2, <2>6, <2>8 DEF Adopting
  <2> HIDE DEF reaction
  <2> QED
    BY <2>1, <2>8, <2>9, <2>10, BooksThen
<1> QED
  BY <1>4, <1>5, <1>6, <1>7, <1>8, <1>9 DEF Loop

LEMMA StepKeepsBooks ==
  Inv /\ Books(heap) /\ [Next]_vars => Books(heap')
<1> SUFFICES ASSUME Inv, Books(heap), [Next]_vars PROVE Books(heap')
  OBVIOUS
<1>1. HeapOK(heap)
  BY DEF Inv, TypeOK
<1>2. CASE Embedder
  BY <1>1, <1>2, BooksElsewhere
     DEF Embedder, EnterBoundary, NodeCall, RunMicrotasks
<1>3. CASE Program \/ Leaves
  BY <1>3, CodeKeepsBooks
<1>4. CASE Loop
  BY <1>4, LoopKeepsBooks
<1>5. CASE UNCHANGED vars
  BY <1>1, <1>5, BooksElsewhere DEF vars
<1> QED
  BY <1>2, <1>3, <1>4, <1>5 DEF Next

LEMMA BooksAlways == Spec => []Books(heap)
<1>1. Init => Books(heap)
  <2>1. Tracked(EmptyHeap)
    BY DEF EmptyHeap, Tracked
  <2> QED
    BY <2>1, RecordingEmpty DEF Init, Books
<1>2. Inv /\ Books(heap) /\ [Next]_vars => Books(heap)'
  BY StepKeepsBooks
<1> QED
  BY <1>1, <1>2, InvAlways, PTL DEF Spec

(* A host knows of the promises that are rejected and that nobody handled, *)
(* and of no others, in every state; the replay changes nothing about it.  *)
THEOREM TrackerKnowsTheTruth ==
  ~ TRACING => (Spec => []TrackerAgrees)
<1> SUFFICES ASSUME ~ TRACING
             PROVE  Spec => []TrackerAgrees
  OBVIOUS
<1>1. Books(heap) => TrackerAgrees
  BY DEF Books, Tracked, TrackerAgrees
<1> QED
  BY <1>1, BooksAlways, PTL

(* The file of a recording, in whatever state the program is interrupted,  *)
(* ends with the queued jobs in the order they are going to run in, and    *)
(* names no job twice, however many jobs are refused for want of an        *)
(* identifier: each identifier is that of a new capability, which one      *)
(* reaction carries.                                                       *)
THEOREM TheFileIsTheQueue ==
  TRACING /\ ~ REPLAY => (Spec => []RecordingIsQueueOrder)
<1> SUFFICES ASSUME TRACING, ~ REPLAY
             PROVE  Spec => []RecordingIsQueueOrder
  OBVIOUS
<1>1. Inv /\ Books(heap) => RecordingIsQueueOrder
  <2> SUFFICES ASSUME HeapOK(heap), Recording(heap)
               PROVE  RecordingIsQueueOrder
    BY DEF Inv, TypeOK, Books
  <2>1. heap.queue \in Seq(Job) /\ heap.log \in Seq(Pair)
    BY DEF HeapOK, Heap
  <2>2. PICK d, l \in Nat :
          /\ DOMAIN heap.queue = 1..l /\ Len(heap.log) = d + l
          /\ \A i \in 1..l : Identifier(heap.queue[i]) = heap.log[d + i]
    BY DEF Recording, Aligned
  <2>3. Len(heap.queue) = l
    BY <2>1, <2>2, LenProperties
  <2>4. Ids = SubSeq(heap.log, d + 1, d + l)
    <3>1. /\ Ids \in Seq(Pair \cup {NoIdentifier}) /\ Len(Ids) = l
          /\ \A i \in 1..l : Ids[i] = heap.log[d + i]
      BY <2>2, <2>3, IdentifiersOfQueue DEF Ids, Identifiers
    <3> DEFINE sub == SubSeq(heap.log, d + 1, d + l)
    <3>2. /\ d + 1 \in 1..(Len(heap.log) + 1) /\ d + l \in 0..Len(heap.log)
          /\ d + 1 <= (d + l) + 1 /\ ((d + l) - (d + 1)) + 1 = l
      BY <2>2
    <3>3. /\ sub \in Seq(Pair) /\ Len(sub) = l
          /\ \A i \in 1..l : sub[i] = heap.log[d + i]
      <4>1. sub = [i \in 1..l |-> heap.log[d + i]]
        BY <2>1, <2>2
      <4>2. \A i \in 1..l : d + i \in 1..Len(heap.log)
        BY <2>2
      <4>3. \A i \in 1..l : heap.log[d + i] \in Pair
        BY <2>1, <4>2, ElementOfSeq
      <4> HIDE DEF sub
      <4>4. sub \in [1..l -> Pair]
        BY <4>1, <4>3
      <4> QED
        BY <2>2, <4>1, <4>4, IsASeq, LenProperties
    <3> HIDE DEF sub
    <3>4. sub \in Seq(Pair \cup {NoIdentifier})
      BY <2>2, <3>3, LenProperties, IsASeq, ElementOfSeq
    <3> QED
      BY <3>1, <3>3, <3>4, SeqEqual DEF sub
  <2>5. IsInjective(heap.log)
    <3> SUFFICES ASSUME NEW i \in DOMAIN heap.log, NEW j \in DOMAIN heap.log,
                        heap.log[i] = heap.log[j]
                 PROVE  i = j
      BY DEF IsInjective
    <3>1. i \in 1..Len(heap.log) /\ j \in 1..Len(heap.log)
      BY <2>1, LenProperties
    <3>2. heap.log[i] \in Pair
      BY <2>1, <3>1, ElementOfSeq
    <3>3. WrittenOnce(heap, heap.log[i])
      BY <3>2 DEF Recording
    <3>4. {i, j} \subseteq Logged(heap, heap.log[i])
      BY <3>1 DEF Logged
    <3> QED
      BY <3>3, <3>4 DEF WrittenOnce
  <2>6. /\ Len(heap.queue) <= Len(heap.log)
        /\ Len(heap.log) - Len(heap.queue) + 1 = d + 1
        /\ Len(heap.log) = d + l
    BY <2>2, <2>3
  <2> QED
    BY <2>4, <2>5, <2>6 DEF RecordingIsQueueOrder
<1> QED
  BY <1>1, InvAlways, BooksAlways, PTL

-----------------------------------------------------------------------------
(* The continuations.  An activation holds that of the pair it settles.    *)
On(s, k) == {i \in DOMAIN s : s[i].pair = k}

Lone(S) == \A i, j \in S : i = j

LEMMA OnPushed ==
  ASSUME NEW s \in Seq(Frame), NEW f \in Frame, NEW k
  PROVE  /\ f.pair # k /\ Lone(On(s, k)) => Lone(On(<<f>> \o s, k))
         /\ f.pair # k /\ On(s, k) = {} => On(<<f>> \o s, k) = {}
         /\ On(s, k) = {} => Lone(On(<<f>> \o s, k))
         /\ On(<<f>> \o s, k) = {} => On(s, k) = {} /\ f.pair # k
<1> DEFINE t == <<f>> \o s
           l == Len(s)
<1>1. l \in Nat /\ DOMAIN s = 1..l
  BY LenProperties
<1>2. /\ t \in Seq(Frame) /\ Len(t) = 1 + l
      /\ \A i \in 1 .. 1 + l : t[i] = IF i <= 1 THEN <<f>>[i] ELSE s[i - 1]
  BY Pushed
<1>3. DOMAIN t = 1 .. 1 + l
  BY <1>2, LenProperties
<1> HIDE DEF t, l
<1>4. 1 \in DOMAIN t /\ t[1] = f
  <2>1. 1 \in 1 .. 1 + l /\ <<f>>[1] = f
    BY <1>1
  <2> QED
    BY <1>2, <1>3, <2>1
<1>5. \A i \in DOMAIN t : i # 1 => i - 1 \in DOMAIN s /\ t[i] = s[i - 1]
  <2> SUFFICES ASSUME NEW i \in DOMAIN t, i # 1
               PROVE  i - 1 \in DOMAIN s /\ t[i] = s[i - 1]
    OBVIOUS
  <2>1. i \in 1 .. 1 + l /\ ~ (i <= 1) /\ i - 1 \in 1..l
    BY <1>1, <1>3
  <2> QED
    BY <1>1, <1>2, <2>1
<1>6. \A i \in DOMAIN s : i + 1 \in DOMAIN t /\ t[i + 1] = s[i]
  <2> SUFFICES ASSUME NEW i \in DOMAIN s
               PROVE  i + 1 \in DOMAIN t /\ t[i + 1] = s[i]
    OBVIOUS
  <2>1. i + 1 \in 1 .. 1 + l /\ ~ (i + 1 <= 1) /\ i + 1 - 1 = i
    BY <1>1
  <2> QED
    BY <1>2, <1>3, <2>1
<1>7. \A i \in DOMAIN t : i \in Int
  BY <1>1, <1>3
<1>8. \A i \in On(t, k) : i # 1 => i - 1 \in On(s, k)
  BY <1>5 DEF On
<1>9. 1 \in On(t, k) <=> f.pair = k
  BY <1>4 DEF On
<1>10. \A i \in On(s, k) : i + 1 \in On(t, k)
  BY <1>6 DEF On
<1>11. \A i, j \in On(t, k) : i \in Int /\ j \in Int /\ (i - 1 = j - 1 => i = j)
  BY <1>7 DEF On
<1>12. f.pair # k /\ Lone(On(s, k)) => Lone(On(t, k))
  BY <1>8, <1>9, <1>11 DEF Lone
<1>13. On(s, k) = {} => Lone(On(t, k)) /\ (f.pair # k => On(t, k) = {})
  BY <1>8, <1>9 DEF Lone
<1>14. On(t, k) = {} => On(s, k) = {} /\ f.pair # k
  BY <1>9, <1>10
<1> QED
  BY <1>12, <1>13, <1>14 DEF t

LEMMA OnPopped ==
  ASSUME NEW s \in Seq(Frame), s # <<>>, NEW k
  PROVE  /\ Lone(On(s, k)) => Lone(On(Tail(s), k))
         /\ On(s, k) = {} => On(Tail(s), k) = {}
         /\ Head(s).pair = k => On(s, k) # {}
         /\ Head(s).pair = k /\ Lone(On(s, k)) => On(Tail(s), k) = {}
         /\ Head(s).pair # k /\ On(Tail(s), k) = {} => On(s, k) = {}
<1> DEFINE t == Tail(s)
           l == Len(s)
<1>1. l \in Nat \ {0} /\ DOMAIN s = 1..l /\ Head(s) = s[1]
  BY EmptySeq, LenProperties
<1>2. /\ t \in Seq(Frame) /\ Len(t) = l - 1
      /\ \A i \in 1..Len(t) : t[i] = s[i + 1]
  BY HeadTailProperties
<1>3. DOMAIN t = 1..(l - 1)
  BY <1>2, LenProperties
<1> HIDE DEF t, l
<1>4. \A i \in DOMAIN t : i \in Int /\ i + 1 \in DOMAIN s /\ i + 1 # 1
                           /\ t[i] = s[i + 1]
  BY <1>1, <1>2, <1>3
<1>5. \A i \in DOMAIN s : i # 1 => i - 1 \in DOMAIN t /\ t[i - 1] = s[i]
  <2> SUFFICES ASSUME NEW i \in DOMAIN s, i # 1
               PROVE  i - 1 \in DOMAIN t /\ t[i - 1] = s[i]
    OBVIOUS
  <2>1. i - 1 \in 1..(l - 1) /\ (i - 1) + 1 = i
    BY <1>1
  <2> QED
    BY <1>2, <1>3, <2>1
<1>6. 1 \in DOMAIN s
  BY <1>1
<1>7. \A i \in On(t, k) : i \in Int /\ i + 1 \in On(s, k) /\ i + 1 # 1
  BY <1>4 DEF On
<1>8. \A i \in On(s, k) : i # 1 => i - 1 \in On(t, k)
  BY <1>5 DEF On
<1>9. 1 \in On(s, k) <=> Head(s).pair = k
  BY <1>1, <1>6 DEF On
<1>10. \A i, j \in On(t, k) : i + 1 = j + 1 => i = j
  BY <1>7
<1>11. Lone(On(s, k)) => Lone(On(t, k))
  BY <1>7, <1>10 DEF Lone
<1>12. On(s, k) = {} => On(t, k) = {}
  BY <1>7
<1>13. Head(s).pair = k /\ Lone(On(s, k)) => On(t, k) = {}
  BY <1>7, <1>9 DEF Lone
<1>14. Head(s).pair # k /\ On(t, k) = {} => On(s, k) = {}
  BY <1>8, <1>9
<1> QED
  BY <1>9, <1>11, <1>12, <1>13, <1>14 DEF t

StackShaped(s, e) == \A i \in DOMAIN s : FrameShaped(s[i], e)

(* What is on a stack that gets another activation, or loses one. *)
LEMMA PushMembers ==
  ASSUME NEW s \in Seq(Frame), NEW f \in Frame
  PROVE  \A i \in DOMAIN (<<f>> \o s) :
           (<<f>> \o s)[i] = f \/ \E j \in DOMAIN s : (<<f>> \o s)[i] = s[j]
<1> DEFINE t == <<f>> \o s
           l == Len(s)
<1>1. l \in Nat /\ DOMAIN s = 1..l
  BY LenProperties
<1>2. /\ t \in Seq(Frame) /\ Len(t) = 1 + l
      /\ \A i \in 1 .. 1 + l : t[i] = IF i <= 1 THEN <<f>>[i] ELSE s[i - 1]
  BY Pushed
<1>3. DOMAIN t = 1 .. 1 + l
  BY <1>2, LenProperties
<1> HIDE DEF t, l
<1>4. ASSUME NEW i \in DOMAIN t
      PROVE  t[i] = f \/ \E j \in DOMAIN s : t[i] = s[j]
  <2>1. CASE i <= 1
    <3>1. i = 1 /\ <<f>>[1] = f /\ i \in 1 .. 1 + l
      BY <1>1, <1>3, <2>1
    <3> QED
      BY <1>2, <2>1, <3>1
  <2>2. CASE ~ (i <= 1)
    <3>1. i - 1 \in 1..l /\ i \in 1 .. 1 + l
      BY <1>1, <1>3, <2>2
    <3> QED
      BY <1>1, <1>2, <2>2, <3>1
  <2> QED
    BY <2>1, <2>2
<1> QED
  BY <1>4 DEF t

LEMMA PopMembers ==
  ASSUME NEW s \in Seq(Frame), s # <<>>
  PROVE  /\ \A i \in DOMAIN Tail(s) : \E j \in DOMAIN s : Tail(s)[i] = s[j]
         /\ \E j \in DOMAIN s : Head(s) = s[j]
<1> DEFINE t == Tail(s)
           l == Len(s)
<1>1. l \in Nat \ {0} /\ DOMAIN s = 1..l /\ Head(s) = s[1]
  BY EmptySeq, LenProperties
<1>2. /\ t \in Seq(Frame) /\ Len(t) = l - 1
      /\ \A i \in 1..Len(t) : t[i] = s[i + 1]
  BY HeadTailProperties
<1>3. DOMAIN t = 1..(l - 1)
  BY <1>2, LenProperties
<1> HIDE DEF t, l
<1>4. \A i \in DOMAIN t : i + 1 \in DOMAIN s /\ t[i] = s[i + 1]
  BY <1>1, <1>2, <1>3
<1>5. 1 \in DOMAIN s
  BY <1>1
<1> QED
  BY <1>1, <1>4, <1>5 DEF t

LEMMA PushShaped ==
  ASSUME NEW e, NEW s \in Seq(Frame), StackShaped(s, e),
         NEW f \in Frame, FrameShaped(f, e)
  PROVE  StackShaped(<<f>> \o s, e)
BY PushMembers DEF StackShaped

LEMMA PopShaped ==
  ASSUME NEW e, NEW s \in Seq(Frame), StackShaped(s, e), s # <<>>
  PROVE  StackShaped(Tail(s), e) /\ FrameShaped(Head(s), e)
BY PopMembers DEF StackShaped

(* More pairs may become known to the program. *)
LEMMA ShapedStays ==
  ASSUME NEW e, NEW d, e \subseteq d, NEW s, StackShaped(s, e)
  PROVE  StackShaped(s, d)
BY DEF StackShaped, FrameShaped
-----------------------------------------------------------------------------
(* The continuation of pair k is nowhere, or it is in at most one place    *)
(* and in none once the pair is used.                                      *)
Gone(h, s, k) == Nowhere(h, k) /\ On(s, k) = {}

Fine(h, s, k) == /\ Once(h, k) /\ Lone(On(s, k))
                 /\ On(s, k) = {} \/ Nowhere(h, k)
                 /\ k \in h.resolved => k \in Made(h) /\ Gone(h, s, k)

(* It has not been lost. *)
Present(h, s, k) == k \in Made(h) \ h.resolved => ~ Gone(h, s, k)

(* A step from h, s to g, t leaves it so. *)
Carries(h, s, g, t, k) == /\ Fine(g, t, k)
                          /\ ~ h.error /\ ~ g.error /\ Present(h, s, k) =>
                               Present(g, t, k)

LEMMA FineStep ==
  ASSUME NEW h, NEW s, NEW g, NEW t, NEW c,
         Fine(h, s, c), Keeps(h, g, c), Made(h) \subseteq Made(g),
         Lone(On(s, c)) => Lone(On(t, c)), On(s, c) = {} => On(t, c) = {},
         c \in g.resolved => c \in h.resolved \/ (c \in Made(g) /\ Gone(g, t, c))
  PROVE  Fine(g, t, c)
BY DEF Fine, Keeps, Gone

(* A step that leaves the continuation c alone. *)
LEMMA CarriesElsewhere ==
  ASSUME NEW h, NEW s, NEW g, NEW t, NEW c,
         Fine(h, s, c), Keeps(h, g, c), Made(h) \subseteq Made(g),
         Lone(On(s, c)) => Lone(On(t, c)), On(s, c) = {} => On(t, c) = {},
         c \in g.resolved => c \in h.resolved,
         h.resolved \subseteq g.resolved,
         ~ h.error => /\ Saves(h, g, c)
                      /\ On(t, c) = {} => On(s, c) = {}
                      /\ c \in Made(g) => c \in Made(h)
  PROVE  Carries(h, s, g, t, c)
<1>1. Fine(g, t, c)
  BY FineStep
<1>2. ~ h.error /\ ~ g.error /\ Present(h, s, c) => Present(g, t, c)
  BY DEF Present, Gone, Saves
<1> QED
  BY <1>1, <1>2 DEF Carries

(* The activation that holds it is left, and its promise is settled. *)
LEMMA CarriesUsed ==
  ASSUME NEW h, NEW s \in Seq(Frame), s # <<>>, NEW g, NEW c,
         Fine(h, s, c), Keeps(h, g, c), Made(h) \subseteq Made(g),
         Head(s).pair = c, c \in Made(h), Uses(h, g, c)
  PROVE  Carries(h, s, g, Tail(s), c)
<1>1. /\ On(s, c) # {} /\ On(Tail(s), c) = {}
      /\ Lone(On(s, c)) => Lone(On(Tail(s), c))
  BY OnPopped DEF Fine
<1>2. Gone(g, Tail(s), c)
  BY <1>1 DEF Fine, Keeps, Gone
<1>3. Fine(g, Tail(s), c)
  BY <1>1, <1>2, FineStep
<1>4. ~ g.error => Present(g, Tail(s), c)
  BY DEF Present, Uses
<1> QED
  BY <1>3, <1>4 DEF Carries

(* A pair that has not been made is nowhere. *)
LEMMA UnmadeIsGone ==
  ASSUME NEW h, HeapOK(h), NEW s, StackOK(s, h), NEW e, StackShaped(s, e),
         NEW c \in Pair, c \notin Made(h)
  PROVE  Gone(h, s, c)
<1>1. c # None
  BY DEF Pair, None
<1>2. \A i \in DOMAIN s : s[i].pair # c
  BY <1>1 DEF StackOK, StackShaped, FrameShaped
<1>3. On(s, c) = {}
  BY <1>2 DEF On
<1>4. JobsOf(h, c) = {}
  BY <1>1 DEF JobsOf, Holds, HeapOK, JobOK
<1>5. ASSUME NEW p \in Promise, NEW i \in DOMAIN h.reactions[p]
      PROVE  ~ Holds(h.reactions[p][i], c)
  <2>1. ReactionOK(h, h.reactions[p][i])
    BY DEF HeapOK
  <2> QED
    BY <1>1, <2>1 DEF Holds, ReactionOK
<1>6. Nowhere(h, c)
  BY <1>4, <1>5 DEF Nowhere, ReactionsOf
<1> QED
  BY <1>3, <1>6 DEF Gone

(* The embedder calls; activations that settle nothing are left. *)
LEMMA EmbedderCarries ==
  ASSUME Inv, NEW c \in Pair, Fine(heap, stack, c), Embedder
  PROVE  Carries(heap, stack, heap', stack', c)
<1>1. stack \in Seq(Frame) /\ c # None /\ heap' = heap
  BY DEF Inv, TypeOK, StackOK, Pair, None, Embedder, EnterBoundary, NodeCall,
         RunMicrotasks
<1>2. PICK kind \in {"boundary", "call", "microtasks"} :
        stack' = <<New(kind, None)>> \o stack
  BY DEF Embedder, EnterBoundary, NodeCall, RunMicrotasks, Push
<1> DEFINE f == New(kind, None)
<1>3. f \in Frame /\ f.pair = None
  BY DEF New, Frame, CodeKind, LoopKind
<1> HIDE DEF f
<1>4. /\ Lone(On(stack, c)) => Lone(On(<<f>> \o stack, c))
      /\ On(stack, c) = {} => On(<<f>> \o stack, c) = {}
      /\ On(<<f>> \o stack, c) = {} => On(stack, c) = {}
  BY <1>1, <1>3, OnPushed
<1>5. Keeps(heap, heap, c) /\ (~ heap.error => Saves(heap, heap, c))
  BY ElsewhereKeeps
<1>6. Carries(heap, stack, heap, <<f>> \o stack, c)
  BY <1>4, <1>5, CarriesElsewhere
<1> QED
  BY <1>1, <1>2, <1>6 DEF f

(* An activation is left that settles nothing, or a pair the program holds. *)
LEMMA CarriesPopped ==
  ASSUME NEW h, NEW s \in Seq(Frame), s # <<>>, NEW g, NEW c,
         Fine(h, s, c), Keeps(h, g, c), Made(h) = Made(g),
         g.resolved = h.resolved,
         ~ h.error => Saves(h, g, c) /\ Head(s).pair # c
  PROVE  Carries(h, s, g, Tail(s), c)
<1>1. /\ Lone(On(s, c)) => Lone(On(Tail(s), c))
      /\ On(s, c) = {} => On(Tail(s), c) = {}
      /\ ~ h.error => (On(Tail(s), c) = {} => On(s, c) = {})
  BY OnPopped
<1> QED
  BY <1>1, CarriesElsewhere

(* Only the error may change. *)
LEMMA ErrorElsewhere ==
  ASSUME NEW h \in Heap, NEW e, NEW c
  PROVE  LET g == [h EXCEPT !.error = e]
         IN  /\ g.error = e /\ Keeps(h, g, c) /\ Made(h) = Made(g)
             /\ g.resolved = h.resolved
             /\ (e = h.error => Saves(h, g, c))
<1> DEFINE g == [h EXCEPT !.error = e]
<1>1. /\ g.error = e /\ g.queue = h.queue /\ g.reactions = h.reactions
      /\ g.resolved = h.resolved /\ g.pairs = h.pairs
  BY DEF Heap
<1> HIDE DEF g
<1>2. Made(h) = Made(g)
  BY <1>1 DEF Made
<1> QED
  BY <1>1, <1>2, ElsewhereKeeps DEF g

(* What leaves activations that settle nothing. *)
LEMMA ReturnCarries ==
  ASSUME Inv, StackShaped(stack, exposed), CalledByLoop(stack),
         NEW c \in Pair \ exposed, Fine(heap, stack, c),
         ExitOutermost \/ ExitNested \/ Return \/ MicrotaskThrows \/ Unwind
           \/ LoopEnds
  PROVE  Carries(heap, stack, heap', stack', c)
<1>1. stack \in Seq(Frame) /\ heap \in Heap /\ c # None
  BY DEF Inv, TypeOK, StackOK, HeapOK, Pair, None
<1>2. stack # <<>> => FrameShaped(Head(stack), exposed)
  BY <1>1, PopShaped
<1>3. CASE ExitOutermost
  <2> DEFINE t == Tail(stack)
  <2>1. PICK f : /\ f = New(IF heap.error THEN "finally" ELSE "loop", None)
                 /\ stack' = <<f>> \o t
    BY <1>3 DEF ExitOutermost, Replace
  <2>2. /\ stack # <<>> /\ Head(stack).kind = "boundary"
        /\ heap' = [heap EXCEPT !.error = FALSE]
    BY <1>3 DEF ExitOutermost, Top
  <2>3. f \in Frame /\ f.pair = None
    BY <2>1 DEF New, Frame, LoopKind
  <2>4. t \in Seq(Frame) /\ Head(stack).pair = None
    BY <1>1, <1>2, <2>2, HeadTailProperties DEF FrameShaped
  <2>5. /\ Lone(On(stack, c)) => Lone(On(t, c))
        /\ On(stack, c) = {} => On(t, c) = {}
        /\ On(t, c) = {} => On(stack, c) = {}
    BY <1>1, <2>2, <2>4, OnPopped
  <2> HIDE DEF t
  <2>6. /\ Lone(On(t, c)) => Lone(On(<<f>> \o t, c))
        /\ On(t, c) = {} => On(<<f>> \o t, c) = {}
        /\ On(<<f>> \o t, c) = {} => On(t, c) = {}
    BY <1>1, <2>3, <2>4, OnPushed
  <2>7. PICK g : g = heap'
    OBVIOUS
  <2>8. /\ Keeps(heap, g, c) /\ Made(heap) = Made(g)
        /\ g.resolved = heap.resolved
        /\ ~ heap.error => Saves(heap, g, c)
    <3>1. heap.error \in BOOLEAN
      BY <1>1 DEF Heap
    <3> QED
      BY <1>1, <2>2, <2>7, <3>1, ErrorElsewhere
  <2>9. Carries(heap, stack, g, <<f>> \o t, c)
    BY <2>5, <2>6, <2>8, CarriesElsewhere
  <2> QED
    BY <2>1, <2>7, <2>9
<1>4. CASE ExitNested \/ LoopEnds
  <2>1. /\ stack # <<>> /\ Head(stack).kind \in {"boundary", "loop", "finally", "microtasks"}
        /\ stack' = Tail(stack)
    BY <1>4 DEF ExitNested, LoopEnds, LoopRuns, Top, LoopKind
  <2>2. PICK e : /\ heap' = [heap EXCEPT !.error = e]
                 /\ ~ heap.error => e = FALSE \/ (LoopEnds /\ e \in BOOLEAN)
    <3>1. CASE ExitNested
      <4>1. PICK e \in HostMayCatch : heap' = [heap EXCEPT !.error = e]
        BY <3>1 DEF ExitNested
      <4> QED
        BY <4>1 DEF HostMayCatch
    <3>2. CASE LoopEnds
      <4>1. PICK e \in IF Top({"finally"}) /\ Len(stack) > 1 THEN BOOLEAN ELSE {FALSE} :
              heap' = [heap EXCEPT !.error = e]
        BY <3>2 DEF LoopEnds
      <4> QED
        BY <3>2, <4>1
    <3> QED
      BY <1>4, <3>1, <3>2
  <2>3. Head(stack).pair = None
    BY <1>2, <2>1 DEF FrameShaped
  <2>4. PICK g : g = heap'
    OBVIOUS
  <2>5. /\ Keeps(heap, g, c) /\ Made(heap) = Made(g) /\ g.error = e
        /\ g.resolved = heap.resolved
        /\ e = heap.error => Saves(heap, g, c)
    BY <1>1, <2>2, <2>4, ErrorElsewhere
  <2>6. ~ heap.error => Saves(heap, g, c)
    <3>1. heap.error \in BOOLEAN
      BY <1>1 DEF Heap
    <3>2. e = TRUE => Saves(heap, g, c)
      BY <2>5 DEF Saves
    <3> QED
      BY <2>2, <2>5, <3>1, <3>2
  <2>7. Carries(heap, stack, g, Tail(stack), c)
    BY <1>1, <2>1, <2>3, <2>5, <2>6, CarriesPopped
  <2> QED
    BY <2>1, <2>4, <2>7
<1>5. CASE Return
  <2>1. /\ stack # <<>> /\ Head(stack).kind \in {"then", "microtask", "call"}
        /\ stack' = Tail(stack) /\ heap' = heap
    BY <1>5 DEF Return, Top
  <2>2. Head(stack).pair # c
    BY <1>1, <1>2, <2>1 DEF FrameShaped
  <2>3. Keeps(heap, heap, c) /\ Saves(heap, heap, c)
    BY ElsewhereKeeps
  <2>4. Carries(heap, stack, heap, Tail(stack), c)
    BY <1>1, <2>1, <2>2, <2>3, CarriesPopped
  <2> QED
    BY <2>1, <2>4
<1>6. CASE MicrotaskThrows
  <2> DEFINE t == Tail(stack)
  <2>1. /\ stack # <<>> /\ Head(stack).kind = "microtask"
        /\ stack' = SubSeq(stack, 3, Len(stack)) /\ heap' = heap
    BY <1>6 DEF MicrotaskThrows, Top
  <2>2. t # <<>> /\ Head(t).kind \in LoopKind
    BY <1>1, <2>1, PopCalled
  <2>3. stack' = Tail(t)
    BY <1>1, <2>1, <2>2, PopTwo
  <2>4. t \in Seq(Frame) /\ FrameShaped(Head(t), exposed)
    BY <1>1, <2>1, <2>2, HeadTailProperties, PopShaped
  <2>5. Head(stack).pair # c /\ Head(t).pair # c
    BY <1>1, <1>2, <2>1, <2>2, <2>4 DEF FrameShaped, LoopKind
  <2>6. Keeps(heap, heap, c) /\ Saves(heap, heap, c)
    BY ElsewhereKeeps
  <2>7. Carries(heap, stack, heap, t, c)
    BY <1>1, <2>1, <2>5, <2>6, CarriesPopped
  <2>8. Fine(heap, t, c)
    BY <2>7 DEF Carries
  <2> HIDE DEF t
  <2>9. Carries(heap, t, heap, Tail(t), c)
    BY <2>2, <2>4, <2>5, <2>6, <2>8, CarriesPopped
  <2>10. Carries(heap, stack, heap, Tail(t), c)
    BY <2>7, <2>9 DEF Carries
  <2> QED
    BY <2>1, <2>3, <2>10
<1>7. CASE Unwind
  <2>1. heap.error /\ stack # <<>> /\ stack' = Tail(stack)
    BY <1>7 DEF Unwind
  <2>2. PICK e : heap' = [heap EXCEPT !.error = e]
    BY <1>7 DEF Unwind
  <2>3. PICK g : g = heap'
    OBVIOUS
  <2>4. Keeps(heap, g, c) /\ Made(heap) = Made(g) /\ g.resolved = heap.resolved
    BY <1>1, <2>2, <2>3, ErrorElsewhere
  <2>5. Carries(heap, stack, g, Tail(stack), c)
    BY <1>1, <2>1, <2>4, CarriesPopped
  <2> QED
    BY <2>1, <2>3, <2>5
<1> QED
  BY <1>3, <1>4, <1>5, <1>6, <1>7

(* One more pair is made. *)
LEMMA OnePairMore ==
  ASSUME NEW h \in Heap, NEW g, g.pairs = h.pairs + 1
  PROVE  /\ Made(g) = Made(h) \cup {g.pairs} /\ Made(h) \subseteq Made(g)
         /\ g.pairs \notin Made(h) /\ g.pairs \in Made(g)
<1>1. h.pairs \in Nat
  BY BoundsAssumption DEF Heap
<1> QED
  BY <1>1 DEF Made

(* The activations of a stack that gets another one, or loses one. *)
LEMMA CarriesPushed ==
  ASSUME NEW h, NEW s \in Seq(Frame), NEW g, NEW c, NEW f \in Frame,
         Fine(h, s, c), Keeps(h, g, c), Made(h) \subseteq Made(g),
         f.pair # c, c \in g.resolved => c \in h.resolved,
         h.resolved \subseteq g.resolved,
         ~ h.error => Saves(h, g, c) /\ (c \in Made(g) => c \in Made(h))
  PROVE  Carries(h, s, g, <<f>> \o s, c)
<1>1. /\ Lone(On(s, c)) => Lone(On(<<f>> \o s, c))
      /\ On(s, c) = {} => On(<<f>> \o s, c) = {}
      /\ On(<<f>> \o s, c) = {} => On(s, c) = {}
  BY OnPushed
<1> QED
  BY <1>1, CarriesElsewhere

(* The continuation that was nowhere, or in the job that calls it, is now  *)
(* in an activation.                                                       *)
LEMMA CarriesCalled ==
  ASSUME NEW s \in Seq(Frame), NEW h, NEW g, NEW c, NEW f \in Frame,
         f.pair = c, On(s, c) = {}, Nowhere(g, c), c \notin g.resolved
  PROVE  Carries(h, s, g, <<f>> \o s, c)
<1>1. Lone(On(<<f>> \o s, c)) /\ On(<<f>> \o s, c) # {}
  BY OnPushed
<1>2. Once(g, c)
  BY NowhereIsOnce
<1> QED
  BY <1>1, <1>2 DEF Carries, Fine, Present, Gone

(* The functions of the program, as long as they do not return. *)
LEMMA ProgramCarries ==
  ASSUME Inv, StackShaped(stack, exposed),
         NEW c \in Pair \ exposed', Fine(heap, stack, c), Program
  PROVE  Carries(heap, stack, heap', stack', c)
<1>1. /\ TypeOK /\ HeapOK(heap) /\ heap \in Heap /\ StackOK(stack, heap)
      /\ stack \in Seq(Frame) /\ c # None /\ c \in Pair
      /\ visible \subseteq Created(heap) /\ exposed \subseteq Made(heap)
  BY DEF Inv, TypeOK, HeapOK, StackOK, Pair, None
<1>2. ASSUME Room(1, 1)
      PROVE  heap.promises < MaxPromises /\ heap.pairs < MaxPairs
  <2>1. heap.promises + 1 <= MaxPromises /\ heap.pairs + 1 <= MaxPairs
    BY <1>1, <1>2, RoomOK
  <2>2. heap.promises \in Nat /\ heap.pairs \in Nat
    BY <1>1 DEF HeapOK, Heap
  <2> QED
    BY <2>1, <2>2, BoundsAssumption
<1>3. ASSUME Room(1, 1), NEW n, n = NewPromise(heap)
      PROVE  /\ HeapOK(n) /\ Keeps(heap, n, c) /\ Saves(heap, n, c)
             /\ SameContinuations(n, heap)
             /\ n.pairs = heap.pairs + 1
             /\ Made(n) = Made(heap) \cup {n.pairs} /\ Made(heap) \subseteq Made(n)
             /\ n.pairs \notin Made(heap) /\ n.pairs \in Made(n)
             /\ Created(heap) \subseteq Created(n)
  <2>1. /\ HeapOK(n) /\ n.pairs = heap.pairs + 1 /\ SameContinuations(n, heap)
        /\ Created(heap) \subseteq Created(n)
    BY <1>1, <1>2, <1>3, NewPromiseOK, NewPromiseGrows, CreateElsewhere
  <2>2. Keeps(heap, n, c) /\ Saves(heap, n, c)
    BY <2>1, ElsewhereKeeps DEF SameContinuations
  <2> QED
    BY <1>1, <2>1, <2>2, OnePairMore
<1>4. CASE CreatePromise
  <2>1. PICK g : g = heap'
    OBVIOUS
  <2>2. /\ Room(1, 1) /\ g = NewPromise(heap) /\ c # g.pairs
        /\ stack' = stack
    BY <1>4, <2>1 DEF CreatePromise
  <2>3. /\ Keeps(heap, g, c) /\ Saves(heap, g, c) /\ SameContinuations(g, heap)
        /\ Made(g) = Made(heap) \cup {g.pairs}
    BY <1>3, <2>2
  <2>4. Carries(heap, stack, g, stack, c)
    BY <2>2, <2>3, CarriesElsewhere DEF SameContinuations
  <2> QED
    BY <2>1, <2>2, <2>4
<1>5. CASE CallAsync
  <2>1. PICK g : g = heap'
    OBVIOUS
  <2> DEFINE f == New("async", g.pairs)
  <2>2. /\ Room(1, 1) /\ g = NewPromise(heap) /\ stack' = <<f>> \o stack
    BY <1>5, <2>1 DEF CallAsync, Push
  <2>3. /\ HeapOK(g) /\ Keeps(heap, g, c) /\ Saves(heap, g, c)
        /\ SameContinuations(g, heap)
        /\ Made(g) = Made(heap) \cup {g.pairs}
        /\ g.pairs \notin Made(heap) /\ g.pairs \in Made(g)
    BY <1>3, <2>2
  <2>4. f \in Frame /\ f.pair = g.pairs
    BY <2>3, CreatedIsPromise DEF New, Frame, CodeKind
  <2> HIDE DEF f
  <2>5. CASE c # g.pairs
    <3>1. /\ c \in g.resolved => c \in heap.resolved
          /\ heap.resolved \subseteq g.resolved
          /\ c \in Made(g) => c \in Made(heap)
      BY <2>3, <2>5 DEF SameContinuations
    <3>2. Carries(heap, stack, g, <<f>> \o stack, c)
      BY <1>1, <2>3, <2>4, <2>5, <3>1, CarriesPushed
    <3> QED
      BY <2>1, <2>2, <3>2
  <2>6. CASE c = g.pairs
    <3>1. Gone(heap, stack, c)
      BY <1>1, <2>3, <2>6, UnmadeIsGone
    <3>2. Nowhere(g, c) /\ c \notin g.resolved /\ On(stack, c) = {}
      BY <2>3, <2>6, <3>1 DEF Gone, Keeps, SameContinuations, Fine
    <3>3. Carries(heap, stack, g, <<f>> \o stack, c)
      BY <1>1, <2>4, <2>6, <3>2, CarriesCalled
    <3> QED
      BY <2>1, <2>2, <3>3
  <2> QED
    BY <2>5, <2>6
<1>6. CASE EnqueueMicrotask
  <2> DEFINE job == [type |-> "microtask"]
  <2>1. PICK g : g = heap'
    OBVIOUS
  <2>2. /\ ~ heap.error /\ g = Enqueue(heap, <<job>>) /\ stack' = stack
    BY <1>6, <2>1 DEF EnqueueMicrotask, CodeRuns
  <2>3. SameNames(g, heap)
    BY <1>1, <2>2, EnqueueMicrotaskOK
  <2>4. job \in Job /\ job.type # "reaction"
    BY DEF Job, Microtask
  <2> HIDE DEF job
  <2>5. Keeps(heap, g, c) /\ Saves(heap, g, c) /\ g.resolved = heap.resolved
    BY <1>1, <2>2, <2>4, EnqueueOtherKeeps
  <2>6. Made(g) = Made(heap)
    BY <2>3, SameNamesSameSets
  <2>7. Carries(heap, stack, g, stack, c)
    BY <2>5, <2>6, CarriesElsewhere
  <2> QED
    BY <2>1, <2>2, <2>7
<1>7. ASSUME NEW k \in Pair, CallResolve(k) \/ CallReject(k)
      PROVE  Carries(heap, stack, heap', stack', c)
  <2>1. PICK g : g = heap'
    OBVIOUS
  <2>2. k \in exposed /\ exposed' = exposed /\ stack' = stack /\ k \in Made(heap)
    BY <1>1, <1>7 DEF CallResolve, CallReject
  <2>3. /\ SameNames(g, heap) /\ Keeps(heap, g, c) /\ Saves(heap, g, c)
        /\ Uses(heap, g, k)
    <3>1. CASE CallReject(k)
      <4>1. g = RejectFunction(heap, k, k)
        BY <2>1, <3>1 DEF CallReject
      <4> QED
        BY <1>1, <2>2, <4>1, RejectFunctionOK, RejectKeeps
    <3>2. CASE CallResolve(k)
      <4>1. PICK x \in Resolutions(k) : g = ResolveFunction(heap, k, x)
        BY <2>1, <3>2 DEF CallResolve
      <4>2. ResolvesWith(heap, x)
        BY <1>1, <2>2, ResolutionsOK
      <4> QED
        BY <1>1, <2>2, <4>1, <4>2, ResolveFunctionOK, ResolveKeeps
    <3> QED
      BY <1>7, <3>1, <3>2
  <2>4. Made(g) = Made(heap)
    BY <2>3, SameNamesSameSets
  <2>5. c # k
    BY <2>2
  <2>6. Carries(heap, stack, g, stack, c)
    BY <2>3, <2>4, <2>5, CarriesElsewhere DEF Uses
  <2> QED
    BY <2>1, <2>2, <2>6
<1>8. ASSUME NEW p \in Promise, NEW f \in {"none", "user"},
             NEW r \in {"none", "user"}, CallThen(p, f, r)
      PROVE  Carries(heap, stack, heap', stack', c)
  <2>1. PICK g : g = heap'
    OBVIOUS
  <2>2. PICK n : n = NewPromise(heap)
    OBVIOUS
  <2> DEFINE reaction == [cap |-> n.pairs, fn |-> None,
                          onFulfilled |-> f, onRejected |-> r]
  <2>3. /\ Room(1, 1) /\ p \in visible /\ stack' = stack
        /\ g = PerformPromiseThen(n, p, reaction)
    BY <1>8, <2>1, <2>2 DEF CallThen
  <2>4. /\ HeapOK(n) /\ Keeps(heap, n, c) /\ Saves(heap, n, c)
        /\ SameContinuations(n, heap)
        /\ Made(n) = Made(heap) \cup {n.pairs} /\ Made(heap) \subseteq Made(n)
        /\ n.pairs \notin Made(heap) /\ n.pairs \in Made(n)
        /\ Created(heap) \subseteq Created(n)
    BY <1>3, <2>2, <2>3
  <2>5. reaction \in Reaction /\ ReactionOK(n, reaction)
    <3>1. n.pairs \in Pair /\ n.pairs # None
      BY <2>4, CreatedIsPromise DEF Pair, None
    <3> QED
      BY <2>4, <3>1 DEF Reaction, Handler, ReactionOK
  <2>6. p \in Created(n)
    BY <1>1, <2>3, <2>4
  <2>7. Holds(reaction, c) <=> c = n.pairs
    BY <1>1 DEF Holds
  <2> HIDE DEF reaction
  <2>8. /\ ~ Holds(reaction, c) => Keeps(n, g, c) /\ Saves(n, g, c)
        /\ Nowhere(n, c) => Once(g, c)
        /\ Holds(reaction, c) /\ ~ g.error => ~ Nowhere(g, c)
        /\ g.resolved = n.resolved
    BY <2>3, <2>4, <2>5, <2>6, ThenKeeps
  <2>9. Made(g) = Made(n)
    BY <2>3, <2>4, <2>5, <2>6, PerformPromiseThenOK, SameNamesSameSets
  <2>10. CASE c # n.pairs
    <3>1. Keeps(heap, g, c) /\ Saves(heap, g, c)
      BY <2>4, <2>7, <2>8, <2>10, KeepsTwice, SavesTwice
    <3>2. /\ Made(heap) \subseteq Made(g) /\ (c \in Made(g) => c \in Made(heap))
          /\ g.resolved = heap.resolved
      BY <2>4, <2>8, <2>9, <2>10 DEF SameContinuations
    <3>3. Carries(heap, stack, g, stack, c)
      BY <3>1, <3>2, CarriesElsewhere
    <3> QED
      BY <2>1, <2>3, <3>3
  <2>11. CASE c = n.pairs
    <3>1. Gone(heap, stack, c)
      BY <1>1, <2>4, <2>11, UnmadeIsGone
    <3>2. /\ Once(g, c) /\ On(stack, c) = {} /\ c \notin g.resolved
      BY <2>4, <2>8, <2>11, <3>1 DEF Gone, Keeps, SameContinuations, Fine
    <3>3. ~ g.error => ~ Nowhere(g, c)
      BY <2>7, <2>8, <2>11
    <3>4. Carries(heap, stack, g, stack, c)
      BY <3>2, <3>3 DEF Carries, Fine, Present, Gone, Lone
    <3> QED
      BY <2>1, <2>3, <3>4
  <2> QED
    BY <2>10, <2>11
<1> QED
  BY <1>4, <1>5, <1>6, <1>7, <1>8 DEF Program

(* An activation is left that settles its promise. *)
LEMMA CarriesSettled ==
  ASSUME NEW h, NEW s \in Seq(Frame), s # <<>>, NEW g, NEW c,
         Fine(h, s, c), Keeps(h, g, c), Saves(h, g, c), Made(g) = Made(h),
         NEW k \in Made(h), k = Head(s).pair, Uses(h, g, k)
  PROVE  Carries(h, s, g, Tail(s), c)
<1>1. CASE c = k
  BY <1>1, CarriesUsed
<1>2. CASE c # k
  <2>1. /\ Lone(On(s, c)) => Lone(On(Tail(s), c))
        /\ On(s, c) = {} => On(Tail(s), c) = {}
        /\ On(Tail(s), c) = {} => On(s, c) = {}
    BY <1>2, OnPopped
  <2> QED
    BY <1>2, <2>1, CarriesElsewhere DEF Uses
<1> QED
  BY <1>1, <1>2

LEMMA ResultCarries ==
  ASSUME Inv, NEW c \in Pair, Fine(heap, stack, c), ReturnResult \/ Throw
  PROVE  Carries(heap, stack, heap', stack', c)
<1>1. TypeOK /\ HeapOK(heap) /\ StackOK(stack, heap) /\ stack \in Seq(Frame)
  BY DEF Inv, TypeOK, StackOK
<1>2. PICK g : g = heap'
  OBVIOUS
<1>3. PICK k : k = Head(stack).pair
  OBVIOUS
<1>4. /\ stack # <<>> /\ Head(stack).kind \in {"handler", "async", "then"}
      /\ stack' = Tail(stack)
  BY DEF ReturnResult, Throw, Top
<1>5. k \in Made(heap) /\ k \in Pair
  BY <1>1, <1>3, <1>4, PopOK, CreatedIsPromise
<1>6. /\ SameNames(g, heap) /\ Keeps(heap, g, c) /\ Saves(heap, g, c)
      /\ Uses(heap, g, k)
  <2>1. CASE Throw
    <3>1. g = RejectFunction(heap, k, k)
      BY <1>2, <1>3, <2>1 DEF Throw
    <3> QED
      BY <1>1, <1>5, <3>1, RejectFunctionOK, RejectKeeps
  <2>2. CASE ReturnResult
    <3>1. PICK x \in Resolutions(k) : g = ResolveFunction(heap, k, x)
      BY <1>2, <1>3, <2>2 DEF ReturnResult
    <3>2. ResolvesWith(heap, x)
      BY <1>1, <1>5, ResolutionsOK
    <3> QED
      BY <1>1, <1>5, <3>1, <3>2, ResolveFunctionOK, ResolveKeeps
  <2> QED
    BY <2>1, <2>2
<1>7. Made(g) = Made(heap)
  BY <1>6, SameNamesSameSets
<1>8. Carries(heap, stack, g, Tail(stack), c)
  BY <1>1, <1>3, <1>4, <1>5, <1>6, <1>7, CarriesSettled
<1> QED
  BY <1>2, <1>4, <1>8

(* An async function awaits: its continuation goes to the promise.         *)
LEMMA AwaitCarries ==
  ASSUME Inv, StackShaped(stack, exposed),
         NEW c \in Pair \ exposed, Fine(heap, stack, c),
         NEW x \in Awaitable, Await(x)
  PROVE  Carries(heap, stack, heap', stack', c)
<1>1. /\ TypeOK /\ HeapOK(heap) /\ heap \in Heap /\ StackOK(stack, heap)
      /\ stack \in Seq(Frame) /\ c # None /\ c \in Pair
      /\ visible \subseteq Created(heap)
  BY DEF Inv, TypeOK, HeapOK, StackOK, Pair, None
<1>2. PICK f : f = heap'
  OBVIOUS
<1>3. PICK k : k = Head(stack).pair
  OBVIOUS
<1> DEFINE l == heap.pairs + 1
           p == IF x.kind = "promise" THEN x.ref ELSE heap.promises + 1
           g == IF x.kind = "promise" THEN heap
                ELSE ResolveFunction(NewPromise(heap), l, x)
           reaction == [cap |-> None, fn |-> k,
                        onFulfilled |-> "resume", onRejected |-> "resume"]
<1>4. /\ stack # <<>> /\ Head(stack).kind = "async" /\ ~ heap.error
      /\ x.kind # "promise" => Room(1, 1)
      /\ f = PerformPromiseThen(g, p, reaction)
      /\ stack' = Tail(stack)
  BY <1>2, <1>3 DEF Await, Top, CodeRuns
<1>5. k \in Made(heap) /\ k \in Pair /\ k # None
  BY <1>1, <1>3, <1>4, PopOK, CreatedIsPromise DEF Pair, None
<1>6. /\ HeapOK(g) /\ p \in Created(g) /\ Made(heap) \subseteq Made(g)
      /\ Keeps(heap, g, c) /\ Saves(heap, g, c)
      /\ heap.resolved \subseteq g.resolved
      /\ g.resolved \subseteq heap.resolved \cup (Made(g) \ Made(heap))
      /\ ~ g.error => Made(g) \ Made(heap) \subseteq g.resolved
  <2>1. CASE x.kind = "promise"
    <3>1. x.ref \in visible
      BY <2>1 DEF Awaitable
    <3>2. Keeps(heap, heap, c) /\ Saves(heap, heap, c)
      BY ElsewhereKeeps
    <3>3. g = heap /\ p = x.ref
      BY <2>1
    <3> QED
      BY <1>1, <3>1, <3>2, <3>3
  <2>2. CASE x.kind # "promise"
    <3>1. PICK n : n = NewPromise(heap)
      OBVIOUS
    <3>2. heap.promises < MaxPromises /\ heap.pairs < MaxPairs
      <4>1. heap.promises + 1 <= MaxPromises /\ heap.pairs + 1 <= MaxPairs
        BY <1>1, <1>4, <2>2, RoomOK
      <4>2. heap.promises \in Nat /\ heap.pairs \in Nat
        BY <1>1 DEF HeapOK, Heap
      <4> QED
        BY <4>1, <4>2, BoundsAssumption
    <3>3. /\ HeapOK(n) /\ SameContinuations(n, heap) /\ n.pairs = l
          /\ heap.promises + 1 \in Created(n) /\ l \in Made(n)
      BY <1>1, <3>1, <3>2, NewPromiseOK, NewPromiseGrows, CreateElsewhere
    <3>4. /\ Made(n) = Made(heap) \cup {l} /\ l \notin Made(heap)
          /\ Made(heap) \subseteq Made(n)
      BY <1>1, <3>3, OnePairMore
    <3>5. ResolvesWith(n, x)
      <4>1. l \in Pair
        BY <3>3, CreatedIsPromise
      <4> QED
        BY <2>2, <4>1 DEF Awaitable, ResolvesWith, Resolution
    <3>6. g = ResolveFunction(n, l, x) /\ p = heap.promises + 1
      BY <2>2, <3>1
    <3> HIDE DEF l, g, p
    <3>7. /\ HeapOK(g) /\ SameNames(g, n)
          /\ Keeps(n, g, c) /\ Saves(n, g, c) /\ Uses(n, g, l)
      BY <3>3, <3>5, <3>6, ResolveFunctionOK, ResolveKeeps
    <3>8. Keeps(heap, n, c) /\ Saves(heap, n, c)
      BY <3>3, ElsewhereKeeps DEF SameContinuations
    <3>9. Keeps(heap, g, c) /\ Saves(heap, g, c)
      BY <3>7, <3>8, KeepsTwice, SavesTwice
    <3>10. Created(g) = Created(n) /\ Made(g) = Made(n)
      BY <3>7, SameNamesSameSets
    <3> QED
      BY <3>3, <3>4, <3>6, <3>7, <3>9, <3>10 DEF Uses, SameContinuations
  <2> QED
    BY <2>1, <2>2
<1> HIDE DEF g, p, l
<1>7. reaction \in Reaction /\ ReactionOK(g, reaction)
  BY <1>5, <1>6 DEF Reaction, Handler, ReactionOK
<1>8. Holds(reaction, c) <=> c = k
  BY <1>1 DEF Holds
<1> HIDE DEF reaction
<1>9. /\ ~ Holds(reaction, c) => Keeps(g, f, c) /\ Saves(g, f, c)
      /\ Nowhere(g, c) => Once(f, c)
      /\ Holds(reaction, c) /\ ~ f.error => ~ Nowhere(f, c)
      /\ f.resolved = g.resolved /\ (~ f.error => ~ g.error)
  BY <1>4, <1>6, <1>7, ThenKeeps
<1>10. Made(f) = Made(g)
  BY <1>4, <1>6, <1>7, PerformPromiseThenOK, SameNamesSameSets
<1>11. CASE c = k
  <2>1. On(stack, c) # {} /\ On(Tail(stack), c) = {}
    BY <1>1, <1>3, <1>4, <1>11, OnPopped DEF Fine
  <2>2. Nowhere(g, c) /\ c \notin heap.resolved
    BY <1>6, <2>1 DEF Fine, Gone, Keeps
  <2>3. Once(f, c) /\ c \notin f.resolved
    BY <1>5, <1>6, <1>9, <1>11, <2>2
  <2>4. ~ f.error => ~ Nowhere(f, c)
    BY <1>8, <1>9, <1>11
  <2>5. Carries(heap, stack, f, Tail(stack), c)
    BY <2>1, <2>3, <2>4 DEF Carries, Fine, Present, Gone, Lone
  <2> QED
    BY <1>2, <1>4, <2>5
<1>12. CASE c # k
  <2>1. Keeps(heap, f, c) /\ Saves(heap, f, c)
    BY <1>6, <1>8, <1>9, <1>12, KeepsTwice, SavesTwice
  <2>2. /\ Lone(On(stack, c)) => Lone(On(Tail(stack), c))
        /\ On(stack, c) = {} => On(Tail(stack), c) = {}
        /\ On(Tail(stack), c) = {} => On(stack, c) = {}
    BY <1>1, <1>3, <1>4, <1>12, OnPopped
  <2>3. CASE c \in Made(heap)
    <3>1. c \in f.resolved => c \in heap.resolved
      BY <1>6, <1>9, <2>3
    <3>2. heap.resolved \subseteq f.resolved /\ Made(heap) \subseteq Made(f)
      BY <1>6, <1>9, <1>10
    <3>3. Carries(heap, stack, f, Tail(stack), c)
      BY <2>1, <2>2, <2>3, <3>1, <3>2, CarriesElsewhere
    <3> QED
      BY <1>2, <1>4, <3>3
  <2>4. CASE c \notin Made(heap)
    <3>1. Gone(heap, stack, c)
      BY <1>1, <2>4, UnmadeIsGone
    <3>2. Gone(f, Tail(stack), c)
      BY <2>1, <2>2, <3>1 DEF Gone, Keeps
    <3>3. Once(f, c)
      BY <3>2, NowhereIsOnce DEF Gone
    <3>4. c \in f.resolved => c \in Made(f)
      BY <1>6, <1>9, <1>10, <2>4 DEF Fine
    <3>5. ~ f.error => (c \in Made(f) => c \in f.resolved)
      BY <1>6, <1>9, <1>10, <2>4
    <3>6. Carries(heap, stack, f, Tail(stack), c)
      BY <3>2, <3>3, <3>4, <3>5 DEF Carries, Fine, Present, Gone, Lone
    <3> QED
      BY <1>2, <1>4, <3>6
  <2> QED
    BY <2>3, <2>4
<1> QED
  BY <1>11, <1>12

(* The job that held the continuation has run and settled the promise. *)
LEMMA CarriesRun ==
  ASSUME NEW h, NEW s, NEW g, NEW c, On(s, c) = {}, Nowhere(g, c),
         c \in Made(g), ~ g.error => c \in g.resolved
  PROVE  Carries(h, s, g, s, c)
<1>1. Once(g, c)
  BY NowhereIsOnce
<1> QED
  BY <1>1 DEF Carries, Fine, Present, Gone, Lone

(* The continuation is put where it waits for another promise. *)
LEMMA CarriesPut ==
  ASSUME NEW h, NEW s, NEW g, NEW c, On(s, c) = {}, Once(g, c),
         c \notin g.resolved, ~ g.error => ~ Nowhere(g, c)
  PROVE  Carries(h, s, g, s, c)
BY DEF Carries, Fine, Present, Gone, Lone

(* A job is taken from the queue: the continuation it holds is nowhere     *)
(* else, and those it does not hold stay where they are.                   *)
LEMMA PolledCarries ==
  ASSUME Inv, NEW c \in Pair, Fine(heap, stack, c), NEW type, Poll(type),
         NEW r, r = Rest, NEW job, job = Polled
  PROVE  /\ HeapOK(r) /\ r \in Heap /\ SameNames(r, heap) /\ Made(r) = Made(heap)
         /\ job \in Job /\ JobOK(r, job) /\ job.type = type
         /\ Keeps(heap, r, c)
         /\ r.resolved = heap.resolved /\ r.error = heap.error /\ ~ r.error
         /\ type = "reaction" /\ Holds(job, c) =>
              Nowhere(r, c) /\ On(stack, c) = {} /\ c \notin r.resolved
         /\ ~ (type = "reaction" /\ Holds(job, c)) => Saves(heap, r, c)
<1>1. HeapOK(heap) /\ heap \in Heap /\ Single(heap)
  BY DEF Inv, TypeOK, HeapOK, SingleResolver
<1>2. ~ heap.error /\ job.type = type
  BY <1>1, PolledIsQueued DEF Poll, LoopRuns
<1>3. PICK n : PollsAt(n)
  BY <1>1, PolledIsQueued
<1>4. /\ n \in DOMAIN heap.queue /\ job = heap.queue[n]
      /\ r = [heap EXCEPT !.queue = RemoveAt(@, n)]
  BY <1>3 DEF PollsAt
<1>5. HeapOK(r) /\ SameNames(r, heap) /\ job \in Job /\ JobOK(r, job)
  BY <1>1, <1>4, PollOK
<1>6. /\ Keeps(heap, r, c)
      /\ n \in JobsOf(heap, c) /\ Once(heap, c) => Nowhere(r, c)
      /\ n \notin JobsOf(heap, c) => Saves(heap, r, c)
      /\ r.resolved = heap.resolved /\ r.error = heap.error
  BY <1>1, <1>4, PollKeeps
<1>7. n \in JobsOf(heap, c) <=> type = "reaction" /\ Holds(job, c)
  BY <1>2, <1>4 DEF JobsOf
<1>8. n \in JobsOf(heap, c) => On(stack, c) = {} /\ c \notin heap.resolved
  BY DEF Fine, Gone, Nowhere
<1>9. r \in Heap /\ Made(r) = Made(heap)
  BY <1>5, SameNamesSameSets DEF HeapOK
<1>10. Once(heap, c)
  BY DEF Fine
<1>11. type = "reaction" /\ Holds(job, c) =>
         Nowhere(r, c) /\ On(stack, c) = {} /\ c \notin r.resolved
  BY <1>6, <1>7, <1>8, <1>10
<1>12. ~ (type = "reaction" /\ Holds(job, c)) => Saves(heap, r, c)
  BY <1>6, <1>7
<1>13. r.resolved = heap.resolved /\ r.error = heap.error /\ ~ r.error
  BY <1>2, <1>6
<1> QED
  BY <1>2, <1>5, <1>6, <1>9, <1>11, <1>12, <1>13

LEMMA ReactionCarries ==
  ASSUME Inv, NEW c \in Pair, Fine(heap, stack, c),
         RunPassThrough \/ RunAdoption \/ RunHandler \/ RunResume
  PROVE  Carries(heap, stack, heap', stack', c)
<1>1. Poll("reaction") /\ stack \in Seq(Frame) /\ c # None
  BY DEF RunPassThrough, RunAdoption, RunHandler, RunResume, Inv, TypeOK, StackOK,
         Pair, None
<1>2. PICK r : r = Rest
  OBVIOUS
<1>3. PICK job : job = Polled
  OBVIOUS
<1>4. /\ HeapOK(r) /\ Made(r) = Made(heap)
      /\ job \in Job /\ JobOK(r, job) /\ job.type = "reaction"
      /\ Keeps(heap, r, c) /\ r.resolved = heap.resolved
      /\ Holds(job, c) => /\ Nowhere(r, c) /\ On(stack, c) = {}
                          /\ c \notin r.resolved
      /\ ~ Holds(job, c) => Saves(heap, r, c)
  BY <1>1, <1>2, <1>3, PolledCarries
<1>5. job \in ReactionJob
  BY <1>4 DEF Job, ThenableJob, Microtask
<1>6. /\ job.argument \in Pair
      /\ job.handler # "resume" => job.cap \in Made(r) /\ job.cap \in Pair
      /\ job.handler = "resume" => job.cap = None
      /\ job.handler \in {"resolving", "resume"} =>
           job.fn \in Made(r) /\ job.fn \in Pair
      /\ job.handler \in {"none", "user"} => job.fn = None
  BY <1>4, <1>5, CreatedIsPromise DEF ReactionJob, JobOK
<1>7. PICK f : f = heap'
  OBVIOUS
<1>8. CASE RunPassThrough
  <2> DEFINE k == job.cap
  <2>1. /\ job.handler = "none" /\ stack' = stack
        /\ f = PassOn(r, k, job.outcome, job.argument)
    BY <1>2, <1>3, <1>7, <1>8 DEF RunPassThrough
  <2>2. k \in Made(r) /\ (Holds(job, c) <=> c = k)
    BY <1>1, <1>6, <2>1 DEF Holds
  <2> HIDE DEF k
  <2>3. Keeps(r, f, c) /\ Saves(r, f, c) /\ Uses(r, f, k) /\ SameNames(f, r)
    BY <1>4, <1>6, <2>1, <2>2, PassOnKeeps, PassOnOK
  <2>4. Made(f) = Made(r)
    BY <2>3, SameNamesSameSets
  <2>5. CASE c = k
    <3>1. /\ On(stack, c) = {} /\ Nowhere(f, c) /\ c \in Made(f)
          /\ ~ f.error => c \in f.resolved
      BY <1>4, <2>2, <2>3, <2>4, <2>5 DEF Keeps, Uses
    <3> QED
      BY <1>7, <2>1, <3>1, CarriesRun
  <2>6. CASE c # k
    <3>1. Keeps(heap, f, c) /\ Saves(heap, f, c)
      BY <1>4, <2>2, <2>3, <2>6, KeepsTwice, SavesTwice
    <3>2. heap.resolved \subseteq f.resolved /\ (c \in f.resolved => c \in heap.resolved)
      BY <1>4, <2>3, <2>6 DEF Uses
    <3>3. Carries(heap, stack, f, stack, c)
      BY <1>4, <2>4, <3>1, <3>2, CarriesElsewhere
    <3> QED
      BY <1>7, <2>1, <3>3
  <2> QED
    BY <2>5, <2>6
<1>9. CASE RunAdoption
  <2> DEFINE k == job.cap
             l == job.fn
             x == [kind |-> "value", ref |-> k]
  <2>1. PICK g : g = PassOn(r, l, job.outcome, job.argument)
    OBVIOUS
  <2>2. /\ job.handler = "resolving" /\ stack' = stack
        /\ f = ResolveFunction(g, k, x)
    BY <1>2, <1>3, <1>7, <1>9, <2>1 DEF RunAdoption
  <2>3. k \in Made(r) /\ k \in Pair /\ l \in Made(r) /\ (Holds(job, c) <=> c \in {k, l})
    BY <1>6, <2>2 DEF Holds
  <2> HIDE DEF k, l
  <2>4. /\ Keeps(r, g, c) /\ Saves(r, g, c) /\ Uses(r, g, l) /\ SameNames(g, r)
        /\ HeapOK(g)
    BY <1>4, <1>6, <2>1, <2>3, PassOnKeeps, PassOnOK
  <2>5. Made(g) = Made(r)
    BY <2>4, SameNamesSameSets
  <2>6. ResolvesWith(g, x)
    BY <2>3 DEF ResolvesWith, Resolution
  <2> HIDE DEF x
  <2>7. Keeps(g, f, c) /\ Saves(g, f, c) /\ Uses(g, f, k) /\ SameNames(f, g)
    BY <2>2, <2>3, <2>4, <2>5, <2>6, ResolveKeeps, ResolveFunctionOK
  <2>8. Made(f) = Made(r)
    BY <2>5, <2>7, SameNamesSameSets
  <2>9. Keeps(r, f, c) /\ Saves(r, f, c)
    BY <2>4, <2>7, KeepsTwice, SavesTwice
  <2>10. CASE c \in {k, l}
    <3>1. /\ On(stack, c) = {} /\ Nowhere(f, c) /\ c \in Made(f)
      BY <1>4, <2>3, <2>8, <2>9, <2>10 DEF Keeps
    <3>2. ~ f.error => c \in f.resolved
      BY <2>4, <2>7, <2>10 DEF Uses, Saves
    <3> QED
      BY <1>7, <2>2, <3>1, <3>2, CarriesRun
  <2>11. CASE c \notin {k, l}
    <3>1. Keeps(heap, f, c) /\ Saves(heap, f, c)
      BY <1>4, <2>3, <2>9, <2>11, KeepsTwice, SavesTwice
    <3>2. heap.resolved \subseteq f.resolved /\ (c \in f.resolved => c \in heap.resolved)
      BY <1>4, <2>4, <2>7, <2>11 DEF Uses
    <3>3. Carries(heap, stack, f, stack, c)
      BY <1>4, <2>8, <3>1, <3>2, CarriesElsewhere
    <3> QED
      BY <1>7, <2>2, <3>3
  <2> QED
    BY <2>10, <2>11
<1>10. CASE RunHandler \/ RunResume
  <2>1. ASSUME NEW k, NEW a, stack' = <<a>> \o stack, f = r,
               k \in Pair, a \in Frame, a.pair = k, Holds(job, c) <=> c = k
        PROVE  Carries(heap, stack, heap', stack', c)
    <3>1. CASE c = k
      <4>1. Carries(heap, stack, r, <<a>> \o stack, c)
        BY <1>1, <1>4, <2>1, <3>1, CarriesCalled
      <4> QED
        BY <1>7, <2>1, <4>1
    <3>2. CASE c # k
      <4>1. Carries(heap, stack, r, <<a>> \o stack, c)
        BY <1>1, <1>4, <2>1, <3>2, CarriesPushed
      <4> QED
        BY <1>7, <2>1, <4>1
    <3> QED
      BY <3>1, <3>2
  <2>2. CASE RunHandler
    <3> DEFINE k == job.cap
               a == New("handler", k)
    <3>1. job.handler = "user" /\ f = r /\ stack' = <<a>> \o stack
      BY <1>2, <1>3, <1>7, <2>2 DEF RunHandler, Push
    <3>2. k \in Pair /\ (Holds(job, c) <=> c = k)
      BY <1>1, <1>6, <3>1 DEF Holds
    <3>3. a \in Frame /\ a.pair = k
      BY <3>2 DEF New, Frame, CodeKind
    <3> HIDE DEF k, a
    <3> QED
      BY <2>1, <3>1, <3>2, <3>3
  <2>3. CASE RunResume
    <3> DEFINE k == job.fn
               a == New("async", k)
    <3>1. job.handler = "resume" /\ f = r /\ stack' = <<a>> \o stack
      BY <1>2, <1>3, <1>7, <2>3 DEF RunResume, Push
    <3>2. k \in Pair /\ (Holds(job, c) <=> c = k)
      BY <1>1, <1>6, <3>1 DEF Holds
    <3>3. a \in Frame /\ a.pair = k
      BY <3>2 DEF New, Frame, CodeKind
    <3> HIDE DEF k, a
    <3> QED
      BY <2>1, <3>1, <3>2, <3>3
  <2> QED
    BY <1>10, <2>2, <2>3
<1> QED
  BY <1>8, <1>9, <1>10

LEMMA OtherJobCarries ==
  ASSUME Inv, StackShaped(stack, exposed),
         NEW c \in Pair \ exposed', Fine(heap, stack, c),
         RunAdopt \/ RunThen \/ RunMicrotask \/ LoopFails
  PROVE  Carries(heap, stack, heap', stack', c)
<1>1. /\ HeapOK(heap) /\ heap \in Heap /\ StackOK(stack, heap)
      /\ stack \in Seq(Frame) /\ c # None /\ c \in Pair
  BY DEF Inv, TypeOK, HeapOK, StackOK, Pair, None
<1>2. PICK r : r = Rest
  OBVIOUS
<1>3. PICK job : job = Polled
  OBVIOUS
<1>4. PICK f : f = heap'
  OBVIOUS
<1>5. ASSUME NEW type \in {"thenable", "microtask"}, Poll(type)
      PROVE  /\ HeapOK(r) /\ r \in Heap /\ Made(r) = Made(heap)
             /\ r.pairs = heap.pairs /\ r.promises = heap.promises
             /\ job \in Job /\ JobOK(r, job) /\ job.type = type
             /\ Keeps(heap, r, c) /\ Saves(heap, r, c)
             /\ r.resolved = heap.resolved
  <2>1. /\ HeapOK(r) /\ r \in Heap /\ SameNames(r, heap) /\ Made(r) = Made(heap)
        /\ job \in Job /\ JobOK(r, job) /\ job.type = type
        /\ Keeps(heap, r, c) /\ r.resolved = heap.resolved
        /\ ~ (type = "reaction" /\ Holds(job, c)) => Saves(heap, r, c)
    BY <1>1, <1>2, <1>3, <1>5, PolledCarries
  <2> QED
    BY <2>1 DEF SameNames
<1>6. CASE LoopFails
  <2>1. f = [heap EXCEPT !.error = TRUE] /\ stack' = stack
    BY <1>4, <1>6 DEF LoopFails
  <2>2. /\ f.error /\ Keeps(heap, f, c) /\ Made(heap) = Made(f)
        /\ f.resolved = heap.resolved
    BY <1>1, <2>1, ErrorElsewhere
  <2>3. Fine(f, stack, c)
    BY <2>2, FineStep
  <2> QED
    BY <1>4, <2>1, <2>2, <2>3 DEF Carries
<1>7. CASE RunMicrotask
  <2> DEFINE a == New("microtask", None)
  <2>1. Poll("microtask") /\ f = r /\ stack' = <<a>> \o stack
    BY <1>2, <1>4, <1>7 DEF RunMicrotask, Push
  <2>2. a \in Frame /\ a.pair # c
    BY <1>1 DEF New, Frame, CodeKind
  <2> HIDE DEF a
  <2>3. Carries(heap, stack, r, <<a>> \o stack, c)
    BY <1>1, <1>5, <2>1, <2>2, CarriesPushed
  <2> QED
    BY <1>4, <2>1, <2>3
<1>8. CASE RunThen
  <2> DEFINE a == New("then", f.pairs)
  <2>1. /\ Poll("thenable") /\ heap.pairs < MaxPairs
        /\ f = CreateResolvingFunctions(r, job.promise)
        /\ f.pairs # c /\ stack' = <<a>> \o stack
    BY <1>2, <1>3, <1>4, <1>8 DEF RunThen, Push
  <2>2. /\ HeapOK(r) /\ r \in Heap /\ Made(r) = Made(heap) /\ r.pairs = heap.pairs
        /\ job.promise \in Created(r)
        /\ Keeps(heap, r, c) /\ Saves(heap, r, c) /\ r.resolved = heap.resolved
    BY <1>5, <2>1 DEF JobOK
  <2>3. HeapOK(f) /\ f.pairs = r.pairs + 1 /\ SameContinuations(f, r)
    BY <2>1, <2>2, CreateResolvingFunctionsOK, CreateElsewhere
  <2>4. Made(f) = Made(r) \cup {f.pairs} /\ f.pairs \in Made(f)
    BY <2>2, <2>3, OnePairMore
  <2>5. Keeps(heap, f, c) /\ Saves(heap, f, c)
    <3>1. Keeps(r, f, c) /\ Saves(r, f, c)
      BY <2>3, ElsewhereKeeps DEF SameContinuations
    <3> QED
      BY <2>2, <3>1, KeepsTwice, SavesTwice
  <2>6. a \in Frame /\ a.pair # c
    BY <2>1, <2>3, <2>4, CreatedIsPromise DEF New, Frame, CodeKind
  <2> HIDE DEF a
  <2>7. /\ Made(heap) \subseteq Made(f) /\ (c \in Made(f) => c \in Made(heap))
        /\ f.resolved = heap.resolved
    BY <2>1, <2>2, <2>3, <2>4 DEF SameContinuations
  <2>8. Carries(heap, stack, f, <<a>> \o stack, c)
    BY <1>1, <2>5, <2>6, <2>7, CarriesPushed
  <2> QED
    BY <1>4, <2>1, <2>8
<1>9. CASE RunAdopt
  <2>1. PICK m : m = CreateResolvingFunctions(r, job.promise)
    OBVIOUS
  <2>2. PICK g : g = NewPromise(m)
    OBVIOUS
  <2> DEFINE reaction == Adopting(g.pairs, m.pairs)
  <2>3. /\ Poll("thenable") /\ job.thenable # None
        /\ heap.promises < MaxPromises /\ heap.pairs + 1 < MaxPairs
        /\ f = PerformPromiseThen(g, job.thenable, Adopting(g.pairs, heap.pairs + 1))
        /\ stack' = stack
    BY <1>2, <1>3, <1>4, <1>9, <2>1, <2>2 DEF RunAdopt
  <2>4. /\ HeapOK(r) /\ r \in Heap /\ Made(r) = Made(heap)
        /\ r.pairs = heap.pairs /\ r.promises = heap.promises
        /\ job.promise \in Created(r) /\ job.thenable \in Created(r)
        /\ Keeps(heap, r, c) /\ Saves(heap, r, c) /\ r.resolved = heap.resolved
    BY <1>5, <2>3 DEF JobOK
  <2>5. heap.pairs \in Nat /\ heap.promises \in Nat /\ MaxPairs \in Nat
    BY <1>1, BoundsAssumption DEF Heap
  <2>6. r.pairs < MaxPairs
    BY <2>3, <2>4, <2>5
  <2>7. /\ HeapOK(m) /\ m \in Heap /\ m.promises = r.promises
        /\ m.pairs = r.pairs + 1 /\ SameContinuations(m, r)
    <3>1. /\ HeapOK(m) /\ m.promises = r.promises /\ m.pairs = r.pairs + 1
      BY <2>1, <2>4, <2>6, CreateResolvingFunctionsOK
    <3>2. SameContinuations(m, r)
      BY <2>1, <2>4, CreateElsewhere
    <3> QED
      BY <3>1, <3>2 DEF HeapOK
  <2>8. Made(m) = Made(r) \cup {m.pairs} /\ m.pairs \notin Made(r)
    BY <2>4, <2>7, OnePairMore
  <2>9. m.promises < MaxPromises /\ m.pairs < MaxPairs
    BY <2>3, <2>4, <2>7
  <2>10. /\ HeapOK(g) /\ g.pairs = m.pairs + 1 /\ SameContinuations(g, m)
         /\ Created(m) \subseteq Created(g)
    BY <2>2, <2>7, <2>9, NewPromiseOK, NewPromiseGrows, CreateElsewhere
  <2>11. Made(g) = Made(m) \cup {g.pairs} /\ g.pairs \notin Made(m)
    BY <2>7, <2>10, OnePairMore
  <2>12. Created(m) = Created(r)
    BY <2>7 DEF Created
  <2>13. job.thenable \in Created(g)
    BY <2>4, <2>10, <2>12
  <2>14. f = PerformPromiseThen(g, job.thenable, reaction)
    BY <2>3, <2>4, <2>7
  <2>15. reaction \in Reaction /\ ReactionOK(g, reaction)
    <3>1. /\ g.pairs \in Pair /\ g.pairs # None /\ g.pairs \in Made(g)
          /\ m.pairs \in Made(g) /\ m.pairs \in Pair /\ m.pairs # None
      BY <2>8, <2>10, <2>11, CreatedIsPromise DEF Pair, None
    <3> QED
      BY <3>1 DEF Adopting, Reaction, Handler, ReactionOK
  <2>16. Holds(reaction, c) <=> c \in {g.pairs, m.pairs}
    BY DEF Holds, Adopting
  <2> HIDE DEF reaction
  <2>17. /\ ~ Holds(reaction, c) => Keeps(g, f, c) /\ Saves(g, f, c)
         /\ Nowhere(g, c) => Once(f, c)
         /\ Holds(reaction, c) /\ ~ f.error => ~ Nowhere(f, c)
         /\ f.resolved = g.resolved
    BY <2>10, <2>13, <2>14, <2>15, ThenKeeps
  <2>18. Made(f) = Made(g)
    BY <2>10, <2>13, <2>14, <2>15, PerformPromiseThenOK, SameNamesSameSets
  <2>19. Keeps(heap, g, c) /\ Saves(heap, g, c)
    <3>1. Keeps(r, m, c) /\ Saves(r, m, c)
      BY <2>7, ElsewhereKeeps DEF SameContinuations
    <3>2. Keeps(m, g, c) /\ Saves(m, g, c)
      BY <2>10, ElsewhereKeeps DEF SameContinuations
    <3>3. Keeps(heap, m, c) /\ Saves(heap, m, c)
      BY <2>4, <3>1, KeepsTwice, SavesTwice
    <3> QED
      BY <3>2, <3>3, KeepsTwice, SavesTwice
  <2>20. f.resolved = heap.resolved
    BY <2>4, <2>7, <2>10, <2>17 DEF SameContinuations
  <2>21. CASE c \in {g.pairs, m.pairs}
    <3>1. c \notin Made(heap)
      BY <2>4, <2>8, <2>11, <2>21
    <3>2. Gone(heap, stack, c)
      BY <1>1, <3>1, UnmadeIsGone
    <3>3. On(stack, c) = {} /\ Once(f, c) /\ c \notin f.resolved
      BY <2>17, <2>19, <2>20, <3>1, <3>2 DEF Gone, Keeps, Fine
    <3>4. ~ f.error => ~ Nowhere(f, c)
      BY <2>16, <2>17, <2>21
    <3> QED
      BY <1>4, <2>3, <3>3, <3>4, CarriesPut
  <2>22. CASE c \notin {g.pairs, m.pairs}
    <3>1. Keeps(heap, f, c) /\ Saves(heap, f, c)
      BY <2>16, <2>17, <2>19, <2>22, KeepsTwice, SavesTwice
    <3>2. Made(heap) \subseteq Made(f) /\ (c \in Made(f) => c \in Made(heap))
      BY <2>4, <2>8, <2>11, <2>18, <2>22
    <3>3. Carries(heap, stack, f, stack, c)
      BY <2>20, <3>1, <3>2, CarriesElsewhere
    <3> QED
      BY <1>4, <2>3, <3>3
  <2> QED
    BY <2>21, <2>22
<1> QED
  BY <1>6, <1>7, <1>8, <1>9

(* The functions of the program that are known to it only get more. *)
LEMMA ExposedGrows ==
  ASSUME [Next]_vars
  PROVE  exposed \subseteq exposed'
<1>1. CASE Embedder
  BY <1>1 DEF Embedder, EnterBoundary, NodeCall, RunMicrotasks
<1>2. CASE Program
  BY <1>2 DEF Program, CreatePromise, CallAsync, EnqueueMicrotask, CallResolve,
              CallReject, CallThen
<1>3. CASE Leaves
  BY <1>3 DEF Leaves, ExitOutermost, ExitNested, ReturnResult, Throw, Return,
              MicrotaskThrows, Unwind, Await
<1>4. CASE Loop
  BY <1>4 DEF Loop, LoopEnds, LoopFails, RunPassThrough, RunAdoption, RunHandler,
              RunResume, RunAdopt, RunThen, RunMicrotask
<1>5. CASE UNCHANGED vars
  BY <1>5 DEF vars
<1> QED
  BY <1>1, <1>2, <1>3, <1>4, <1>5 DEF Next

LEMMA ShapeKept ==
  ASSUME Inv, Inv', CalledByLoop(stack), StackShaped(stack, exposed), [Next]_vars
  PROVE  StackShaped(stack', exposed')
<1>1. stack \in Seq(Frame) /\ stack' \in Seq(Frame)
  BY DEF Inv, TypeOK, StackOK
<1>2. PICK e : e = exposed'
  OBVIOUS
<1>3. StackShaped(stack, e)
  BY <1>2, ExposedGrows, ShapedStays
<1>4. CASE Stays
  BY <1>2, <1>3, <1>4 DEF Stays
<1>5. CASE Pops
  BY <1>1, <1>2, <1>3, <1>5, PopShaped DEF Pops
<1>6. CASE PopsTwo
  <2> DEFINE t == Tail(stack)
  <2>1. stack # <<>> /\ Head(stack).kind = "microtask"
    BY <1>6 DEF PopsTwo
  <2>2. /\ t # <<>> /\ t \in Seq(Frame) /\ StackShaped(t, e)
    BY <1>1, <1>3, <2>1, PopCalled, PopShaped, HeadTailProperties
  <2>3. stack' = Tail(t)
    BY <1>1, <1>6, <2>1, <2>2, PopTwo DEF PopsTwo
  <2> HIDE DEF t
  <2> QED
    BY <1>2, <2>2, <2>3, PopShaped
<1>7. ASSUME NEW f, Pushes(f)
      PROVE  StackShaped(stack', exposed')
  <2>1. stack' = <<f>> \o stack /\ FrameShaped(f, e)
    BY <1>2, <1>7 DEF Pushes
  <2>2. f \in Frame
    BY <1>1, <2>1, PushedIsFrame
  <2>3. StackShaped(<<f>> \o stack, e)
    BY <1>1, <1>3, <2>1, <2>2, PushShaped
  <2> QED
    BY <1>2, <2>1, <2>3
<1>8. ASSUME NEW f, Replaces(f)
      PROVE  StackShaped(stack', exposed')
  <2> DEFINE t == Tail(stack)
  <2>1. /\ stack # <<>> /\ stack' = <<f>> \o t
        /\ f.kind \in LoopKind /\ f.pair = None
    BY <1>8 DEF Replaces
  <2>2. t \in Seq(Frame) /\ StackShaped(t, e)
    BY <1>1, <1>3, <2>1, PopShaped, HeadTailProperties
  <2> HIDE DEF t
  <2>3. f \in Frame /\ FrameShaped(f, e)
    BY <1>1, <2>1, <2>2, PushedIsFrame DEF FrameShaped, LoopKind
  <2>4. StackShaped(<<f>> \o t, e)
    BY <2>2, <2>3, PushShaped
  <2> QED
    BY <1>2, <2>1, <2>4
<1> QED
  BY <1>4, <1>5, <1>6, <1>7, <1>8, EachStepMovesStack DEF MovesStack

(* Every continuation is carried on by every step. *)
LEMMA StepCarries ==
  ASSUME Inv, StackShaped(stack, exposed), CalledByLoop(stack), [Next]_vars,
         NEW c \in Pair \ exposed', Fine(heap, stack, c)
  PROVE  Carries(heap, stack, heap', stack', c)
<1>1. c \in Pair \ exposed /\ c \in Pair
  BY ExposedGrows
<1>2. CASE Embedder
  BY <1>1, <1>2, EmbedderCarries
<1>3. CASE Program
  BY <1>3, ProgramCarries
<1>4. CASE Leaves
  BY <1>1, <1>4, ReturnCarries, ResultCarries, AwaitCarries DEF Leaves
<1>5. CASE Loop
  BY <1>1, <1>5, ReturnCarries, ReactionCarries, OtherJobCarries DEF Loop
<1>6. CASE UNCHANGED vars
  <2>1. heap' = heap /\ stack' = stack
    BY <1>6 DEF vars
  <2> QED
    BY <2>1 DEF Carries
<1> QED
  BY <1>2, <1>3, <1>4, <1>5, <1>6 DEF Next

(* A continuation that is not the program's is in one place or in none. *)
Continuations == /\ StackShaped(stack, exposed)
                 /\ \A c \in Pair \ exposed : Fine(heap, stack, c)

LEMMA ContinuationsAlways == Spec => []Continuations
<1>1. Init => Continuations
  <2> SUFFICES ASSUME Init PROVE Continuations
    OBVIOUS
  <2>1. heap = EmptyHeap /\ stack = <<>> /\ DOMAIN stack = {}
    BY DEF Init
  <2>2. /\ heap.queue = <<>> /\ DOMAIN heap.queue = {} /\ heap.resolved = {}
        /\ \A p \in Promise : heap.reactions[p] = <<>>
    BY <2>1 DEF EmptyHeap
  <2>3. \A c : Fine(heap, stack, c)
    BY <2>1, <2>2 DEF Fine, Once, JobsOf, ReactionsOf, Nowhere, On, Lone
  <2> QED
    BY <2>1, <2>3 DEF Continuations, StackShaped
<1>2. Inv /\ Inv' /\ Balanced /\ Continuations /\ [Next]_vars => Continuations'
  <2> SUFFICES ASSUME Inv, Inv', Balanced, Continuations, [Next]_vars
               PROVE  Continuations'
    OBVIOUS
  <2>1. CalledByLoop(stack) /\ StackShaped(stack, exposed)
    BY DEF Balanced, Continuations
  <2>2. StackShaped(stack', exposed')
    BY <2>1, ShapeKept
  <2>3. ASSUME NEW c \in Pair \ exposed'
        PROVE  Fine(heap', stack', c)
    <3>1. Fine(heap, stack, c)
      BY ExposedGrows DEF Continuations
    <3>2. Carries(heap, stack, heap', stack', c)
      BY <2>1, <3>1, StepCarries
    <3> QED
      BY <3>2 DEF Carries
  <2> QED
    BY <2>2, <2>3 DEF Continuations
<1> QED
  BY <1>1, <1>2, InvAlways, BalancedAlways, PTL DEF Spec

LEMMA AtMostOneElement ==
  ASSUME NEW S, \A x, y \in S : x = y
  PROVE  /\ Cardinality(S) \in {0, 1}
         /\ S = {} <=> Cardinality(S) = 0
<1>1. CASE S = {}
  BY <1>1, FS_EmptySet
<1>2. CASE S # {}
  <2>1. PICK x : S = {x}
    BY <1>2
  <2> QED
    <3>1. Cardinality(S) = 1
      BY <2>1, FS_Singleton
    <3> QED
      BY <1>2, <3>1
<1> QED
  BY <1>1, <1>2

(* The holders, counted. *)
LEMMA HoldersCounted ==
  ASSUME NEW k, Fine(heap, stack, k)
  PROVE  /\ Cardinality(Holders(k)) \in {0, 1}
         /\ Cardinality(Holders(k)) = 0 <=> Gone(heap, stack, k)
<1>1. /\ Queued(k) = JobsOf(heap, k) /\ Active(k) = On(stack, k)
      /\ \A p : Waiting(p, k) = ReactionsOf(heap, p, k)
  BY DEF Queued, JobsOf, Active, On, Waiting, ReactionsOf
<1>2. ASSUME NEW x \in Holders(k), NEW y \in Holders(k)
      PROVE  x = y
  <2>1. ASSUME NEW z \in Holders(k)
        PROVE  \/ \E i \in JobsOf(heap, k) : z = <<"queue", None, i>>
               \/ \E i \in On(stack, k) : z = <<"stack", None, i>>
               \/ \E p \in Promise : \E i \in ReactionsOf(heap, p, k) :
                    z = <<"promise", p, i>>
    BY <1>1 DEF Holders
  <2>2. /\ \A i, j \in JobsOf(heap, k) : i = j
        /\ \A p, q \in Promise :
             \A i \in ReactionsOf(heap, p, k), j \in ReactionsOf(heap, q, k) :
               p = q /\ i = j
        /\ \A p \in Promise :
             JobsOf(heap, k) = {} \/ ReactionsOf(heap, p, k) = {}
        /\ \A i, j \in On(stack, k) : i = j
        /\ \/ On(stack, k) = {}
           \/ /\ JobsOf(heap, k) = {}
              /\ \A p \in Promise : ReactionsOf(heap, p, k) = {}
    BY DEF Fine, Once, Nowhere, Lone
  <2> QED
    BY <2>1, <2>2
<1>3. Holders(k) = {} <=> Gone(heap, stack, k)
  <2>1. Gone(heap, stack, k) => Holders(k) = {}
    BY <1>1 DEF Holders, Gone, Nowhere
  <2>2. ASSUME Holders(k) = {}
        PROVE  Gone(heap, stack, k)
    <3>1. /\ \A i \in Queued(k) : <<"queue", None, i>> \in Holders(k)
          /\ \A i \in Active(k) : <<"stack", None, i>> \in Holders(k)
          /\ \A p \in Promise : \A i \in Waiting(p, k) :
               <<"promise", p, i>> \in Holders(k)
      BY DEF Holders
    <3>2. JobsOf(heap, k) = {} /\ On(stack, k) = {}
      BY <1>1, <2>2, <3>1
    <3>3. \A p \in Promise : ReactionsOf(heap, p, k) = {}
      BY <1>1, <2>2, <3>1
    <3> QED
      BY <3>2, <3>3 DEF Gone, Nowhere
  <2> QED
    BY <2>1, <2>2
<1> QED
  BY <1>2, <1>3, AtMostOneElement

(* In every state, whatever the recorder and the host do, the continuation *)
(* of a promise that the program cannot settle is held at most once, and   *)
(* no longer once it has settled the promise: no job runs twice.           *)
THEOREM NoContinuationRunsTwice == Spec => []NeverTwice
<1>1. Inv /\ Continuations => NeverTwice
  <2> SUFFICES ASSUME Inv, Continuations, NEW k \in 1..heap.pairs, k \notin exposed
               PROVE  Cardinality(Holders(k)) <= IF k \in heap.resolved THEN 0 ELSE 1
    BY DEF NeverTwice
  <2>1. k \in Made(heap) /\ Made(heap) \subseteq Pair
    BY CreatedIsPromise DEF Inv, TypeOK, Made
  <2>2. Fine(heap, stack, k)
    BY <2>1 DEF Continuations
  <2>3. /\ Cardinality(Holders(k)) \in {0, 1}
        /\ Cardinality(Holders(k)) = 0 <=> Gone(heap, stack, k)
    BY <2>2, HoldersCounted
  <2>4. k \in heap.resolved => Gone(heap, stack, k)
    BY <2>2 DEF Fine
  <2> QED
    BY <2>3, <2>4
<1> QED
  BY <1>1, InvAlways, ContinuationsAlways, PTL

(* Without the recorder there is no error, and no loop that an error left  *)
(* a call with.                                                            *)
NoFinally(s) == \A i \in DOMAIN s : s[i].kind # "finally"

Quiet == Calm(heap) /\ NoFinally(stack)

LEMMA QuietAlways ==
  ASSUME NoRecorder
  PROVE  Spec => []Quiet
<1>1. Init => Quiet
  <2> SUFFICES ASSUME Init PROVE Quiet
    OBVIOUS
  <2>1. stack = <<>> /\ heap = EmptyHeap /\ DOMAIN stack = {}
    BY DEF Init
  <2>2. ~ heap.error /\ DOMAIN heap.queue = {}
    BY <2>1 DEF EmptyHeap
  <2> QED
    BY <2>1, <2>2 DEF Quiet, Calm, NoFinally
<1>2. Inv /\ Inv' /\ Balanced /\ Quiet /\ [Next]_vars => Quiet'
  <2> SUFFICES ASSUME Inv, Inv', Balanced, Quiet, [Next]_vars
               PROVE  Quiet'
    OBVIOUS
  <2>1. /\ stack \in Seq(Frame) /\ stack' \in Seq(Frame) /\ CalledByLoop(stack)
        /\ Calm(heap) /\ NoFinally(stack) /\ ~ heap.error
    BY DEF Inv, TypeOK, StackOK, Balanced, Quiet, Calm
  <2>2. Calm(heap')
    <3>1. CASE Embedder
      BY <2>1, <3>1 DEF Embedder, EnterBoundary, NodeCall, RunMicrotasks
    <3>2. CASE Program \/ Leaves
      BY <2>1, <3>2, CodeCalm
    <3>3. CASE Loop
      <4>1. ~ Top({"finally"})
        BY <2>1, PopMembers DEF Top, NoFinally
      <4> QED
        BY <2>1, <3>3, <4>1, LoopCalm
    <3>4. CASE UNCHANGED vars
      BY <2>1, <3>4 DEF vars
    <3> QED
      BY <3>1, <3>2, <3>3, <3>4 DEF Next
  <2>3. NoFinally(stack')
    <3>1. CASE Stays
      BY <2>1, <3>1 DEF Stays
    <3>2. CASE Pops
      BY <2>1, <3>2, PopMembers DEF Pops, NoFinally
    <3>3. CASE PopsTwo
      <4> DEFINE t == Tail(stack)
      <4>1. stack # <<>> /\ Head(stack).kind = "microtask"
        BY <3>3 DEF PopsTwo
      <4>2. t # <<>> /\ t \in Seq(Frame) /\ NoFinally(t)
        BY <2>1, <4>1, PopCalled, PopMembers, HeadTailProperties DEF NoFinally
      <4>3. stack' = Tail(t)
        BY <2>1, <3>3, <4>1, <4>2, PopTwo DEF PopsTwo
      <4> HIDE DEF t
      <4> QED
        BY <4>2, <4>3, PopMembers DEF NoFinally
    <3>4. ASSUME NEW f, Pushes(f)
          PROVE  NoFinally(stack')
      <4>1. stack' = <<f>> \o stack /\ f.kind # "finally"
        BY <3>4 DEF Pushes
      <4>2. f \in Frame
        BY <2>1, <4>1, PushedIsFrame
      <4> QED
        BY <2>1, <4>1, <4>2, PushMembers DEF NoFinally
    <3>5. ASSUME NEW f, Replaces(f)
          PROVE  NoFinally(stack')
      <4> DEFINE t == Tail(stack)
      <4>1. stack # <<>> /\ stack' = <<f>> \o t /\ f.kind # "finally"
        BY <2>1, <3>5 DEF Replaces
      <4>2. t \in Seq(Frame) /\ NoFinally(t)
        BY <2>1, <4>1, PopMembers, HeadTailProperties DEF NoFinally
      <4> HIDE DEF t
      <4>3. f \in Frame
        BY <2>1, <4>1, <4>2, PushedIsFrame
      <4> QED
        BY <4>1, <4>2, <4>3, PushMembers DEF NoFinally
    <3> QED
      BY <3>1, <3>2, <3>3, <3>4, <3>5, EachStepMovesStack DEF MovesStack
  <2> QED
    BY <2>2, <2>3 DEF Quiet
<1> QED
  BY <1>1, <1>2, InvAlways, BalancedAlways, PTL DEF Spec

(* Nor is a continuation lost then, whatever the program and its embedder  *)
(* do, Node included: until it has settled its promise, it is held by one  *)
(* reaction, job or activation.                                            *)
THEOREM NoContinuationIsLost == NoRecorder => (Spec => []OneHolder)
<1> SUFFICES ASSUME NoRecorder
             PROVE  Spec => []OneHolder
  OBVIOUS
<1> DEFINE Held == \A c \in Pair \ exposed : Present(heap, stack, c)
<1>1. Init => Held
  BY DEF Init, EmptyHeap, Present, Made
<1>2. Inv /\ Balanced /\ Continuations /\ Quiet /\ Quiet' /\ Held /\ [Next]_vars
        => Held'
  <2> SUFFICES ASSUME Inv, Balanced, Continuations, Quiet, Quiet', Held, [Next]_vars,
                      NEW c \in Pair \ exposed'
               PROVE  Present(heap', stack', c)
    OBVIOUS
  <2>1. c \in Pair \ exposed
    BY ExposedGrows
  <2>2. /\ Fine(heap, stack, c) /\ StackShaped(stack, exposed) /\ CalledByLoop(stack)
        /\ ~ heap.error /\ ~ heap'.error /\ Present(heap, stack, c)
    BY <2>1 DEF Continuations, Balanced, Quiet, Calm
  <2>3. Carries(heap, stack, heap', stack', c)
    BY <2>2, StepCarries
  <2> QED
    BY <2>2, <2>3 DEF Carries
<1>3. Inv /\ Continuations /\ Held => OneHolder
  <2> SUFFICES ASSUME Inv, Continuations, Held, NEW k \in 1..heap.pairs,
                      k \notin exposed
               PROVE  Cardinality(Holders(k)) = IF k \in heap.resolved THEN 0 ELSE 1
    BY DEF OneHolder
  <2>1. k \in Made(heap) /\ k \in Pair \ exposed
    BY CreatedIsPromise DEF Inv, TypeOK, Made
  <2>2. Fine(heap, stack, k) /\ Present(heap, stack, k)
    BY <2>1 DEF Continuations
  <2>3. /\ Cardinality(Holders(k)) \in {0, 1}
        /\ Cardinality(Holders(k)) = 0 <=> Gone(heap, stack, k)
    BY <2>2, HoldersCounted
  <2>4. k \in heap.resolved <=> Gone(heap, stack, k)
    BY <2>1, <2>2 DEF Fine, Present
  <2> QED
    BY <2>3, <2>4
<1> QED
  BY <1>1, <1>2, <1>3, InvAlways, BalancedAlways, ContinuationsAlways, QuietAlways,
     PTL DEF Spec

-----------------------------------------------------------------------------
(* The detailed specification implements PromiseFates.  What the program   *)
(* holds and what continuations use are kept apart: a pair whose functions *)
(* the program has is the capability of no reaction, job, handler or async *)
(* function.                                                               *)
Private(s, e) == \A i \in DOMAIN s :
                   s[i].kind \in {"handler", "async"} => s[i].pair \notin e

Apart(h, s, e) == Private(s, e) /\ \A k \in e : Nowhere(h, k)

LEMMA PushPrivate ==
  ASSUME NEW e, NEW s \in Seq(Frame), Private(s, e), NEW f \in Frame,
         f.kind \in {"handler", "async"} => f.pair \notin e
  PROVE  Private(<<f>> \o s, e)
BY PushMembers DEF Private

LEMMA PopPrivate ==
  ASSUME NEW e, NEW s \in Seq(Frame), Private(s, e), s # <<>>
  PROVE  /\ Private(Tail(s), e)
         /\ Head(s).kind \in {"handler", "async"} => Head(s).pair \notin e
BY PopMembers DEF Private

(* What the program gets to hold is new. *)
LEMMA ExposedAreNew ==
  ASSUME Inv, [Next]_vars, NEW k \in exposed'
  PROVE  k \in exposed \/ k \notin Made(heap)
<1>1. HeapOK(heap) /\ heap \in Heap
  BY DEF Inv, TypeOK, HeapOK
<1>2. exposed' = exposed \/ CreatePromise \/ RunThen
  BY DEF Next, Embedder, EnterBoundary, NodeCall, RunMicrotasks,
         Program, CallAsync, EnqueueMicrotask, CallResolve, CallReject, CallThen,
         Leaves, ExitOutermost, ExitNested, ReturnResult, Throw, Return,
         MicrotaskThrows, Unwind, Await,
         Loop, LoopEnds, LoopFails, RunPassThrough, RunAdoption, RunHandler,
         RunResume, RunAdopt, RunMicrotask, Poll, vars
<1>3. CASE CreatePromise
  <2>1. exposed' = exposed \cup {heap'.pairs} /\ heap' = NewPromise(heap)
    BY <1>3 DEF CreatePromise
  <2>2. NewPromise(heap).pairs = heap.pairs + 1
    BY <1>1 DEF NewPromise, CreateResolvingFunctions, Heap
  <2>3. heap'.pairs \notin Made(heap)
    BY <1>1, <2>1, <2>2, OnePairMore
  <2> QED
    BY <2>1, <2>3
<1>4. CASE RunThen
  <2>1. /\ exposed' = exposed \cup {heap'.pairs} /\ Poll("thenable")
        /\ heap' = CreateResolvingFunctions(Rest, Polled.promise)
    BY <1>4 DEF RunThen
  <2>2. PICK n : PollsAt(n)
    BY <1>1, <2>1, PolledIsQueued
  <2>3. Rest \in Heap /\ Rest.pairs = heap.pairs
    BY <1>1, <2>2, PollOK DEF PollsAt, SameNames, HeapOK
  <2>4. CreateResolvingFunctions(Rest, Polled.promise).pairs = heap.pairs + 1
    BY <2>3 DEF CreateResolvingFunctions, Heap
  <2>5. heap'.pairs \notin Made(heap)
    BY <1>1, <2>1, <2>4, OnePairMore
  <2> QED
    BY <2>1, <2>5
<1> QED
  BY <1>2, <1>3, <1>4

(* A new pair is nowhere. *)
LEMMA NewIsNowhere ==
  ASSUME Inv, StackShaped(stack, exposed), Apart(heap, stack, exposed),
         [Next]_vars, NEW c \in exposed', c \in Pair
  PROVE  Nowhere(heap, c)
<1>1. HeapOK(heap) /\ StackOK(stack, heap)
  BY DEF Inv, TypeOK
<1>2. CASE c \in exposed
  BY <1>2 DEF Apart
<1>3. CASE c \notin Made(heap)
  BY <1>1, <1>3, UnmadeIsGone DEF Gone
<1> QED
  BY <1>2, <1>3, ExposedAreNew

LEMMA PrivateStays ==
  ASSUME Inv, Apart(heap, stack, exposed), [Next]_vars, NEW e, e = exposed'
  PROVE  Private(stack, e)
<1>1. StackOK(stack, heap) /\ Private(stack, exposed)
  BY DEF Inv, TypeOK, Apart
<1> QED
  BY <1>1, ExposedAreNew DEF Private, StackOK

LEMMA PrivateKept ==
  ASSUME Inv, Inv', Apart(heap, stack, exposed), CalledByLoop(stack),
         StackShaped(stack, exposed), [Next]_vars
  PROVE  Private(stack', exposed')
<1>1. /\ HeapOK(heap) /\ heap \in Heap /\ stack \in Seq(Frame) /\ stack' \in Seq(Frame)
      /\ exposed \subseteq Made(heap) /\ exposed' \subseteq Made(heap')
  BY DEF Inv, TypeOK, HeapOK, StackOK
<1>2. PICK e : e = exposed'
  OBVIOUS
<1>3. Private(stack, e)
  BY <1>2, PrivateStays
<1>4. ASSUME NEW f, stack' = <<f>> \o stack,
             f.kind \in {"handler", "async"} => f.pair \notin e
      PROVE  Private(stack', e)
  <2>1. f \in Frame
    BY <1>1, <1>4, PushedIsFrame
  <2>2. Private(<<f>> \o stack, e)
    BY <1>1, <1>3, <1>4, <2>1, PushPrivate
  <2> QED
    BY <1>4, <2>2
<1>5. ASSUME stack # <<>>, stack' = Tail(stack)
      PROVE  Private(stack', e)
  BY <1>1, <1>3, <1>5, PopPrivate
<1>6. CASE Embedder
  <2>1. PICK kind \in {"boundary", "call", "microtasks"} :
          stack' = <<New(kind, None)>> \o stack
    BY <1>6 DEF Embedder, EnterBoundary, NodeCall, RunMicrotasks, Push
  <2>2. New(kind, None).kind \notin {"handler", "async"}
    BY DEF New
  <2> QED
    BY <1>2, <1>4, <2>1, <2>2
<1>7. CASE Program
  <2>1. stack' = stack \/ CallAsync
    BY <1>7 DEF Program, CreatePromise, EnqueueMicrotask, CallResolve, CallReject, CallThen
  <2>2. CASE CallAsync
    <3>1. /\ stack' = <<New("async", heap'.pairs)>> \o stack
          /\ heap' = NewPromise(heap) /\ e = exposed
      BY <1>2, <2>2 DEF CallAsync, Push
    <3>2. NewPromise(heap).pairs = heap.pairs + 1
      BY <1>1 DEF NewPromise, CreateResolvingFunctions, Heap
    <3>3. heap'.pairs \notin Made(heap)
      BY <1>1, <3>1, <3>2, OnePairMore
    <3>4. New("async", heap'.pairs).pair \notin e
      BY <1>1, <3>1, <3>3 DEF New
    <3> QED
      BY <1>2, <1>4, <3>1, <3>4
  <2> QED
    BY <1>2, <1>3, <2>1, <2>2
<1>8. CASE Leaves
  <2>1. \/ stack # <<>> /\ stack' = Tail(stack)
        \/ ExitOutermost \/ MicrotaskThrows
    BY <1>8 DEF Leaves, ExitNested, ReturnResult, Throw, Return, Unwind, Await, Top
  <2>2. CASE ExitOutermost
    <3>1. PICK kind \in {"finally", "loop"} :
            stack # <<>> /\ stack' = <<New(kind, None)>> \o Tail(stack)
      BY <2>2 DEF ExitOutermost, Replace, Top
    <3> DEFINE f == New(kind, None)
               t == Tail(stack)
    <3>2. f.kind \notin {"handler", "async"}
      BY DEF New
    <3>3. t \in Seq(Frame) /\ Private(t, e)
      BY <1>1, <1>3, <3>1, PopPrivate, HeadTailProperties
    <3>4. stack' = <<f>> \o t
      BY <3>1
    <3> HIDE DEF f, t
    <3>5. f \in Frame
      BY <1>1, <3>3, <3>4, PushedIsFrame
    <3>6. Private(<<f>> \o t, e)
      BY <3>2, <3>3, <3>5, PushPrivate
    <3> QED
      BY <1>2, <3>4, <3>6
  <2>3. CASE MicrotaskThrows
    <3> DEFINE t == Tail(stack)
    <3>1. /\ stack # <<>> /\ Head(stack).kind = "microtask"
          /\ stack' = SubSeq(stack, 3, Len(stack))
      BY <2>3 DEF MicrotaskThrows, Top
    <3>2. t # <<>> /\ t \in Seq(Frame) /\ Private(t, e)
      BY <1>1, <1>3, <3>1, PopCalled, PopPrivate, HeadTailProperties
    <3>3. stack' = Tail(t)
      BY <1>1, <3>1, <3>2, PopTwo
    <3> HIDE DEF t
    <3> QED
      BY <1>2, <3>2, <3>3, PopPrivate
  <2> QED
    BY <1>2, <1>5, <2>1, <2>2, <2>3
<1>9. CASE Loop
  <2>1. \/ stack' = stack
        \/ stack # <<>> /\ stack' = Tail(stack)
        \/ RunHandler \/ RunResume
        \/ \E kind \in {"then", "microtask"} : \E k : stack' = <<New(kind, k)>> \o stack
    BY <1>9 DEF Loop, LoopEnds, LoopRuns, Top, LoopFails, RunPassThrough, RunAdoption,
                RunAdopt, RunThen, RunMicrotask, Push
  <2>2. CASE RunHandler \/ RunResume
    <3>1. Poll("reaction") /\ e = exposed
      BY <1>2, <2>2 DEF RunHandler, RunResume
    <3>2. PICK n : PollsAt(n)
      BY <1>1, <3>1, PolledIsQueued
    <3>3. PICK k : /\ k \in {Polled.cap, Polled.fn}
                   /\ \E kind : stack' = <<New(kind, k)>> \o stack
      BY <2>2 DEF RunHandler, RunResume, Push
    <3>4. PICK kind : stack' = <<New(kind, k)>> \o stack
      BY <3>3
    <3>5. n \in JobsOf(heap, k)
      BY <1>1, <3>1, <3>2, <3>3, PolledIsQueued DEF PollsAt, JobsOf, Holds
    <3>6. k \notin e
      BY <3>1, <3>5 DEF Apart, Nowhere
    <3>7. New(kind, k).pair \notin e
      BY <3>6 DEF New
    <3> QED
      BY <1>2, <1>4, <3>4, <3>7
  <2>3. ASSUME NEW kind \in {"then", "microtask"}, NEW k,
               stack' = <<New(kind, k)>> \o stack
        PROVE  Private(stack', e)
    <3>1. New(kind, k).kind \notin {"handler", "async"}
      BY DEF New
    <3> QED
      BY <1>4, <2>3, <3>1
  <2> QED
    BY <1>2, <1>3, <1>5, <2>1, <2>2, <2>3
<1>10. CASE UNCHANGED vars
  BY <1>2, <1>3, <1>10 DEF vars
<1> QED
  BY <1>6, <1>7, <1>8, <1>9, <1>10 DEF Next

(* What a step does to a continuation that is nowhere, by kind of step:    *)
(* the functions of the program ...                                        *)
LEMMA ProgramLeavesNowhere ==
  ASSUME Inv, NEW c \in exposed', Nowhere(heap, c), Program
  PROVE  Nowhere(heap', c)
<1>1. /\ TypeOK /\ HeapOK(heap) /\ heap \in Heap
      /\ visible \subseteq Created(heap) /\ exposed \subseteq Made(heap)
  BY DEF Inv, TypeOK, HeapOK
<1>2. ASSUME Room(1, 1)
      PROVE  heap.promises < MaxPromises /\ heap.pairs < MaxPairs
  <2>1. heap.promises + 1 <= MaxPromises /\ heap.pairs + 1 <= MaxPairs
    BY <1>1, <1>2, RoomOK
  <2>2. heap.promises \in Nat /\ heap.pairs \in Nat
    BY <1>1 DEF HeapOK, Heap
  <2> QED
    BY <2>1, <2>2, BoundsAssumption
<1>3. PICK g : g = heap'
  OBVIOUS
<1>4. CASE CreatePromise \/ CallAsync
  <2>1. g = NewPromise(heap)
    BY <1>3, <1>4 DEF CreatePromise, CallAsync
  <2>2. SameContinuations(g, heap)
    BY <1>1, <2>1, CreateElsewhere
  <2> QED
    BY <1>3, <2>2, ElsewhereKeeps DEF SameContinuations, Keeps
<1>5. CASE EnqueueMicrotask
  <2> DEFINE job == [type |-> "microtask"]
  <2>1. ~ heap.error /\ g = Enqueue(heap, <<job>>)
    BY <1>3, <1>5 DEF EnqueueMicrotask, CodeRuns
  <2>2. job \in Job /\ job.type # "reaction"
    BY DEF Job, Microtask
  <2> HIDE DEF job
  <2> QED
    BY <1>1, <1>3, <2>1, <2>2, EnqueueOtherKeeps DEF Keeps
<1>6. ASSUME NEW k \in Pair, CallResolve(k) \/ CallReject(k)
      PROVE  Nowhere(heap', c)
  <2>1. k \in Made(heap)
    BY <1>1, <1>6 DEF CallResolve, CallReject
  <2>2. CASE CallReject(k)
    <3>1. g = RejectFunction(heap, k, k)
      BY <1>3, <2>2 DEF CallReject
    <3> QED
      BY <1>1, <1>3, <2>1, <3>1, RejectKeeps DEF Keeps
  <2>3. CASE CallResolve(k)
    <3>1. PICK x \in Resolutions(k) : g = ResolveFunction(heap, k, x)
      BY <1>3, <2>3 DEF CallResolve
    <3>2. ResolvesWith(heap, x)
      BY <1>1, <2>1, ResolutionsOK
    <3> QED
      BY <1>1, <1>3, <2>1, <3>1, <3>2, ResolveKeeps DEF Keeps
  <2> QED
    BY <1>6, <2>2, <2>3
<1>7. ASSUME NEW p \in Promise, NEW f \in {"none", "user"},
             NEW r \in {"none", "user"}, CallThen(p, f, r)
      PROVE  Nowhere(heap', c)
  <2>1. PICK n : n = NewPromise(heap)
    OBVIOUS
  <2> DEFINE reaction == [cap |-> n.pairs, fn |-> None,
                          onFulfilled |-> f, onRejected |-> r]
  <2>2. /\ Room(1, 1) /\ p \in visible /\ c \in exposed
        /\ g = PerformPromiseThen(n, p, reaction)
    BY <1>3, <1>7, <2>1 DEF CallThen
  <2>3. /\ HeapOK(n) /\ n.pairs = heap.pairs + 1 /\ SameContinuations(n, heap)
        /\ Created(heap) \subseteq Created(n)
    BY <1>1, <1>2, <2>1, <2>2, NewPromiseOK, NewPromiseGrows, CreateElsewhere
  <2>4. n.pairs \notin Made(heap) /\ n.pairs \in Made(n)
    BY <1>1, <2>3, OnePairMore
  <2>5. reaction \in Reaction /\ ReactionOK(n, reaction)
    <3>1. n.pairs \in Pair /\ n.pairs # None
      BY <2>3, <2>4, CreatedIsPromise DEF Pair, None
    <3> QED
      BY <2>4, <3>1 DEF Reaction, Handler, ReactionOK
  <2>6. p \in Created(n)
    BY <1>1, <2>2, <2>3
  <2>7. ~ Holds(reaction, c)
    <3>1. c \in Made(heap) /\ c # None
      BY <1>1, <2>2, CreatedIsPromise DEF Pair, None
    <3> QED
      BY <2>4, <3>1 DEF Holds
  <2> HIDE DEF reaction
  <2>8. Keeps(n, g, c)
    BY <2>2, <2>3, <2>5, <2>6, <2>7, ThenKeeps
  <2>9. Nowhere(n, c)
    BY <2>3, ElsewhereKeeps DEF SameContinuations, Keeps
  <2> QED
    BY <1>3, <2>8, <2>9 DEF Keeps
<1> QED
  BY <1>4, <1>5, <1>6, <1>7 DEF Program

(* ... what leaves an activation ...                                       *)
LEMMA LeavesLeaveNowhere ==
  ASSUME Inv, Private(stack, exposed), NEW c \in exposed', Nowhere(heap, c), Leaves
  PROVE  Nowhere(heap', c)
<1>1. /\ TypeOK /\ HeapOK(heap) /\ heap \in Heap /\ StackOK(stack, heap)
      /\ stack \in Seq(Frame)
      /\ visible \subseteq Created(heap) /\ exposed \subseteq Made(heap)
  BY DEF Inv, TypeOK, HeapOK, StackOK
<1>2. PICK f : f = heap'
  OBVIOUS
<1>3. CASE ExitOutermost \/ ExitNested \/ Return \/ MicrotaskThrows \/ Unwind
  <2>1. f = heap \/ \E e : f = [heap EXCEPT !.error = e]
    BY <1>2, <1>3 DEF ExitOutermost, ExitNested, Return, MicrotaskThrows, Unwind
  <2>2. f.queue = heap.queue /\ f.reactions = heap.reactions
    BY <1>1, <2>1 DEF Heap
  <2> QED
    BY <1>2, <2>2, ElsewhereKeeps DEF Keeps
<1>4. PICK k : k = Head(stack).pair
  OBVIOUS
<1>5. CASE ReturnResult \/ Throw
  <2>1. stack # <<>> /\ Head(stack).kind \in {"handler", "async", "then"}
    BY <1>5 DEF ReturnResult, Throw, Top
  <2>2. k \in Made(heap) /\ k \in Pair
    BY <1>1, <1>4, <2>1, PopOK, CreatedIsPromise
  <2>3. CASE Throw
    <3>1. f = RejectFunction(heap, k, k)
      BY <1>2, <1>4, <2>3 DEF Throw
    <3> QED
      BY <1>1, <1>2, <2>2, <3>1, RejectKeeps DEF Keeps
  <2>4. CASE ReturnResult
    <3>1. PICK x \in Resolutions(k) : f = ResolveFunction(heap, k, x)
      BY <1>2, <1>4, <2>4 DEF ReturnResult
    <3>2. ResolvesWith(heap, x)
      BY <1>1, <2>2, ResolutionsOK
    <3> QED
      BY <1>1, <1>2, <2>2, <3>1, <3>2, ResolveKeeps DEF Keeps
  <2> QED
    BY <1>5, <2>3, <2>4
<1>6. ASSUME NEW x \in Awaitable, Await(x)
      PROVE  Nowhere(heap', c)
  <2> DEFINE l == heap.pairs + 1
             p == IF x.kind = "promise" THEN x.ref ELSE heap.promises + 1
             g == IF x.kind = "promise" THEN heap
                  ELSE ResolveFunction(NewPromise(heap), l, x)
             reaction == [cap |-> None, fn |-> k,
                          onFulfilled |-> "resume", onRejected |-> "resume"]
  <2>1. /\ stack # <<>> /\ Head(stack).kind = "async" /\ ~ heap.error
        /\ x.kind # "promise" => Room(1, 1)
        /\ f = PerformPromiseThen(g, p, reaction)
        /\ c \in exposed
    BY <1>2, <1>4, <1>6 DEF Await, Top, CodeRuns
  <2>2. k \in Made(heap) /\ k \in Pair /\ k # None /\ k # c
    <3>1. k \in Made(heap) /\ k \in Pair
      BY <1>1, <1>4, <2>1, PopOK, CreatedIsPromise
    <3>2. k \notin exposed
      BY <1>1, <1>4, <2>1, PopPrivate
    <3> QED
      BY <2>1, <3>1, <3>2 DEF Pair, None
  <2>3. HeapOK(g) /\ p \in Created(g) /\ Made(heap) \subseteq Made(g) /\ Nowhere(g, c)
    <3>1. CASE x.kind = "promise"
      <4>1. x.ref \in visible
        BY <3>1 DEF Awaitable
      <4>2. g = heap /\ p = x.ref
        BY <3>1
      <4> QED
        BY <1>1, <4>1, <4>2
    <3>2. CASE x.kind # "promise"
      <4>1. PICK n : n = NewPromise(heap)
        OBVIOUS
      <4>2. heap.promises < MaxPromises /\ heap.pairs < MaxPairs
        <5>1. heap.promises + 1 <= MaxPromises /\ heap.pairs + 1 <= MaxPairs
          BY <1>1, <2>1, <3>2, RoomOK
        <5>2. heap.promises \in Nat /\ heap.pairs \in Nat
          BY <1>1 DEF HeapOK, Heap
        <5> QED
          BY <5>1, <5>2, BoundsAssumption
      <4>3. /\ HeapOK(n) /\ SameContinuations(n, heap) /\ n.pairs = l
            /\ heap.promises + 1 \in Created(n) /\ l \in Made(n)
            /\ Made(heap) \subseteq Made(n)
        BY <1>1, <4>1, <4>2, NewPromiseOK, NewPromiseGrows, CreateElsewhere
      <4>4. ResolvesWith(n, x)
        <5>1. l \in Pair
          BY <4>3, CreatedIsPromise
        <5> QED
          BY <3>2, <5>1 DEF Awaitable, ResolvesWith, Resolution
      <4>5. g = ResolveFunction(n, l, x) /\ p = heap.promises + 1
        BY <3>2, <4>1
      <4> HIDE DEF l, g, p
      <4>6. HeapOK(g) /\ SameNames(g, n) /\ Keeps(n, g, c)
        BY <4>3, <4>4, <4>5, ResolveFunctionOK, ResolveKeeps
      <4>7. Nowhere(n, c)
        BY <4>3, ElsewhereKeeps DEF SameContinuations, Keeps
      <4>8. Created(g) = Created(n) /\ Made(g) = Made(n)
        BY <4>6, SameNamesSameSets
      <4> QED
        BY <4>3, <4>5, <4>6, <4>7, <4>8 DEF Keeps
    <3> QED
      BY <3>1, <3>2
  <2> HIDE DEF g, p, l
  <2>4. reaction \in Reaction /\ ReactionOK(g, reaction)
    BY <2>2, <2>3 DEF Reaction, Handler, ReactionOK
  <2>5. ~ Holds(reaction, c)
    <3>1. c # None
      BY <1>1, <2>1, CreatedIsPromise DEF Pair, None
    <3> QED
      BY <2>2, <3>1 DEF Holds
  <2> HIDE DEF reaction
  <2> QED
    BY <1>2, <2>1, <2>3, <2>4, <2>5, ThenKeeps DEF Keeps
<1> QED
  BY <1>3, <1>5, <1>6 DEF Leaves

(* A job leaves the queue. *)
LEMMA PolledRest ==
  ASSUME Inv, NEW type, Poll(type), NEW r, r = Rest, NEW job, job = Polled
  PROVE  /\ HeapOK(r) /\ r \in Heap /\ Single(r) /\ SameNames(r, heap)
         /\ Made(r) = Made(heap) /\ Created(r) = Created(heap)
         /\ r.resolved = heap.resolved /\ ~ r.error /\ ~ heap.error
         /\ job \in Job /\ JobOK(r, job) /\ job.type = type
         /\ \A c : Nowhere(heap, c) => Nowhere(r, c)
         /\ \E n \in DOMAIN heap.queue :
              job = heap.queue[n] /\ r = [heap EXCEPT !.queue = RemoveAt(@, n)]
<1>1. HeapOK(heap) /\ heap \in Heap /\ Single(heap)
  BY DEF Inv, TypeOK, HeapOK, SingleResolver
<1>2. ~ heap.error /\ job.type = type
  BY <1>1, PolledIsQueued DEF Poll, LoopRuns
<1>3. PICK n : PollsAt(n)
  BY <1>1, PolledIsQueued
<1>4. /\ n \in DOMAIN heap.queue /\ job = heap.queue[n]
      /\ r = [heap EXCEPT !.queue = RemoveAt(@, n)]
  BY <1>3 DEF PollsAt
<1>5. HeapOK(r) /\ SameNames(r, heap) /\ job \in Job /\ JobOK(r, job) /\ Single(r)
  BY <1>1, <1>4, PollOK
<1>6. ASSUME NEW c
      PROVE  /\ Nowhere(heap, c) => Nowhere(r, c)
             /\ r.resolved = heap.resolved /\ r.error = heap.error
  BY <1>1, <1>4, PollKeeps DEF Keeps
<1>7. r \in Heap /\ Made(r) = Made(heap) /\ Created(r) = Created(heap)
  BY <1>5, SameNamesSameSets DEF HeapOK
<1>8. r.resolved = heap.resolved /\ r.error = heap.error
  BY <1>6
<1> QED
  BY <1>2, <1>4, <1>5, <1>6, <1>7, <1>8

(* What a reaction job holds. *)
LEMMA ReactionJobHolds ==
  ASSUME NEW r, HeapOK(r), NEW job \in Job, JobOK(r, job), job.type = "reaction"
  PROVE  /\ job.argument \in Pair /\ job.outcome \in Outcome
         /\ job.handler # "resume" => job.cap \in Made(r) /\ job.cap \in Pair
         /\ job.handler \in {"resolving", "resume"} =>
              job.fn \in Made(r) /\ job.fn \in Pair
         /\ job.handler \in {"none", "user"} => job.fn = None
<1>1. job \in ReactionJob
  BY DEF Job, ThenableJob, Microtask
<1> QED
  BY <1>1, CreatedIsPromise DEF ReactionJob, JobOK

(* The pairs and the promise that an adoption makes. *)
LEMMA AdoptPrepares ==
  ASSUME HeapOK(heap), heap \in Heap,
         heap.promises < MaxPromises, heap.pairs + 1 < MaxPairs,
         NEW r, HeapOK(r), Made(r) = Made(heap),
         r.pairs = heap.pairs, r.promises = heap.promises,
         NEW p \in Created(r), NEW q \in Created(r),
         NEW m, m = CreateResolvingFunctions(r, p), NEW g, g = NewPromise(m)
  PROVE  /\ HeapOK(m) /\ HeapOK(g)
         /\ SameContinuations(g, m) /\ SameContinuations(m, r)
         /\ r.pairs < MaxPairs /\ m.promises < MaxPromises /\ m.pairs < MaxPairs
         /\ m.pairs = heap.pairs + 1 /\ g.pairs = m.pairs + 1
         /\ q \in Created(g)
         /\ m.pairs \notin Made(heap) /\ g.pairs \notin Made(heap)
         /\ m.pairs \in Made(g) /\ g.pairs \in Made(g)
<1>1. heap.pairs \in Nat /\ heap.promises \in Nat /\ MaxPairs \in Nat
  BY BoundsAssumption DEF Heap
<1>2. r.pairs < MaxPairs /\ r \in Heap
  BY <1>1 DEF HeapOK
<1>3. /\ HeapOK(m) /\ m \in Heap /\ m.promises = r.promises
      /\ m.pairs = r.pairs + 1 /\ SameContinuations(m, r)
  <2>1. HeapOK(m) /\ m.promises = r.promises /\ m.pairs = r.pairs + 1
    BY <1>2, CreateResolvingFunctionsOK
  <2>2. SameContinuations(m, r)
    BY CreateElsewhere
  <2> QED
    BY <2>1, <2>2 DEF HeapOK
<1>4. Made(m) = Made(r) \cup {m.pairs} /\ m.pairs \notin Made(r)
  BY <1>2, <1>3, OnePairMore
<1>5. m.promises < MaxPromises /\ m.pairs < MaxPairs
  BY <1>3
<1>6. /\ HeapOK(g) /\ g.pairs = m.pairs + 1 /\ SameContinuations(g, m)
      /\ Created(m) \subseteq Created(g)
  BY <1>3, <1>5, NewPromiseOK, NewPromiseGrows, CreateElsewhere
<1>7. Made(g) = Made(m) \cup {g.pairs} /\ g.pairs \notin Made(m)
  BY <1>3, <1>6, OnePairMore
<1>8. Created(m) = Created(r)
  BY <1>3 DEF Created
<1> QED
  BY <1>2, <1>3, <1>4, <1>5, <1>6, <1>7, <1>8

(* ... and the loop. *)
LEMMA LoopLeavesNowhere ==
  ASSUME Inv, exposed' \cap Made(heap) \subseteq exposed,
         NEW c \in exposed', Nowhere(heap, c), c \in Pair, Loop
  PROVE  Nowhere(heap', c)
<1>1. HeapOK(heap) /\ heap \in Heap
  BY DEF Inv, TypeOK, HeapOK
<1>2. PICK r : r = Rest
  OBVIOUS
<1>3. PICK job : job = Polled
  OBVIOUS
<1>4. PICK f : f = heap'
  OBVIOUS
<1>5. CASE LoopEnds \/ LoopFails
  <2>1. \E e : f = [heap EXCEPT !.error = e]
    BY <1>4, <1>5 DEF LoopEnds, LoopFails
  <2>2. f.queue = heap.queue /\ f.reactions = heap.reactions
    BY <1>1, <2>1 DEF Heap
  <2> QED
    BY <1>4, <2>2, ElsewhereKeeps DEF Keeps
<1>6. ASSUME NEW type, Poll(type)
      PROVE  /\ HeapOK(r) /\ r \in Heap /\ Nowhere(r, c)
             /\ Made(r) = Made(heap) /\ SameNames(r, heap)
             /\ job \in Job /\ JobOK(r, job) /\ job.type = type
  BY <1>2, <1>3, <1>6, PolledRest
<1>7. CASE RunHandler \/ RunResume \/ RunMicrotask
  <2>1. f = r /\ (Poll("reaction") \/ Poll("microtask"))
    BY <1>2, <1>4, <1>7 DEF RunHandler, RunResume, RunMicrotask
  <2> QED
    BY <1>4, <1>6, <2>1
<1>8. CASE RunPassThrough
  <2>1. /\ Poll("reaction") /\ job.handler = "none"
        /\ f = PassOn(r, job.cap, job.outcome, job.argument)
    BY <1>2, <1>3, <1>4, <1>8 DEF RunPassThrough
  <2>2. HeapOK(r) /\ Nowhere(r, c) /\ job.cap \in Made(r) /\ job.argument \in Pair
    BY <1>6, <2>1, ReactionJobHolds
  <2> QED
    BY <1>4, <2>1, <2>2, PassOnKeeps DEF Keeps
<1>9. CASE RunAdoption
  <2> DEFINE x == [kind |-> "value", ref |-> job.cap]
  <2>1. PICK g : g = PassOn(r, job.fn, job.outcome, job.argument)
    OBVIOUS
  <2>2. /\ Poll("reaction") /\ job.handler = "resolving"
        /\ f = ResolveFunction(g, job.cap, x)
    BY <1>2, <1>3, <1>4, <1>9, <2>1 DEF RunAdoption
  <2>3. /\ HeapOK(r) /\ Nowhere(r, c) /\ job.fn \in Made(r) /\ job.argument \in Pair
        /\ job.cap \in Made(r) /\ job.cap \in Pair
    BY <1>6, <2>2, ReactionJobHolds
  <2>4. HeapOK(g) /\ SameNames(g, r) /\ Nowhere(g, c)
    BY <2>1, <2>3, PassOnKeeps, PassOnOK DEF Keeps
  <2>5. job.cap \in Made(g) /\ ResolvesWith(g, x)
    BY <2>3, <2>4, SameNamesSameSets DEF ResolvesWith, Resolution
  <2> HIDE DEF x
  <2> QED
    BY <1>4, <2>2, <2>4, <2>5, ResolveKeeps DEF Keeps
<1>10. CASE RunThen
  <2>1. Poll("thenable") /\ f = CreateResolvingFunctions(r, job.promise)
    BY <1>2, <1>3, <1>4, <1>10 DEF RunThen
  <2>2. HeapOK(r) /\ Nowhere(r, c)
    BY <1>6, <2>1
  <2>3. SameContinuations(f, r)
    BY <2>1, <2>2, CreateElsewhere
  <2> QED
    BY <1>4, <2>2, <2>3, ElsewhereKeeps DEF SameContinuations, Keeps
<1>11. CASE RunAdopt
  <2>1. PICK m : m = CreateResolvingFunctions(r, job.promise)
    OBVIOUS
  <2>2. PICK g : g = NewPromise(m)
    OBVIOUS
  <2> DEFINE reaction == Adopting(g.pairs, m.pairs)
  <2>3. /\ Poll("thenable") /\ job.thenable # None
        /\ heap.promises < MaxPromises /\ heap.pairs + 1 < MaxPairs
        /\ f = PerformPromiseThen(g, job.thenable, Adopting(g.pairs, heap.pairs + 1))
        /\ c \in exposed
    BY <1>2, <1>3, <1>4, <1>11, <2>1, <2>2 DEF RunAdopt
  <2>4. /\ HeapOK(r) /\ Nowhere(r, c) /\ r \in Heap /\ Made(r) = Made(heap)
        /\ r.pairs = heap.pairs /\ r.promises = heap.promises
        /\ job.promise \in Created(r) /\ job.thenable \in Created(r)
    BY <1>6, <2>3 DEF JobOK, SameNames
  <2>5. /\ HeapOK(g) /\ SameContinuations(g, m) /\ SameContinuations(m, r)
        /\ m.pairs = heap.pairs + 1 /\ g.pairs = m.pairs + 1
        /\ job.thenable \in Created(g)
        /\ m.pairs \notin Made(heap) /\ g.pairs \notin Made(heap)
        /\ m.pairs \in Made(g) /\ g.pairs \in Made(g)
    BY <1>1, <2>1, <2>2, <2>3, <2>4, AdoptPrepares
  <2>6. f = PerformPromiseThen(g, job.thenable, reaction)
    BY <2>3, <2>5
  <2>7. reaction \in Reaction /\ ReactionOK(g, reaction)
    <3>1. /\ g.pairs \in Pair /\ g.pairs # None /\ g.pairs \in Made(g)
          /\ m.pairs \in Made(g) /\ m.pairs \in Pair /\ m.pairs # None
      BY <2>5, CreatedIsPromise DEF Pair, None
    <3> QED
      BY <3>1 DEF Adopting, Reaction, Handler, ReactionOK
  <2>8. ~ Holds(reaction, c)
    <3>1. c \in Made(heap)
      BY <2>3 DEF Inv, TypeOK
    <3> QED
      BY <2>5, <3>1 DEF Holds, Adopting
  <2> HIDE DEF reaction
  <2>9. Nowhere(g, c)
    <3>1. Nowhere(m, c)
      BY <2>4, <2>5, ElsewhereKeeps DEF SameContinuations, Keeps
    <3> QED
      BY <2>5, <3>1, ElsewhereKeeps DEF SameContinuations, Keeps
  <2> QED
    BY <1>4, <2>5, <2>6, <2>7, <2>8, <2>9, ThenKeeps DEF Keeps
<1> QED
  BY <1>5, <1>7, <1>8, <1>9, <1>10, <1>11 DEF Loop

KeptApart == Apart(heap, stack, exposed)

LEMMA ApartAlways == Spec => []KeptApart
<1>1. Init => KeptApart
  BY DEF Init, KeptApart, Apart, Private
<1>2. Inv /\ Inv' /\ Balanced /\ Continuations /\ KeptApart /\ [Next]_vars
        => KeptApart'
  <2> SUFFICES ASSUME Inv, Inv', Balanced, Continuations,
                      Apart(heap, stack, exposed), [Next]_vars
               PROVE  KeptApart'
    BY DEF KeptApart
  <2>1. CalledByLoop(stack) /\ StackShaped(stack, exposed)
    BY DEF Balanced, Continuations
  <2>2. Private(stack', exposed')
    BY <2>1, PrivateKept
  <2>3. ASSUME NEW c \in exposed'
        PROVE  Nowhere(heap', c)
    <3>1. c \in Pair
      <4>1. HeapOK(heap)' /\ exposed' \subseteq Made(heap')
        BY DEF Inv, TypeOK
      <4> QED
        BY <4>1, CreatedIsPromise
    <3>2. Nowhere(heap, c)
      BY <2>1, <3>1, NewIsNowhere
    <3>3. exposed' \cap Made(heap) \subseteq exposed
      BY ExposedAreNew
    <3>4. CASE Embedder \/ UNCHANGED vars
      <4>1. heap' = heap
        BY <3>4 DEF Embedder, EnterBoundary, NodeCall, RunMicrotasks, vars
      <4> QED
        BY <3>2, <4>1
    <3>5. Private(stack, exposed)
      BY DEF Apart
    <3> QED
      BY <3>1, <3>2, <3>3, <3>4, <3>5, ProgramLeavesNowhere, LeavesLeaveNowhere,
         LoopLeavesNowhere DEF Next
  <2> QED
    BY <2>2, <2>3 DEF KeptApart, Apart
<1> QED
  BY <1>1, <1>2, InvAlways, BalancedAlways, ContinuationsAlways, PTL DEF Spec

(* The functions of an adoption are in one place and have not been used,   *)
(* so that a promise has one fate.                                         *)
LEMMA FatesAreOne ==
  ASSUME Inv, Continuations, KeptApart
  PROVE  AdoptionsOK(heap) /\ OneFate(heap)
<1>1. HeapOK(heap) /\ Single(heap)
  BY DEF Inv, TypeOK, SingleResolver
<1>2. ASSUME NEW k, Adopter(heap, k)
      PROVE  Once(heap, k) /\ k \notin heap.resolved
  <2>1. k \in Pair
    BY <1>1, <1>2, AdoptersAreMade, CreatedIsPromise
  <2>2. ~ Nowhere(heap, k)
    BY <1>2, NotAdopter
  <2>3. k \notin exposed
    BY <2>2 DEF KeptApart, Apart
  <2>4. Fine(heap, stack, k)
    BY <2>1, <2>3 DEF Continuations
  <2> QED
    BY <2>2, <2>4 DEF Fine, Gone
<1>3. AdoptionsOK(heap)
  BY <1>2 DEF AdoptionsOK
<1> QED
  BY <1>1, <1>3, EachHasOneFate

(* A function is called that is not one of an adoption. *)
LEMMA FreeCallMoves ==
  ASSUME NEW h, HeapOK(h), Single(h), AdoptionsOK(h), NEW k \in Made(h),
         ~ Adopter(h, k), NEW g, Calls(h, g, k)
  PROVE  \A p \in Promise : Moves(h, g, p)
<1>1. CASE Uneventful(h, g)
  BY <1>1, DecisionMoves
<1>2. CASE k \in Unused(h, h.target[k]) /\ Decides(h, g, h.target[k])
  <2>1. h.target[k] \in Promise
    BY CreatedIsPromise DEF HeapOK
  <2>2. OpenIn(h, h.target[k])
    BY <1>2, <2>1, UnusedUndecided
  <2> QED
    BY <1>2, <2>1, <2>2, DecisionMoves
<1> QED
  BY <1>1, <1>2 DEF Calls

(* Each step moves the fates of promises as PromiseFates allows: one of    *)
(* the program ...                                                         *)
MovesAll(h, g) == \A p \in Created(h) : Moves(h, g, p)

LEMMA UneventfulMovesAll ==
  ASSUME NEW h, HeapOK(h), NEW g, Uneventful(h, g)
  PROVE  MovesAll(h, g)
BY DecisionMoves, CreatedIsPromise DEF MovesAll

LEMMA ProgramMoves ==
  ASSUME ~ TRACING, Inv, Continuations, KeptApart, Program
  PROVE  MovesAll(heap, heap')
<1>1. /\ TypeOK /\ HeapOK(heap) /\ heap \in Heap /\ Single(heap)
      /\ visible \subseteq Created(heap) /\ exposed \subseteq Made(heap)
  BY DEF Inv, TypeOK, HeapOK, SingleResolver
<1>2. AdoptionsOK(heap)
  BY FatesAreOne
<1>3. ASSUME Room(1, 1)
      PROVE  heap.promises < MaxPromises /\ heap.pairs < MaxPairs
  <2>1. heap.promises + 1 <= MaxPromises /\ heap.pairs + 1 <= MaxPairs
    BY <1>1, <1>3, RoomOK
  <2>2. heap.promises \in Nat /\ heap.pairs \in Nat
    BY <1>1 DEF HeapOK, Heap
  <2> QED
    BY <2>1, <2>2, BoundsAssumption
<1>4. PICK g : g = heap'
  OBVIOUS
<1>5. CASE CreatePromise \/ CallAsync
  <2>1. g = NewPromise(heap) /\ Room(1, 1)
    BY <1>4, <1>5 DEF CreatePromise, CallAsync
  <2>2. Uneventful(heap, g)
    BY <1>1, <1>3, <2>1, CreateUneventful
  <2> QED
    BY <1>1, <1>4, <2>2, UneventfulMovesAll
<1>6. CASE EnqueueMicrotask
  <2> DEFINE job == [type |-> "microtask"]
  <2>1. g = Enqueue(heap, <<job>>)
    BY <1>4, <1>6 DEF EnqueueMicrotask
  <2>2. job \in Job /\ job.type = "microtask"
    BY DEF Job, Microtask
  <2> HIDE DEF job
  <2>3. \A p, q \in Promise : ~ Locks(job, p, q)
    BY <2>2 DEF Locks, Adopts
  <2>4. Uneventful(heap, g)
    BY <1>1, <2>1, <2>2, <2>3, EnqueueOneJob DEF Uneventful
  <2> QED
    BY <1>1, <1>4, <2>4, UneventfulMovesAll
<1>7. ASSUME NEW k \in Pair, CallResolve(k) \/ CallReject(k)
      PROVE  MovesAll(heap, heap')
  <2>1. k \in Made(heap) /\ k \in exposed
    BY <1>1, <1>7 DEF CallResolve, CallReject
  <2>2. ~ Adopter(heap, k)
    BY <2>1, NotAdopter DEF KeptApart, Apart
  <2>4. Calls(heap, g, k)
    <3>1. CASE CallReject(k)
      <4>1. g = RejectFunction(heap, k, k)
        BY <1>4, <3>1 DEF CallReject
      <4> QED
        BY <1>1, <2>1, <4>1, RejectCalls
    <3>2. CASE CallResolve(k)
      <4>1. PICK x \in Resolutions(k) : g = ResolveFunction(heap, k, x)
        BY <1>4, <3>2 DEF CallResolve
      <4>2. ResolvesWith(heap, x)
        BY <1>1, <2>1, ResolutionsOK
      <4> QED
        BY <1>1, <2>1, <4>1, <4>2, ResolveCalls
    <3> QED
      BY <1>7, <3>1, <3>2
  <2> QED
    BY <1>1, <1>2, <1>4, <2>1, <2>2, <2>4, FreeCallMoves, CreatedIsPromise DEF MovesAll
<1>8. ASSUME NEW p \in Promise, NEW f \in {"none", "user"},
             NEW r \in {"none", "user"}, CallThen(p, f, r)
      PROVE  MovesAll(heap, heap')
  <2>1. PICK n : n = NewPromise(heap)
    OBVIOUS
  <2> DEFINE reaction == [cap |-> n.pairs, fn |-> None,
                          onFulfilled |-> f, onRejected |-> r]
  <2>2. /\ Room(1, 1) /\ p \in visible /\ ~ heap.error
        /\ g = PerformPromiseThen(n, p, reaction)
    BY <1>4, <1>8, <2>1 DEF CallThen, CodeRuns
  <2>3. /\ HeapOK(n) /\ n.pairs \in Made(n) /\ SameContinuations(n, heap)
        /\ Created(heap) \subseteq Created(n) /\ Uneventful(heap, n)
    BY <1>1, <1>3, <2>1, <2>2, NewPromiseOK, NewPromiseGrows, CreateElsewhere,
       CreateUneventful
  <2>4. reaction \in Reaction /\ ReactionOK(n, reaction)
    <3>1. n.pairs \in Pair /\ n.pairs # None
      BY <2>3, CreatedIsPromise DEF Pair, None
    <3> QED
      BY <2>3, <3>1 DEF Reaction, Handler, ReactionOK
  <2>5. p \in Created(n) /\ ~ n.error /\ reaction.onFulfilled # "resolving"
    BY <1>1, <2>2, <2>3 DEF SameContinuations
  <2> HIDE DEF reaction
  <2>6. Uneventful(n, g)
    BY <2>2, <2>3, <2>4, <2>5, ThenUneventful
  <2> QED
    BY <1>1, <1>4, <2>3, <2>6, UneventfulTwice, UneventfulMovesAll
<1> QED
  BY <1>5, <1>6, <1>7, <1>8 DEF Program

(* ... what leaves an activation ...                                       *)
LEMMA ErrorUneventful ==
  ASSUME NEW h, HeapOK(h), NEW e
  PROVE  Uneventful(h, [h EXCEPT !.error = e])
<1> DEFINE g == [h EXCEPT !.error = e]
<1>1. h \in Heap
  BY DEF HeapOK
<1>2. /\ g.queue = h.queue /\ g.reactions = h.reactions
      /\ g.state = h.state /\ g.result = h.result /\ g.target = h.target
  BY <1>1 DEF Heap
<1> HIDE DEF g
<1>3. Uneventful(h, g)
  BY <1>2, ElsewhereUneventful
<1> QED
  BY <1>3 DEF g

(* Await wraps what is no promise in a new one. *)
LEMMA WrapMoves ==
  ASSUME ~ TRACING, NEW h, HeapOK(h), Single(h), ~ h.error,
         h.promises < MaxPromises, h.pairs < MaxPairs,
         NEW x, ResolvesWith(NewPromise(h), x),
         NEW g, g = ResolveFunction(NewPromise(h), h.pairs + 1, x),
         NEW f, Uneventful(g, f)
  PROVE  MovesAll(h, f)
<1>1. PICK n : n = NewPromise(h)
  OBVIOUS
<1> DEFINE l == h.pairs + 1
           q == h.promises + 1
<1>2. /\ HeapOK(n) /\ Uneventful(h, n) /\ n.pairs = l /\ n.promises = q
      /\ q \in Created(n) /\ l \in Made(n) /\ Single(n)
  BY <1>1, NewPromiseOK, NewPromiseGrows, CreateUneventful
<1>3. n.target[l] = q
  <2>1. h \in Heap /\ l \in Pair
    BY <1>2, CreatedIsPromise DEF HeapOK
  <2> QED
    BY <1>1, <2>1 DEF NewPromise, CreateResolvingFunctions, Heap
<1>4. q \in Promise /\ q \notin Created(h)
  <2>1. h.promises \in Nat
    BY DEF HeapOK, Heap
  <2> QED
    BY <1>2, <2>1, CreatedIsPromise DEF Created
<1>5. g = ResolveFunction(n, l, x) /\ ResolvesWith(n, x)
  BY <1>1
<1> HIDE DEF l, q
<1>6. Calls(n, g, l)
  BY <1>2, <1>5, ResolveCalls
<1>7. Uneventful(n, g) \/ Decides(n, g, q)
  BY <1>3, <1>6 DEF Calls
<1>8. ASSUME NEW p \in Created(h)
      PROVE  Moves(h, f, p)
  <2>1. p \in Promise \ {q}
    BY <1>4, <1>8, CreatedIsPromise
  <2>2. Moves(n, g, p)
    BY <1>4, <1>7, <2>1, DecisionAboutNew
  <2> QED
    BY <1>2, <2>1, <2>2, MovesAround
<1> QED
  BY <1>8 DEF MovesAll

LEMMA LeavesMove ==
  ASSUME ~ TRACING, Inv, Continuations, KeptApart, Leaves
  PROVE  MovesAll(heap, heap')
<1>1. /\ TypeOK /\ HeapOK(heap) /\ heap \in Heap /\ Single(heap)
      /\ StackOK(stack, heap) /\ stack \in Seq(Frame)
      /\ visible \subseteq Created(heap) /\ exposed \subseteq Made(heap)
  BY DEF Inv, TypeOK, HeapOK, SingleResolver, StackOK
<1>2. AdoptionsOK(heap)
  BY FatesAreOne
<1>3. PICK f : f = heap'
  OBVIOUS
<1>4. CASE ExitOutermost \/ ExitNested \/ Return \/ MicrotaskThrows \/ Unwind
  <2>1. f = heap \/ \E e : f = [heap EXCEPT !.error = e]
    BY <1>3, <1>4 DEF ExitOutermost, ExitNested, Return, MicrotaskThrows, Unwind
  <2>2. Uneventful(heap, f)
    BY <1>1, <2>1, ErrorUneventful, NothingHappens
  <2> QED
    BY <1>1, <1>3, <2>2, UneventfulMovesAll
<1>5. PICK k : k = Head(stack).pair
  OBVIOUS
<1>6. CASE ReturnResult \/ Throw
  <2>1. stack # <<>> /\ Head(stack).kind \in {"handler", "async", "then"}
    BY <1>6 DEF ReturnResult, Throw, Top
  <2>2. k \in Made(heap) /\ k \in Pair
    BY <1>1, <1>5, <2>1, PopOK, CreatedIsPromise
  <2>3. ~ Adopter(heap, k)
    <3>1. CASE k \in exposed
      BY <3>1, NotAdopter DEF KeptApart, Apart
    <3>2. CASE k \notin exposed
      <4>1. Fine(heap, stack, k)
        BY <2>2, <3>2 DEF Continuations
      <4>2. On(stack, k) # {}
        BY <1>1, <1>5, <2>1, OnPopped
      <4> QED
        BY <4>1, <4>2, NotAdopter DEF Fine
    <3> QED
      BY <3>1, <3>2
  <2>4. Calls(heap, f, k)
    <3>1. CASE Throw
      <4>1. f = RejectFunction(heap, k, k)
        BY <1>3, <1>5, <3>1 DEF Throw
      <4> QED
        BY <1>1, <2>2, <4>1, RejectCalls
    <3>2. CASE ReturnResult
      <4>1. PICK x \in Resolutions(k) : f = ResolveFunction(heap, k, x)
        BY <1>3, <1>5, <3>2 DEF ReturnResult
      <4>2. ResolvesWith(heap, x)
        BY <1>1, <2>2, ResolutionsOK
      <4> QED
        BY <1>1, <2>2, <4>1, <4>2, ResolveCalls
    <3> QED
      BY <1>6, <3>1, <3>2
  <2> QED
    BY <1>1, <1>2, <1>3, <2>2, <2>3, <2>4, FreeCallMoves, CreatedIsPromise DEF MovesAll
<1>7. ASSUME NEW x \in Awaitable, Await(x)
      PROVE  MovesAll(heap, heap')
  <2> DEFINE l == heap.pairs + 1
             p == IF x.kind = "promise" THEN x.ref ELSE heap.promises + 1
             g == IF x.kind = "promise" THEN heap
                  ELSE ResolveFunction(NewPromise(heap), l, x)
             reaction == [cap |-> None, fn |-> k,
                          onFulfilled |-> "resume", onRejected |-> "resume"]
  <2>1. /\ stack # <<>> /\ Head(stack).kind = "async" /\ ~ heap.error
        /\ x.kind # "promise" => Room(1, 1)
        /\ f = PerformPromiseThen(g, p, reaction)
    BY <1>3, <1>5, <1>7 DEF Await, Top, CodeRuns
  <2>2. k \in Made(heap) /\ k \in Pair /\ k # None
    <3>1. k \in Made(heap) /\ k \in Pair
      BY <1>1, <1>5, <2>1, PopOK, CreatedIsPromise
    <3> QED
      BY <3>1 DEF Pair, None
  <2>3. ASSUME HeapOK(g), p \in Created(g), Made(heap) \subseteq Made(g)
        PROVE  Uneventful(g, f)
    <3> HIDE DEF g, p
    <3>1. reaction \in Reaction /\ ReactionOK(g, reaction)
      BY <2>2, <2>3 DEF Reaction, Handler, ReactionOK
    <3>2. reaction.onFulfilled # "resolving"
      OBVIOUS
    <3> HIDE DEF reaction
    <3>3. CASE ~ g.error
      BY <2>1, <2>3, <3>1, <3>2, <3>3, ThenUneventful
    <3>4. CASE g.error
      <4>1. f = g
        BY <2>1, <3>4 DEF PerformPromiseThen
      <4> QED
        BY <4>1, NothingHappens
    <3> QED
      BY <3>3, <3>4
  <2>4. CASE x.kind = "promise"
    <3>1. x.ref \in visible
      BY <2>4 DEF Awaitable
    <3>2. g = heap /\ p = x.ref
      BY <2>4
    <3>3. Uneventful(heap, f)
      BY <1>1, <2>3, <3>1, <3>2
    <3> QED
      BY <1>1, <1>3, <3>3, UneventfulMovesAll
  <2>5. CASE x.kind # "promise"
    <3>1. PICK n : n = NewPromise(heap)
      OBVIOUS
    <3>2. heap.promises < MaxPromises /\ heap.pairs < MaxPairs
      <4>1. heap.promises + 1 <= MaxPromises /\ heap.pairs + 1 <= MaxPairs
        BY <1>1, <2>1, <2>5, RoomOK
      <4>2. heap.promises \in Nat /\ heap.pairs \in Nat
        BY <1>1 DEF HeapOK, Heap
      <4> QED
        BY <4>1, <4>2, BoundsAssumption
    <3>3. /\ HeapOK(n) /\ n.pairs = l
          /\ heap.promises + 1 \in Created(n) /\ l \in Made(n)
          /\ Made(heap) \subseteq Made(n)
      BY <1>1, <3>1, <3>2, NewPromiseOK, NewPromiseGrows
    <3>4. ResolvesWith(n, x)
      <4>1. l \in Pair
        BY <3>3, CreatedIsPromise
      <4> QED
        BY <2>5, <4>1 DEF Awaitable, ResolvesWith, Resolution
    <3>5. g = ResolveFunction(n, l, x) /\ p = heap.promises + 1
      BY <2>5, <3>1
    <3> HIDE DEF g, p
    <3>6. HeapOK(g) /\ SameNames(g, n)
      BY <3>3, <3>4, <3>5, ResolveFunctionOK
    <3>7. Created(g) = Created(n) /\ Made(g) = Made(n)
      BY <3>6, SameNamesSameSets
    <3>8. Uneventful(g, f)
      BY <2>3, <3>3, <3>5, <3>6, <3>7
    <3>9. MovesAll(heap, f)
      BY <1>1, <2>1, <3>1, <3>2, <3>4, <3>5, <3>8, WrapMoves
    <3> QED
      BY <1>3, <3>9
  <2> QED
    BY <2>4, <2>5
<1> QED
  BY <1>4, <1>6, <1>7 DEF Leaves

(* ... and of the loop.  What a polled job holds is nowhere else.          *)
LEMMA PolledOnce ==
  ASSUME Inv, Continuations, KeptApart, Poll("reaction"),
         NEW job, job = Polled, NEW k \in Made(heap), Holds(job, k)
  PROVE  /\ Once(heap, k)
         /\ ~ (job.handler = "resolving" /\ job.fn = k) => ~ Adopter(heap, k)
<1>1. HeapOK(heap)
  BY DEF Inv, TypeOK
<1>2. PICK n \in DOMAIN heap.queue : job = heap.queue[n]
  BY PolledRest
<1>3. job.type = "reaction"
  BY <1>1, PolledIsQueued
<1>4. n \in JobsOf(heap, k)
  BY <1>2, <1>3 DEF JobsOf
<1>5. k \in Pair \ exposed
  BY <1>1, <1>4, CreatedIsPromise DEF KeptApart, Apart, Nowhere
<1>6. Once(heap, k)
  BY <1>5 DEF Continuations, Fine
<1> QED
  BY <1>2, <1>4, <1>6, NotAdopter

(* A job leaves the queue by which nothing is adopted. *)
LEMMA PollUneventful ==
  ASSUME Inv, NEW type, Poll(type), NEW r, r = Rest, NEW job, job = Polled,
         type = "reaction" => job.handler # "resolving",
         type = "thenable" => job.thenable = None
  PROVE  Uneventful(heap, r)
<1>1. HeapOK(heap) /\ job.type = type
  BY PolledIsQueued DEF Inv, TypeOK
<1>2. PICK n \in DOMAIN heap.queue :
        job = heap.queue[n] /\ r = [heap EXCEPT !.queue = RemoveAt(@, n)]
  BY PolledRest
<1>3. \A p, q \in Promise : ~ Locks(job, p, q)
  BY <1>1 DEF Locks, Adopts, Promise, None
<1>4. \A p, o, v : ~ Gives(heap, job, p, o, v)
  BY <1>1 DEF Gives
<1>5. \A p \in Promise : SameFate(heap, r, p)
  BY <1>1, <1>2, <1>3, <1>4, PollForgets
<1> QED
  BY <1>5 DEF Uneventful

LEMMA PassThroughMoves ==
  ASSUME ~ TRACING, Inv, Continuations, KeptApart, RunPassThrough
  PROVE  MovesAll(heap, heap')
<1>1. HeapOK(heap) /\ Single(heap) /\ AdoptionsOK(heap)
  BY FatesAreOne DEF Inv, TypeOK, SingleResolver
<1>2. PICK r : r = Rest
  OBVIOUS
<1>3. PICK job : job = Polled
  OBVIOUS
<1>4. PICK f : f = heap'
  OBVIOUS
<1>5. PICK k : k = job.cap
  OBVIOUS
<1>6. /\ Poll("reaction") /\ job.handler = "none"
      /\ f = PassOn(r, k, job.outcome, job.argument)
  BY <1>2, <1>3, <1>4, <1>5 DEF RunPassThrough
<1>7. /\ HeapOK(r) /\ Single(r) /\ SameNames(r, heap)
      /\ Made(r) = Made(heap) /\ r.resolved = heap.resolved
      /\ job \in Job /\ JobOK(r, job) /\ job.type = "reaction"
      /\ \E n \in DOMAIN heap.queue : r = [heap EXCEPT !.queue = RemoveAt(@, n)]
  BY <1>2, <1>3, <1>6, PolledRest
<1>8. r.target = heap.target
  BY <1>1, <1>7, PollForgets
<1>9. k \in Made(r) /\ job.argument \in Pair /\ job.outcome \in Outcome
  BY <1>5, <1>6, <1>7, ReactionJobHolds
<1>10. Uneventful(heap, r)
  BY <1>2, <1>3, <1>6, PollUneventful
<1>11. Calls(r, f, k)
  BY <1>6, <1>7, <1>9, PassOnCalls
<1>12. ~ Adopter(heap, k)
  BY <1>3, <1>5, <1>6, <1>7, <1>9, PolledOnce DEF Holds
<1>13. \A q \in Promise : Moves(r, f, q)
  <2>1. CASE Uneventful(r, f)
    BY <2>1, DecisionMoves
  <2>2. CASE k \in Unused(r, r.target[k]) /\ Decides(r, f, r.target[k])
    <3>1. PICK p : p = r.target[k]
      OBVIOUS
    <3>2. p \in Promise
      BY <1>7, <1>9, <3>1, CreatedIsPromise DEF HeapOK
    <3>3. k \in Unused(heap, p)
      BY <1>7, <1>8, <2>2, <3>1 DEF Unused
    <3>4. OpenIn(heap, p)
      BY <1>1, <1>12, <3>2, <3>3, UnusedUndecided
    <3>5. OpenIn(r, p)
      BY <1>10, <3>2, <3>4 DEF OpenIn, Uneventful, SameFate
    <3> QED
      BY <2>2, <3>1, <3>2, <3>5, DecisionMoves
  <2> QED
    BY <1>11, <2>1, <2>2 DEF Calls
<1>14. ASSUME NEW q \in Created(heap)
       PROVE  Moves(heap, f, q)
  BY <1>1, <1>10, <1>13, <1>14, MovesAround, NothingHappens, CreatedIsPromise
<1> QED
  BY <1>4, <1>14 DEF MovesAll

LEMMA AdoptionJobMoves ==
  ASSUME ~ TRACING, Inv, Continuations, KeptApart, OneFate(heap'), RunAdoption
  PROVE  MovesAll(heap, heap')
<1>1. HeapOK(heap) /\ Single(heap) /\ AdoptionsOK(heap) /\ OneFate(heap)
  BY FatesAreOne DEF Inv, TypeOK, SingleResolver
<1>2. PICK r : r = Rest
  OBVIOUS
<1>3. PICK job : job = Polled
  OBVIOUS
<1>4. PICK f : f = heap'
  OBVIOUS
<1>5. PICK k : k = job.cap
  OBVIOUS
<1>6. PICK l : l = job.fn
  OBVIOUS
<1>7. PICK g : g = PassOn(r, l, job.outcome, job.argument)
  OBVIOUS
<1> DEFINE x == [kind |-> "value", ref |-> k]
<1>8. /\ Poll("reaction") /\ job.handler = "resolving"
      /\ f = ResolveFunction(g, k, x) /\ OneFate(f)
  BY <1>2, <1>3, <1>4, <1>5, <1>6, <1>7 DEF RunAdoption
<1>9. /\ HeapOK(r) /\ Single(r) /\ SameNames(r, heap) /\ ~ r.error
      /\ Made(r) = Made(heap) /\ r.resolved = heap.resolved
      /\ job \in Job /\ JobOK(r, job) /\ job.type = "reaction"
  BY <1>2, <1>3, <1>8, PolledRest
<1>10. PICK n \in DOMAIN heap.queue :
         job = heap.queue[n] /\ r = [heap EXCEPT !.queue = RemoveAt(@, n)]
  BY <1>2, <1>3, <1>8, PolledRest
<1>11. /\ k \in Made(r) /\ k \in Pair /\ l \in Made(r)
       /\ job.argument \in Pair /\ job.outcome \in Outcome
  BY <1>5, <1>6, <1>8, <1>9, ReactionJobHolds
<1>12. PICK p : p = heap.target[l]
  OBVIOUS
<1>13. p \in Promise /\ r.target = heap.target
  BY <1>1, <1>9, <1>10, <1>11, <1>12, PollForgets, CreatedIsPromise DEF HeapOK
<1>14. Gives(heap, job, p, job.outcome, job.argument)
  BY <1>6, <1>8, <1>9, <1>12 DEF Gives
<1>15. Gets(heap, p, job.outcome, job.argument) /\ Adopter(heap, l)
  BY <1>6, <1>8, <1>9, <1>10, <1>14 DEF Gets, Adopter, Jobs
<1>16. l \notin heap.resolved
  BY <1>1, <1>15 DEF AdoptionsOK
<1>17. ASSUME NEW q \in Promise, q # p
       PROVE  SameFate(heap, r, q)
  <2>1. /\ \A s \in Promise : ~ Locks(job, q, s)
        /\ \A o, v : ~ Gives(heap, job, q, o, v)
    BY <1>6, <1>9, <1>12, <1>17 DEF Locks, Adopts, Gives
  <2> QED
    BY <1>1, <1>10, <2>1, PollForgets
<1>18. Settles(r, g, p, job.outcome, job.argument)
  <2>1. Usable(r, l)
    BY <1>9, <1>16 DEF Usable
  <2> QED
    BY <1>7, <1>9, <1>11, <1>12, <1>13, <2>1, PassOnCalls
<1>19. /\ HeapOK(g) /\ Single(g) /\ SameNames(g, r) /\ Uses(r, g, l)
  BY <1>7, <1>9, <1>11, PassOnOK, PassOnKeeps
<1>20. k \in Made(g) /\ ResolvesWith(g, x)
  BY <1>11, <1>19, SameNamesSameSets DEF ResolvesWith, Resolution
<1> HIDE DEF x
<1>21. Calls(g, f, k)
  BY <1>8, <1>19, <1>20, ResolveCalls
<1>22. \/ Uneventful(g, f)
       \/ \E s \in Promise \ {p} : OpenIn(heap, s) /\ Decides(g, f, s)
  <2>1. CASE g.error
    <3>1. f = g
      BY <1>8, <2>1 DEF ResolveFunction, Usable
    <3> QED
      BY <3>1, NothingHappens
  <2>2. CASE Uneventful(g, f)
    BY <2>2
  <2>3. CASE ~ g.error /\ k \in Unused(g, g.target[k]) /\ Decides(g, f, g.target[k])
    <3>1. PICK s : s = g.target[k]
      OBVIOUS
    <3>2. g.target = heap.target
      BY <1>13, <1>19 DEF SameNames
    <3>3. s \in Promise
      BY <1>19, <1>20, <3>1, CreatedIsPromise DEF HeapOK
    <3>4. k \notin g.resolved /\ k # l
      BY <1>19, <2>3 DEF Unused, Uses
    <3>5. k \in Unused(heap, s) /\ l \in Unused(heap, p)
      BY <1>9, <1>11, <1>12, <1>16, <1>19, <3>1, <3>2, <3>4 DEF Unused, Uses
    <3>6. s # p
      BY <1>1, <1>13, <3>4, <3>5 DEF Single
    <3>7. ~ Adopter(heap, k)
      BY <1>3, <1>5, <1>6, <1>8, <1>9, <1>11, <3>4, PolledOnce DEF Holds
    <3>8. OpenIn(heap, s)
      BY <1>1, <3>3, <3>5, <3>7, UnusedUndecided
    <3> QED
      BY <2>3, <3>1, <3>3, <3>6, <3>8
  <2> QED
    BY <1>21, <2>1, <2>2, <2>3 DEF Calls
<1>23. ASSUME NEW q \in Created(heap)
       PROVE  Moves(heap, f, q)
  <2>1. q \in Promise
    BY <1>1, CreatedIsPromise
  <2> QED
    BY <1>1, <1>8, <1>11, <1>13, <1>15, <1>17, <1>18, <1>22, <2>1, AdoptionMoves
<1> QED
  BY <1>4, <1>23 DEF MovesAll

LEMMA AdoptJobMoves ==
  ASSUME ~ TRACING, Inv, Continuations, KeptApart, OneFate(heap'), RunAdopt
  PROVE  MovesAll(heap, heap')
<1>1. HeapOK(heap) /\ heap \in Heap /\ OneFate(heap)
  BY FatesAreOne DEF Inv, TypeOK, HeapOK
<1>2. PICK r : r = Rest
  OBVIOUS
<1>3. PICK job : job = Polled
  OBVIOUS
<1>4. PICK f : f = heap'
  OBVIOUS
<1>5. PICK m : m = CreateResolvingFunctions(r, job.promise)
  OBVIOUS
<1>6. PICK u : u = NewPromise(m)
  OBVIOUS
<1>7. PICK p : p = job.promise
  OBVIOUS
<1>8. PICK q : q = job.thenable
  OBVIOUS
<1> DEFINE reaction == Adopting(u.pairs, m.pairs)
<1>9. /\ Poll("thenable") /\ q # None
      /\ heap.promises < MaxPromises /\ heap.pairs + 1 < MaxPairs
      /\ f = PerformPromiseThen(u, q, Adopting(u.pairs, heap.pairs + 1))
      /\ OneFate(f)
  BY <1>2, <1>3, <1>4, <1>5, <1>6, <1>8 DEF RunAdopt
<1>10. /\ HeapOK(r) /\ r \in Heap /\ SameNames(r, heap)
       /\ Made(r) = Made(heap) /\ Created(r) = Created(heap) /\ ~ r.error
       /\ job \in Job /\ JobOK(r, job) /\ job.type = "thenable"
  BY <1>2, <1>3, <1>9, PolledRest
<1>11. PICK n \in DOMAIN heap.queue :
         job = heap.queue[n] /\ r = [heap EXCEPT !.queue = RemoveAt(@, n)]
  BY <1>2, <1>3, <1>9, PolledRest
<1>12. /\ r.pairs = heap.pairs /\ r.promises = heap.promises
       /\ p \in Created(r) /\ q \in Created(r) /\ p \in Promise /\ q \in Promise
  <2>1. p \in Created(r) /\ q \in Created(r)
    BY <1>7, <1>8, <1>9, <1>10 DEF JobOK
  <2> QED
    BY <1>10, <2>1, CreatedIsPromise DEF SameNames
<1>13. /\ HeapOK(m) /\ HeapOK(u)
       /\ SameContinuations(u, m) /\ SameContinuations(m, r)
       /\ r.pairs < MaxPairs /\ m.promises < MaxPromises /\ m.pairs < MaxPairs
       /\ m.pairs = heap.pairs + 1 /\ u.pairs = m.pairs + 1
       /\ q \in Created(u) /\ m.pairs \in Made(u) /\ u.pairs \in Made(u)
  BY <1>1, <1>5, <1>6, <1>7, <1>9, <1>10, <1>12, AdoptPrepares
<1>14. u.target[m.pairs] = p
  <2>1. /\ m.pairs \in Pair /\ m.pairs \in Int /\ u.pairs \in Int
        /\ m.pairs = r.pairs + 1 /\ m \in Heap
    BY <1>12, <1>13, CreatedIsPromise DEF HeapOK, Made, Pair
  <2>2. m.target[m.pairs] = p
    BY <1>5, <1>7, <1>10, <2>1 DEF CreateResolvingFunctions, Heap
  <2>3. m.pairs # m.pairs + 1
    BY <2>1
  <2>4. u.target = [m.target EXCEPT ![m.pairs + 1] = m.promises + 1]
    BY <1>6, <2>1 DEF NewPromise, CreateResolvingFunctions, Heap
  <2>5. m.target \in [Pair -> Promise \cup {None}]
    BY <2>1 DEF Heap
  <2> QED
    BY <2>1, <2>2, <2>3, <2>4, <2>5
<1>15. f = PerformPromiseThen(u, q, reaction)
  BY <1>9, <1>13
<1>16. reaction \in Reaction /\ ReactionOK(u, reaction)
  <2>1. /\ u.pairs \in Pair /\ u.pairs # None /\ m.pairs \in Pair /\ m.pairs # None
    BY <1>13, CreatedIsPromise DEF Pair, None
  <2> QED
    BY <1>13, <2>1 DEF Adopting, Reaction, Handler, ReactionOK
<1>17. reaction.onFulfilled = "resolving" /\ reaction.fn = m.pairs
  BY DEF Adopting
<1> HIDE DEF reaction
<1>18. ~ u.error
  BY <1>10, <1>13 DEF SameContinuations
<1>19. /\ \A s \in Promise : s # p => SameFate(u, f, s)
       /\ f.state = u.state /\ f.result = u.result
       /\ u.state[q] = "pending" => WaitsFor(f, p, q)
       /\ u.state[q] # "pending" => Gets(f, p, u.state[q], u.result[q])
  BY <1>13, <1>14, <1>15, <1>16, <1>17, <1>18, ThenAdopts
<1>20. WaitsFor(heap, p, q)
  <2>1. Locks(job, p, q)
    BY <1>7, <1>8, <1>10 DEF Locks, Adopts
  <2> QED
    BY <1>11, <2>1 DEF WaitsFor, Jobs
<1>21. ASSUME NEW s \in Promise, s # p
       PROVE  SameFate(heap, r, s)
  <2>1. /\ \A t \in Promise : ~ Locks(job, s, t)
        /\ \A o, v : ~ Gives(heap, job, s, o, v)
    BY <1>7, <1>10, <1>21 DEF Locks, Adopts, Gives
  <2> QED
    BY <1>1, <1>11, <2>1, PollForgets
<1>22. r.state = heap.state /\ r.result = heap.result
  BY <1>1, <1>11 DEF Heap
<1>23. Uneventful(r, u)
  <2>1. Uneventful(r, m)
    BY <1>5, <1>7, <1>10, <1>12, <1>13, CreateUneventful
  <2>2. Uneventful(m, u)
    BY <1>6, <1>13, CreateUneventful
  <2> QED
    BY <2>1, <2>2, UneventfulTwice
<1>24. ASSUME NEW s \in Created(heap)
       PROVE  Moves(heap, f, s)
  <2>1. s \in Promise
    BY <1>1, CreatedIsPromise
  <2> QED
    BY <1>1, <1>9, <1>12, <1>19, <1>20, <1>21, <1>22, <1>23, <2>1, AdoptMoves
<1> QED
  BY <1>4, <1>24 DEF MovesAll

LEMMA LoopMoves ==
  ASSUME ~ TRACING, Inv, Continuations, KeptApart, OneFate(heap'), Loop
  PROVE  MovesAll(heap, heap')
<1>1. HeapOK(heap) /\ heap \in Heap
  BY DEF Inv, TypeOK, HeapOK
<1>2. PICK r : r = Rest
  OBVIOUS
<1>3. PICK job : job = Polled
  OBVIOUS
<1>4. PICK f : f = heap'
  OBVIOUS
<1>5. CASE LoopEnds \/ LoopFails
  <2>1. \E e : f = [heap EXCEPT !.error = e]
    BY <1>4, <1>5 DEF LoopEnds, LoopFails
  <2> QED
    BY <1>1, <1>4, <2>1, ErrorUneventful, UneventfulMovesAll
<1>6. CASE RunHandler \/ RunResume \/ RunMicrotask
  <2>1. PICK type \in {"reaction", "microtask"} :
          Poll(type) /\ f = r /\ (type = "reaction" => job.handler # "resolving")
    BY <1>2, <1>3, <1>4, <1>6 DEF RunHandler, RunResume, RunMicrotask
  <2>2. Uneventful(heap, r)
    BY <1>2, <1>3, <2>1, PollUneventful
  <2> QED
    BY <1>1, <1>4, <2>1, <2>2, UneventfulMovesAll
<1>7. CASE RunThen
  <2>1. /\ Poll("thenable") /\ job.thenable = None /\ heap.pairs < MaxPairs
        /\ f = CreateResolvingFunctions(r, job.promise)
    BY <1>2, <1>3, <1>4, <1>7 DEF RunThen
  <2>2. Uneventful(heap, r)
    BY <1>2, <1>3, <2>1, PollUneventful
  <2>3. HeapOK(r) /\ job.promise \in Created(r) /\ r.pairs < MaxPairs
    <3>1. HeapOK(r) /\ SameNames(r, heap) /\ JobOK(r, job) /\ job.type = "thenable"
      BY <1>2, <1>3, <2>1, PolledRest
    <3> QED
      BY <2>1, <3>1 DEF JobOK, SameNames
  <2>4. Uneventful(r, f)
    BY <2>1, <2>3, CreateUneventful
  <2> QED
    BY <1>1, <1>4, <2>2, <2>4, UneventfulTwice, UneventfulMovesAll
<1> QED
  BY <1>5, <1>6, <1>7, PassThroughMoves, AdoptionJobMoves, AdoptJobMoves DEF Loop

(* A promise that moves, or is created, does so as PromiseFates allows.    *)
LEMMA StepMoves ==
  ASSUME ~ TRACING, Inv, Continuations, KeptApart, OneFate(heap'), [Next]_vars
  PROVE  MovesAll(heap, heap')
<1>1. HeapOK(heap)
  BY DEF Inv, TypeOK
<1>2. CASE Embedder \/ UNCHANGED vars
  <2>1. heap' = heap
    BY <1>2 DEF Embedder, EnterBoundary, NodeCall, RunMicrotasks, vars
  <2> QED
    BY <1>1, <2>1, NothingHappens, UneventfulMovesAll
<1> QED
  BY <1>2, ProgramMoves, LeavesMove, LoopMoves DEF Next

(* Fate, as a function of the heap: it is what the lemmas about heaps say  *)
(* becomes of a promise.                                                   *)
LocksOf(h, p) == {q \in Promise : WaitsFor(h, p, q)}

GiversOf(h, p) == {i \in DOMAIN h.queue :
                     Gives(h, h.queue[i], p, h.queue[i].outcome, h.queue[i].argument)}

FateIn(h, p) ==
  CASE p \notin Created(h) -> [is |-> "absent"]
    [] h.state[p] # "pending" -> [is |-> "settled", outcome |-> h.state[p],
                                  value |-> h.result[p]]
    [] h.state[p] = "pending" /\ LocksOf(h, p) # {} ->
         [is |-> "locked", on |-> CHOOSE q \in LocksOf(h, p) : TRUE]
    [] /\ h.state[p] = "pending" /\ LocksOf(h, p) = {} /\ GiversOf(h, p) # {} ->
         LET job == h.queue[CHOOSE i \in GiversOf(h, p) : TRUE]
         IN  [is |-> "bound", outcome |-> job.outcome, value |-> job.argument]
    [] OTHER -> [is |-> "open"]

LEMMA FateIsFateIn ==
  ASSUME NEW p
  PROVE  Fate(p) = FateIn(heap, p)
<1>1. LockedOn(p) = LocksOf(heap, p)
  BY DEF LockedOn, LocksOf, WaitsFor, Jobs, Registered, Locks, Joins
<1>2. BoundBy(p) = GiversOf(heap, p)
  BY DEF BoundBy, GiversOf, Gives
<1> QED
  BY <1>1, <1>2 DEF Fate, FateIn, Settled

(* What FateIn says, one case for each kind of fate. *)
LEMMA FateCases ==
  ASSUME NEW h, HeapOK(h), OneFate(h), NEW p \in Promise
  PROVE  /\ p \notin Created(h) => FateIn(h, p) = Fates!Absent
         /\ h.state[p] # "pending" =>
              FateIn(h, p) = Fates!Settled(h.state[p], h.result[p])
         /\ \A q \in Promise : WaitsFor(h, p, q) => FateIn(h, p) = Fates!Locked(q)
         /\ \A o, v : Gets(h, p, o, v) => FateIn(h, p) = Fates!Bound(o, v)
         /\ p \in Created(h) /\ OpenIn(h, p) => FateIn(h, p) = Fates!Open
<1>1. h.state[p] # "pending" => p \in Created(h)
  BY DEF HeapOK
<1>2. ASSUME p \notin Created(h)
      PROVE  FateIn(h, p) = Fates!Absent
  <2>1. h.state[p] = "pending" /\ LocksOf(h, p) = {}
    BY <1>1, <1>2 DEF OneFate, LocksOf
  <2>2. GiversOf(h, p) = {}
    BY <1>2 DEF OneFate, GiversOf, Gets, Jobs
  <2> QED
    BY <1>2, <2>1, <2>2 DEF FateIn, Fates!Absent
<1>3. h.state[p] # "pending" =>
        FateIn(h, p) = Fates!Settled(h.state[p], h.result[p])
  BY <1>1 DEF FateIn, Fates!Settled
<1>4. ASSUME NEW q \in Promise, WaitsFor(h, p, q)
      PROVE  FateIn(h, p) = Fates!Locked(q)
  <2>1. /\ p \in Created(h) /\ h.state[p] = "pending"
        /\ LocksOf(h, p) = {q}
    BY <1>4 DEF OneFate, LocksOf
  <2>2. (CHOOSE s \in LocksOf(h, p) : TRUE) = q
    BY <2>1
  <2> QED
    BY <2>1, <2>2 DEF FateIn, Fates!Locked
<1>5. ASSUME NEW o, NEW v, Gets(h, p, o, v)
      PROVE  FateIn(h, p) = Fates!Bound(o, v)
  <2>1. /\ p \in Created(h) /\ h.state[p] = "pending" /\ LocksOf(h, p) = {}
        /\ \A x, y : Gets(h, p, x, y) => x = o /\ y = v
    BY <1>5 DEF OneFate, LocksOf
  <2>2. GiversOf(h, p) # {}
    <3>1. PICK i \in DOMAIN h.queue : Gives(h, h.queue[i], p, o, v)
      BY <1>5 DEF Gets, Jobs
    <3>2. i \in GiversOf(h, p)
      BY <3>1 DEF Gives, GiversOf
    <3> QED
      BY <3>2
  <2>3. PICK i : i = CHOOSE j \in GiversOf(h, p) : TRUE
    OBVIOUS
  <2>4. i \in GiversOf(h, p)
    BY <2>2, <2>3
  <2>5. Gets(h, p, h.queue[i].outcome, h.queue[i].argument)
    BY <2>4 DEF GiversOf, Gets, Jobs
  <2>6. h.queue[i].outcome = o /\ h.queue[i].argument = v
    BY <2>1, <2>5
  <2> QED
    BY <2>1, <2>2, <2>3, <2>6 DEF FateIn, Fates!Bound
<1>6. ASSUME p \in Created(h), OpenIn(h, p)
      PROVE  FateIn(h, p) = Fates!Open
  <2>1. h.state[p] = "pending" /\ LocksOf(h, p) = {}
    BY <1>6 DEF OpenIn, LocksOf
  <2>2. GiversOf(h, p) = {}
    BY <1>6 DEF OpenIn, GiversOf, Gets, Jobs
  <2> QED
    BY <1>6, <2>1, <2>2 DEF FateIn, Fates!Open
<1> QED
  BY <1>2, <1>3, <1>4, <1>5, <1>6

(* A promise that was created has one of four. *)
LEMMA FateKnown ==
  ASSUME NEW h, NEW p
  PROVE  \/ h.state[p] # "pending"
         \/ \E q \in Promise : WaitsFor(h, p, q)
         \/ \E o, v : Gets(h, p, o, v)
         \/ OpenIn(h, p)
BY DEF OpenIn

LEMMA CreatedIsNotAbsent ==
  ASSUME NEW h, HeapOK(h), OneFate(h), NEW p \in Created(h)
  PROVE  FateIn(h, p) # Fates!Absent
<1>1. p \in Promise
  BY CreatedIsPromise
<1>2. \/ \E o, v : FateIn(h, p) = Fates!Settled(o, v)
      \/ \E q : FateIn(h, p) = Fates!Locked(q)
      \/ \E o, v : FateIn(h, p) = Fates!Bound(o, v)
      \/ FateIn(h, p) = Fates!Open
  <2>1. CASE h.state[p] # "pending"
    BY <1>1, <2>1, FateCases
  <2>2. ASSUME NEW q \in Promise, WaitsFor(h, p, q)
        PROVE  FateIn(h, p) = Fates!Locked(q)
    BY <1>1, <2>2, FateCases
  <2>3. ASSUME NEW o, NEW v, Gets(h, p, o, v)
        PROVE  FateIn(h, p) = Fates!Bound(o, v)
    BY <1>1, <2>3, FateCases
  <2>4. CASE OpenIn(h, p)
    BY <1>1, <2>4, FateCases
  <2> QED
    BY <2>1, <2>2, <2>3, <2>4, FateKnown
<1> QED
  BY <1>2 DEF Fates!Settled, Fates!Locked, Fates!Bound, Fates!Open, Fates!Absent

(* Where nothing becomes of a promise its fate stays. *)
LEMMA SameFateSame ==
  ASSUME NEW h, HeapOK(h), OneFate(h), NEW g, HeapOK(g), OneFate(g),
         NEW p \in Created(h), p \in Created(g), SameFate(h, g, p)
  PROVE  FateIn(g, p) = FateIn(h, p)
<1>1. p \in Promise
  BY CreatedIsPromise
<1>2. CASE h.state[p] # "pending"
  BY <1>1, <1>2, FateCases DEF SameFate
<1>3. ASSUME NEW q \in Promise, WaitsFor(h, p, q)
      PROVE  FateIn(g, p) = FateIn(h, p)
  BY <1>1, <1>3, FateCases DEF SameFate
<1>4. ASSUME NEW o, NEW v, Gets(h, p, o, v)
      PROVE  FateIn(g, p) = FateIn(h, p)
  BY <1>1, <1>4, FateCases DEF SameFate
<1>5. CASE OpenIn(h, p)
  <2>1. OpenIn(g, p)
    BY <1>5 DEF OpenIn, SameFate
  <2> QED
    BY <1>1, <1>5, <2>1, FateCases
<1> QED
  BY <1>2, <1>3, <1>4, <1>5, FateKnown

(* What is settled has an outcome and a value. *)
LEMMA SettledOK ==
  ASSUME NEW h, HeapOK(h), NEW p \in Promise, h.state[p] # "pending"
  PROVE  h.state[p] \in Outcome /\ h.result[p] \in Pair
BY DEF HeapOK, Heap

(* No promise disappears. *)
LEMMA NewPromiseStays ==
  ASSUME NEW h, HeapOK(h), NEW g, SameNames(g, NewPromise(h))
  PROVE  Created(h) \subseteq Created(g)
<1>1. NewPromise(h).promises = h.promises + 1 /\ h.promises \in Nat
  BY DEF HeapOK, Heap, NewPromise, CreateResolvingFunctions
<1> QED
  BY <1>1 DEF SameNames, Created

LEMMA SameNamesStay ==
  ASSUME NEW h, NEW g, SameNames(g, h)
  PROVE  Created(h) \subseteq Created(g)
BY DEF SameNames, Created

LEMMA ProgramKeepsCreated ==
  ASSUME Inv, Program
  PROVE  Created(heap) \subseteq Created(heap')
<1>1. /\ TypeOK /\ HeapOK(heap) /\ heap \in Heap
      /\ visible \subseteq Created(heap) /\ exposed \subseteq Made(heap)
  BY DEF Inv, TypeOK, HeapOK
<1>2. ASSUME Room(1, 1)
      PROVE  heap.promises < MaxPromises /\ heap.pairs < MaxPairs
  <2>1. heap.promises + 1 <= MaxPromises /\ heap.pairs + 1 <= MaxPairs
    BY <1>1, <1>2, RoomOK
  <2>2. heap.promises \in Nat /\ heap.pairs \in Nat
    BY <1>1 DEF HeapOK, Heap
  <2> QED
    BY <2>1, <2>2, BoundsAssumption
<1>3. PICK g : g = heap'
  OBVIOUS
<1>4. CASE CreatePromise \/ CallAsync
  <2>1. g = NewPromise(heap) /\ Room(1, 1)
    BY <1>3, <1>4 DEF CreatePromise, CallAsync
  <2>2. Created(heap) \subseteq Created(g)
    BY <1>1, <1>2, <2>1, NewPromiseGrows
  <2> QED
    BY <1>3, <2>2
<1>5. CASE EnqueueMicrotask
  <2>1. g = Enqueue(heap, <<[type |-> "microtask"]>>)
    BY <1>3, <1>5 DEF EnqueueMicrotask
  <2>2. SameNames(g, heap)
    BY <1>1, <2>1, EnqueueMicrotaskOK
  <2> QED
    BY <1>3, <2>2, SameNamesStay
<1>6. ASSUME NEW k \in Pair, CallResolve(k) \/ CallReject(k)
      PROVE  Created(heap) \subseteq Created(heap')
  <2>1. k \in Made(heap)
    BY <1>1, <1>6 DEF CallResolve, CallReject
  <2>2. SameNames(g, heap)
    <3>1. CASE CallReject(k)
      <4>1. g = RejectFunction(heap, k, k)
        BY <1>3, <3>1 DEF CallReject
      <4> QED
        BY <1>1, <2>1, <4>1, RejectFunctionOK
    <3>2. CASE CallResolve(k)
      <4>1. PICK x \in Resolutions(k) : g = ResolveFunction(heap, k, x)
        BY <1>3, <3>2 DEF CallResolve
      <4>2. ResolvesWith(heap, x)
        BY <1>1, <2>1, ResolutionsOK
      <4> QED
        BY <1>1, <2>1, <4>1, <4>2, ResolveFunctionOK
    <3> QED
      BY <1>6, <3>1, <3>2
  <2> QED
    BY <1>3, <2>2, SameNamesStay
<1>7. ASSUME NEW p \in Promise, NEW f \in {"none", "user"},
             NEW r \in {"none", "user"}, CallThen(p, f, r)
      PROVE  Created(heap) \subseteq Created(heap')
  <2>1. PICK n : n = NewPromise(heap)
    OBVIOUS
  <2> DEFINE reaction == [cap |-> n.pairs, fn |-> None,
                          onFulfilled |-> f, onRejected |-> r]
  <2>2. /\ Room(1, 1) /\ p \in visible
        /\ g = PerformPromiseThen(n, p, reaction)
    BY <1>3, <1>7, <2>1 DEF CallThen
  <2>3. /\ HeapOK(n) /\ n.pairs \in Made(n) /\ Created(heap) \subseteq Created(n)
    BY <1>1, <1>2, <2>1, <2>2, NewPromiseOK, NewPromiseGrows
  <2>4. reaction \in Reaction /\ ReactionOK(n, reaction)
    <3>1. n.pairs \in Pair /\ n.pairs # None
      BY <2>3, CreatedIsPromise DEF Pair, None
    <3> QED
      BY <2>3, <3>1 DEF Reaction, Handler, ReactionOK
  <2>5. p \in Created(n)
    BY <1>1, <2>2, <2>3
  <2> HIDE DEF reaction
  <2>6. SameNames(g, n)
    BY <2>2, <2>3, <2>4, <2>5, PerformPromiseThenOK
  <2> QED
    BY <1>1, <1>3, <2>1, <2>6, NewPromiseStays
<1> QED
  BY <1>4, <1>5, <1>6, <1>7 DEF Program

LEMMA LeavesKeepCreated ==
  ASSUME Inv, Leaves
  PROVE  Created(heap) \subseteq Created(heap')
<1>1. /\ TypeOK /\ HeapOK(heap) /\ heap \in Heap
      /\ StackOK(stack, heap) /\ visible \subseteq Created(heap)
  BY DEF Inv, TypeOK, HeapOK
<1>2. PICK f : f = heap'
  OBVIOUS
<1>3. CASE ExitOutermost \/ ExitNested \/ Return \/ MicrotaskThrows \/ Unwind
  <2>1. f = heap \/ \E e : f = [heap EXCEPT !.error = e]
    BY <1>2, <1>3 DEF ExitOutermost, ExitNested, Return, MicrotaskThrows, Unwind
  <2>2. SameNames(f, heap)
    BY <1>1, <2>1 DEF SameNames, Heap
  <2> QED
    BY <1>2, <2>2, SameNamesStay
<1>4. PICK k : k = Head(stack).pair
  OBVIOUS
<1>5. CASE ReturnResult \/ Throw
  <2>1. stack # <<>> /\ Head(stack).kind \in {"handler", "async", "then"}
    BY <1>5 DEF ReturnResult, Throw, Top
  <2>2. k \in Made(heap) /\ k \in Pair
    BY <1>1, <1>4, <2>1, PopOK, CreatedIsPromise
  <2>3. SameNames(f, heap)
    <3>1. CASE Throw
      <4>1. f = RejectFunction(heap, k, k)
        BY <1>2, <1>4, <3>1 DEF Throw
      <4> QED
        BY <1>1, <2>2, <4>1, RejectFunctionOK
    <3>2. CASE ReturnResult
      <4>1. PICK x \in Resolutions(k) : f = ResolveFunction(heap, k, x)
        BY <1>2, <1>4, <3>2 DEF ReturnResult
      <4>2. ResolvesWith(heap, x)
        BY <1>1, <2>2, ResolutionsOK
      <4> QED
        BY <1>1, <2>2, <4>1, <4>2, ResolveFunctionOK
    <3> QED
      BY <1>5, <3>1, <3>2
  <2> QED
    BY <1>2, <2>3, SameNamesStay
<1>6. ASSUME NEW x \in Awaitable, Await(x)
      PROVE  Created(heap) \subseteq Created(heap')
  <2> DEFINE l == heap.pairs + 1
             p == IF x.kind = "promise" THEN x.ref ELSE heap.promises + 1
             g == IF x.kind = "promise" THEN heap
                  ELSE ResolveFunction(NewPromise(heap), l, x)
             reaction == [cap |-> None, fn |-> k,
                          onFulfilled |-> "resume", onRejected |-> "resume"]
  <2>1. /\ stack # <<>> /\ Head(stack).kind = "async"
        /\ x.kind # "promise" => Room(1, 1)
        /\ f = PerformPromiseThen(g, p, reaction)
    BY <1>2, <1>4, <1>6 DEF Await, Top
  <2>2. k \in Made(heap) /\ k \in Pair /\ k # None
    <3>1. k \in Made(heap) /\ k \in Pair
      BY <1>1, <1>4, <2>1, PopOK, CreatedIsPromise
    <3> QED
      BY <3>1 DEF Pair, None
  <2>3. ASSUME HeapOK(g), p \in Created(g), Made(heap) \subseteq Made(g)
        PROVE  SameNames(f, g)
    <3> HIDE DEF g, p
    <3>1. reaction \in Reaction /\ ReactionOK(g, reaction)
      BY <2>2, <2>3 DEF Reaction, Handler, ReactionOK
    <3> HIDE DEF reaction
    <3> QED
      BY <2>1, <2>3, <3>1, PerformPromiseThenOK
  <2>4. CASE x.kind = "promise"
    <3>1. x.ref \in visible
      BY <2>4 DEF Awaitable
    <3>2. g = heap /\ p = x.ref
      BY <2>4
    <3>3. SameNames(f, heap)
      BY <1>1, <2>3, <3>1, <3>2
    <3> QED
      BY <1>2, <3>3, SameNamesStay
  <2>5. CASE x.kind # "promise"
    <3>1. PICK n : n = NewPromise(heap)
      OBVIOUS
    <3>2. heap.promises < MaxPromises /\ heap.pairs < MaxPairs
      <4>1. heap.promises + 1 <= MaxPromises /\ heap.pairs + 1 <= MaxPairs
        BY <1>1, <2>1, <2>5, RoomOK
      <4>2. heap.promises \in Nat /\ heap.pairs \in Nat
        BY <1>1 DEF HeapOK, Heap
      <4> QED
        BY <4>1, <4>2, BoundsAssumption
    <3>3. /\ HeapOK(n) /\ n.pairs = l
          /\ heap.promises + 1 \in Created(n) /\ l \in Made(n)
          /\ Made(heap) \subseteq Made(n)
      BY <1>1, <3>1, <3>2, NewPromiseOK, NewPromiseGrows
    <3>4. ResolvesWith(n, x)
      <4>1. l \in Pair
        BY <3>3, CreatedIsPromise
      <4> QED
        BY <2>5, <4>1 DEF Awaitable, ResolvesWith, Resolution
    <3>5. g = ResolveFunction(n, l, x) /\ p = heap.promises + 1
      BY <2>5, <3>1
    <3> HIDE DEF g, p
    <3>6. HeapOK(g) /\ SameNames(g, n)
      BY <3>3, <3>4, <3>5, ResolveFunctionOK
    <3>7. Created(g) = Created(n) /\ Made(g) = Made(n)
      BY <3>6, SameNamesSameSets
    <3>8. SameNames(f, n)
      BY <2>3, <3>3, <3>5, <3>6, <3>7 DEF SameNames
    <3> QED
      BY <1>1, <1>2, <3>1, <3>8, NewPromiseStays
  <2> QED
    BY <2>4, <2>5
<1> QED
  BY <1>3, <1>5, <1>6 DEF Leaves

LEMMA LoopKeepsCreated ==
  ASSUME Inv, Loop
  PROVE  Created(heap) \subseteq Created(heap')
<1>1. HeapOK(heap) /\ heap \in Heap
  BY DEF Inv, TypeOK, HeapOK
<1>2. PICK r : r = Rest
  OBVIOUS
<1>3. PICK job : job = Polled
  OBVIOUS
<1>4. PICK f : f = heap'
  OBVIOUS
<1>5. ASSUME NEW type, Poll(type)
      PROVE  /\ HeapOK(r) /\ SameNames(r, heap)
             /\ Made(r) = Made(heap) /\ Created(r) = Created(heap)
             /\ job \in Job /\ JobOK(r, job) /\ job.type = type
  BY <1>2, <1>3, <1>5, PolledRest
<1>6. CASE LoopEnds \/ LoopFails
  <2>1. \E e : f = [heap EXCEPT !.error = e]
    BY <1>4, <1>6 DEF LoopEnds, LoopFails
  <2>2. SameNames(f, heap)
    BY <1>1, <2>1 DEF SameNames, Heap
  <2> QED
    BY <1>4, <2>2, SameNamesStay
<1>7. CASE RunHandler \/ RunResume \/ RunMicrotask
  <2>1. f = r /\ (Poll("reaction") \/ Poll("microtask"))
    BY <1>2, <1>4, <1>7 DEF RunHandler, RunResume, RunMicrotask
  <2> QED
    BY <1>4, <1>5, <2>1
<1>8. CASE RunPassThrough
  <2>1. /\ Poll("reaction") /\ job.handler = "none"
        /\ f = PassOn(r, job.cap, job.outcome, job.argument)
    BY <1>2, <1>3, <1>4, <1>8 DEF RunPassThrough
  <2>2. HeapOK(r) /\ job.cap \in Made(r) /\ job.argument \in Pair
    BY <1>5, <2>1, ReactionJobHolds
  <2>3. SameNames(f, r)
    BY <2>1, <2>2, PassOnOK
  <2> QED
    BY <1>4, <1>5, <2>1, <2>3, SameNamesStay
<1>9. CASE RunAdoption
  <2> DEFINE x == [kind |-> "value", ref |-> job.cap]
  <2>1. PICK g : g = PassOn(r, job.fn, job.outcome, job.argument)
    OBVIOUS
  <2>2. /\ Poll("reaction") /\ job.handler = "resolving"
        /\ f = ResolveFunction(g, job.cap, x)
    BY <1>2, <1>3, <1>4, <1>9, <2>1 DEF RunAdoption
  <2>3. /\ HeapOK(r) /\ job.fn \in Made(r) /\ job.argument \in Pair
        /\ job.cap \in Made(r) /\ job.cap \in Pair
    BY <1>5, <2>2, ReactionJobHolds
  <2>4. HeapOK(g) /\ SameNames(g, r)
    BY <2>1, <2>3, PassOnOK
  <2>5. job.cap \in Made(g) /\ ResolvesWith(g, x)
    BY <2>3, <2>4, SameNamesSameSets DEF ResolvesWith, Resolution
  <2> HIDE DEF x
  <2>6. SameNames(f, g)
    BY <2>2, <2>4, <2>5, ResolveFunctionOK
  <2> QED
    BY <1>4, <1>5, <2>2, <2>4, <2>6, SameNamesSameSets
<1>10. CASE RunThen
  <2>1. Poll("thenable") /\ f = CreateResolvingFunctions(r, job.promise)
    BY <1>2, <1>3, <1>4, <1>10 DEF RunThen
  <2>2. f.promises = r.promises
    BY <1>5, <2>1 DEF CreateResolvingFunctions, HeapOK, Heap
  <2> QED
    BY <1>4, <1>5, <2>1, <2>2 DEF Created
<1>11. CASE RunAdopt
  <2>1. PICK m : m = CreateResolvingFunctions(r, job.promise)
    OBVIOUS
  <2>2. PICK g : g = NewPromise(m)
    OBVIOUS
  <2> DEFINE reaction == Adopting(g.pairs, m.pairs)
  <2>3. /\ Poll("thenable") /\ job.thenable # None
        /\ heap.promises < MaxPromises /\ heap.pairs + 1 < MaxPairs
        /\ f = PerformPromiseThen(g, job.thenable, Adopting(g.pairs, heap.pairs + 1))
    BY <1>2, <1>3, <1>4, <1>11, <2>1, <2>2 DEF RunAdopt
  <2>4. /\ HeapOK(r) /\ Made(r) = Made(heap) /\ Created(r) = Created(heap)
        /\ r.pairs = heap.pairs /\ r.promises = heap.promises
        /\ job.promise \in Created(r) /\ job.thenable \in Created(r)
    BY <1>5, <2>3 DEF JobOK, SameNames
  <2>5. /\ HeapOK(m) /\ HeapOK(g) /\ m.pairs = heap.pairs + 1
        /\ job.thenable \in Created(g)
        /\ m.pairs \in Made(g) /\ g.pairs \in Made(g)
    BY <1>1, <2>1, <2>2, <2>3, <2>4, AdoptPrepares
  <2>6. reaction \in Reaction /\ ReactionOK(g, reaction)
    <3>1. /\ g.pairs \in Pair /\ g.pairs # None /\ g.pairs \in Made(g)
          /\ m.pairs \in Made(g) /\ m.pairs \in Pair /\ m.pairs # None
      BY <2>5, CreatedIsPromise DEF Pair, None
    <3> QED
      BY <3>1 DEF Adopting, Reaction, Handler, ReactionOK
  <2>7. f = PerformPromiseThen(g, job.thenable, reaction)
    BY <2>3, <2>5
  <2> HIDE DEF reaction
  <2>8. SameNames(f, g)
    BY <2>5, <2>6, <2>7, PerformPromiseThenOK
  <2>9. Created(m) \subseteq Created(f)
    BY <2>2, <2>5, <2>8, NewPromiseStays
  <2>10. Created(m) = Created(r)
    BY <2>1, <2>4 DEF CreateResolvingFunctions, HeapOK, Heap, Created
  <2> QED
    BY <1>4, <2>4, <2>9, <2>10
<1> QED
  BY <1>6, <1>7, <1>8, <1>9, <1>10, <1>11 DEF Loop

(* Each promise takes a step of PromiseFates, or none. *)
LEMMA MoveIsAllowed ==
  ASSUME NEW h, HeapOK(h), OneFate(h), NEW g, HeapOK(g), OneFate(g),
         Created(h) \subseteq Created(g), MovesAll(h, g), NEW p \in Promise,
         NEW before, before = [q \in Promise |-> FateIn(h, q)],
         NEW after, after = [q \in Promise |-> FateIn(g, q)]
  PROVE  \/ after[p] = before[p]
         \/ before[p] = Fates!Absent /\ after[p] # Fates!Absent
         \/ /\ before[p] = Fates!Open
            /\ \E o \in Outcome, v \in Pair : after[p] = Fates!Settled(o, v)
         \/ /\ before[p] = Fates!Open
            /\ \E q \in Promise \ {p} : after[p] = Fates!Locked(q)
         \/ \E q \in Promise, o \in Outcome, v \in Pair :
              /\ before[p] = Fates!Locked(q)
              /\ after[q] = Fates!Settled(o, v)
              /\ after[p] = Fates!Bound(o, v)
         \/ \E o \in Outcome, v \in Pair :
              /\ before[p] = Fates!Bound(o, v)
              /\ after[p] = Fates!Settled(o, v)
<1>1. /\ before[p] = FateIn(h, p)
      /\ \A q \in Promise : after[q] = FateIn(g, q)
  OBVIOUS
<1>2. CASE p \notin Created(h)
  <2>1. before[p] = Fates!Absent
    BY <1>1, <1>2, FateCases
  <2>2. CASE p \in Created(g)
    BY <1>1, <2>1, <2>2, CreatedIsNotAbsent
  <2>3. CASE p \notin Created(g)
    BY <1>1, <2>1, <2>3, FateCases
  <2> QED
    BY <2>2, <2>3
<1>3. CASE p \in Created(h)
  <2>1. Moves(h, g, p) /\ p \in Created(g)
    BY <1>3 DEF MovesAll
  <2>2. CASE SameFate(h, g, p)
    BY <1>1, <1>3, <2>1, <2>2, SameFateSame
  <2>3. CASE OpenIn(h, p) /\ g.state[p] # "pending"
    <3>1. before[p] = Fates!Open
      BY <1>1, <1>3, <2>3, FateCases
    <3>2. after[p] = Fates!Settled(g.state[p], g.result[p])
      BY <1>1, <2>3, FateCases
    <3>3. g.state[p] \in Outcome /\ g.result[p] \in Pair
      BY <2>3, SettledOK
    <3> QED
      BY <3>1, <3>2, <3>3
  <2>4. ASSUME OpenIn(h, p), NEW q \in Promise \ {p}, WaitsFor(g, p, q)
        PROVE  before[p] = Fates!Open /\ after[p] = Fates!Locked(q)
    BY <1>1, <1>3, <2>4, FateCases
  <2>5. ASSUME NEW q \in Promise, NEW o, NEW v, WaitsFor(h, p, q),
               Gets(g, p, o, v), g.state[q] = o, g.result[q] = v
        PROVE  /\ o \in Outcome /\ v \in Pair
               /\ before[p] = Fates!Locked(q)
               /\ after[q] = Fates!Settled(o, v)
               /\ after[p] = Fates!Bound(o, v)
    <3>1. before[p] = Fates!Locked(q)
      BY <1>1, <2>5, FateCases
    <3>2. after[p] = Fates!Bound(o, v)
      BY <1>1, <2>5, FateCases
    <3>3. o \in Outcome /\ v \in Pair
      BY <2>5 DEF OneFate
    <3>4. g.state[q] # "pending"
      BY <2>5, <3>3 DEF Outcome
    <3>5. after[q] = Fates!Settled(o, v)
      BY <1>1, <2>5, <3>4, FateCases
    <3> QED
      BY <3>1, <3>2, <3>3, <3>5
  <2>6. ASSUME NEW o, NEW v, Gets(h, p, o, v), g.state[p] = o, g.result[p] = v
        PROVE  /\ o \in Outcome /\ v \in Pair
               /\ before[p] = Fates!Bound(o, v)
               /\ after[p] = Fates!Settled(o, v)
    <3>1. before[p] = Fates!Bound(o, v)
      BY <1>1, <2>6, FateCases
    <3>2. o \in Outcome /\ v \in Pair
      BY <2>6 DEF OneFate
    <3>3. g.state[p] # "pending"
      BY <2>6, <3>2 DEF Outcome
    <3>4. after[p] = Fates!Settled(o, v)
      BY <1>1, <2>6, <3>3, FateCases
    <3> QED
      BY <3>1, <3>2, <3>4
  <2>7. CASE OpenIn(h, p) /\ \E q \in Promise \ {p} : WaitsFor(g, p, q)
    BY <2>4, <2>7
  <2>8. CASE \E q \in Promise : \E o, v : WaitsFor(h, p, q) /\ Gets(g, p, o, v)
                                           /\ g.state[q] = o /\ g.result[q] = v
    <3>1. PICK q \in Promise : \E o, v : WaitsFor(h, p, q) /\ Gets(g, p, o, v)
                                         /\ g.state[q] = o /\ g.result[q] = v
      BY <2>8
    <3>2. PICK o, v : WaitsFor(h, p, q) /\ Gets(g, p, o, v)
                        /\ g.state[q] = o /\ g.result[q] = v
      BY <3>1
    <3> QED
      BY <2>5, <3>2
  <2>9. CASE \E o, v : Gets(h, p, o, v) /\ g.state[p] = o /\ g.result[p] = v
    <3>1. PICK o, v : Gets(h, p, o, v) /\ g.state[p] = o /\ g.result[p] = v
      BY <2>9
    <3> QED
      BY <2>6, <3>1
  <2> QED
    BY <2>1, <2>2, <2>3, <2>7, <2>8, <2>9 DEF Moves
<1> QED
  BY <1>2, <1>3

(* A state in which each promise has one fate. *)
FatesOne == Inv /\ Continuations /\ KeptApart /\ OneFate(heap)

LEMMA FatesOneAlways == Spec => []FatesOne
<1>1. Inv /\ Continuations /\ KeptApart => FatesOne
  BY FatesAreOne DEF FatesOne
<1> QED
  BY <1>1, InvAlways, ContinuationsAlways, ApartAlways, PTL

LEMMA InitFates == Init => Fates!Init
<1> SUFFICES ASSUME Init PROVE Fates!Init
  OBVIOUS
<1>1. /\ heap.promises = 0 /\ heap.queue = <<>> /\ DOMAIN heap.queue = {}
      /\ \A p \in Promise : heap.state[p] = "pending" /\ heap.reactions[p] = <<>>
  BY DEF Init, EmptyHeap
<1>2. ASSUME NEW p \in Promise
      PROVE  Fate(p) = Fates!Absent
  <2>1. p \notin Created(heap) /\ heap.state[p] = "pending"
    BY <1>1, <1>2 DEF Created
  <2>2. LocksOf(heap, p) = {} /\ GiversOf(heap, p) = {}
    BY <1>1 DEF LocksOf, GiversOf, WaitsFor, Jobs, Registered
  <2>3. FateIn(heap, p) = Fates!Absent
    BY <2>1, <2>2 DEF FateIn, Fates!Absent
  <2> QED
    BY <2>3, FateIsFateIn
<1> QED
  BY <1>2 DEF Fates!Init

LEMMA FateAfter ==
  ASSUME NEW p, NEW g, g = heap'
  PROVE  Fate(p)' = FateIn(g, p)
<1>1. LockedOn(p)' = LocksOf(g, p)
  BY DEF LockedOn, LocksOf, WaitsFor, Jobs, Registered, Locks, Joins, Adopts
<1>2. BoundBy(p)' = GiversOf(g, p)
  BY DEF BoundBy, GiversOf, Gives
<1> QED
  BY <1>1, <1>2 DEF Fate, FateIn, Settled

LEMMA NextFates ==
  ASSUME ~ TRACING, FatesOne, FatesOne', [Next]_vars
  PROVE  Fates!Next
<1>1. PICK g : g = heap'
  OBVIOUS
<1>2. /\ HeapOK(heap) /\ OneFate(heap) /\ HeapOK(g) /\ OneFate(g)
      /\ Inv /\ Continuations /\ KeptApart
  BY <1>1 DEF FatesOne, Inv, TypeOK
<1>3. MovesAll(heap, g)
  BY <1>1, <1>2, StepMoves
<1>4. Created(heap) \subseteq Created(g)
  <2>1. CASE Embedder \/ UNCHANGED vars
    BY <1>1, <2>1 DEF Embedder, EnterBoundary, NodeCall, RunMicrotasks, vars
  <2> QED
    BY <1>1, <1>2, <2>1, ProgramKeepsCreated, LeavesKeepCreated,
       LoopKeepsCreated DEF Next
<1>5. PICK before : before = [q \in Promise |-> FateIn(heap, q)]
  OBVIOUS
<1>6. PICK after : after = [q \in Promise |-> FateIn(g, q)]
  OBVIOUS
<1>7. [q \in Promise |-> Fate(q)] = before
  BY <1>5, FateIsFateIn
<1>8. [q \in Promise |-> Fate(q)]' = after
  BY <1>1, <1>6, FateAfter
<1>9. ASSUME NEW p \in Promise
      PROVE  \/ after[p] = before[p]
             \/ Fates!Create(p) \/ Fates!SettleOpen(p) \/ Fates!Lock(p)
             \/ Fates!Bind(p) \/ Fates!Adopt(p)
  BY <1>2, <1>3, <1>4, <1>5, <1>6, <1>7, <1>8, MoveIsAllowed
     DEF Fates!Create, Fates!SettleOpen, Fates!Lock, Fates!Bind, Fates!Adopt
<1> QED
  BY <1>7, <1>8, <1>9 DEF Fates!Next

(* In every behaviour that records nothing, whatever the program does and  *)
(* wherever an error of the replay stops it: a promise that is resolved    *)
(* with another takes the outcome of that one and no other, and what is    *)
(* settled stays so.                                                       *)
THEOREM PromisesKeepTheirFates == ~ TRACING => (Spec => ImplementsFates)
<1>1. ASSUME ~ TRACING
      PROVE  FatesOne /\ FatesOne' /\ [Next]_vars
               => [Fates!Next]_([p \in Promise |-> Fate(p)])
  BY <1>1, NextFates
<1>2. ASSUME ~ TRACING
      PROVE  Spec => ImplementsFates
  BY <1>1, <1>2, InitFates, FatesOneAlways, PTL
     DEF Spec, ImplementsFates, Fates!Spec
<1> QED
  BY <1>2
=============================================================================
