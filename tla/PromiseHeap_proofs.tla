------------------------- MODULE PromiseHeap_proofs -------------------------
(***************************************************************************)
(* Lemmas about the operations on heaps: each leaves a well-formed heap,   *)
(* keeps every continuation in at most one place, writes to the recording  *)
(* what it puts into the queue, in the same order, and settles or resolves *)
(* promises only as PromiseFates allows.                                   *)
(***************************************************************************)
EXTENDS PromiseHeap, SequenceLemmas, SequenceTheorems, TLAPS

(* What serialize lets through is a prefix of the jobs, and while tracing  *)
(* every one of them has an identifier.                                    *)
LEMMA SerializablePrefix ==
  ASSUME NEW S, NEW ids \in Seq(S)
  PROVE  /\ Serializable(ids) \in 0..Len(ids)
         /\ TRACING => \A i \in 1..Serializable(ids) : ids[i] # NoIdentifier
<1>1. CASE TRACING /\ \E i \in 1..Len(ids) : ids[i] = NoIdentifier
  <2> DEFINE I == {i \in 1..Len(ids) : ids[i] = NoIdentifier}
  <2>1. I \in SUBSET Nat /\ I # {}
    BY <1>1
  <2>2. Min(I) \in I /\ \A y \in I : Min(I) <= y
    BY <2>1, MinIsLeast
  <2>3. Serializable(ids) = Min(I) - 1
    BY <1>1, <2>1 DEF Serializable, SelectInSeq
  <2>4. Len(ids) \in Nat
    BY LenProperties
  <2>5. I \subseteq 1..Len(ids)
    OBVIOUS
  <2> HIDE DEF I
  <2> DEFINE m == Min(I)
  <2> HIDE DEF m
  <2>k. m \in I /\ \A y \in I : m <= y
    BY <2>2 DEF m
  <2>m. m \in 1..Len(ids) /\ m \in Int /\ \A y \in I : m <= y
    BY <2>k, <2>4, <2>5
  <2>n. Serializable(ids) = m - 1
    BY <2>3 DEF m
  <2>6. Serializable(ids) \in 0..Len(ids)
    BY <2>4, <2>m, <2>n
  <2>7. \A i \in 1..Serializable(ids) : i \in 1..Len(ids) /\ i \notin I
    BY <2>4, <2>5, <2>m, <2>n
  <2>8. \A i \in 1..Serializable(ids) : ids[i] # NoIdentifier
    BY <2>7 DEF I
  <2> QED
    BY <2>6, <2>8, Zenon
<1>2. CASE ~ (TRACING /\ \E i \in 1..Len(ids) : ids[i] = NoIdentifier)
  <2>1. Serializable(ids) = Len(ids)
    BY <1>2 DEF Serializable
  <2>2. Len(ids) \in Nat
    BY LenProperties
  <2>3. Serializable(ids) \in 0..Len(ids)
    BY <2>1, <2>2
  <2>4. TRACING => \A i \in 1..Serializable(ids) : ids[i] # NoIdentifier
    BY <2>1, <1>2, Zenon
  <2> QED
    BY <2>3, <2>4, Zenon
<1> QED
  BY <1>1, <1>2

-----------------------------------------------------------------------------
(* The identifier of a job is that of a pair, or none. *)
LEMMA IdentifierType ==
  ASSUME NEW job \in Job
  PROVE  Identifier(job) \in Pair \cup {NoIdentifier}
BY DEF Identifier, Job, ReactionJob, ThenableJob, Microtask, NoIdentifier, None

(* What is enqueued goes behind the jobs of the queue, which stay. *)
LEMMA EnqueueAppends ==
  ASSUME NEW h \in Heap, NEW jobs \in Seq(Job)
  PROVE  LET g == Enqueue(h, jobs)
             n == Serializable(Identifiers(jobs))
         IN  /\ n \in 0..Len(jobs)
             /\ (g.error <=> n < Len(jobs))
             /\ Len(h.queue) \in Nat
             /\ DOMAIN h.queue = 1..Len(h.queue)
             /\ DOMAIN g.queue = 1..(Len(h.queue) + n)
             /\ \A i \in 1..Len(h.queue) : g.queue[i] = h.queue[i]
             /\ \A i \in 1..n : g.queue[Len(h.queue) + i] = jobs[i]
             /\ ~ TRACING => n = Len(jobs)
             /\ TRACING => \A i \in 1..n : Identifier(jobs[i]) # NoIdentifier
             /\ TRACING => /\ Len(h.log) \in Nat
                           /\ Len(g.log) = Len(h.log) + n
                           /\ \A i \in 1..Len(h.log) : g.log[i] = h.log[i]
                           /\ \A i \in 1..n : g.log[Len(h.log) + i]
                                               = Identifier(jobs[i])
<1> DEFINE ids == Identifiers(jobs)
           n == Serializable(ids)
           pushed == SubSeq(jobs, 1, n)
           q == h.queue
           g == Enqueue(h, jobs)
<1>1. Len(jobs) \in Nat /\ DOMAIN jobs = 1..Len(jobs)
  BY LenProperties
<1>2. ids \in Seq(Pair \cup {NoIdentifier}) /\ Len(ids) = Len(jobs)
  <2>1. \A i \in 1..Len(jobs) : jobs[i] \in Job
    BY <1>1, ElementOfSeq
  <2>2. ids = [i \in 1..Len(jobs) |-> Identifier(jobs[i])]
    BY <1>1 DEF Identifiers
  <2>3. ids \in [1..Len(jobs) -> Pair \cup {NoIdentifier}]
    BY <2>1, <2>2, IdentifierType
  <2> QED
    BY <1>1, <2>3, IsASeq, LenProperties
<1>3. /\ n \in 0..Len(jobs)
      /\ TRACING => \A i \in 1..n : ids[i] # NoIdentifier
  BY <1>2, SerializablePrefix
<1>t. ~ TRACING => n = Len(jobs)
  BY <1>2 DEF Serializable
<1>i. TRACING => \A i \in 1..n : Identifier(jobs[i]) # NoIdentifier
  <2> HIDE DEF n
  <2>1. \A i \in 1..n : i \in DOMAIN jobs
    BY <1>1, <1>3
  <2> QED
    BY <1>3, <2>1 DEF Identifiers
<1>4. /\ pushed \in Seq(Job) /\ Len(pushed) = n
      /\ \A i \in 1..n : pushed[i] = jobs[i]
  <2> HIDE DEF n
  <2> QED
  BY <1>1, <1>3, SubSeqProperties
<1>5. h \in Heap /\ q \in Seq(Job)
  BY DEF Heap
<1>6. Len(q) \in Nat /\ DOMAIN q = 1..Len(q)
  BY <1>5, LenProperties
<1>e. g = [h EXCEPT !.queue = h.queue \o pushed,
                    !.log   = h.log \o Written(Identifiers(pushed)),
                    !.error = n < Len(jobs)]
  BY DEF Enqueue, Heap
<1> HIDE DEF n, pushed, g
<1>7. /\ g.queue = q \o pushed /\ (g.error <=> n < Len(jobs))
      /\ g.log = h.log \o Written(Identifiers(pushed))
  BY <1>5, <1>e DEF Heap
<1> HIDE DEF q
<1>a. g.queue = q \o pushed
  BY <1>7
<1>b. q \in Seq(Job) /\ pushed \in Seq(Job)
  BY <1>4, <1>5
<1>c. /\ g.queue \in Seq(Job) /\ Len(g.queue) = Len(q) + Len(pushed)
      /\ \A j \in 1 .. Len(q) + Len(pushed) :
           g.queue[j] = IF j <= Len(q) THEN q[j] ELSE pushed[j - Len(q)]
  BY <1>a, <1>b, ConcatProperties, ZenonT(60)
<1>8. /\ g.queue \in Seq(Job) /\ Len(g.queue) = Len(q) + n
      /\ \A j \in 1 .. Len(q) + n :
           g.queue[j] = IF j <= Len(q) THEN q[j] ELSE pushed[j - Len(q)]
  BY <1>4, <1>c
<1>9. DOMAIN g.queue = 1..(Len(q) + n)
  BY <1>8, LenProperties
<1>10. \A i \in 1..Len(q) : g.queue[i] = q[i]
  BY <1>1, <1>3, <1>6, <1>8
<1>11. \A i \in 1..n : g.queue[Len(q) + i] = jobs[i]
  <2> SUFFICES ASSUME NEW i \in 1..n
               PROVE  g.queue[Len(q) + i] = jobs[i]
    OBVIOUS
  <2>1. /\ Len(q) + i \in 1 .. Len(q) + n /\ ~ (Len(q) + i <= Len(q))
        /\ Len(q) + i - Len(q) = i
    BY <1>1, <1>3, <1>6
  <2> QED
    BY <1>4, <1>8, <2>1
<1>12. ASSUME TRACING
       PROVE  /\ Len(h.log) \in Nat /\ Len(g.log) = Len(h.log) + n
              /\ \A i \in 1..Len(h.log) : g.log[i] = h.log[i]
              /\ \A i \in 1..n : g.log[Len(h.log) + i] = Identifier(jobs[i])
  <2> DEFINE w == Identifiers(pushed)
             l == h.log
  <2>1. w = [i \in 1..n |-> Identifier(jobs[i])]
    <3>1. DOMAIN pushed = 1..n
      BY <1>4, LenProperties
    <3> QED
      BY <1>4, <3>1 DEF Identifiers
  <2>2. n \in Nat
    BY <1>1, <1>3
  <2>3. \A i \in 1..n : Identifier(jobs[i]) \in Pair
    <3> SUFFICES ASSUME NEW i \in 1..n PROVE Identifier(jobs[i]) \in Pair
      OBVIOUS
    <3>1. i \in 1..Len(jobs)
      BY <1>1, <1>3
    <3>2. jobs[i] \in Job
      BY <1>1, <3>1, ElementOfSeq
    <3> QED
      BY <1>i, <1>12, <3>2, IdentifierType
  <2>4. w \in Seq(Pair) /\ Len(w) = n /\ l \in Seq(Pair)
    <3>1. w \in [1..n -> Pair]
      BY <2>1, <2>3
    <3> QED
      BY <1>5, <2>2, <3>1, IsASeq, LenProperties DEF Heap
  <2>5. Len(l) \in Nat
    BY <2>4, LenProperties
  <2>6. g.log = l \o w
    BY <1>7, <1>12 DEF Written
  <2>7. \A i \in 1..n : w[i] = Identifier(jobs[i])
    BY <2>1
  <2> HIDE DEF w, l
  <2>8. /\ Len(l \o w) = Len(l) + Len(w)
        /\ \A j \in 1 .. Len(l) + Len(w) :
             (l \o w)[j] = IF j <= Len(l) THEN l[j] ELSE w[j - Len(l)]
    BY <2>4, ConcatProperties, ZenonT(60)
  <2>9. \A i \in 1..Len(l) : g.log[i] = l[i]
    BY <2>2, <2>4, <2>5, <2>6, <2>8
  <2>10. \A i \in 1..n : g.log[Len(l) + i] = w[i]
    <3> SUFFICES ASSUME NEW i \in 1..n PROVE g.log[Len(l) + i] = w[i]
      OBVIOUS
    <3>1. /\ Len(l) + i \in 1 .. Len(l) + Len(w) /\ ~ (Len(l) + i <= Len(l))
          /\ Len(l) + i - Len(l) = i
      BY <2>2, <2>4, <2>5
    <3> QED
      BY <2>6, <2>8, <3>1
  <2> QED
    BY <2>4, <2>5, <2>6, <2>7, <2>8, <2>9, <2>10 DEF l
<1> QED
  BY <1>3, <1>t, <1>i, <1>6, <1>7, <1>9, <1>10, <1>11, <1>12 DEF q, g, n, pushed

(* Nothing but the queue, the file and the error is different in g. *)
SamePromises(g, h) ==
  /\ g.promises = h.promises /\ g.pairs = h.pairs
  /\ g.state = h.state /\ g.result = h.result /\ g.handled = h.handled
  /\ g.reactions = h.reactions /\ g.target = h.target
  /\ g.resolved = h.resolved /\ g.unhandled = h.unhandled

(* enqueuePromiseJob leaves a well-formed heap with the same promises: a   *)
(* prefix of the jobs has been pushed.                                     *)
LEMMA EnqueueOK ==
  ASSUME NEW h, HeapOK(h), NEW jobs \in Seq(Job),
         \A i \in DOMAIN jobs : JobOK(h, jobs[i])
  PROVE  /\ HeapOK(Enqueue(h, jobs))
         /\ SamePromises(Enqueue(h, jobs), h)
         /\ \A i \in DOMAIN Enqueue(h, jobs).queue :
              \/ /\ i \in DOMAIN h.queue
                 /\ Enqueue(h, jobs).queue[i] = h.queue[i]
              \/ /\ i - Len(h.queue) \in DOMAIN jobs
                 /\ Enqueue(h, jobs).queue[i] = jobs[i - Len(h.queue)]
<1> DEFINE ids == Identifiers(jobs)
           n == Serializable(ids)
           pushed == SubSeq(jobs, 1, n)
           g == Enqueue(h, jobs)
<1>1. Len(jobs) \in Nat /\ DOMAIN jobs = 1..Len(jobs)
  BY LenProperties
<1>2. ids \in Seq(Pair \cup {NoIdentifier}) /\ Len(ids) = Len(jobs)
  <2>1. \A i \in 1..Len(jobs) : jobs[i] \in Job
    BY <1>1, ElementOfSeq
  <2>2. ids = [i \in 1..Len(jobs) |-> Identifier(jobs[i])]
    BY <1>1 DEF Identifiers
  <2>3. ids \in [1..Len(jobs) -> Pair \cup {NoIdentifier}]
    BY <2>1, <2>2, IdentifierType
  <2> QED
    BY <1>1, <2>3, IsASeq, LenProperties
<1>3. /\ n \in 0..Len(jobs)
      /\ TRACING => \A i \in 1..n : ids[i] # NoIdentifier
  BY <1>2, SerializablePrefix
<1>4. /\ pushed \in Seq(Job) /\ Len(pushed) = n
      /\ \A i \in 1..n : pushed[i] = jobs[i]
  <2> HIDE DEF n
  <2> QED
  BY <1>1, <1>3, SubSeqProperties
<1>5. Written(Identifiers(pushed)) \in Seq(Pair)
  <2> HIDE DEF n, pushed
  <2>1. DOMAIN pushed = 1..n
    BY <1>4, LenProperties
  <2>2. CASE TRACING
    <3>1. ASSUME NEW i \in 1..n
          PROVE  Identifier(pushed[i]) \in Pair
      <4>1. i \in 1..Len(jobs) /\ pushed[i] = jobs[i]
        BY <1>1, <1>3, <1>4
      <4>2. ids[i] = Identifier(jobs[i])
        BY <4>1, <1>1 DEF Identifiers
      <4>3. ids[i] # NoIdentifier
        BY <1>3, <2>2
      <4>4. jobs[i] \in Job
        BY <4>1, ElementOfSeq
      <4> QED
        BY <4>1, <4>2, <4>3, <4>4, IdentifierType
    <3>2. Identifiers(pushed) \in [1..n -> Pair]
      BY <2>1, <3>1 DEF Identifiers
    <3>3. n \in Nat
      BY <1>1, <1>3
    <3>4. Identifiers(pushed) \in Seq(Pair)
      BY <3>2, <3>3, IsASeq
    <3> QED
      BY <2>2, <3>4 DEF Written
  <2>3. CASE ~ TRACING
    BY <2>3 DEF Written
  <2> QED
    BY <2>2, <2>3
<1>6. g = [h EXCEPT !.queue = h.queue \o pushed,
                    !.log   = h.log \o Written(Identifiers(pushed)),
                    !.error = n < Len(jobs)]
  BY DEF Enqueue, Heap, HeapOK
<1> HIDE DEF n, pushed, g
<1>7. h \in Heap
  BY DEF HeapOK
<1>8. g \in Heap
  <2>1. h.queue \o pushed \in Seq(Job)
    BY <1>4, <1>7, ConcatProperties DEF Heap
  <2>2. h.log \o Written(Identifiers(pushed)) \in Seq(Pair)
    BY <1>5, <1>7, ConcatProperties DEF Heap
  <2>3. (n < Len(jobs)) \in BOOLEAN
    BY <1>1, <1>3
  <2> QED
    BY <1>6, <1>7, <2>1, <2>2, <2>3 DEF Heap
<1>9. SamePromises(g, h) /\ g.queue = h.queue \o pushed
  BY <1>6, <1>7 DEF Heap, SamePromises
<1>10. ASSUME NEW i \in DOMAIN g.queue
       PROVE  \/ i \in DOMAIN h.queue /\ g.queue[i] = h.queue[i]
              \/ /\ i - Len(h.queue) \in DOMAIN jobs
                 /\ g.queue[i] = jobs[i - Len(h.queue)]
  <2> DEFINE l == Len(h.queue)
  <2>1. /\ n \in 0..Len(jobs) /\ l \in Nat /\ DOMAIN h.queue = 1..l
        /\ DOMAIN g.queue = 1..(l + n)
        /\ \A j \in 1..l : g.queue[j] = h.queue[j]
        /\ \A j \in 1..n : g.queue[l + j] = jobs[j]
    BY <1>7, EnqueueAppends DEF g, n
  <2> HIDE DEF l
  <2>2. i \in 1..(l + n) /\ Len(jobs) \in Nat
    BY <1>1, <2>1
  <2>3. CASE i <= l
    BY <2>1, <2>2, <2>3
  <2>4. CASE ~ (i <= l)
    <3>1. i - l \in 1..n /\ i - l \in 1..Len(jobs) /\ l + (i - l) = i
      BY <2>1, <2>2, <2>4
    <3> QED
      BY <1>1, <2>1, <3>1 DEF l
  <2> QED
    BY <2>3, <2>4
<1>11. HeapOK(g)
  <2>1. \A i \in DOMAIN g.queue : JobOK(h, g.queue[i])
    BY <1>10 DEF HeapOK
  <2>2. /\ Made(g) = Made(h) /\ Created(g) = Created(h)
        /\ g.target = h.target /\ g.state = h.state /\ g.result = h.result
        /\ g.reactions = h.reactions
    BY <1>9 DEF Made, Created, SamePromises
  <2>3. \A i \in DOMAIN g.queue : JobOK(g, g.queue[i])
    BY <2>1, <2>2 DEF JobOK
  <2>4. \A k \in Made(g) : g.target[k] \in Created(g)
    BY <2>2 DEF HeapOK
  <2>5. \A p \in Promise : g.state[p] # "pending" =>
          p \in Created(g) /\ g.result[p] # None
    BY <2>2 DEF HeapOK
  <2>6. \A p \in Promise : \A i \in DOMAIN g.reactions[p] :
          ReactionOK(g, g.reactions[p][i])
    <3>1. \A r : ReactionOK(h, r) => ReactionOK(g, r)
      BY <2>2 DEF ReactionOK
    <3> QED
      BY <2>2, <3>1 DEF HeapOK
  <2> QED
    BY <1>8, <2>3, <2>4, <2>5, <2>6 DEF HeapOK
<1> QED
  BY <1>9, <1>10, <1>11 DEF g

-----------------------------------------------------------------------------
(* No promise or pair is created, and no pair changes its promise. *)
SameNames(g, h) ==
  g.promises = h.promises /\ g.pairs = h.pairs /\ g.target = h.target

(* Jobs are only added behind those of h; the new ones adopt nothing. *)
NoNewAdoption(g, h) ==
  \A i \in DOMAIN g.queue : g.queue[i].type = "thenable" =>
    i \in DOMAIN h.queue /\ g.queue[i] = h.queue[i]

(* What is created is a promise, or a pair. *)
LEMMA CreatedIsPromise ==
  ASSUME NEW h, HeapOK(h)
  PROVE  Created(h) \subseteq Promise /\ Made(h) \subseteq Pair
<1>1. h.promises \in 0..MaxPromises /\ h.pairs \in 0..MaxPairs
  BY DEF HeapOK, Heap
<1>2. QED
  BY <1>1, BoundsAssumption DEF Created, Made, Promise, Pair

(* The job made from a reaction of a settled promise is well formed. *)
LEMMA NewReactionJobOK ==
  ASSUME NEW h, NEW r \in Reaction, ReactionOK(h, r),
         NEW outcome \in Outcome, NEW argument \in Pair
  PROVE  /\ NewReactionJob(r, outcome, argument) \in ReactionJob
         /\ JobOK(h, NewReactionJob(r, outcome, argument))
BY DEF NewReactionJob, Reaction, ReactionJob, ReactionOK, JobOK, Outcome

(* FulfillPromise and RejectPromise leave a well-formed heap in which no   *)
(* other promise has been settled.                                         *)
LEMMA SettleOK ==
  ASSUME NEW h, HeapOK(h), NEW p \in Created(h),
         NEW outcome \in Outcome, NEW value \in Pair
  PROVE  /\ HeapOK(Settle(h, p, outcome, value))
         /\ SameNames(Settle(h, p, outcome, value), h)
         /\ NoNewAdoption(Settle(h, p, outcome, value), h)
         /\ Settle(h, p, outcome, value).resolved = h.resolved
         /\ Settle(h, p, outcome, value).state
              = [h.state EXCEPT ![p] = outcome]
<1> DEFINE unhandled == IF outcome = "rejected" /\ p \notin h.handled
                        THEN h.unhandled \cup {p} ELSE h.unhandled
           s == [h EXCEPT !.state     = [h.state EXCEPT ![p] = outcome],
                          !.result    = [h.result EXCEPT ![p] = value],
                          !.reactions = [h.reactions EXCEPT ![p] = <<>>],
                          !.unhandled = unhandled]
           rs == h.reactions[p]
           jobs == [i \in DOMAIN rs |-> NewReactionJob(rs[i], outcome, value)]
           g == Settle(h, p, outcome, value)
<1>1. h \in Heap /\ p \in Promise
  BY CreatedIsPromise DEF HeapOK
<1>2. g = Enqueue(s, jobs)
  BY <1>1 DEF Settle, SetState, Heap
<1>3. rs \in Seq(Reaction) /\ \A i \in DOMAIN rs : ReactionOK(h, rs[i])
  BY <1>1 DEF HeapOK, Heap
<1>4. /\ jobs \in Seq(Job)
      /\ \A i \in DOMAIN jobs : jobs[i].type = "reaction" /\ JobOK(h, jobs[i])
  <2> HIDE DEF rs
  <2>1. Len(rs) \in Nat /\ DOMAIN rs = 1..Len(rs)
    BY <1>3, LenProperties
  <2>2. \A i \in 1..Len(rs) :
          /\ NewReactionJob(rs[i], outcome, value) \in ReactionJob
          /\ JobOK(h, NewReactionJob(rs[i], outcome, value))
    BY <1>3, <2>1, NewReactionJobOK, ElementOfSeq
  <2>3. jobs \in [1..Len(rs) -> Job]
    BY <2>1, <2>2 DEF Job
  <2>4. jobs \in Seq(Job)
    BY <2>1, <2>3, IsASeq
  <2> QED
    BY <2>1, <2>2, <2>4 DEF ReactionJob
<1> HIDE DEF jobs, g
<1>5. s \in Heap
  <2>1. unhandled \subseteq Promise
    BY <1>1 DEF Heap
  <2>2. [h.reactions EXCEPT ![p] = <<>>] \in [Promise -> Seq(Reaction)]
    BY <1>1, EmptySeq DEF Heap
  <2>3. /\ [h.state EXCEPT ![p] = outcome] \in [Promise -> {"pending"} \cup Outcome]
        /\ [h.result EXCEPT ![p] = value] \in [Promise -> Pair \cup {None}]
    BY <1>1 DEF Heap
  <2> HIDE DEF unhandled
  <2> QED
    BY <1>1, <2>1, <2>2, <2>3 DEF Heap
<1>6. /\ SameNames(s, h) /\ s.resolved = h.resolved /\ s.queue = h.queue
      /\ s.state = [h.state EXCEPT ![p] = outcome]
      /\ s.result = [h.result EXCEPT ![p] = value]
      /\ s.reactions = [h.reactions EXCEPT ![p] = <<>>]
  BY <1>1 DEF Heap, SameNames
<1> HIDE DEF s
<1>7. HeapOK(s)
  <2>1. value # None
    BY DEF Pair, None
  <2>2. \A q \in Promise : s.state[q] # "pending" =>
          q \in Created(s) /\ s.result[q] # None
    BY <1>1, <1>6, <2>1 DEF HeapOK, Heap, Created, SameNames
  <2>3. \A q \in Promise : \A i \in DOMAIN s.reactions[q] :
          ReactionOK(s, s.reactions[q][i])
    <3> SUFFICES ASSUME NEW q \in Promise, NEW i \in DOMAIN s.reactions[q]
                 PROVE  ReactionOK(s, s.reactions[q][i])
      OBVIOUS
    <3>1. q # p
      BY <1>1, <1>6, EmptySeq DEF Heap
    <3>2. s.reactions[q] = h.reactions[q]
      BY <1>1, <1>6, <3>1 DEF Heap
    <3>3. ReactionOK(h, s.reactions[q][i])
      BY <3>2 DEF HeapOK
    <3> QED
      BY <1>6, <3>3 DEF ReactionOK, Made, SameNames
  <2>4. \A i \in DOMAIN s.queue : JobOK(s, s.queue[i])
    BY <1>6 DEF HeapOK, JobOK, Made, Created, SameNames
  <2>5. \A k \in Made(s) : s.target[k] \in Created(s)
    BY <1>6 DEF HeapOK, Made, Created, SameNames
  <2> QED
    BY <1>5, <2>2, <2>3, <2>4, <2>5 DEF HeapOK
<1>8. \A i \in DOMAIN jobs : JobOK(s, jobs[i])
  BY <1>4, <1>6 DEF JobOK, Made, Created, SameNames
<1>9. /\ HeapOK(g) /\ SamePromises(g, s)
      /\ \A i \in DOMAIN g.queue :
           \/ i \in DOMAIN s.queue /\ g.queue[i] = s.queue[i]
           \/ /\ i - Len(s.queue) \in DOMAIN jobs
              /\ g.queue[i] = jobs[i - Len(s.queue)]
  BY <1>2, <1>4, <1>7, <1>8, EnqueueOK
<1>10. NoNewAdoption(g, h)
  BY <1>4, <1>6, <1>9 DEF NoNewAdoption
<1> QED
  BY <1>6, <1>9, <1>10 DEF g, SamePromises, SameNames

-----------------------------------------------------------------------------
(* What decides about promises is only used up when no job is added that   *)
(* adopts, and only promises are settled that nothing decides about.       *)
LEMMA SingleIsKept ==
  ASSUME NEW g, NEW h, Single(h),
         SameNames(g, h), NoNewAdoption(g, h), h.resolved \subseteq g.resolved,
         \A q \in Promise : g.state[q] # "pending" =>
           h.state[q] # "pending" \/ ~ Undecided(h, q)
  PROVE  Single(g)
<1>1. ASSUME NEW q \in Promise
      PROVE  Unused(g, q) \subseteq Unused(h, q)
               /\ Adoptions(g, q) \subseteq Adoptions(h, q)
  BY DEF Unused, Adoptions, Adopts, NoNewAdoption, SameNames, Made
<1>2. QED
  BY <1>1 DEF Single, Undecided

(* alreadyResolved.value is set: nothing decides about the promise now. *)
LEMMA UseOK ==
  ASSUME NEW h, HeapOK(h), NEW k \in Made(h)
  PROVE  LET g == Use(h, k)
         IN  /\ HeapOK(g) /\ SameNames(g, h) /\ g.state = h.state
             /\ g.queue = h.queue
             /\ g.resolved = h.resolved \cup {k}
             /\ Single(h) /\ k \notin h.resolved =>
                  Single(g) /\ ~ Undecided(g, h.target[k])
<1> DEFINE g == Use(h, k)
<1>1. h \in Heap /\ k \in Pair
  BY CreatedIsPromise DEF HeapOK
<1>2. g \in Heap
  BY <1>1 DEF Use, Heap
<1>3. /\ SameNames(g, h) /\ g.state = h.state /\ g.queue = h.queue
      /\ g.result = h.result /\ g.reactions = h.reactions
      /\ g.resolved = h.resolved \cup {k}
  BY <1>1 DEF Use, Heap, SameNames
<1> HIDE DEF g
<1>4. HeapOK(g)
  BY <1>2, <1>3 DEF HeapOK, SameNames, Made, Created, ReactionOK, JobOK
<1>5. ASSUME Single(h), k \notin h.resolved
      PROVE  Single(g) /\ ~ Undecided(g, h.target[k])
  <2>1. NoNewAdoption(g, h)
    BY <1>3 DEF NoNewAdoption
  <2>2. Single(g)
    BY <1>3, <1>5, <2>1, SingleIsKept DEF Single
  <2>3. h.target[k] \in Promise
    BY CreatedIsPromise DEF HeapOK
  <2>4. k \in Unused(h, h.target[k])
    BY <1>5 DEF Unused
  <2>5. Adoptions(h, h.target[k]) = {}
    BY <1>5, <2>3, <2>4 DEF Single
  <2>6. Adoptions(g, h.target[k]) = {}
    BY <1>3, <2>5 DEF Adoptions
  <2>7. Unused(g, h.target[k]) = {}
    BY <1>3, <1>5, <2>3, <2>4 DEF Single, Unused, SameNames, Made
  <2> QED
    BY <2>2, <2>6, <2>7 DEF Undecided
<1> QED
  BY <1>3, <1>4, <1>5 DEF g

(* A promise is settled whose last deciding pair has been used up. *)
LEMMA SettleSingle ==
  ASSUME NEW h, HeapOK(h), NEW p \in Created(h),
         NEW outcome \in Outcome, NEW value \in Pair
  PROVE  /\ HeapOK(Settle(h, p, outcome, value))
         /\ SameNames(Settle(h, p, outcome, value), h)
         /\ Single(h) /\ ~ Undecided(h, p) =>
              Single(Settle(h, p, outcome, value))
<1> DEFINE f == Settle(h, p, outcome, value)
<1>1. /\ HeapOK(f) /\ SameNames(f, h) /\ NoNewAdoption(f, h)
      /\ f.resolved = h.resolved
      /\ f.state = [h.state EXCEPT ![p] = outcome]
  BY SettleOK
<1> HIDE DEF f
<1>2. \A q \in Promise : q # p => f.state[q] = h.state[q]
  BY <1>1 DEF HeapOK, Heap
<1>3. Single(h) /\ ~ Undecided(h, p) => Single(f)
  BY <1>1, <1>2, SingleIsKept
<1> QED
  BY <1>1, <1>3 DEF f

(* The reject function. *)
LEMMA RejectFunctionOK ==
  ASSUME NEW h, HeapOK(h), NEW k \in Made(h), NEW reason \in Pair
  PROVE  /\ HeapOK(RejectFunction(h, k, reason))
         /\ SameNames(RejectFunction(h, k, reason), h)
         /\ Single(h) => Single(RejectFunction(h, k, reason))
<1> DEFINE g == Use(h, k)
           p == h.target[k]
           f == RejectFunction(h, k, reason)
<1>1. CASE h.error \/ k \in h.resolved
  BY <1>1 DEF RejectFunction, Usable, SameNames
<1>2. CASE ~ (h.error \/ k \in h.resolved)
  <2>1. f = Settle(g, p, "rejected", reason)
    BY <1>2 DEF RejectFunction, Usable
  <2>2. /\ HeapOK(g) /\ SameNames(g, h) /\ g.state = h.state
        /\ Single(h) => Single(g) /\ ~ Undecided(g, p)
    BY <1>2, UseOK
  <2>3. p \in Created(g)
    BY <2>2 DEF HeapOK, SameNames, Made, Created
  <2>4. HeapOK(g) /\ "rejected" \in Outcome
    BY <2>2 DEF Outcome
  <2> HIDE DEF g, f, p
  <2>5. /\ HeapOK(Settle(g, p, "rejected", reason))
        /\ SameNames(Settle(g, p, "rejected", reason), g)
        /\ Single(g) /\ ~ Undecided(g, p) =>
             Single(Settle(g, p, "rejected", reason))
    BY <2>3, <2>4, SettleSingle
  <2> QED
    BY <2>1, <2>2, <2>5 DEF SameNames, f
<1> QED
  BY <1>1, <1>2

(* A job is enqueued that adopts, for a promise nothing decides about. *)
LEMMA EnqueueThenableJob ==
  ASSUME NEW h, HeapOK(h), NEW p \in Created(h),
         NEW q \in Created(h) \cup {None}
  PROVE  LET f == Enqueue(h, <<[type |-> "thenable", promise |-> p,
                                thenable |-> q]>>)
         IN  /\ HeapOK(f) /\ SameNames(f, h)
             /\ /\ Single(h) /\ ~ Undecided(h, p)
                /\ h.state[p] = "pending"
                => Single(f)
<1> DEFINE job == [type |-> "thenable", promise |-> p, thenable |-> q]
           f == Enqueue(h, <<job>>)
<1>1. job \in Job /\ JobOK(h, job) /\ job.type = "thenable" /\ job.promise = p
  BY CreatedIsPromise DEF Job, ThenableJob, JobOK
<1> HIDE DEF job
<1>2. /\ <<job>> \in Seq(Job) /\ DOMAIN <<job>> = {1} /\ <<job>>[1] = job
      /\ \A i \in DOMAIN <<job>> : JobOK(h, <<job>>[i])
  BY <1>1
<1>3. /\ HeapOK(f) /\ SamePromises(f, h)
      /\ \A i \in DOMAIN f.queue :
           \/ i \in DOMAIN h.queue /\ f.queue[i] = h.queue[i]
           \/ /\ i - Len(h.queue) \in DOMAIN <<job>>
              /\ f.queue[i] = <<job>>[i - Len(h.queue)]
  BY <1>2, EnqueueOK
<1> HIDE DEF f
<1>4. ASSUME Single(h), ~ Undecided(h, p), h.state[p] = "pending"
      PROVE  Single(f)
  <2>1. Len(h.queue) \in Int /\ DOMAIN f.queue \subseteq Int
    BY <1>3, LenProperties DEF HeapOK, Heap
  <2>2. \A i \in DOMAIN f.queue :
          \/ i \in DOMAIN h.queue /\ f.queue[i] = h.queue[i]
          \/ i = Len(h.queue) + 1 /\ f.queue[i] = job
    BY <1>2, <1>3, <2>1
  <2>3. ASSUME NEW r \in Promise
        PROVE  /\ Unused(f, r) = Unused(h, r)
               /\ r # p => Adoptions(f, r) \subseteq Adoptions(h, r)
               /\ r = p => Adoptions(f, r) \subseteq {Len(h.queue) + 1}
               /\ f.state[r] = h.state[r]
    <3>1. Unused(f, r) = Unused(h, r) /\ f.state[r] = h.state[r]
      BY <1>3 DEF SamePromises, Unused, Made
    <3>2. r # p => Adoptions(f, r) \subseteq Adoptions(h, r)
      BY <2>2, <1>1 DEF Adoptions, Adopts
    <3>3. Adoptions(h, p) = {}
      BY <1>4 DEF Undecided
    <3>4. r = p => Adoptions(f, r) \subseteq {Len(h.queue) + 1}
      BY <2>2, <1>1, <3>3 DEF Adoptions, Adopts
    <3> QED
      BY <3>1, <3>2, <3>4
  <2> QED
    BY <2>3, <1>4 DEF Single, Undecided
<1> QED
  BY <1>3, <1>4 DEF f, job, SamePromises, SameNames

(* What a resolve function may be called with when the heap is h. *)
ResolvesWith(h, x) ==
  x \in Resolution /\ (x.kind = "promise" => x.ref \in Created(h))

(* The resolve function. *)
LEMMA ResolveFunctionOK ==
  ASSUME NEW h, HeapOK(h), NEW k \in Made(h), NEW x, ResolvesWith(h, x)
  PROVE  /\ HeapOK(ResolveFunction(h, k, x))
         /\ SameNames(ResolveFunction(h, k, x), h)
         /\ Single(h) => Single(ResolveFunction(h, k, x))
<1> DEFINE g == Use(h, k)
           p == h.target[k]
           job == [type |-> "thenable", promise |-> p, thenable |-> x.ref]
           f == ResolveFunction(h, k, x)
<1>1. CASE h.error \/ k \in h.resolved
  BY <1>1 DEF ResolveFunction, Usable, SameNames
<1>2. CASE ~ (h.error \/ k \in h.resolved)
  <2>1. \/ x.kind = "value" /\ x.ref \in Pair /\ f = Settle(g, p, "fulfilled", x.ref)
        \/ f = Settle(g, p, "rejected", k)
        \/ /\ x.ref \in Created(h) \cup {None}
           /\ f = Enqueue(g, <<job>>)
    <3>1. CASE x.kind = "value"
      BY <1>2, <3>1 DEF ResolveFunction, Usable, ResolvesWith, Resolution
    <3>2. CASE x.kind = "poisoned" \/ (x.kind = "promise" /\ x.ref = p)
      BY <1>2, <3>2 DEF ResolveFunction, Usable, ResolvesWith, Resolution
    <3>3. CASE ~ (x.kind = "value" \/ x.kind = "poisoned"
                    \/ (x.kind = "promise" /\ x.ref = p))
      <4>1. f = Enqueue(g, <<job>>)
        BY <1>2, <3>3 DEF ResolveFunction, Usable
      <4>2. x.ref \in Created(h) \cup {None}
        BY <3>3 DEF ResolvesWith, Resolution
      <4> QED
        BY <4>1, <4>2
    <3> QED
      BY <3>1, <3>2, <3>3
  <2>2. /\ HeapOK(g) /\ SameNames(g, h) /\ g.state = h.state
        /\ Single(h) => Single(g) /\ ~ Undecided(g, p)
    BY <1>2, UseOK
  <2>3. p \in Created(g) /\ p \in Promise /\ k \in Pair
    BY <2>2, CreatedIsPromise DEF HeapOK, SameNames, Made, Created
  <2>4. HeapOK(g) /\ {"fulfilled", "rejected"} \subseteq Outcome
    BY <2>2 DEF Outcome
  <2> HIDE DEF g, f, p
  <2>5. CASE x.ref \in Pair /\ f = Settle(g, p, "fulfilled", x.ref)
    <3>1. /\ HeapOK(Settle(g, p, "fulfilled", x.ref))
          /\ SameNames(Settle(g, p, "fulfilled", x.ref), g)
          /\ Single(g) /\ ~ Undecided(g, p) =>
               Single(Settle(g, p, "fulfilled", x.ref))
      BY <2>3, <2>4, <2>5, SettleSingle
    <3> QED
      BY <2>2, <2>5, <3>1 DEF SameNames, f
  <2>6. CASE f = Settle(g, p, "rejected", k)
    <3>1. /\ HeapOK(Settle(g, p, "rejected", k))
          /\ SameNames(Settle(g, p, "rejected", k), g)
          /\ Single(g) /\ ~ Undecided(g, p) =>
               Single(Settle(g, p, "rejected", k))
      BY <2>3, <2>4, SettleSingle
    <3> QED
      BY <2>2, <2>6, <3>1 DEF SameNames, f
  <2>7. CASE x.ref \in Created(h) \cup {None} /\ f = Enqueue(g, <<job>>)
    <3>1. x.ref \in Created(g) \cup {None}
      BY <2>2, <2>7 DEF SameNames, Created
    <3>2. /\ HeapOK(Enqueue(g, <<job>>)) /\ SameNames(Enqueue(g, <<job>>), g)
          /\ Single(g) /\ ~ Undecided(g, p) /\ g.state[p] = "pending"
               => Single(Enqueue(g, <<job>>))
      BY <2>3, <2>4, <3>1, EnqueueThenableJob
    <3>3. Single(h) => g.state[p] = "pending"
      <4>1. k \in Unused(h, p)
        BY <1>2 DEF Unused, p
      <4> QED
        BY <2>2, <2>3, <4>1 DEF Single, Undecided
    <3> QED
      BY <2>2, <2>7, <3>2, <3>3 DEF SameNames, f
  <2> QED
    BY <2>1, <2>5, <2>6, <2>7
<1> QED
  BY <1>1, <1>2

(* One of the two gets the outcome of another promise. *)
LEMMA PassOnOK ==
  ASSUME NEW h, HeapOK(h), NEW k \in Made(h), NEW outcome, NEW value \in Pair
  PROVE  /\ HeapOK(PassOn(h, k, outcome, value))
         /\ SameNames(PassOn(h, k, outcome, value), h)
         /\ Single(h) => Single(PassOn(h, k, outcome, value))
<1> DEFINE x == [kind |-> "value", ref |-> value]
<1>1. ResolvesWith(h, x)
  BY DEF ResolvesWith, Resolution
<1>2. PassOn(h, k, outcome, value) = IF outcome = "fulfilled"
                                     THEN ResolveFunction(h, k, x)
                                     ELSE RejectFunction(h, k, value)
  BY DEF PassOn
<1> HIDE DEF x
<1>3. /\ HeapOK(ResolveFunction(h, k, x))
      /\ SameNames(ResolveFunction(h, k, x), h)
      /\ Single(h) => Single(ResolveFunction(h, k, x))
  BY <1>1, ResolveFunctionOK
<1>4. /\ HeapOK(RejectFunction(h, k, value))
      /\ SameNames(RejectFunction(h, k, value), h)
      /\ Single(h) => Single(RejectFunction(h, k, value))
  BY RejectFunctionOK
<1> QED
  BY <1>2, <1>3, <1>4

(* One more pair is created, for a promise nothing decides about. *)
LEMMA CreateResolvingFunctionsOK ==
  ASSUME NEW h, HeapOK(h), NEW p \in Created(h), h.pairs < MaxPairs
  PROVE  LET f == CreateResolvingFunctions(h, p)
         IN  /\ HeapOK(f)
             /\ f.promises = h.promises /\ f.pairs = h.pairs + 1
             /\ f.target = [h.target EXCEPT ![f.pairs] = p]
             /\ /\ f.state = h.state /\ f.queue = h.queue
                /\ f.resolved = h.resolved
             /\ Single(h) /\ ~ Undecided(h, p) /\ h.state[p] = "pending"
                  => Single(f)
<1> DEFINE f == CreateResolvingFunctions(h, p)
<1>1. h \in Heap /\ p \in Promise /\ h.pairs \in Nat /\ h.pairs + 1 \in Pair
  <2>1. h \in Heap /\ p \in Promise
    BY CreatedIsPromise DEF HeapOK
  <2>2. h.pairs \in 0..MaxPairs
    BY <2>1 DEF Heap
  <2> QED
    BY <2>1, <2>2, BoundsAssumption DEF Pair
<1>2. f = [h EXCEPT !.pairs = h.pairs + 1,
                    !.target = [h.target EXCEPT ![h.pairs + 1] = p]]
  BY DEF CreateResolvingFunctions
<1>3. f \in Heap
  <2>1. h.pairs + 1 \in 0..MaxPairs
    BY <1>1, BoundsAssumption
  <2>2. [h.target EXCEPT ![h.pairs + 1] = p] \in [Pair -> Promise \cup {None}]
    BY <1>1 DEF Heap
  <2> HIDE DEF f
  <2> QED
    BY <1>1, <1>2, <2>1, <2>2 DEF Heap
<1>4. /\ f.promises = h.promises /\ f.pairs = h.pairs + 1
      /\ f.target = [h.target EXCEPT ![f.pairs] = p]
      /\ f.state = h.state /\ f.queue = h.queue /\ f.resolved = h.resolved
      /\ f.result = h.result /\ f.reactions = h.reactions
  BY <1>1, <1>2 DEF Heap
<1> HIDE DEF f
<1>5. /\ Made(f) = Made(h) \cup {f.pairs} /\ Created(f) = Created(h)
      /\ f.pairs \in Pair /\ f.pairs \notin Made(h)
  BY <1>1, <1>4 DEF Made, Created
<1>6. f.target[f.pairs] = p /\ \A k \in Made(h) : f.target[k] = h.target[k]
  <2>1. h.target \in [Pair -> Promise \cup {None}] /\ Made(h) \subseteq Pair
    BY <1>1, CreatedIsPromise DEF Heap
  <2> QED
    BY <2>1, <1>4, <1>5
<1>7. HeapOK(f)
  <2>1. \A k \in Made(f) : f.target[k] \in Created(f)
    BY <1>5, <1>6 DEF HeapOK
  <2>2. \A q \in Promise : \A i \in DOMAIN f.reactions[q] :
          ReactionOK(f, f.reactions[q][i])
    BY <1>4, <1>5 DEF HeapOK, ReactionOK
  <2>3. \A i \in DOMAIN f.queue : JobOK(f, f.queue[i])
    BY <1>4, <1>5 DEF HeapOK, JobOK
  <2> QED
    BY <1>3, <1>4, <1>5, <2>1, <2>2, <2>3 DEF HeapOK
<1>8. ASSUME Single(h), ~ Undecided(h, p), h.state[p] = "pending"
      PROVE  Single(f)
  <2>1. ASSUME NEW q \in Promise
        PROVE  /\ Adoptions(f, q) = Adoptions(h, q)
               /\ f.state[q] = h.state[q]
               /\ q # p => Unused(f, q) \subseteq Unused(h, q)
               /\ q = p => Unused(f, q) \subseteq {f.pairs}
    <3>1. q # p => Unused(f, q) \subseteq Unused(h, q)
      BY <1>4, <1>5, <1>6 DEF Unused
    <3>2. q = p => Unused(f, q) \subseteq {f.pairs}
      BY <1>4, <1>5, <1>6, <1>8 DEF Unused, Undecided
    <3> QED
      BY <1>4, <3>1, <3>2 DEF Adoptions
  <2> QED
    BY <1>8, <2>1 DEF Single, Undecided
<1> QED
  BY <1>4, <1>7, <1>8 DEF f

(* Nothing refers to a promise that has not been created. *)
LEMMA NothingDecidesNew ==
  ASSUME NEW h, HeapOK(h), NEW p \in Promise \ Created(h)
  PROVE  ~ Undecided(h, p) /\ h.state[p] = "pending"
BY DEF HeapOK, Undecided, Unused, Adoptions, Adopts, JobOK

(* The Promise constructor. *)
LEMMA NewPromiseOK ==
  ASSUME NEW h, HeapOK(h), h.promises < MaxPromises, h.pairs < MaxPairs
  PROVE  /\ HeapOK(NewPromise(h))
         /\ NewPromise(h).promises = h.promises + 1
         /\ NewPromise(h).pairs = h.pairs + 1
         /\ NewPromise(h).target
              = [h.target EXCEPT ![NewPromise(h).pairs] = NewPromise(h).promises]
         /\ Single(h) => Single(NewPromise(h))
<1> DEFINE g == [h EXCEPT !.promises = h.promises + 1]
           p == h.promises + 1
           f == NewPromise(h)
<1>1. h \in Heap /\ h.promises \in Nat /\ p \in Promise /\ p \notin Created(h)
  <2>1. h \in Heap
    BY DEF HeapOK
  <2>2. h.promises \in 0..MaxPromises
    BY <2>1 DEF Heap
  <2> QED
    BY <2>1, <2>2, BoundsAssumption DEF Promise, Created
<1>2. g \in Heap
  <2>1. h.promises + 1 \in 0..MaxPromises
    BY <1>1, BoundsAssumption
  <2> QED
    BY <1>1, <2>1 DEF Heap
<1>3. /\ g.promises = h.promises + 1 /\ g.pairs = h.pairs
      /\ g.target = h.target /\ g.state = h.state /\ g.queue = h.queue
      /\ g.resolved = h.resolved /\ g.result = h.result
      /\ g.reactions = h.reactions
  BY <1>1 DEF Heap
<1>4. f = CreateResolvingFunctions(g, p)
  BY DEF NewPromise
<1> HIDE DEF g, f
<1>5. Created(h) \subseteq Created(g) /\ Made(g) = Made(h) /\ p \in Created(g)
  BY <1>1, <1>3 DEF Created, Made
<1>6. HeapOK(g)
  BY <1>2, <1>3, <1>5 DEF HeapOK, ReactionOK, JobOK
<1>7. ~ Undecided(g, p) /\ g.state[p] = "pending"
  BY <1>1, <1>3, <1>5, NothingDecidesNew DEF Undecided, Unused, Adoptions
<1>8. Single(h) => Single(g)
  BY <1>3, <1>5 DEF Single, Undecided, Unused, Adoptions
<1> HIDE DEF p
<1>9. /\ HeapOK(f) /\ f.promises = g.promises /\ f.pairs = g.pairs + 1
      /\ f.target = [g.target EXCEPT ![f.pairs] = p]
      /\ Single(g) => Single(f)
  BY <1>3, <1>4, <1>5, <1>6, <1>7, CreateResolvingFunctionsOK
<1> QED
  BY <1>3, <1>8, <1>9 DEF f, p

(* Promise.prototype.then and await register r, or enqueue its job. *)
LEMMA PerformPromiseThenOK ==
  ASSUME NEW h, HeapOK(h), NEW p \in Created(h),
         NEW r \in Reaction, ReactionOK(h, r)
  PROVE  /\ HeapOK(PerformPromiseThen(h, p, r))
         /\ SameNames(PerformPromiseThen(h, p, r), h)
         /\ Single(h) => Single(PerformPromiseThen(h, p, r))
<1> DEFINE f == PerformPromiseThen(h, p, r)
<1>1. h \in Heap /\ p \in Promise
  BY CreatedIsPromise DEF HeapOK
<1>2. CASE h.error
  BY <1>2 DEF PerformPromiseThen, SameNames
<1>3. CASE ~ h.error /\ h.state[p] = "pending"
  <2> DEFINE rs == Append(h.reactions[p], r)
  <2>1. f = [h EXCEPT !.reactions = [h.reactions EXCEPT ![p] = rs],
                      !.handled = h.handled \cup {p}]
    BY <1>1, <1>3 DEF PerformPromiseThen
  <2>2. h.reactions \in [Promise -> Seq(Reaction)]
    BY <1>1 DEF Heap
  <2>3. /\ rs \in Seq(Reaction)
        /\ \A i \in DOMAIN rs : ReactionOK(h, rs[i])
    <3>1. h.reactions[p] \in Seq(Reaction)
      BY <1>1, <2>2
    <3>2. \A i \in DOMAIN h.reactions[p] : ReactionOK(h, h.reactions[p][i])
      BY <1>1 DEF HeapOK
    <3>3. /\ rs \in Seq(Reaction) /\ Len(rs) = Len(h.reactions[p]) + 1
          /\ \A i \in 1..Len(h.reactions[p]) : rs[i] = h.reactions[p][i]
          /\ rs[Len(h.reactions[p]) + 1] = r
      BY <3>1, AppendProperties
    <3>4. /\ Len(h.reactions[p]) \in Nat
          /\ DOMAIN h.reactions[p] = 1..Len(h.reactions[p])
          /\ DOMAIN rs = 1..Len(rs)
      BY <3>1, <3>3, LenProperties
    <3> HIDE DEF rs
    <3> QED
      BY <3>2, <3>3, <3>4
  <2> HIDE DEF rs, f
  <2>4. [h.reactions EXCEPT ![p] = rs] \in [Promise -> Seq(Reaction)]
    BY <2>2, <2>3
  <2>5. f \in Heap
    BY <1>1, <2>1, <2>4 DEF Heap
  <2>6. /\ SameNames(f, h) /\ f.state = h.state /\ f.queue = h.queue
        /\ f.resolved = h.resolved /\ f.result = h.result
        /\ f.reactions = [h.reactions EXCEPT ![p] = rs]
    BY <1>1, <2>1 DEF Heap, SameNames
  <2>7. \A q \in Promise : \A i \in DOMAIN f.reactions[q] :
          ReactionOK(h, f.reactions[q][i])
    <3>1. \A q \in Promise :
            f.reactions[q] = IF q = p THEN rs ELSE h.reactions[q]
      BY <2>2, <2>6
    <3> QED
      BY <2>3, <3>1 DEF HeapOK
  <2>8. HeapOK(f)
    BY <2>5, <2>6, <2>7
       DEF HeapOK, SameNames, Made, Created, ReactionOK, JobOK
  <2>9. Single(h) => Single(f)
    <3>1. NoNewAdoption(f, h)
      BY <2>6 DEF NoNewAdoption
    <3> QED
      BY <2>6, <3>1, SingleIsKept
  <2> QED
    BY <2>6, <2>8, <2>9 DEF f
<1>4. CASE ~ h.error /\ h.state[p] # "pending"
  <2> DEFINE told == [h EXCEPT !.unhandled = h.unhandled \ {p}]
             job == NewReactionJob(r, h.state[p], h.result[p])
             done == Enqueue(told, <<job>>)
             handled == IF done.error THEN done.handled
                        ELSE done.handled \cup {p}
  <2>1. f = [done EXCEPT !.handled = handled]
    BY <1>4 DEF PerformPromiseThen, TellHandled
  <2>2. h.state[p] \in Outcome /\ h.result[p] \in Pair
    BY <1>1, <1>4 DEF HeapOK, Heap
  <2>3. job \in Job /\ job.type = "reaction" /\ JobOK(h, job)
    BY <2>2, NewReactionJobOK DEF Job, ReactionJob
  <2>4. told \in Heap
    BY <1>1 DEF Heap
  <2>5. /\ SameNames(told, h) /\ told.state = h.state /\ told.queue = h.queue
        /\ told.resolved = h.resolved /\ told.result = h.result
        /\ told.reactions = h.reactions
    BY <1>1 DEF Heap, SameNames
  <2> HIDE DEF told, job
  <2>6. HeapOK(told) /\ JobOK(told, job)
    BY <2>3, <2>4, <2>5 DEF HeapOK, SameNames, Made, Created, ReactionOK, JobOK
  <2>7. /\ <<job>> \in Seq(Job) /\ DOMAIN <<job>> = {1} /\ <<job>>[1] = job
        /\ \A i \in DOMAIN <<job>> : JobOK(told, <<job>>[i])
    BY <2>3, <2>6
  <2>8. /\ HeapOK(done) /\ SamePromises(done, told)
        /\ \A i \in DOMAIN done.queue :
             \/ i \in DOMAIN told.queue /\ done.queue[i] = told.queue[i]
             \/ /\ i - Len(told.queue) \in DOMAIN <<job>>
                /\ done.queue[i] = <<job>>[i - Len(told.queue)]
    BY <2>6, <2>7, EnqueueOK
  <2> HIDE DEF done, f
  <2>9. NoNewAdoption(done, h)
    BY <2>3, <2>5, <2>7, <2>8 DEF NoNewAdoption
  <2>10. handled \subseteq Promise /\ done \in Heap
    BY <1>1, <2>8 DEF HeapOK, Heap
  <2> HIDE DEF handled
  <2>11. /\ f \in Heap /\ f.queue = done.queue
         /\ SameNames(f, done) /\ f.state = done.state
         /\ f.resolved = done.resolved /\ f.result = done.result
         /\ f.reactions = done.reactions
    BY <2>1, <2>10 DEF Heap, SameNames
  <2>12. HeapOK(f)
    BY <2>8, <2>11 DEF HeapOK, SameNames, Made, Created, ReactionOK, JobOK
  <2>13. /\ SameNames(f, h) /\ NoNewAdoption(f, h)
         /\ f.resolved = h.resolved /\ f.state = h.state
    BY <2>5, <2>8, <2>9, <2>11 DEF SameNames, SamePromises, NoNewAdoption
  <2>14. Single(h) => Single(f)
    BY <2>13, SingleIsKept
  <2> QED
    BY <2>12, <2>13, <2>14 DEF f
<1> QED
  BY <1>2, <1>3, <1>4

-----------------------------------------------------------------------------
(* A job that the recorder lets through is one of the queue. *)
LEMMA NextJobInQueue ==
  ASSUME NEW S, NEW ids \in Seq(S), ids # <<>>, NEW order,
         ~ Blocked(ids, order), ~ Unidentifiable(ids, order)
  PROVE  NextJob(ids, order) \in 1..Len(ids)
<1>1. Len(ids) \in Nat \ {0}
  BY EmptySeq
<1>2. CASE ~ Replaying(order) \/ ids[1] = Head(order)
  BY <1>1, <1>2 DEF NextJob
<1>3. CASE ~ (~ Replaying(order) \/ ids[1] = Head(order))
  <2> DEFINE I == {i \in 1..Len(ids) : ids[i] = Head(order)}
  <2>1. NextJob(ids, order) = IF I # {} THEN Max(I) ELSE 0
    BY <1>3 DEF NextJob, SelectLastInSeq
  <2>2. NextJob(ids, order) # 0
    BY <1>3 DEF Blocked
  <2>3. I \in SUBSET (1..Len(ids))
    OBVIOUS
  <2> HIDE DEF I
  <2> QED
    BY <1>1, <2>1, <2>2, <2>3, LastIndex
<1> QED
  BY <1>2, <1>3

(* A job is polled: what decided about its promise was that job. *)
LEMMA PollOK ==
  ASSUME NEW h, HeapOK(h), NEW i \in DOMAIN h.queue
  PROVE  LET g == [h EXCEPT !.queue = RemoveAt(@, i)]
             p == h.queue[i].promise
         IN  /\ HeapOK(g) /\ SameNames(g, h)
             /\ h.queue[i] \in Job /\ JobOK(g, h.queue[i])
             /\ Single(h) =>
                  /\ Single(g)
                  /\ h.queue[i].type = "thenable" =>
                       ~ Undecided(g, p) /\ g.state[p] = "pending"
<1> DEFINE q == h.queue
           r == RemoveAt(q, i)
           g == [h EXCEPT !.queue = r]
           p == q[i].promise
<1>1. h \in Heap /\ q \in Seq(Job)
  BY DEF HeapOK, Heap
<1>2. Len(q) \in Nat /\ DOMAIN q = 1..Len(q)
  BY <1>1, LenProperties
<1>3. /\ r \in Seq(Job) /\ Len(r) = Len(q) - 1
      /\ \A j \in 1..Len(q) - 1 : r[j] = IF j < i THEN q[j] ELSE q[j + 1]
  <2>1. i \in 1..Len(q)
    BY <1>2
  <2> HIDE DEF q, r
  <2> QED
    BY <1>1, <2>1, RemoveAtProperties DEF r
<1>4. /\ g \in Heap /\ SameNames(g, h) /\ g.queue = r /\ g.state = h.state
      /\ g.resolved = h.resolved /\ g.result = h.result
      /\ g.reactions = h.reactions
  <2> HIDE DEF r
  <2> QED
    BY <1>1, <1>3 DEF Heap, SameNames
<1> DEFINE old(j) == IF j < i THEN j ELSE j + 1
<1>5. \A j \in DOMAIN r : /\ j \in Int /\ old(j) \in DOMAIN q \ {i}
                           /\ r[j] = q[old(j)]
  <2>1. DOMAIN r = 1..Len(q) - 1
    BY <1>3, LenProperties
  <2> HIDE DEF r, q
  <2>2. i \in 1..Len(q)
    BY <1>2 DEF q
  <2> QED
    BY <1>2, <1>3, <2>1, <2>2
<1>6. \A j, l \in DOMAIN r : old(j) = old(l) => j = l
  <2>1. \A j \in DOMAIN r : j \in Int
    BY <1>5
  <2>2. i \in Int
    BY <1>2
  <2> QED
    BY <2>1, <2>2
<1> HIDE DEF r, g, old
<1>7. HeapOK(g)
  <2>1. \A j \in DOMAIN g.queue : JobOK(g, g.queue[j])
    BY <1>4, <1>5 DEF HeapOK, JobOK, SameNames, Made, Created
  <2> QED
    BY <1>4, <2>1 DEF HeapOK, SameNames, Made, Created, ReactionOK
<1>8. q[i] \in Job /\ JobOK(g, q[i])
  <2>1. q[i] \in Job
    BY <1>1, <1>2, ElementOfSeq
  <2> QED
    BY <1>4, <2>1 DEF HeapOK, JobOK, SameNames, Made, Created
<1>9. ASSUME Single(h)
      PROVE  /\ Single(g)
             /\ q[i].type = "thenable" =>
                  ~ Undecided(g, p) /\ g.state[p] = "pending"
  <2>1. ASSUME NEW s \in Promise
        PROVE  /\ Unused(g, s) = Unused(h, s) /\ g.state[s] = h.state[s]
               /\ \A j \in Adoptions(g, s) : old(j) \in Adoptions(h, s) \ {i}
               /\ Adoptions(g, s) \subseteq DOMAIN r
    BY <1>4, <1>5 DEF Unused, Adoptions, SameNames, Made
  <2>2. Single(g)
    <3> SUFFICES ASSUME NEW s \in Promise
                 PROVE  /\ \A k, l \in Unused(g, s) : k = l
                        /\ \A j, l \in Adoptions(g, s) : j = l
                        /\ Unused(g, s) = {} \/ Adoptions(g, s) = {}
                        /\ g.state[s] # "pending" => ~ Undecided(g, s)
      BY DEF Single
    <3>1. \A j, l \in Adoptions(g, s) : j = l
      BY <1>6, <1>9, <2>1 DEF Single
    <3> QED
      BY <1>9, <2>1, <3>1 DEF Single, Undecided
  <2>3. ASSUME q[i].type = "thenable"
        PROVE  ~ Undecided(g, p) /\ g.state[p] = "pending"
    <3>1. p \in Promise /\ i \in Adoptions(h, p)
      BY <1>8, <2>3 DEF Job, ThenableJob, ReactionJob, Microtask, Adoptions, Adopts
    <3>2. Adoptions(g, p) = {}
      BY <1>9, <2>1, <3>1 DEF Single
    <3>3. Unused(g, p) = {} /\ g.state[p] = "pending"
      BY <1>9, <2>1, <3>1 DEF Single, Undecided
    <3> QED
      BY <3>2, <3>3 DEF Undecided
  <2> QED
    BY <2>2, <2>3
<1> QED
  BY <1>4, <1>7, <1>8, <1>9 DEF g, r

(* The identifiers of the queue are asked for job by job. *)
LEMMA IdentifiersOfQueue ==
  ASSUME NEW h, HeapOK(h)
  PROVE  /\ Identifiers(h.queue) \in Seq(Pair \cup {NoIdentifier})
         /\ Len(Identifiers(h.queue)) = Len(h.queue)
<1> DEFINE q == h.queue
<1>1. q \in Seq(Job)
  BY DEF HeapOK, Heap
<1> HIDE DEF q
<1>2. Len(q) \in Nat /\ DOMAIN q = 1..Len(q)
  BY <1>1, LenProperties
<1>3. \A i \in 1..Len(q) : Identifier(q[i]) \in Pair \cup {NoIdentifier}
  BY <1>1, ElementOfSeq, IdentifierType
<1>4. Identifiers(q) = [i \in 1..Len(q) |-> Identifier(q[i])]
  BY <1>2 DEF Identifiers
<1>5. Identifiers(q) \in [1..Len(q) -> Pair \cup {NoIdentifier}]
  BY <1>3, <1>4
<1>6. /\ Identifiers(q) \in Seq(Pair \cup {NoIdentifier})
      /\ Len(Identifiers(q)) = Len(q)
  BY <1>2, <1>5, IsASeq, LenProperties
<1> QED
  BY <1>6 DEF q

(* An error is thrown or caught. *)
LEMMA ErrorOK ==
  ASSUME NEW h, HeapOK(h), NEW e \in BOOLEAN
  PROVE  LET g == [h EXCEPT !.error = e]
         IN  /\ HeapOK(g) /\ SameNames(g, h)
             /\ Single(h) => Single(g)
<1> DEFINE g == [h EXCEPT !.error = e]
<1>1. h \in Heap
  BY DEF HeapOK
<1>2. /\ g \in Heap /\ SameNames(g, h) /\ g.queue = h.queue /\ g.state = h.state
      /\ g.resolved = h.resolved /\ g.result = h.result
      /\ g.reactions = h.reactions
  BY <1>1 DEF Heap, SameNames
<1> HIDE DEF g
<1>3. HeapOK(g)
  BY <1>2 DEF HeapOK, SameNames, Made, Created, ReactionOK, JobOK
<1>4. NoNewAdoption(g, h)
  BY <1>2 DEF NoNewAdoption
<1>5. Single(h) => Single(g)
  BY <1>2, <1>4, SingleIsKept
<1> QED
  BY <1>2, <1>3, <1>5 DEF g

(* A microtask of the embedder is enqueued. *)
LEMMA EnqueueMicrotaskOK ==
  ASSUME NEW h, HeapOK(h)
  PROVE  LET g == Enqueue(h, <<[type |-> "microtask"]>>)
         IN  /\ HeapOK(g) /\ SameNames(g, h)
             /\ Single(h) => Single(g)
<1> DEFINE job == [type |-> "microtask"]
           g == Enqueue(h, <<job>>)
<1>1. job \in Job /\ JobOK(h, job) /\ job.type = "microtask"
  BY DEF Job, Microtask, JobOK
<1> HIDE DEF job
<1>2. /\ <<job>> \in Seq(Job) /\ DOMAIN <<job>> = {1} /\ <<job>>[1] = job
      /\ \A i \in DOMAIN <<job>> : JobOK(h, <<job>>[i])
  BY <1>1
<1>3. /\ HeapOK(g) /\ SamePromises(g, h)
      /\ \A i \in DOMAIN g.queue :
           \/ i \in DOMAIN h.queue /\ g.queue[i] = h.queue[i]
           \/ /\ i - Len(h.queue) \in DOMAIN <<job>>
              /\ g.queue[i] = <<job>>[i - Len(h.queue)]
  BY <1>2, EnqueueOK
<1> HIDE DEF g
<1>4. SameNames(g, h) /\ NoNewAdoption(g, h)
  BY <1>1, <1>2, <1>3 DEF SamePromises, SameNames, NoNewAdoption
<1>5. Single(h) => Single(g)
  BY <1>3, <1>4, SingleIsKept DEF SamePromises
<1> QED
  BY <1>3, <1>4, <1>5 DEF g, job

(* The heap a program starts with. *)
LEMMA EmptyHeapOK == HeapOK(EmptyHeap) /\ Single(EmptyHeap)
<1>1. EmptyHeap \in Heap
  <2>1. 0 \in 0..MaxPromises /\ 0 \in 0..MaxPairs
    BY BoundsAssumption
  <2>2. <<>> \in Seq(Reaction) /\ <<>> \in Seq(Job) /\ <<>> \in Seq(Pair)
    BY EmptySeq
  <2> QED
    BY <2>1, <2>2 DEF EmptyHeap, Heap
<1>2. Created(EmptyHeap) = {} /\ Made(EmptyHeap) = {}
  BY DEF EmptyHeap, Created, Made
<1>3. \A p \in Promise : EmptyHeap.state[p] = "pending"
  BY DEF EmptyHeap
<1>4. DOMAIN EmptyHeap.queue = {}
  BY DEF EmptyHeap
<1>5. \A p \in Promise : DOMAIN EmptyHeap.reactions[p] = {}
  BY DEF EmptyHeap
<1>6. HeapOK(EmptyHeap)
  BY <1>1, <1>2, <1>3, <1>4, <1>5 DEF HeapOK
<1>7. Single(EmptyHeap)
  BY <1>2, <1>3, <1>4 DEF Single, Undecided, Unused, Adoptions
<1> QED
  BY <1>6, <1>7
-----------------------------------------------------------------------------
(* The jobs and the reactions that hold the continuation of pair k.  It    *)
(* may be in at most one place.                                            *)
JobsOf(h, k)         == {i \in DOMAIN h.queue : /\ h.queue[i].type = "reaction"
                                                /\ Holds(h.queue[i], k)}
ReactionsOf(h, p, k) == {i \in DOMAIN h.reactions[p] :
                           Holds(h.reactions[p][i], k)}

Nowhere(h, k) == /\ JobsOf(h, k) = {}
                 /\ \A p \in Promise : ReactionsOf(h, p, k) = {}

Once(h, k) == /\ \A i, j \in JobsOf(h, k) : i = j
              /\ \A p, q \in Promise :
                   \A i \in ReactionsOf(h, p, k), j \in ReactionsOf(h, q, k) :
                     p = q /\ i = j
              /\ \A p \in Promise :
                   JobsOf(h, k) = {} \/ ReactionsOf(h, p, k) = {}

(* From h to g the continuation of k is not put in a second place. *)
Keeps(h, g, k) == /\ Once(h, k) => Once(g, k)
                  /\ Nowhere(h, k) => Nowhere(g, k)

(* Nor is it lost, unless an error has happened. *)
Saves(h, g, k) == ~ g.error => ~ h.error /\ (Nowhere(g, k) => Nowhere(h, k))

LEMMA NowhereIsOnce ==
  ASSUME NEW h, NEW k, Nowhere(h, k)
  PROVE  Once(h, k)
BY DEF Nowhere, Once

LEMMA KeepsTwice ==
  ASSUME NEW h, NEW g, NEW f, NEW k, Keeps(h, g, k), Keeps(g, f, k)
  PROVE  Keeps(h, f, k)
BY DEF Keeps

LEMMA SavesTwice ==
  ASSUME NEW h, NEW g, NEW f, NEW k, Saves(h, g, k), Saves(g, f, k)
  PROVE  Saves(h, f, k)
BY DEF Saves

(* An operation that touches neither the queue nor the reactions. *)
LEMMA ElsewhereKeeps ==
  ASSUME NEW h, NEW g, NEW k, g.queue = h.queue, g.reactions = h.reactions
  PROVE  /\ Keeps(h, g, k)
         /\ Nowhere(g, k) = Nowhere(h, k)
         /\ g.error = h.error => Saves(h, g, k)
BY DEF Keeps, Saves, Nowhere, Once, JobsOf, ReactionsOf

(* Jobs that are no reaction jobs are enqueued. *)
LEMMA EnqueueOtherKeeps ==
  ASSUME NEW h, HeapOK(h), ~ h.error, NEW job \in Job, job.type # "reaction",
         NEW k
  PROVE  LET g == Enqueue(h, <<job>>)
         IN  /\ Keeps(h, g, k)
             /\ Saves(h, g, k)
             /\ g.resolved = h.resolved
<1> DEFINE g == Enqueue(h, <<job>>)
           n == Serializable(Identifiers(<<job>>))
<1>1. /\ <<job>> \in Seq(Job) /\ Len(<<job>>) = 1 /\ <<job>>[1] = job
  OBVIOUS
<1>h. h \in Heap
  BY DEF HeapOK
<1>2. /\ n \in 0..Len(<<job>>)
      /\ Len(h.queue) \in Nat
      /\ DOMAIN h.queue = 1..Len(h.queue)
      /\ DOMAIN g.queue = 1..(Len(h.queue) + n)
      /\ \A i \in 1..Len(h.queue) : g.queue[i] = h.queue[i]
      /\ \A i \in 1..n : g.queue[Len(h.queue) + i] = <<job>>[i]
  BY <1>1, <1>h, EnqueueAppends
<1>3. g.reactions = h.reactions /\ g.resolved = h.resolved
  BY DEF Enqueue, Heap, HeapOK
<1> HIDE DEF g, n
<1>4. JobsOf(g, k) = JobsOf(h, k)
  <2> DEFINE l == Len(h.queue)
  <2>1. l \in Nat /\ n \in 0..1 /\ DOMAIN h.queue = 1..l /\ DOMAIN g.queue = 1..(l + n)
    BY <1>1, <1>2
  <2>2. \A i \in 1..l : g.queue[i] = h.queue[i]
    BY <1>2
  <2>3. n = 1 => g.queue[l + 1] = job
    BY <1>1, <1>2
  <2> HIDE DEF l
  <2>4. \A i \in DOMAIN g.queue : i \in 1..l \/ (n = 1 /\ i = l + 1)
    BY <2>1
  <2>5. \A i \in 1..l : i \in DOMAIN g.queue
    BY <2>1
  <2> QED
    BY <2>1, <2>2, <2>3, <2>4, <2>5 DEF JobsOf
<1>5. \A p : ReactionsOf(g, p, k) = ReactionsOf(h, p, k)
  BY <1>3 DEF ReactionsOf
<1> QED
  BY <1>3, <1>4, <1>5 DEF g, Keeps, Saves, Once, Nowhere

(* FulfillPromise and RejectPromise, but for the jobs. *)
LEMMA SetStateType ==
  ASSUME NEW h, HeapOK(h), NEW p \in Created(h),
         NEW outcome \in Outcome, NEW value \in Pair
  PROVE  /\ SetState(h, p, outcome, value) \in Heap
         /\ SetState(h, p, outcome, value).error = h.error
         /\ SetState(h, p, outcome, value).queue = h.queue
<1> DEFINE s == SetState(h, p, outcome, value)
<1>1. h \in Heap /\ p \in Promise
  BY CreatedIsPromise DEF HeapOK
<1>3. s \in Heap /\ s.error = h.error /\ s.queue = h.queue
  <2> DEFINE unhandled == IF outcome = "rejected" /\ p \notin h.handled
                          THEN h.unhandled \cup {p} ELSE h.unhandled
  <2>1. s = [h EXCEPT !.state     = [h.state EXCEPT ![p] = outcome],
                      !.result    = [h.result EXCEPT ![p] = value],
                      !.reactions = [h.reactions EXCEPT ![p] = <<>>],
                      !.unhandled = unhandled]
    BY <1>1 DEF SetState, Heap
  <2>2. unhandled \subseteq Promise
    BY <1>1 DEF Heap
  <2>3. [h.reactions EXCEPT ![p] = <<>>] \in [Promise -> Seq(Reaction)]
    BY <1>1, EmptySeq DEF Heap
  <2>4. /\ [h.state EXCEPT ![p] = outcome] \in [Promise -> {"pending"} \cup Outcome]
        /\ [h.result EXCEPT ![p] = value] \in [Promise -> Pair \cup {None}]
    BY <1>1 DEF Heap
  <2> HIDE DEF unhandled, s
  <2> QED
    BY <1>1, <2>1, <2>2, <2>3, <2>4 DEF Heap
<1> QED
  BY <1>3

(* FulfillPromise and RejectPromise leave no reactions. *)
LEMMA SettleEmpties ==
  ASSUME NEW h, HeapOK(h), NEW p \in Created(h),
         NEW outcome \in Outcome, NEW value \in Pair
  PROVE  /\ Settle(h, p, outcome, value).reactions
              = [h.reactions EXCEPT ![p] = <<>>]
         /\ Settle(h, p, outcome, value).resolved = h.resolved
<1> DEFINE g    == Settle(h, p, outcome, value)
           s    == SetState(h, p, outcome, value)
           jobs == [i \in DOMAIN h.reactions[p] |->
                      NewReactionJob(h.reactions[p][i], outcome, value)]
<1>1. h \in Heap /\ p \in Promise
  BY CreatedIsPromise DEF HeapOK
<1>2. g = Enqueue(s, jobs)
  BY DEF Settle
<1>3. s \in Heap
  BY <1>1, SetStateType
<1>4. /\ s.reactions = [h.reactions EXCEPT ![p] = <<>>]
      /\ s.resolved = h.resolved
  BY <1>1 DEF SetState, Heap
<1> HIDE DEF jobs, g, s
<1>5. g.reactions = s.reactions /\ g.resolved = s.resolved
  BY <1>2, <1>3 DEF Enqueue, Heap
<1> QED
  BY <1>4, <1>5 DEF g

(* From h to g the reactions rs become jobs, up to the first one that      *)
(* cannot be written to the recording.                                     *)
Triggered(h, g, rs) ==
  \E n \in 0..Len(rs) :
    /\ g.error <=> n < Len(rs)
    /\ ~ TRACING => n = Len(rs)
    /\ DOMAIN g.queue = 1..(Len(h.queue) + n)
    /\ \A i \in 1..Len(h.queue) : g.queue[i] = h.queue[i]
    /\ \A i \in 1..n : /\ g.queue[Len(h.queue) + i].type = "reaction"
                       /\ g.queue[Len(h.queue) + i].cap = rs[i].cap
                       /\ g.queue[Len(h.queue) + i].fn = rs[i].fn
    /\ TRACING => /\ \A i \in 1..n : rs[i].cap # NoIdentifier
                  /\ Len(h.log) \in Nat
                  /\ Len(g.log) = Len(h.log) + n
                  /\ \A i \in 1..Len(h.log) : g.log[i] = h.log[i]
                  /\ \A i \in 1..n : g.log[Len(h.log) + i] = rs[i].cap

LEMMA SettleTriggers ==
  ASSUME NEW h, HeapOK(h), NEW p \in Created(h),
         NEW outcome \in Outcome, NEW value \in Pair
  PROVE  Triggered(h, Settle(h, p, outcome, value), h.reactions[p])
<1> DEFINE s    == SetState(h, p, outcome, value)
           rs   == h.reactions[p]
           g    == Settle(h, p, outcome, value)
           jobs == [i \in DOMAIN rs |-> NewReactionJob(rs[i], outcome, value)]
           n    == Serializable(Identifiers(jobs))
           l    == Len(h.queue)
<1>1. h \in Heap /\ p \in Promise
  BY CreatedIsPromise DEF HeapOK
<1>2. g = Enqueue(s, jobs)
  BY DEF Settle
<1>3. s \in Heap
  BY <1>1, SetStateType
<1>4. /\ s.reactions = [h.reactions EXCEPT ![p] = <<>>]
      /\ s.resolved = h.resolved /\ s.queue = h.queue /\ s.log = h.log
  BY <1>1 DEF SetState, Heap
<1>5. /\ rs \in Seq(Reaction) /\ h.queue \in Seq(Job)
      /\ \A i \in DOMAIN rs : ReactionOK(h, rs[i])
  BY <1>1 DEF HeapOK, Heap
<1>6. /\ Len(rs) \in Nat /\ DOMAIN rs = 1..Len(rs)
      /\ l \in Nat /\ DOMAIN h.queue = 1..l
  <2> HIDE DEF rs
  <2> QED
    BY <1>5, LenProperties
<1> HIDE DEF rs, s
<1>7. jobs \in Seq(Job) /\ Len(jobs) = Len(rs)
  <2>2. \A i \in 1..Len(rs) : NewReactionJob(rs[i], outcome, value) \in ReactionJob
    BY <1>5, <1>6, NewReactionJobOK, ElementOfSeq
  <2>3. jobs \in [1..Len(rs) -> Job]
    BY <1>6, <2>2 DEF Job
  <2> QED
    BY <1>6, <2>3, IsASeq, LenProperties
<1>8. \A i \in 1..Len(rs) :
        /\ jobs[i].type = "reaction" /\ jobs[i].cap = rs[i].cap
        /\ jobs[i].fn = rs[i].fn
        /\ Identifier(jobs[i]) = rs[i].cap
  BY <1>6 DEF NewReactionJob, Identifier
<1> HIDE DEF jobs, g, n
<1>9. /\ n \in 0..Len(jobs)
      /\ (g.error <=> n < Len(jobs))
      /\ DOMAIN g.queue = 1..(Len(s.queue) + n)
      /\ \A i \in 1..Len(s.queue) : g.queue[i] = s.queue[i]
      /\ \A i \in 1..n : g.queue[Len(s.queue) + i] = jobs[i]
      /\ ~ TRACING => n = Len(jobs)
      /\ TRACING => \A i \in 1..n : Identifier(jobs[i]) # NoIdentifier
      /\ TRACING => /\ Len(s.log) \in Nat
                    /\ Len(g.log) = Len(s.log) + n
                    /\ \A i \in 1..Len(s.log) : g.log[i] = s.log[i]
                    /\ \A i \in 1..n : g.log[Len(s.log) + i]
                                        = Identifier(jobs[i])
  <2>1. /\ n \in 0..Len(jobs)
        /\ (Enqueue(s, jobs).error <=> n < Len(jobs))
        /\ DOMAIN Enqueue(s, jobs).queue = 1..(Len(s.queue) + n)
        /\ \A i \in 1..Len(s.queue) : Enqueue(s, jobs).queue[i] = s.queue[i]
        /\ \A i \in 1..n : Enqueue(s, jobs).queue[Len(s.queue) + i] = jobs[i]
        /\ ~ TRACING => n = Len(jobs)
        /\ TRACING => \A i \in 1..n : Identifier(jobs[i]) # NoIdentifier
        /\ TRACING => /\ Len(s.log) \in Nat
                      /\ Len(Enqueue(s, jobs).log) = Len(s.log) + n
                      /\ \A i \in 1..Len(s.log) :
                           Enqueue(s, jobs).log[i] = s.log[i]
                      /\ \A i \in 1..n : Enqueue(s, jobs).log[Len(s.log) + i]
                                          = Identifier(jobs[i])
    BY <1>3, <1>7, EnqueueAppends, ZenonT(60) DEF n
  <2> QED
    BY <1>2, <2>1
<1>n. n \in 0..Len(rs)
  BY <1>7, <1>9
<1>11. \A i \in 1..n : i \in 1..Len(rs)
  BY <1>6, <1>n
<1>12. /\ n \in 0..Len(rs)
       /\ (g.error <=> n < Len(rs))
       /\ ~ TRACING => n = Len(rs)
       /\ DOMAIN g.queue = 1..(l + n)
       /\ \A i \in 1..l : g.queue[i] = h.queue[i]
       /\ \A i \in 1..n : /\ g.queue[l + i].type = "reaction"
                          /\ g.queue[l + i].cap = rs[i].cap
                          /\ g.queue[l + i].fn = rs[i].fn
       /\ TRACING => /\ \A i \in 1..n : rs[i].cap # NoIdentifier
                     /\ Len(h.log) \in Nat
                     /\ Len(g.log) = Len(h.log) + n
                     /\ \A i \in 1..Len(h.log) : g.log[i] = h.log[i]
                     /\ \A i \in 1..n : g.log[Len(h.log) + i] = rs[i].cap
  <2>1. /\ n \in 0..Len(rs)
        /\ g.error <=> n < Len(rs)
        /\ ~ TRACING => n = Len(rs)
        /\ DOMAIN g.queue = 1..(l + n)
        /\ \A i \in 1..l : g.queue[i] = h.queue[i]
        /\ \A i \in 1..n : g.queue[l + i] = jobs[i]
    BY <1>4, <1>7, <1>9
  <2>2. \A i \in 1..n : /\ g.queue[l + i].type = "reaction"
                        /\ g.queue[l + i].cap = rs[i].cap
                        /\ g.queue[l + i].fn = rs[i].fn
    BY <1>8, <1>11, <2>1
  <2>3. TRACING => /\ \A i \in 1..n : rs[i].cap # NoIdentifier
                   /\ Len(h.log) \in Nat
                   /\ Len(g.log) = Len(h.log) + n
                   /\ \A i \in 1..Len(h.log) : g.log[i] = h.log[i]
                   /\ \A i \in 1..n : g.log[Len(h.log) + i] = rs[i].cap
    <3>1. \A i \in 1..n : Identifier(jobs[i]) = rs[i].cap
      BY <1>8, <1>11
    <3>2. s.log = h.log
      BY <1>4
    <3>3. TRACING => /\ \A i \in 1..n : Identifier(jobs[i]) # NoIdentifier
                     /\ Len(h.log) \in Nat
                     /\ Len(g.log) = Len(h.log) + n
                     /\ \A i \in 1..Len(h.log) : g.log[i] = h.log[i]
                     /\ \A i \in 1..n : g.log[Len(h.log) + i] = Identifier(jobs[i])
      BY <1>9, <3>2, Zenon
    <3> QED
      BY <3>1, <3>3
  <2> QED
    BY <2>1, <2>2, <2>3
<1> QED
  BY <1>12 DEF Triggered, l, rs, g

(* A settled promise has no reactions any more, but their jobs. *)
LEMMA SettleKeeps ==
  ASSUME NEW h, HeapOK(h), ~ h.error, NEW p \in Created(h),
         NEW outcome \in Outcome, NEW value \in Pair, NEW k
  PROVE  LET g == Settle(h, p, outcome, value)
         IN  Keeps(h, g, k) /\ Saves(h, g, k) /\ g.resolved = h.resolved
<1> DEFINE rs == h.reactions[p]
           l  == Len(h.queue)
           m  == Len(rs)
           g  == Settle(h, p, outcome, value)
<1>r. g = Settle(h, p, outcome, value) /\ rs = h.reactions[p]
  OBVIOUS
<1> HIDE DEF g, rs
<1>1. /\ m \in Nat /\ DOMAIN rs = 1..m
      /\ l \in Nat /\ DOMAIN h.queue = 1..l
      /\ g.reactions = [h.reactions EXCEPT ![p] = <<>>]
      /\ g.resolved = h.resolved
  <2>1. rs \in Seq(Reaction) /\ h.queue \in Seq(Job)
    BY <1>r, CreatedIsPromise DEF HeapOK, Heap
  <2>2. /\ g.reactions = [h.reactions EXCEPT ![p] = <<>>]
        /\ g.resolved = h.resolved
    BY <1>r, SettleEmpties
  <2> QED
    BY <2>1, <2>2, LenProperties
<1>2. PICK n \in 0..m :
        /\ g.error <=> n < m
        /\ DOMAIN g.queue = 1..(l + n)
        /\ \A i \in 1..l : g.queue[i] = h.queue[i]
        /\ \A i \in 1..n : /\ g.queue[l + i].type = "reaction"
                           /\ g.queue[l + i].cap = rs[i].cap
                           /\ g.queue[l + i].fn = rs[i].fn
  <2>1. Triggered(h, g, rs)
    BY <1>r, SettleTriggers
  <2> QED
    BY <2>1 DEF Triggered
<1> HIDE DEF m, l
<1>3. p \in Promise /\ h.reactions \in [Promise -> Seq(Reaction)]
  BY CreatedIsPromise DEF HeapOK, Heap
<1>4. \A q \in Promise : ReactionsOf(g, q, k) =
                         IF q = p THEN {} ELSE ReactionsOf(h, q, k)
  <2>1. \A q \in Promise : g.reactions[q] = IF q = p THEN <<>> ELSE h.reactions[q]
    BY <1>1, <1>3
  <2> QED
    BY <2>1 DEF ReactionsOf
<1>5. \A i \in 1..l : i \in JobsOf(g, k) <=> i \in JobsOf(h, k)
  <2>1. \A i \in 1..l : i \in 1..(l + n)
    BY <1>1
  <2> QED
    BY <1>1, <1>2, <2>1 DEF JobsOf
<1>6. \A i \in 1..n : /\ i \in DOMAIN rs
                      /\ l + i \in JobsOf(g, k) <=> i \in ReactionsOf(h, p, k)
  <2>1. \A i \in 1..n : i \in 1..m /\ l + i \in 1..(l + n)
    BY <1>1
  <2> QED
    BY <1>r, <1>1, <1>2, <2>1 DEF JobsOf, ReactionsOf, Holds
<1>7. \A j \in JobsOf(g, k) : \/ j \in 1..l /\ j \in JobsOf(h, k)
                             \/ \E i \in 1..n : j = l + i /\ i \in ReactionsOf(h, p, k)
  <2> SUFFICES ASSUME NEW j \in JobsOf(g, k), j \notin 1..l
               PROVE  \E i \in 1..n : j = l + i /\ i \in ReactionsOf(h, p, k)
    BY <1>5
  <2>1. j \in 1..(l + n)
    BY <1>2 DEF JobsOf
  <2>2. j - l \in 1..n /\ j = l + (j - l)
    BY <1>1, <2>1
  <2> QED
    BY <1>6, <2>2
<1>8. JobsOf(h, k) \subseteq 1..l
  BY <1>1 DEF JobsOf
<1> HIDE DEF rs
<1>9. ASSUME Once(h, k) PROVE Once(g, k)
  <2>1. \A i, j \in JobsOf(g, k) : i = j
    BY <1>3, <1>7, <1>8, <1>9 DEF Once
  <2>2. \A q, r \in Promise :
          \A i \in ReactionsOf(g, q, k), j \in ReactionsOf(g, r, k) :
            q = r /\ i = j
    BY <1>4, <1>9 DEF Once
  <2>3. \A q \in Promise : JobsOf(g, k) = {} \/ ReactionsOf(g, q, k) = {}
    BY <1>3, <1>4, <1>7, <1>9 DEF Once
  <2> QED
    BY <2>1, <2>2, <2>3 DEF Once
<1>10. Nowhere(h, k) => Nowhere(g, k)
  BY <1>3, <1>4, <1>7 DEF Nowhere
<1>11. ASSUME ~ g.error, Nowhere(g, k) PROVE Nowhere(h, k)
  <2>1. n = m
    BY <1>1, <1>2, <1>11
  <2>2. JobsOf(h, k) = {}
    BY <1>5, <1>8, <1>11 DEF Nowhere
  <2>3. ReactionsOf(h, p, k) = {}
    BY <1>1, <1>6, <1>11, <2>1 DEF Nowhere, ReactionsOf, rs
  <2> QED
    BY <1>4, <1>11, <2>2, <2>3 DEF Nowhere
<1> QED
  BY <1>1, <1>9, <1>10, <1>11 DEF g, Keeps, Saves

(* From h to g at most the pair k is used up; it is unless there is an     *)
(* error.                                                                  *)
Uses(h, g, k) == /\ h.resolved \subseteq g.resolved
                 /\ g.resolved \subseteq h.resolved \cup {k}
                 /\ ~ g.error => k \in g.resolved

LEMMA UseElsewhere ==
  ASSUME NEW h, HeapOK(h), NEW k \in Made(h)
  PROVE  LET g == Use(h, k)
         IN  /\ HeapOK(g) /\ SameNames(g, h) /\ g.error = h.error
             /\ g.queue = h.queue /\ g.reactions = h.reactions
             /\ g.resolved = h.resolved \cup {k}
<1>1. /\ HeapOK(Use(h, k)) /\ SameNames(Use(h, k), h)
      /\ Use(h, k).queue = h.queue /\ Use(h, k).resolved = h.resolved \cup {k}
  BY UseOK
<1>2. Use(h, k).error = h.error /\ Use(h, k).reactions = h.reactions
  BY DEF Use, HeapOK, Heap
<1> QED
  BY <1>1, <1>2

(* The promise of pair k is settled by one of its functions. *)
LEMMA UseAndSettleKeeps ==
  ASSUME NEW h, HeapOK(h), ~ h.error, NEW k \in Made(h),
         NEW outcome \in Outcome, NEW value \in Pair, NEW c
  PROVE  LET g == Settle(Use(h, k), h.target[k], outcome, value)
         IN  Keeps(h, g, c) /\ Saves(h, g, c) /\ Uses(h, g, k)
<1> DEFINE u == Use(h, k)
           p == h.target[k]
           g == Settle(u, p, outcome, value)
<1>1. /\ HeapOK(u) /\ SameNames(u, h) /\ u.error = h.error
      /\ u.queue = h.queue /\ u.reactions = h.reactions
      /\ u.resolved = h.resolved \cup {k}
  BY UseElsewhere
<1>2. p \in Created(u)
  BY <1>1 DEF HeapOK, SameNames, Created, Made
<1> HIDE DEF u, p, g
<1>3. Keeps(h, u, c) /\ Saves(h, u, c)
  BY <1>1, ElsewhereKeeps
<1>4. Keeps(u, g, c) /\ Saves(u, g, c) /\ g.resolved = u.resolved
  BY <1>1, <1>2, SettleKeeps DEF g
<1>5. Keeps(h, g, c) /\ Saves(h, g, c)
  BY <1>3, <1>4, KeepsTwice, SavesTwice
<1>6. Uses(h, g, k)
  BY <1>1, <1>4 DEF Uses
<1> QED
  BY <1>5, <1>6 DEF g, u, p

LEMMA UnusableKeeps ==
  ASSUME NEW h, NEW k, ~ Usable(h, k), NEW c
  PROVE  Keeps(h, h, c) /\ Saves(h, h, c) /\ Uses(h, h, k)
BY DEF Usable, Keeps, Saves, Uses

LEMMA RejectKeeps ==
  ASSUME NEW h, HeapOK(h), NEW k \in Made(h), NEW reason \in Pair, NEW c
  PROVE  LET g == RejectFunction(h, k, reason)
         IN  Keeps(h, g, c) /\ Saves(h, g, c) /\ Uses(h, g, k)
<1>1. CASE ~ Usable(h, k)
  BY <1>1, UnusableKeeps DEF RejectFunction
<1>2. CASE Usable(h, k)
  <2>1. RejectFunction(h, k, reason)
          = Settle(Use(h, k), h.target[k], "rejected", reason)
    BY <1>2 DEF RejectFunction
  <2>2. ~ h.error /\ "rejected" \in Outcome
    BY <1>2 DEF Usable, Outcome
  <2> QED
    BY <2>1, <2>2, UseAndSettleKeeps
<1> QED
  BY <1>1, <1>2

LEMMA ResolveKeeps ==
  ASSUME NEW h, HeapOK(h), NEW k \in Made(h), NEW x, ResolvesWith(h, x), NEW c
  PROVE  LET g == ResolveFunction(h, k, x)
         IN  Keeps(h, g, c) /\ Saves(h, g, c) /\ Uses(h, g, k)
<1> DEFINE u == Use(h, k)
           p == h.target[k]
           job == [type |-> "thenable", promise |-> p, thenable |-> x.ref]
           g == ResolveFunction(h, k, x)
<1>1. CASE ~ Usable(h, k)
  BY <1>1, UnusableKeeps DEF ResolveFunction
<1>2. CASE Usable(h, k)
  <2>1. \/ x.kind = "value" /\ x.ref \in Pair /\ g = Settle(u, p, "fulfilled", x.ref)
        \/ g = Settle(u, p, "rejected", k)
        \/ /\ x.ref \in Created(h) \cup {None}
           /\ g = Enqueue(u, <<job>>)
    <3>1. CASE x.kind = "value"
      BY <1>2, <3>1 DEF ResolveFunction, ResolvesWith, Resolution
    <3>2. CASE x.kind = "poisoned" \/ (x.kind = "promise" /\ x.ref = p)
      BY <1>2, <3>2 DEF ResolveFunction, ResolvesWith, Resolution
    <3>3. CASE ~ (x.kind = "value" \/ x.kind = "poisoned"
                    \/ (x.kind = "promise" /\ x.ref = p))
      <4>1. g = Enqueue(u, <<job>>)
        BY <1>2, <3>3 DEF ResolveFunction
      <4>2. x.ref \in Created(h) \cup {None}
        BY <3>3 DEF ResolvesWith, Resolution
      <4> QED
        BY <4>1, <4>2
    <3> QED
      BY <3>1, <3>2, <3>3
  <2>2. ~ h.error /\ {"fulfilled", "rejected"} \subseteq Outcome /\ k \in Pair
    BY <1>2, CreatedIsPromise DEF Usable, Outcome
  <2>3. CASE x.ref \in Pair /\ g = Settle(u, p, "fulfilled", x.ref)
    BY <2>2, <2>3, UseAndSettleKeeps
  <2>4. CASE g = Settle(u, p, "rejected", k)
    BY <2>2, <2>4, UseAndSettleKeeps
  <2>5. CASE x.ref \in Created(h) \cup {None} /\ g = Enqueue(u, <<job>>)
    <3>1. /\ HeapOK(u) /\ SameNames(u, h) /\ u.error = h.error
          /\ u.queue = h.queue /\ u.reactions = h.reactions
          /\ u.resolved = h.resolved \cup {k}
      BY UseElsewhere
    <3>2. job \in Job /\ job.type # "reaction"
      BY <2>5, CreatedIsPromise DEF Job, ThenableJob, HeapOK
    <3> HIDE DEF u, job, g
    <3>3. Keeps(h, u, c) /\ Saves(h, u, c)
      BY <3>1, ElsewhereKeeps
    <3>4. Keeps(u, g, c) /\ Saves(u, g, c) /\ g.resolved = u.resolved
      BY <2>2, <2>5, <3>1, <3>2, EnqueueOtherKeeps
    <3>5. Keeps(h, g, c) /\ Saves(h, g, c)
      BY <3>3, <3>4, KeepsTwice, SavesTwice
    <3>6. Uses(h, g, k)
      BY <3>1, <3>4 DEF Uses
    <3> QED
      BY <3>5, <3>6 DEF g
  <2> QED
    BY <2>1, <2>3, <2>4, <2>5
<1> QED
  BY <1>1, <1>2

LEMMA PassOnKeeps ==
  ASSUME NEW h, HeapOK(h), NEW k \in Made(h), NEW outcome, NEW value \in Pair,
         NEW c
  PROVE  LET g == PassOn(h, k, outcome, value)
         IN  Keeps(h, g, c) /\ Saves(h, g, c) /\ Uses(h, g, k)
<1> DEFINE x == [kind |-> "value", ref |-> value]
<1>1. ResolvesWith(h, x)
  BY DEF ResolvesWith, Resolution
<1>2. PassOn(h, k, outcome, value) = IF outcome = "fulfilled"
                                     THEN ResolveFunction(h, k, x)
                                     ELSE RejectFunction(h, k, value)
  BY DEF PassOn
<1> HIDE DEF x
<1> QED
  BY <1>1, <1>2, ResolveKeeps, RejectKeeps

(* Promises and pairs are created: no continuation is touched. *)
SameContinuations(g, h) == /\ g.queue = h.queue /\ g.reactions = h.reactions
                           /\ g.resolved = h.resolved /\ g.error = h.error
                           /\ g.log = h.log

LEMMA CreateElsewhere ==
  ASSUME NEW h, HeapOK(h), NEW p
  PROVE  /\ SameContinuations(CreateResolvingFunctions(h, p), h)
         /\ SameContinuations(NewPromise(h), h)
<1>1. h \in Heap
  BY DEF HeapOK
<1>2. ASSUME NEW f \in Heap, NEW q
      PROVE  SameContinuations(CreateResolvingFunctions(f, q), f)
  BY <1>2 DEF CreateResolvingFunctions, SameContinuations, Heap
<1>3. SameContinuations(NewPromise(h), h)
  BY <1>1 DEF NewPromise, CreateResolvingFunctions, SameContinuations, Heap
<1> QED
  BY <1>1, <1>2, <1>3

(* The polled job leaves the queue: what it held is nowhere any more.      *)
LEMMA PollKeeps ==
  ASSUME NEW h, HeapOK(h), NEW i \in DOMAIN h.queue, NEW g,
         g = [h EXCEPT !.queue = RemoveAt(@, i)], NEW c
  PROVE  /\ Keeps(h, g, c)
         /\ i \in JobsOf(h, c) /\ Once(h, c) => Nowhere(g, c)
         /\ i \notin JobsOf(h, c) => Saves(h, g, c)
         /\ g.resolved = h.resolved /\ g.reactions = h.reactions
         /\ g.error = h.error /\ g.log = h.log
<1> DEFINE q == h.queue
           r == RemoveAt(q, i)
<1>1. h \in Heap /\ q \in Seq(Job)
  BY DEF HeapOK, Heap
<1>2. Len(q) \in Nat /\ DOMAIN q = 1..Len(q) /\ i \in 1..Len(q)
  BY <1>1, LenProperties
<1>3. /\ r \in Seq(Job) /\ Len(r) = Len(q) - 1
      /\ \A j \in 1..Len(q) - 1 : r[j] = IF j < i THEN q[j] ELSE q[j + 1]
  <2>1. i \in 1..Len(q)
    BY <1>2
  <2> HIDE DEF q, r
  <2> QED
    BY <1>1, <2>1, RemoveAtProperties DEF r
<1>4. /\ g.queue = r /\ g.resolved = h.resolved /\ g.reactions = h.reactions
      /\ g.error = h.error /\ g.log = h.log
  <2> HIDE DEF r
  <2>1. g = [h EXCEPT !.queue = r]
    BY DEF r
  <2> QED
    BY <1>1, <2>1 DEF Heap
<1> DEFINE old(j) == IF j < i THEN j ELSE j + 1
<1>d. DOMAIN r = 1..Len(q) - 1
  BY <1>3, LenProperties
<1>5. \A j \in DOMAIN r : /\ j \in Int /\ old(j) \in DOMAIN q \ {i}
                           /\ r[j] = q[old(j)]
  <2> HIDE DEF r, q
  <2> QED
    BY <1>2, <1>3, <1>d
<1>6. \A j, l \in DOMAIN r : old(j) = old(l) => j = l
  <2>1. \A j \in DOMAIN r : j \in Int
    BY <1>5
  <2>2. i \in Int
    BY <1>2
  <2> QED
    BY <2>1, <2>2
<1>7. \A j \in DOMAIN q \ {i} : \E l \in DOMAIN r : old(l) = j
  <2> SUFFICES ASSUME NEW j \in DOMAIN q \ {i}
               PROVE  \E l \in DOMAIN r : old(l) = j
    OBVIOUS
  <2> HIDE DEF r, q
  <2>1. CASE j < i
    <3>1. j \in DOMAIN r
      BY <1>2, <1>d, <2>1
    <3> QED
      BY <2>1, <3>1
  <2>2. CASE ~ (j < i)
    <3>1. j - 1 \in DOMAIN r /\ ~ (j - 1 < i)
      BY <1>2, <1>d, <2>2
    <3>2. old(j - 1) = j
      BY <1>2, <3>1
    <3> QED
      BY <3>1, <3>2
  <2> QED
    BY <2>1, <2>2
<1> HIDE DEF r, old
<1>8. \A p : ReactionsOf(g, p, c) = ReactionsOf(h, p, c)
  BY <1>4 DEF ReactionsOf
<1>9. \A j \in JobsOf(g, c) : j \in DOMAIN r /\ old(j) \in JobsOf(h, c) \ {i}
  BY <1>4, <1>5 DEF JobsOf
<1>10. \A j \in JobsOf(h, c) \ {i} : \E l \in JobsOf(g, c) : old(l) = j
  <2> SUFFICES ASSUME NEW j \in JobsOf(h, c) \ {i}
               PROVE  \E l \in JobsOf(g, c) : old(l) = j
    OBVIOUS
  <2>1. PICK l \in DOMAIN r : old(l) = j
    BY <1>7 DEF JobsOf
  <2> QED
    BY <1>4, <1>5, <2>1 DEF JobsOf
<1>11. Keeps(h, g, c)
  <2>1. ASSUME Once(h, c) PROVE Once(g, c)
    <3>1. \A j, l \in JobsOf(g, c) : j = l
      BY <1>6, <1>9, <2>1 DEF Once
    <3>2. JobsOf(h, c) = {} => JobsOf(g, c) = {}
      BY <1>9
    <3> QED
      BY <1>8, <2>1, <3>1, <3>2 DEF Once
  <2>2. Nowhere(h, c) => Nowhere(g, c)
    BY <1>8, <1>9 DEF Nowhere
  <2> QED
    BY <2>1, <2>2 DEF Keeps
<1>12. ASSUME i \in JobsOf(h, c), Once(h, c) PROVE Nowhere(g, c)
  <2>1. JobsOf(g, c) = {}
    BY <1>9, <1>12 DEF Once
  <2>2. \A p \in Promise : ReactionsOf(g, p, c) = {}
    BY <1>8, <1>12 DEF Once
  <2> QED
    BY <2>1, <2>2 DEF Nowhere
<1>13. ASSUME i \notin JobsOf(h, c) PROVE Saves(h, g, c)
  BY <1>4, <1>8, <1>10, <1>13 DEF Saves, Nowhere
<1> QED
  BY <1>4, <1>11, <1>12, <1>13

(* What the registered reaction r holds was nowhere, and is in one place.  *)
LEMMA ThenKeeps ==
  ASSUME NEW h, HeapOK(h), NEW p \in Created(h),
         NEW r \in Reaction, ReactionOK(h, r), NEW c
  PROVE  LET g == PerformPromiseThen(h, p, r)
         IN  /\ ~ Holds(r, c) => Keeps(h, g, c) /\ Saves(h, g, c)
             /\ Nowhere(h, c) => Once(g, c)
             /\ Holds(r, c) /\ ~ g.error => ~ Nowhere(g, c)
             /\ g.resolved = h.resolved
             /\ ~ g.error => ~ h.error
<1> DEFINE g == PerformPromiseThen(h, p, r)
<1>1. h \in Heap /\ p \in Promise
  BY CreatedIsPromise DEF HeapOK
<1>2. CASE h.error
  <2>1. g = h
    BY <1>2 DEF PerformPromiseThen
  <2> QED
    BY <1>2, <2>1, NowhereIsOnce DEF Keeps, Saves
<1>3. CASE ~ h.error /\ h.state[p] = "pending"
  <2> DEFINE rs == h.reactions[p]
             ss == Append(rs, r)
  <2>1. g = [h EXCEPT !.reactions = [h.reactions EXCEPT ![p] = ss],
                      !.handled = h.handled \cup {p}]
    BY <1>1, <1>3 DEF PerformPromiseThen
  <2>2. h.reactions \in [Promise -> Seq(Reaction)]
    BY <1>1 DEF Heap
  <2>3. rs \in Seq(Reaction)
    BY <1>1, <2>2
  <2> HIDE DEF rs, g
  <2>4. /\ Len(rs) \in Nat /\ DOMAIN rs = 1..Len(rs)
        /\ DOMAIN ss = 1..(Len(rs) + 1)
        /\ \A i \in 1..Len(rs) : ss[i] = rs[i]
        /\ ss[Len(rs) + 1] = r
    <3>1. /\ ss \in Seq(Reaction) /\ Len(ss) = Len(rs) + 1
          /\ \A i \in 1..Len(rs) : ss[i] = rs[i]
          /\ ss[Len(rs) + 1] = r
      BY <2>3, AppendProperties
    <3> HIDE DEF ss
    <3> QED
      BY <2>3, <3>1, LenProperties
  <2> HIDE DEF ss
  <2>5. /\ g.queue = h.queue /\ g.resolved = h.resolved /\ ~ g.error
        /\ g.reactions = [h.reactions EXCEPT ![p] = ss]
    BY <1>1, <1>3, <2>1 DEF Heap
  <2>6. JobsOf(g, c) = JobsOf(h, c)
    BY <2>5 DEF JobsOf
  <2>7. \A q \in Promise : q # p => ReactionsOf(g, q, c) = ReactionsOf(h, q, c)
    BY <2>2, <2>5 DEF ReactionsOf
  <2>8. g.reactions[p] = ss
    BY <1>1, <2>2, <2>5
  <2> DEFINE l == Len(rs)
  <2>9. /\ l \in Nat /\ DOMAIN rs = 1..l /\ DOMAIN ss = 1..(l + 1)
        /\ \A i \in 1..l : ss[i] = rs[i]
        /\ ss[l + 1] = r
    BY <2>4
  <2> HIDE DEF l
  <2>10. \A i \in DOMAIN ss : i \in DOMAIN rs \/ i = l + 1
    BY <2>9
  <2>11. /\ \A i \in DOMAIN rs : i \in DOMAIN ss /\ ss[i] = rs[i]
         /\ l + 1 \in DOMAIN ss
    BY <2>9
  <2>12. ReactionsOf(g, p, c) = IF Holds(r, c)
                                THEN ReactionsOf(h, p, c) \cup {l + 1}
                                ELSE ReactionsOf(h, p, c)
    BY <2>8, <2>9, <2>10, <2>11 DEF ReactionsOf, rs
  <2>13. ~ Holds(r, c) => Keeps(h, g, c) /\ Saves(h, g, c)
    BY <1>3, <2>5, <2>6, <2>7, <2>12 DEF Keeps, Saves, Once, Nowhere
  <2>14. Nowhere(h, c) => Once(g, c)
    BY <1>1, <2>6, <2>7, <2>12 DEF Once, Nowhere
  <2>15. Holds(r, c) => ~ Nowhere(g, c)
    BY <1>1, <2>12 DEF Nowhere
  <2> QED
    BY <1>3, <2>5, <2>13, <2>14, <2>15 DEF g
<1>4. CASE ~ h.error /\ h.state[p] # "pending"
  <2> DEFINE told == [h EXCEPT !.unhandled = h.unhandled \ {p}]
             job == NewReactionJob(r, h.state[p], h.result[p])
             done == Enqueue(told, <<job>>)
             handled == IF done.error THEN done.handled
                        ELSE done.handled \cup {p}
             n == Serializable(Identifiers(<<job>>))
             l == Len(h.queue)
  <2>1. g = [done EXCEPT !.handled = handled]
    BY <1>4 DEF PerformPromiseThen, TellHandled
  <2>2. h.state[p] \in Outcome /\ h.result[p] \in Pair
    BY <1>1, <1>4 DEF HeapOK, Heap
  <2>3. job \in Job /\ job.type = "reaction" /\ job.cap = r.cap /\ job.fn = r.fn
    BY <2>2, NewReactionJobOK DEF Job, ReactionJob, NewReactionJob
  <2>4. told \in Heap
    BY <1>1 DEF Heap
  <2>5. /\ told.queue = h.queue /\ told.resolved = h.resolved
        /\ told.reactions = h.reactions
    BY <1>1 DEF Heap
  <2> HIDE DEF told, job, handled
  <2>6. <<job>> \in Seq(Job) /\ Len(<<job>>) = 1 /\ <<job>>[1] = job
    BY <2>3
  <2>7. /\ n \in 0..Len(<<job>>)
        /\ done.error <=> n < Len(<<job>>)
        /\ Len(told.queue) \in Nat
        /\ DOMAIN told.queue = 1..Len(told.queue)
        /\ DOMAIN done.queue = 1..(Len(told.queue) + n)
        /\ \A i \in 1..Len(told.queue) : done.queue[i] = told.queue[i]
        /\ \A i \in 1..n : done.queue[Len(told.queue) + i] = <<job>>[i]
    BY <2>4, <2>6, EnqueueAppends, ZenonT(60)
  <2>h. HeapOK(told) /\ JobOK(told, job)
    <3>1. JobOK(h, job)
      BY <2>2, NewReactionJobOK DEF job
    <3>2. SameNames(told, h) /\ told.state = h.state /\ told.result = h.result
      BY <1>1 DEF Heap, SameNames, told
    <3> QED
      BY <2>4, <2>5, <3>1, <3>2
         DEF HeapOK, SameNames, Made, Created, ReactionOK, JobOK
  <2>8. HeapOK(done) /\ SamePromises(done, told)
    <3>1. \A i \in DOMAIN <<job>> : JobOK(told, <<job>>[i])
      BY <2>h
    <3> QED
      BY <2>h, <2>6, <3>1, EnqueueOK
  <2>9. done \in Heap /\ done.reactions = h.reactions /\ done.resolved = h.resolved
    BY <2>5, <2>8 DEF HeapOK, SamePromises
  <2> HIDE DEF done, g, n
  <2>10. /\ g.queue = done.queue /\ g.reactions = h.reactions
         /\ g.resolved = h.resolved /\ g.error = done.error
    BY <2>1, <2>9 DEF Heap
  <2>11. /\ n \in {0, 1} /\ l \in Nat
         /\ ~ g.error => n = 1
         /\ DOMAIN h.queue = 1..l /\ DOMAIN g.queue = 1..(l + n)
         /\ \A i \in 1..l : g.queue[i] = h.queue[i]
         /\ n = 1 => g.queue[l + 1] = job
    BY <2>5, <2>6, <2>7, <2>10
  <2> HIDE DEF l
  <2>12. /\ \A i \in DOMAIN g.queue : i \in DOMAIN h.queue \/ (n = 1 /\ i = l + 1)
         /\ \A i \in DOMAIN h.queue : i \in DOMAIN g.queue
         /\ n = 1 => l + 1 \in DOMAIN g.queue
    BY <2>11
  <2>13. JobsOf(g, c) = IF n = 1 /\ Holds(r, c) THEN JobsOf(h, c) \cup {l + 1}
                        ELSE JobsOf(h, c)
    <3>1. Holds(job, c) <=> Holds(r, c)
      BY <2>3 DEF Holds
    <3> QED
      BY <2>3, <2>11, <2>12, <3>1 DEF JobsOf
  <2>14. \A q : ReactionsOf(g, q, c) = ReactionsOf(h, q, c)
    BY <2>10 DEF ReactionsOf
  <2>15. ~ Holds(r, c) => Keeps(h, g, c) /\ Saves(h, g, c)
    BY <1>4, <2>13, <2>14 DEF Keeps, Saves, Once, Nowhere
  <2>16. Nowhere(h, c) => Once(g, c)
    BY <2>13, <2>14 DEF Once, Nowhere
  <2>17. Holds(r, c) /\ ~ g.error => ~ Nowhere(g, c)
    BY <2>11, <2>13 DEF Nowhere
  <2> QED
    BY <1>4, <2>10, <2>15, <2>16, <2>17 DEF g
<1> QED
  BY <1>2, <1>3, <1>4
-----------------------------------------------------------------------------
(* The places that hold pair k as an identifier: the file, and reactions   *)
(* whose jobs are going to be written to it.                               *)
Logged(h, k)    == {i \in 1..Len(h.log) : h.log[i] = k}
Capped(h, p, k) == {i \in DOMAIN h.reactions[p] : h.reactions[p][i].cap = k}

Unwritten(h, k) == /\ Logged(h, k) = {}
                   /\ \A p \in Promise : Capped(h, p, k) = {}

WrittenOnce(h, k) == /\ \A i, j \in Logged(h, k) : i = j
                     /\ \A p, q \in Promise :
                          \A i \in Capped(h, p, k), j \in Capped(h, q, k) :
                            p = q /\ i = j
                     /\ \A p \in Promise :
                          Logged(h, k) = {} \/ Capped(h, p, k) = {}

(* The file ends with the identifiers of the l queued jobs. *)
Aligned(h) == \E d, l \in Nat :
                /\ DOMAIN h.queue = 1..l
                /\ Len(h.log) = d + l
                /\ \A i \in 1..l : Identifier(h.queue[i]) = h.log[d + i]

Recording(h) == /\ Aligned(h)
                /\ \A k \in Pair : /\ WrittenOnce(h, k)
                                   /\ k \notin Made(h) => Unwritten(h, k)

LEMMA AlignedEnqueue ==
  ASSUME TRACING, NEW h \in Heap, Aligned(h), NEW jobs \in Seq(Job)
  PROVE  Aligned(Enqueue(h, jobs))
<1> DEFINE g == Enqueue(h, jobs)
           n == Serializable(Identifiers(jobs))
<1>1. PICK d, l \in Nat :
        /\ DOMAIN h.queue = 1..l /\ Len(h.log) = d + l
        /\ \A i \in 1..l : Identifier(h.queue[i]) = h.log[d + i]
  BY DEF Aligned
<1>2. h.queue \in Seq(Job)
  BY DEF Heap
<1>3. Len(h.queue) = l
  BY <1>1, <1>2, LenProperties
<1>4. Len(jobs) \in Nat
  BY LenProperties
<1>e. /\ n \in 0..Len(jobs)
      /\ DOMAIN g.queue = 1..(Len(h.queue) + n)
      /\ \A i \in 1..Len(h.queue) : g.queue[i] = h.queue[i]
      /\ \A i \in 1..n : g.queue[Len(h.queue) + i] = jobs[i]
      /\ TRACING => /\ Len(h.log) \in Nat
                    /\ Len(g.log) = Len(h.log) + n
                    /\ \A i \in 1..Len(h.log) : g.log[i] = h.log[i]
                    /\ \A i \in 1..n : g.log[Len(h.log) + i]
                                        = Identifier(jobs[i])
  BY EnqueueAppends, ZenonT(60)
<1> HIDE DEF g, n
<1>5. /\ n \in 0..Len(jobs)
      /\ DOMAIN g.queue = 1..(l + n)
      /\ \A i \in 1..l : g.queue[i] = h.queue[i]
      /\ \A i \in 1..n : g.queue[l + i] = jobs[i]
      /\ Len(g.log) = (d + l) + n
      /\ \A i \in 1..(d + l) : g.log[i] = h.log[i]
      /\ \A i \in 1..n : g.log[(d + l) + i] = Identifier(jobs[i])
  BY <1>e, <1>1, <1>3
<1>6. \A i \in 1..(l + n) : Identifier(g.queue[i]) = g.log[d + i]
  <2> SUFFICES ASSUME NEW i \in 1..(l + n)
               PROVE  Identifier(g.queue[i]) = g.log[d + i]
    OBVIOUS
  <2>1. CASE i <= l
    <3>1. i \in 1..l /\ d + i \in 1..(d + l)
      BY <1>4, <1>5, <2>1
    <3> QED
      BY <1>1, <1>5, <3>1
  <2>2. CASE ~ (i <= l)
    <3>1. /\ i - l \in 1..n /\ l + (i - l) = i
          /\ (d + l) + (i - l) = d + i
      BY <1>4, <1>5, <2>2
    <3> QED
      BY <1>5, <3>1
  <2> QED
    BY <2>1, <2>2
<1>7. l + n \in Nat /\ Len(g.log) = d + (l + n)
  BY <1>4, <1>5
<1> HIDE DEF g
<1>8. Aligned(g)
  BY <1>5, <1>6, <1>7 DEF Aligned
<1> QED
  BY <1>8 DEF g

(* An operation that touches neither the queue, the file nor reactions. *)
LEMMA RecordingElsewhere ==
  ASSUME NEW h, NEW g, Recording(h), g.queue = h.queue, g.log = h.log,
         g.reactions = h.reactions, Made(h) \subseteq Made(g)
  PROVE  /\ Recording(g)
         /\ \A k : Unwritten(h, k) => Unwritten(g, k)
<1>1. \A k : /\ Logged(g, k) = Logged(h, k)
             /\ \A p \in Promise : Capped(g, p, k) = Capped(h, p, k)
  BY DEF Logged, Capped
<1>2. Aligned(g)
  BY DEF Recording, Aligned
<1>3. \A k : WrittenOnce(h, k) => WrittenOnce(g, k)
  BY <1>1 DEF WrittenOnce
<1>4. \A k : Unwritten(h, k) => Unwritten(g, k)
  BY <1>1 DEF Unwritten
<1> QED
  BY <1>2, <1>3, <1>4 DEF Recording

(* While tracing, jobs without an identifier are refused. *)
LEMMA RecordingEnqueueOther ==
  ASSUME TRACING, NEW h \in Heap, Recording(h), NEW job \in Job,
         job.type # "reaction"
  PROVE  Recording(Enqueue(h, <<job>>))
<1> DEFINE g == Enqueue(h, <<job>>)
           n == Serializable(Identifiers(<<job>>))
           m == Len(h.log)
<1>1. <<job>> \in Seq(Job) /\ Len(<<job>>) = 1 /\ <<job>>[1] = job
  OBVIOUS
<1>2. /\ n \in 0..Len(<<job>>)
      /\ TRACING => \A i \in 1..n : Identifier(<<job>>[i]) # NoIdentifier
      /\ TRACING => /\ m \in Nat
                    /\ Len(g.log) = m + n
                    /\ \A i \in 1..m : g.log[i] = h.log[i]
                    /\ \A i \in 1..n : g.log[m + i] = Identifier(<<job>>[i])
  BY <1>1, EnqueueAppends, ZenonT(60)
<1>3. g.reactions = h.reactions /\ g.pairs = h.pairs
  BY DEF Enqueue, Heap
<1>4. Aligned(g)
  BY <1>1, AlignedEnqueue DEF Recording
<1> HIDE DEF g, n, m
<1>5. Identifier(job) = NoIdentifier
  BY DEF Identifier
<1>6. n = 0
  BY <1>1, <1>2, <1>5
<1>7. Len(g.log) = m /\ m = Len(h.log)
  BY <1>2, <1>6 DEF m
<1>8. \A k : /\ Logged(g, k) = Logged(h, k)
             /\ \A p \in Promise : Capped(g, p, k) = Capped(h, p, k)
  BY <1>2, <1>3, <1>7 DEF Logged, Capped
<1>9. \A k : /\ WrittenOnce(h, k) => WrittenOnce(g, k)
             /\ Unwritten(h, k) => Unwritten(g, k)
  BY <1>8 DEF WrittenOnce, Unwritten
<1>10. Recording(g)
  BY <1>3, <1>4, <1>9 DEF Recording, Made
<1> QED
  BY <1>10 DEF g

(* The reactions of a settled promise are written, each only then. *)
LEMMA RecordingSettle ==
  ASSUME TRACING, NEW h, HeapOK(h), Recording(h), NEW p \in Created(h),
         NEW outcome \in Outcome, NEW value \in Pair
  PROVE  Recording(Settle(h, p, outcome, value))
<1> DEFINE rs == h.reactions[p]
           m  == Len(h.log)
           g  == Settle(h, p, outcome, value)
<1>1. /\ h \in Heap /\ p \in Promise /\ rs \in Seq(Reaction)
      /\ h.reactions \in [Promise -> Seq(Reaction)]
  BY CreatedIsPromise DEF HeapOK, Heap
<1>2. Aligned(g)
  <2> DEFINE s    == SetState(h, p, outcome, value)
             jobs == [i \in DOMAIN rs |-> NewReactionJob(rs[i], outcome, value)]
  <2>1. g = Enqueue(s, jobs)
    BY DEF Settle
  <2>2. s \in Heap /\ s.queue = h.queue
    BY SetStateType
  <2>3. s.log = h.log
    BY <1>1 DEF SetState, Heap
  <2>4. jobs \in Seq(Job)
    <3> HIDE DEF rs
    <3>1. Len(rs) \in Nat /\ DOMAIN rs = 1..Len(rs)
      BY <1>1, LenProperties
    <3>2. \A i \in 1..Len(rs) : ReactionOK(h, rs[i]) /\ rs[i] \in Reaction
      BY <1>1, <3>1, ElementOfSeq DEF HeapOK, rs
    <3>3. \A i \in 1..Len(rs) :
            NewReactionJob(rs[i], outcome, value) \in ReactionJob
      BY <3>2, NewReactionJobOK
    <3>4. jobs \in [1..Len(rs) -> Job]
      BY <3>1, <3>3 DEF Job
    <3> QED
      BY <3>1, <3>4, IsASeq
  <2> HIDE DEF jobs, s, g
  <2>5. Aligned(s)
    BY <2>2, <2>3 DEF Recording, Aligned
  <2> QED
    BY <2>1, <2>2, <2>4, <2>5, AlignedEnqueue
<1>3. /\ g.reactions = [h.reactions EXCEPT ![p] = <<>>]
      /\ Triggered(h, g, rs) /\ SameNames(g, h)
  <2>1. g.reactions = [h.reactions EXCEPT ![p] = <<>>]
    BY SettleEmpties
  <2>2. Triggered(h, g, rs)
    BY SettleTriggers
  <2>3. SameNames(g, h)
    BY SettleOK
  <2> QED
    BY <2>1, <2>2, <2>3
<1> HIDE DEF g
<1>4. PICK n \in 0..Len(rs) :
        /\ m \in Nat /\ Len(g.log) = m + n
        /\ \A i \in 1..m : g.log[i] = h.log[i]
        /\ \A i \in 1..n : g.log[m + i] = rs[i].cap
  BY <1>3 DEF Triggered
<1>5. Len(rs) \in Nat /\ DOMAIN rs = 1..Len(rs)
  BY <1>1, LenProperties
<1>6. \A i \in 1..n : i \in DOMAIN rs
  BY <1>4, <1>5
<1> HIDE DEF m
<1>7. ASSUME NEW k
      PROVE  /\ \A q \in Promise : Capped(g, q, k) =
                                     IF q = p THEN {} ELSE Capped(h, q, k)
             /\ \A j \in Logged(g, k) :
                  \/ j \in Logged(h, k)
                  \/ \E i \in Capped(h, p, k) : j = m + i
             /\ Logged(h, k) \subseteq 1..m
  <2>1. \A q \in Promise : g.reactions[q] = IF q = p THEN <<>> ELSE h.reactions[q]
    BY <1>1, <1>3
  <2>2. \A q \in Promise : Capped(g, q, k) = IF q = p THEN {} ELSE Capped(h, q, k)
    BY <2>1 DEF Capped
  <2>3. ASSUME NEW j \in Logged(g, k), j \notin Logged(h, k)
        PROVE  \E i \in Capped(h, p, k) : j = m + i
    <3>1. j \in 1..(m + n) /\ g.log[j] = k
      BY <1>4, <2>3 DEF Logged
    <3>2. j \notin 1..m
      BY <1>4, <2>3, <3>1 DEF Logged, m
    <3>3. j - m \in 1..n /\ j = m + (j - m)
      BY <1>4, <1>5, <3>1, <3>2
    <3>4. j - m \in Capped(h, p, k)
      BY <1>4, <1>6, <3>1, <3>3 DEF Capped, rs
    <3> QED
      BY <3>3, <3>4
  <2> QED
    BY <2>2, <2>3 DEF Logged, m
<1>8. ASSUME NEW k, WrittenOnce(h, k) PROVE WrittenOnce(g, k)
  <2>1. \A i, j \in Logged(g, k) : i = j
    BY <1>1, <1>7, <1>8 DEF WrittenOnce
  <2>2. \A q, r \in Promise :
          \A i \in Capped(g, q, k), j \in Capped(g, r, k) : q = r /\ i = j
    BY <1>7, <1>8 DEF WrittenOnce
  <2>3. \A q \in Promise : Logged(g, k) = {} \/ Capped(g, q, k) = {}
    BY <1>1, <1>7, <1>8 DEF WrittenOnce
  <2> QED
    BY <2>1, <2>2, <2>3 DEF WrittenOnce
<1>9. \A k : Unwritten(h, k) => Unwritten(g, k)
  BY <1>1, <1>7 DEF Unwritten
<1>10. Made(g) = Made(h)
  BY <1>3 DEF SameNames, Made
<1>11. Recording(g)
  BY <1>2, <1>8, <1>9, <1>10 DEF Recording
<1> QED
  BY <1>11 DEF g

LEMMA RecordingUse ==
  ASSUME NEW h, HeapOK(h), Recording(h), NEW k \in Made(h)
  PROVE  /\ HeapOK(Use(h, k)) /\ Use(h, k) \in Heap
         /\ h.target[k] \in Created(Use(h, k))
         /\ Recording(Use(h, k))
<1> DEFINE u == Use(h, k)
           p == h.target[k]
<1>1. /\ HeapOK(u) /\ SameNames(u, h) /\ u.queue = h.queue
      /\ u.reactions = h.reactions
  BY UseElsewhere
<1>2. u.log = h.log
  BY DEF Use, HeapOK, Heap
<1>3. p \in Created(h)
  BY DEF HeapOK
<1> HIDE DEF u, p
<1>4. Made(h) \subseteq Made(u) /\ p \in Created(u)
  BY <1>1, <1>3 DEF SameNames, Made, Created
<1>5. Recording(u)
  BY <1>1, <1>2, <1>4, RecordingElsewhere
<1> QED
  BY <1>1, <1>4, <1>5 DEF u, p, HeapOK

LEMMA RecordingReject ==
  ASSUME TRACING, NEW h, HeapOK(h), Recording(h), NEW k \in Made(h),
         NEW reason \in Pair
  PROVE  Recording(RejectFunction(h, k, reason))
<1> DEFINE g == Use(h, k)
           p == h.target[k]
<1>1. CASE ~ Usable(h, k)
  BY <1>1 DEF RejectFunction
<1>2. CASE Usable(h, k)
  <2>1. Recording(g) /\ HeapOK(g) /\ p \in Created(g)
    BY RecordingUse
  <2>2. "rejected" \in Outcome
    BY DEF Outcome
  <2> HIDE DEF g, p
  <2>3. Recording(Settle(g, p, "rejected", reason))
    BY <2>1, <2>2, RecordingSettle
  <2> QED
    BY <1>2, <2>3 DEF RejectFunction, g, p
<1> QED
  BY <1>1, <1>2

LEMMA RecordingResolve ==
  ASSUME TRACING, NEW h, HeapOK(h), Recording(h), NEW k \in Made(h),
         NEW x, ResolvesWith(h, x)
  PROVE  Recording(ResolveFunction(h, k, x))
<1> DEFINE g == Use(h, k)
           p == h.target[k]
           job == [type |-> "thenable", promise |-> p, thenable |-> x.ref]
           f == ResolveFunction(h, k, x)
<1>1. CASE ~ Usable(h, k)
  BY <1>1 DEF ResolveFunction
<1>2. CASE Usable(h, k)
  <2>1. Recording(g) /\ HeapOK(g) /\ p \in Created(g) /\ g \in Heap
    BY RecordingUse
  <2>2. {"fulfilled", "rejected"} \subseteq Outcome /\ k \in Pair
    BY CreatedIsPromise DEF Outcome
  <2>3. CASE x.kind = "value"
    <3>1. f = Settle(g, p, "fulfilled", x.ref)
      BY <1>2, <2>3 DEF ResolveFunction
    <3>2. x.ref \in Pair
      BY <2>3 DEF ResolvesWith, Resolution
    <3> HIDE DEF g, p, f
    <3> QED
      BY <2>1, <2>2, <3>1, <3>2, RecordingSettle DEF f
  <2>4. CASE x.kind = "poisoned" \/ (x.kind = "promise" /\ x.ref = p)
    <3>1. f = Settle(g, p, "rejected", k)
      BY <1>2, <2>4 DEF ResolveFunction, ResolvesWith, Resolution
    <3> HIDE DEF g, p, f
    <3> QED
      BY <2>1, <2>2, <3>1, RecordingSettle DEF f
  <2>5. CASE ~ (x.kind = "value" \/ x.kind = "poisoned"
                  \/ (x.kind = "promise" /\ x.ref = p))
    <3>1. f = Enqueue(g, <<job>>)
      BY <1>2, <2>5 DEF ResolveFunction
    <3>2. x.ref \in Created(h) \cup {None} /\ p \in Promise
      BY <2>1, <2>5, CreatedIsPromise DEF ResolvesWith, Resolution
    <3>3. job \in Job /\ job.type # "reaction"
      BY <3>2, CreatedIsPromise DEF Job, ThenableJob
    <3> HIDE DEF g, p, f, job
    <3> QED
      BY <2>1, <3>1, <3>3, RecordingEnqueueOther DEF f
  <2> QED
    BY <2>3, <2>4, <2>5
<1> QED
  BY <1>1, <1>2

LEMMA RecordingPassOn ==
  ASSUME TRACING, NEW h, HeapOK(h), Recording(h), NEW k \in Made(h),
         NEW outcome, NEW value \in Pair
  PROVE  Recording(PassOn(h, k, outcome, value))
<1> DEFINE x == [kind |-> "value", ref |-> value]
<1>1. ResolvesWith(h, x)
  BY DEF ResolvesWith, Resolution
<1>2. PassOn(h, k, outcome, value) = IF outcome = "fulfilled"
                                     THEN ResolveFunction(h, k, x)
                                     ELSE RejectFunction(h, k, value)
  BY DEF PassOn
<1> HIDE DEF x
<1> QED
  BY <1>1, <1>2, RecordingResolve, RecordingReject

(* A pair that is made was not an identifier of anything. *)
LEMMA RecordingNewPair ==
  ASSUME NEW h, HeapOK(h), Recording(h), h.pairs < MaxPairs, NEW p, NEW g,
         g \in {CreateResolvingFunctions(h, p), NewPromise(h)}
  PROVE  /\ Recording(g)
         /\ g.pairs = h.pairs + 1 /\ g.pairs \in Pair
         /\ Unwritten(g, g.pairs)
<1>1. /\ h \in Heap /\ h.pairs \in Nat /\ h.pairs + 1 \in Pair
      /\ h.pairs + 1 \notin Made(h)
  <2>1. h \in Heap /\ h.pairs \in 0..MaxPairs
    BY DEF HeapOK, Heap
  <2> QED
    BY <2>1, BoundsAssumption DEF Pair, Made
<1>2. g.pairs = h.pairs + 1
  BY <1>1 DEF CreateResolvingFunctions, NewPromise, Heap
<1>3. SameContinuations(g, h)
  BY CreateElsewhere
<1>4. Made(h) \subseteq Made(g)
  BY <1>1, <1>2 DEF Made
<1>5. Recording(g) /\ \A k : Unwritten(h, k) => Unwritten(g, k)
  BY <1>3, <1>4, RecordingElsewhere DEF SameContinuations
<1>6. Unwritten(h, h.pairs + 1)
  BY <1>1 DEF Recording
<1> QED
  BY <1>1, <1>2, <1>5, <1>6
(* The oldest job is polled: the file goes on with the next one. *)
LEMMA RecordingPoll ==
  ASSUME NEW h, HeapOK(h), Recording(h), 1 \in DOMAIN h.queue, NEW g,
         g = [h EXCEPT !.queue = RemoveAt(@, 1)]
  PROVE  Recording(g)
<1>1. h \in Heap /\ h.queue \in Seq(Job)
  BY DEF HeapOK, Heap
<1>2. PICK d, l \in Nat :
        /\ DOMAIN h.queue = 1..l /\ Len(h.log) = d + l
        /\ \A i \in 1..l : Identifier(h.queue[i]) = h.log[d + i]
  BY DEF Recording, Aligned
<1>3. Len(h.queue) = l /\ l \in Nat \ {0} /\ 1 \in 1..l
  BY <1>1, <1>2, LenProperties
<1> DEFINE q == h.queue
           r == RemoveAt(q, 1)
<1>4. /\ r \in Seq(Job) /\ Len(r) = Len(q) - 1
      /\ \A j \in 1..Len(q) - 1 : r[j] = IF j < 1 THEN q[j] ELSE q[j + 1]
  <2>1. 1 \in 1..Len(q) /\ q \in Seq(Job)
    BY <1>1, <1>3
  <2> HIDE DEF q, r
  <2> QED
    BY <2>1, RemoveAtProperties DEF r
<1>5. g.queue = r /\ g.log = h.log /\ g.reactions = h.reactions
      /\ g.pairs = h.pairs
  BY <1>1 DEF Heap
<1> HIDE DEF r
<1>6. DOMAIN r = 1..(l - 1) /\ \A j \in 1..(l - 1) : r[j] = q[j + 1]
  <2>1. DOMAIN r = 1..(l - 1)
    BY <1>3, <1>4, LenProperties
  <2>2. \A j \in 1..(l - 1) : ~ (j < 1) /\ j \in 1..Len(q) - 1
    BY <1>3
  <2> QED
    BY <1>4, <2>1, <2>2
<1>7. Aligned(g)
  <2>1. /\ d + 1 \in Nat /\ l - 1 \in Nat
        /\ Len(g.log) = (d + 1) + (l - 1)
    BY <1>2, <1>3, <1>5
  <2>2. \A j \in 1..(l - 1) : j + 1 \in 1..l /\ d + (j + 1) = (d + 1) + j
    BY <1>3
  <2>3. \A j \in 1..(l - 1) : Identifier(g.queue[j]) = g.log[(d + 1) + j]
    BY <1>2, <1>5, <1>6, <2>2
  <2> QED
    BY <1>5, <1>6, <2>1, <2>3 DEF Aligned
<1>8. \A k : /\ Logged(g, k) = Logged(h, k)
             /\ \A p \in Promise : Capped(g, p, k) = Capped(h, p, k)
  BY <1>5 DEF Logged, Capped
<1>9. \A k : /\ WrittenOnce(h, k) => WrittenOnce(g, k)
             /\ Unwritten(h, k) => Unwritten(g, k)
  BY <1>8 DEF WrittenOnce, Unwritten
<1> QED
  BY <1>5, <1>7, <1>9 DEF Recording, Made

(* A pair with one place more, that had none. *)
LEMMA WrittenInOnePlace ==
  ASSUME NEW h, NEW g, NEW k, Unwritten(h, k), NEW p \in Promise, NEW i,
         \/ /\ Logged(g, k) \subseteq {i}
            /\ \A q \in Promise : Capped(g, q, k) = {}
         \/ /\ Logged(g, k) = {}
            /\ \A q \in Promise : Capped(g, q, k) \subseteq IF q = p THEN {i} ELSE {}
  PROVE  WrittenOnce(g, k)
BY DEF WrittenOnce

(* A reaction is registered, or written at once, with a new identifier. *)
LEMMA RecordingThen ==
  ASSUME TRACING, NEW h, HeapOK(h), Recording(h), NEW p \in Created(h),
         NEW r \in Reaction, ReactionOK(h, r),
         r.cap # None => Unwritten(h, r.cap)
  PROVE  Recording(PerformPromiseThen(h, p, r))
<1> DEFINE g == PerformPromiseThen(h, p, r)
<1>1. h \in Heap /\ p \in Promise
  BY CreatedIsPromise DEF HeapOK
<1>2. r.cap \in Made(h) \cup {None}
  BY DEF ReactionOK
<1>3. \A k \in Pair : k # None
  BY DEF Pair, None
<1>4. CASE h.error
  BY <1>4 DEF PerformPromiseThen
<1>5. CASE ~ h.error /\ h.state[p] = "pending"
  <2> DEFINE rs == h.reactions[p]
             ss == Append(rs, r)
             l  == Len(rs)
  <2>1. g = [h EXCEPT !.reactions = [h.reactions EXCEPT ![p] = ss],
                      !.handled = h.handled \cup {p}]
    BY <1>1, <1>5 DEF PerformPromiseThen
  <2>2. h.reactions \in [Promise -> Seq(Reaction)] /\ rs \in Seq(Reaction)
    BY <1>1 DEF Heap
  <2> HIDE DEF rs, g
  <2>3. /\ l \in Nat /\ DOMAIN rs = 1..l /\ DOMAIN ss = 1..(l + 1)
        /\ \A i \in 1..l : ss[i] = rs[i]
        /\ ss[l + 1] = r
    <3>1. /\ ss \in Seq(Reaction) /\ Len(ss) = l + 1
          /\ \A i \in 1..l : ss[i] = rs[i]
          /\ ss[l + 1] = r
      BY <2>2, AppendProperties
    <3> HIDE DEF ss
    <3> QED
      BY <2>2, <3>1, LenProperties
  <2> HIDE DEF ss, l
  <2>4. /\ g.queue = h.queue /\ g.log = h.log /\ g.pairs = h.pairs
        /\ g.reactions = [h.reactions EXCEPT ![p] = ss]
    BY <1>1, <2>1 DEF Heap
  <2>5. \A i \in DOMAIN ss : \/ i \in DOMAIN rs /\ ss[i] = rs[i]
                             \/ i = l + 1 /\ ss[i] = r
    <3>1. \A i \in 1..(l + 1) : i \in 1..l \/ i = l + 1
      BY <2>3
    <3> QED
      BY <2>3, <3>1
  <2>6. \A q \in Promise : g.reactions[q] = IF q = p THEN ss ELSE h.reactions[q]
    BY <2>2, <2>4
  <2>7. \A k : Logged(g, k) = Logged(h, k)
    BY <2>4 DEF Logged
  <2>8. ASSUME NEW k, NEW q \in Promise
        PROVE  /\ k # r.cap => Capped(g, q, k) \subseteq Capped(h, q, k)
               /\ Capped(g, q, k) \subseteq
                    Capped(h, q, k) \cup IF q = p THEN {l + 1} ELSE {}
    BY <2>5, <2>6 DEF Capped, rs
  <2>9. \A k : k # r.cap => /\ WrittenOnce(h, k) => WrittenOnce(g, k)
                            /\ Unwritten(h, k) => Unwritten(g, k)
    <3> SUFFICES ASSUME NEW k, k # r.cap
                 PROVE  /\ WrittenOnce(h, k) => WrittenOnce(g, k)
                        /\ Unwritten(h, k) => Unwritten(g, k)
      OBVIOUS
    <3>1. \A q \in Promise : Capped(g, q, k) \subseteq Capped(h, q, k)
      BY <2>8
    <3>2. Logged(g, k) = Logged(h, k)
      BY <2>7
    <3>3. WrittenOnce(h, k) => WrittenOnce(g, k)
      BY <3>1, <3>2 DEF WrittenOnce
    <3>4. Unwritten(h, k) => Unwritten(g, k)
      BY <3>1, <3>2 DEF Unwritten
    <3> QED
      BY <3>3, <3>4
  <2>10. r.cap # None => WrittenOnce(g, r.cap)
    <3> SUFFICES ASSUME Unwritten(h, r.cap) PROVE WrittenOnce(g, r.cap)
      OBVIOUS
    <3>1. Logged(g, r.cap) = {}
      BY <2>7 DEF Unwritten
    <3>2. \A q \in Promise :
            Capped(g, q, r.cap) \subseteq IF q = p THEN {l + 1} ELSE {}
      BY <2>8 DEF Unwritten
    <3> QED
      BY <1>1, <3>1, <3>2, WrittenInOnePlace
  <2>11. Aligned(g)
    BY <2>4 DEF Recording, Aligned
  <2>12. Made(g) = Made(h)
    BY <2>4 DEF Made
  <2>13. Recording(g)
    BY <1>2, <1>3, <2>9, <2>10, <2>11, <2>12 DEF Recording
  <2> QED
    BY <2>13 DEF g
<1>6. CASE ~ h.error /\ h.state[p] # "pending"
  <2> DEFINE told == [h EXCEPT !.unhandled = h.unhandled \ {p}]
             job == NewReactionJob(r, h.state[p], h.result[p])
             done == Enqueue(told, <<job>>)
             handled == IF done.error THEN done.handled
                        ELSE done.handled \cup {p}
             n == Serializable(Identifiers(<<job>>))
             m == Len(told.log)
  <2>1. g = [done EXCEPT !.handled = handled]
    BY <1>6 DEF PerformPromiseThen, TellHandled
  <2>2. h.state[p] \in Outcome /\ h.result[p] \in Pair
    BY <1>1, <1>6 DEF HeapOK, Heap
  <2>3. job \in Job /\ job.type = "reaction" /\ job.cap = r.cap
    BY <2>2, NewReactionJobOK DEF Job, ReactionJob, NewReactionJob
  <2>4. /\ told \in Heap /\ told.queue = h.queue /\ told.log = h.log
        /\ told.reactions = h.reactions /\ told.pairs = h.pairs
    BY <1>1 DEF Heap
  <2> HIDE DEF told, job, handled
  <2>5. <<job>> \in Seq(Job) /\ Len(<<job>>) = 1 /\ <<job>>[1] = job
    BY <2>3
  <2>6. /\ n \in 0..Len(<<job>>)
        /\ TRACING => /\ m \in Nat
                      /\ Len(done.log) = m + n
                      /\ \A i \in 1..m : done.log[i] = told.log[i]
                      /\ \A i \in 1..n : done.log[m + i] = Identifier(<<job>>[i])
    BY <2>4, <2>5, EnqueueAppends, ZenonT(60)
  <2>7. Aligned(done)
    <3>1. Aligned(told)
      BY <2>4 DEF Recording, Aligned
    <3> QED
      BY <2>4, <2>5, <3>1, AlignedEnqueue
  <2>8. done.reactions = told.reactions /\ done.pairs = told.pairs
    BY <2>4 DEF Enqueue, Heap
  <2>9. /\ g.queue = done.queue /\ g.log = done.log
        /\ g.reactions = done.reactions /\ g.pairs = done.pairs
    <3>1. done = [told EXCEPT !.queue = done.queue, !.log = done.log,
                              !.error = done.error]
      BY <2>4 DEF Enqueue, Heap
    <3> HIDE DEF done, g
    <3> QED
      BY <2>1, <2>4, <3>1 DEF Heap
  <2> HIDE DEF done, g, n, m
  <2>10. Identifier(<<job>>[1]) = r.cap
    BY <2>3, <2>5 DEF Identifier
  <2>11. /\ n \in {0, 1} /\ m \in Nat /\ m = Len(h.log)
         /\ Len(g.log) = m + n
         /\ \A i \in 1..m : g.log[i] = h.log[i]
         /\ n = 1 => g.log[m + 1] = r.cap
    BY <2>4, <2>5, <2>6, <2>9, <2>10 DEF m
  <2>12. \A i \in 1..(m + n) : i \in 1..m \/ (n = 1 /\ i = m + 1)
    BY <2>11
  <2>13. \A k : /\ k # r.cap => Logged(g, k) \subseteq Logged(h, k)
                /\ Logged(g, k) \subseteq Logged(h, k) \cup {m + 1}
    BY <2>11, <2>12 DEF Logged
  <2>14. \A k : \A q \in Promise : Capped(g, q, k) = Capped(h, q, k)
    BY <2>4, <2>8, <2>9 DEF Capped
  <2>15. \A k : k # r.cap => /\ WrittenOnce(h, k) => WrittenOnce(g, k)
                             /\ Unwritten(h, k) => Unwritten(g, k)
    <3> SUFFICES ASSUME NEW k, k # r.cap
                 PROVE  /\ WrittenOnce(h, k) => WrittenOnce(g, k)
                        /\ Unwritten(h, k) => Unwritten(g, k)
      OBVIOUS
    <3>1. Logged(g, k) \subseteq Logged(h, k)
      BY <2>13
    <3>2. WrittenOnce(h, k) => WrittenOnce(g, k)
      BY <2>14, <3>1 DEF WrittenOnce
    <3>3. Unwritten(h, k) => Unwritten(g, k)
      BY <2>14, <3>1 DEF Unwritten
    <3> QED
      BY <3>2, <3>3
  <2>16. r.cap # None => WrittenOnce(g, r.cap)
    <3> SUFFICES ASSUME Unwritten(h, r.cap) PROVE WrittenOnce(g, r.cap)
      OBVIOUS
    <3>1. Logged(g, r.cap) \subseteq {m + 1}
      BY <2>13 DEF Unwritten
    <3>2. \A q \in Promise : Capped(g, q, r.cap) = {}
      BY <2>14 DEF Unwritten
    <3> QED
      BY <1>1, <3>1, <3>2, WrittenInOnePlace
  <2>17. Aligned(g)
    BY <2>7, <2>9 DEF Aligned
  <2>18. Made(g) = Made(h)
    BY <2>4, <2>8, <2>9 DEF Made
  <2>19. Recording(g)
    BY <1>2, <1>3, <2>15, <2>16, <2>17, <2>18 DEF Recording
  <2> QED
    BY <2>19 DEF g
<1> QED
  BY <1>4, <1>5, <1>6

LEMMA RecordingEmpty == Recording(EmptyHeap)
<1>1. /\ EmptyHeap.queue = <<>> /\ EmptyHeap.log = <<>>
      /\ \A p \in Promise : EmptyHeap.reactions[p] = <<>>
  BY DEF EmptyHeap
<1>2. \A k : /\ Logged(EmptyHeap, k) = {}
             /\ \A p \in Promise : Capped(EmptyHeap, p, k) = {}
  BY <1>1 DEF Logged, Capped
<1>3. Aligned(EmptyHeap)
  <2>1. /\ 0 \in Nat /\ DOMAIN EmptyHeap.queue = 1..0
        /\ Len(EmptyHeap.log) = 0 + 0
    BY <1>1
  <2> QED
    BY <2>1 DEF Aligned
<1> QED
  BY <1>2, <1>3 DEF Recording, WrittenOnce, Unwritten
-----------------------------------------------------------------------------
(* What becomes of a promise, without the order of queue and reactions.    *)
Jobs(h)          == {h.queue[i] : i \in DOMAIN h.queue}
Registered(h, q) == {h.reactions[q][i] : i \in DOMAIN h.reactions[q]}

(* A job or a reaction by which promise p adopts the state of q, and a job *)
(* that gives it an outcome so.                                            *)
Locks(job, p, q)       == Adopts(job, p) /\ job.thenable = q
Joins(h, r, p)         == r.onFulfilled = "resolving" /\ h.target[r.fn] = p
Gives(h, job, p, o, v) == /\ job.type = "reaction" /\ job.handler = "resolving"
                          /\ h.target[job.fn] = p
                          /\ job.outcome = o /\ job.argument = v

WaitsFor(h, p, q) == \/ \E job \in Jobs(h) : Locks(job, p, q)
                     \/ \E r \in Registered(h, q) : Joins(h, r, p)

Gets(h, p, o, v) == \E job \in Jobs(h) : Gives(h, job, p, o, v)

(* Pair k was made for such an adoption, which it has not settled yet. *)
Adopter(h, k) ==
  \/ \E job \in Jobs(h) : /\ job.type = "reaction" /\ job.handler = "resolving"
                          /\ job.fn = k
  \/ \E q \in Promise : \E r \in Registered(h, q) :
       r.onFulfilled = "resolving" /\ r.fn = k

SameFate(h, g, p) ==
  /\ g.state[p] = h.state[p] /\ g.result[p] = h.result[p]
  /\ \A q \in Promise : WaitsFor(g, p, q) <=> WaitsFor(h, p, q)
  /\ \A o, v : Gets(g, p, o, v) <=> Gets(h, p, o, v)

(* From h to g: nothing becomes of any promise; p is settled, and may take *)
(* with it those that wait for it; p waits for q from now on.              *)
Uneventful(h, g) == \A p \in Promise : SameFate(h, g, p)

Settles(h, g, p, o, v) ==
  /\ g.state[p] = o /\ g.result[p] = v
  /\ \A q \in Promise : \/ q = p
                        \/ SameFate(h, g, q)
                        \/ WaitsFor(h, q, p) /\ Gets(g, q, o, v)
  /\ \A q \in Promise :
       q = p \/ (g.state[q] = h.state[q] /\ g.result[q] = h.result[q])
  /\ \A q, r \in Promise : WaitsFor(g, q, r) => WaitsFor(h, q, r)

StartsWaiting(h, g, p, q) ==
  /\ WaitsFor(g, p, q)
  /\ \A r \in Promise : r = p \/ SameFate(h, g, r)

LEMMA UneventfulTwice ==
  ASSUME NEW h, NEW g, NEW f, Uneventful(h, g), Uneventful(g, f)
  PROVE  Uneventful(h, f)
BY DEF Uneventful, SameFate

LEMMA MembersOK ==
  ASSUME NEW h, HeapOK(h)
  PROVE  /\ \A q \in Promise : \A r \in Registered(h, q) :
              r \in Reaction /\ ReactionOK(h, r)
         /\ \A job \in Jobs(h) : job \in Job /\ JobOK(h, job)
<1>1. h.queue \in Seq(Job) /\ \A q \in Promise : h.reactions[q] \in Seq(Reaction)
  BY DEF HeapOK, Heap
<1>2. ASSUME NEW q \in Promise, NEW i \in DOMAIN h.reactions[q]
      PROVE  h.reactions[q][i] \in Reaction /\ ReactionOK(h, h.reactions[q][i])
  <2>1. i \in 1..Len(h.reactions[q])
    BY <1>1, <1>2, LenProperties
  <2>2. h.reactions[q][i] \in Reaction
    BY <1>1, <2>1, ElementOfSeq
  <2> QED
    BY <1>2, <2>2 DEF HeapOK
<1>3. ASSUME NEW i \in DOMAIN h.queue
      PROVE  h.queue[i] \in Job /\ JobOK(h, h.queue[i])
  <2>1. i \in 1..Len(h.queue)
    BY <1>1, <1>3, LenProperties
  <2>2. h.queue[i] \in Job
    BY <1>1, <2>1, ElementOfSeq
  <2> QED
    BY <1>3, <2>2 DEF HeapOK
<1> QED
  BY <1>2, <1>3 DEF Registered, Jobs

(* The functions of an adoption are of a pair that was made. *)
LEMMA AdoptersAreMade ==
  ASSUME NEW h, HeapOK(h)
  PROVE  /\ \A q \in Promise : \A r \in Registered(h, q) :
              r.onFulfilled = "resolving" => r.fn \in Made(h) /\ r.onRejected = "resolving"
         /\ \A job \in Jobs(h) :
              job.type = "reaction" /\ job.handler = "resolving" => job.fn \in Made(h)
         /\ \A k : Adopter(h, k) => k \in Made(h)
<1>1. ASSUME NEW q \in Promise, NEW r \in Registered(h, q),
             r.onFulfilled = "resolving"
      PROVE  r.fn \in Made(h) /\ r.onRejected = "resolving"
  <2>1. r \in Reaction /\ ReactionOK(h, r)
    BY <1>1, MembersOK
  <2> QED
    BY <1>1, <2>1 DEF ReactionOK
<1>2. ASSUME NEW job \in Jobs(h), job.type = "reaction", job.handler = "resolving"
      PROVE  job.fn \in Made(h)
  <2>1. JobOK(h, job)
    BY <1>2, MembersOK
  <2> QED
    BY <1>2, <2>1 DEF JobOK
<1> QED
  BY <1>1, <1>2 DEF Adopter

(* An operation that touches neither queue, reactions nor states. *)
LEMMA ElsewhereUneventful ==
  ASSUME NEW h, HeapOK(h), NEW g,
         g.queue = h.queue, g.reactions = h.reactions,
         g.state = h.state, g.result = h.result,
         \A k \in Made(h) : g.target[k] = h.target[k]
  PROVE  Uneventful(h, g)
<1>1. Jobs(g) = Jobs(h) /\ \A q : Registered(g, q) = Registered(h, q)
  BY DEF Jobs, Registered
<1>2. \A q \in Promise : \A r \in Registered(h, q) : \A p :
        Joins(g, r, p) <=> Joins(h, r, p)
  BY AdoptersAreMade DEF Joins
<1>3. \A job \in Jobs(h) : \A p, o, v : Gives(g, job, p, o, v) <=> Gives(h, job, p, o, v)
  BY AdoptersAreMade DEF Gives
<1> QED
  BY <1>1, <1>2, <1>3 DEF Uneventful, SameFate, WaitsFor, Gets

(* What is enqueued is in the queue, when no recording is written. *)
LEMMA EnqueueAdds ==
  ASSUME ~ TRACING, NEW h \in Heap, NEW jobs \in Seq(Job)
  PROVE  LET g == Enqueue(h, jobs)
         IN  /\ Jobs(g) = Jobs(h) \cup {jobs[i] : i \in DOMAIN jobs}
             /\ g.reactions = h.reactions /\ g.target = h.target
             /\ g.state = h.state /\ g.result = h.result
<1> DEFINE g == Enqueue(h, jobs)
           n == Serializable(Identifiers(jobs))
           l == Len(h.queue)
<1>1. /\ n \in 0..Len(jobs)
      /\ (g.error <=> n < Len(jobs))
      /\ Len(h.queue) \in Nat
      /\ DOMAIN h.queue = 1..Len(h.queue)
      /\ DOMAIN g.queue = 1..(Len(h.queue) + n)
      /\ \A i \in 1..Len(h.queue) : g.queue[i] = h.queue[i]
      /\ \A i \in 1..n : g.queue[Len(h.queue) + i] = jobs[i]
      /\ ~ TRACING => n = Len(jobs)
  BY EnqueueAppends, ZenonT(60)
<1>2. /\ g.reactions = h.reactions /\ g.target = h.target
      /\ g.state = h.state /\ g.result = h.result
  BY DEF Enqueue, Heap
<1>3. DOMAIN jobs = 1..Len(jobs)
  BY LenProperties
<1> HIDE DEF g, n
<1>4. /\ l \in Nat /\ DOMAIN h.queue = 1..l /\ n \in Nat /\ DOMAIN jobs = 1..n
      /\ DOMAIN g.queue = 1..(l + n)
      /\ \A i \in 1..l : g.queue[i] = h.queue[i]
      /\ \A i \in 1..n : g.queue[l + i] = jobs[i]
  BY <1>1, <1>3
<1> HIDE DEF l
<1>5. Jobs(g) \subseteq Jobs(h) \cup {jobs[i] : i \in DOMAIN jobs}
  <2> SUFFICES ASSUME NEW i \in DOMAIN g.queue
               PROVE  g.queue[i] \in Jobs(h) \cup {jobs[j] : j \in DOMAIN jobs}
    BY DEF Jobs
  <2>1. CASE i \in 1..l
    BY <1>4, <2>1 DEF Jobs
  <2>2. CASE i \notin 1..l
    <3>1. i - l \in 1..n /\ l + (i - l) = i
      BY <1>4, <2>2
    <3>2. g.queue[i] = jobs[i - l]
      BY <1>4, <3>1
    <3> QED
      BY <1>4, <3>1, <3>2
  <2> QED
    BY <2>1, <2>2
<1>6. Jobs(h) \subseteq Jobs(g)
  <2>1. \A i \in 1..l : i \in 1..(l + n)
    BY <1>4
  <2> QED
    BY <1>4, <2>1 DEF Jobs
<1>7. {jobs[i] : i \in DOMAIN jobs} \subseteq Jobs(g)
  <2>1. \A i \in 1..n : l + i \in 1..(l + n)
    BY <1>4
  <2> QED
    BY <1>4, <2>1 DEF Jobs
<1> QED
  BY <1>2, <1>5, <1>6, <1>7 DEF g

(* A job is enqueued. *)
LEMMA EnqueueOneJob ==
  ASSUME ~ TRACING, NEW h, HeapOK(h), NEW job \in Job
  PROVE  LET g == Enqueue(h, <<job>>)
         IN  /\ job.type # "reaction" =>
                  /\ \A p \in Promise :
                       (\A q \in Promise : ~ Locks(job, p, q)) => SameFate(h, g, p)
                  /\ \A p, q \in Promise : Locks(job, p, q) => WaitsFor(g, p, q)
<1> DEFINE g == Enqueue(h, <<job>>)
<1>1. h \in Heap /\ <<job>> \in Seq(Job) /\ {<<job>>[i] : i \in DOMAIN <<job>>} = {job}
  BY DEF HeapOK
<1>2. /\ Jobs(g) = Jobs(h) \cup {job}
      /\ g.reactions = h.reactions /\ g.target = h.target
      /\ g.state = h.state /\ g.result = h.result
  BY <1>1, EnqueueAdds, Zenon
<1> HIDE DEF g
<1>3. \A q : Registered(g, q) = Registered(h, q)
  BY <1>2 DEF Registered
<1>4. ASSUME job.type # "reaction"
      PROVE  \A p \in Promise :
               (\A q \in Promise : ~ Locks(job, p, q)) => SameFate(h, g, p)
  <2>2. \A p, o, v : Gets(g, p, o, v) <=> Gets(h, p, o, v)
    BY <1>2, <1>4 DEF Gets, Gives
  <2>3. ASSUME NEW p \in Promise, \A q \in Promise : ~ Locks(job, p, q)
        PROVE  \A q \in Promise : WaitsFor(g, p, q) <=> WaitsFor(h, p, q)
    BY <1>2, <1>3, <2>3 DEF WaitsFor, Joins
  <2> QED
    BY <1>2, <2>2, <2>3 DEF SameFate
<1>5. \A p, q \in Promise : Locks(job, p, q) => WaitsFor(g, p, q)
  BY <1>2 DEF WaitsFor
<1> QED
  BY <1>4, <1>5 DEF g

(* A promise is settled, and those that wait for it by a reaction are      *)
(* given its outcome by a job.                                             *)
LEMMA SettleSettles ==
  ASSUME ~ TRACING, NEW h, HeapOK(h), NEW p \in Created(h),
         NEW outcome \in Outcome, NEW value \in Pair
  PROVE  LET g == Settle(h, p, outcome, value)
         IN  Settles(h, g, p, outcome, value)
<1> DEFINE s    == SetState(h, p, outcome, value)
           rs   == h.reactions[p]
           jobs == [i \in DOMAIN rs |-> NewReactionJob(rs[i], outcome, value)]
           g    == Settle(h, p, outcome, value)
<1>1. h \in Heap /\ p \in Promise
  BY CreatedIsPromise DEF HeapOK
<1>2. g = Enqueue(s, jobs)
  BY DEF Settle
<1>3. s \in Heap
  BY <1>1, SetStateType
<1>4. /\ s.reactions = [h.reactions EXCEPT ![p] = <<>>]
      /\ s.queue = h.queue /\ s.target = h.target
      /\ s.state = [h.state EXCEPT ![p] = outcome]
      /\ s.result = [h.result EXCEPT ![p] = value]
  BY <1>1 DEF SetState, Heap
<1>5. rs \in Seq(Reaction) /\ \A i \in DOMAIN rs : rs[i] \in Reaction /\ ReactionOK(h, rs[i])
  BY <1>1, MembersOK DEF Registered, HeapOK, Heap
<1>6. jobs \in Seq(Job) /\ DOMAIN jobs = DOMAIN rs
  <2>1. Len(rs) \in Nat /\ DOMAIN rs = 1..Len(rs)
    <3> HIDE DEF rs
    <3> QED
      BY <1>5, LenProperties
  <2> HIDE DEF rs, s, g
  <2>2. \A i \in DOMAIN rs : NewReactionJob(rs[i], outcome, value) \in ReactionJob
    BY <1>5, NewReactionJobOK
  <2>3. jobs \in [1..Len(rs) -> Job]
    BY <2>1, <2>2 DEF Job
  <2> QED
    BY <2>1, <2>3, IsASeq
<1>7. \A i \in DOMAIN rs :
        /\ jobs[i].type = "reaction" /\ jobs[i].fn = rs[i].fn
        /\ jobs[i].outcome = outcome /\ jobs[i].argument = value
        /\ jobs[i].handler = "resolving" <=> rs[i].onFulfilled = "resolving"
  <2>1. \A i \in DOMAIN rs : rs[i].onFulfilled = "resolving" <=> rs[i].onRejected = "resolving"
    BY <1>5 DEF ReactionOK
  <2> QED
    BY <2>1 DEF NewReactionJob
<1> HIDE DEF jobs, g, s
<1>8. /\ Jobs(g) = Jobs(s) \cup {jobs[i] : i \in DOMAIN jobs}
      /\ g.reactions = s.reactions /\ g.target = s.target
      /\ g.state = s.state /\ g.result = s.result
  <2>1. /\ Jobs(Enqueue(s, jobs)) = Jobs(s) \cup {jobs[i] : i \in DOMAIN jobs}
        /\ Enqueue(s, jobs).reactions = s.reactions
        /\ Enqueue(s, jobs).target = s.target
        /\ Enqueue(s, jobs).state = s.state /\ Enqueue(s, jobs).result = s.result
    BY <1>3, <1>6, EnqueueAdds, Zenon
  <2> QED
    BY <1>2, <2>1
<1>9. Jobs(g) = Jobs(h) \cup {jobs[i] : i \in DOMAIN rs}
  <2> HIDE DEF rs
  <2>1. Jobs(s) = Jobs(h)
    BY <1>4 DEF Jobs
  <2>2. {jobs[i] : i \in DOMAIN jobs} = {jobs[i] : i \in DOMAIN rs}
    BY <1>6
  <2> QED
    BY <1>8, <2>1, <2>2
<1>10. /\ Registered(g, p) = {}
       /\ \A q \in Promise : q # p => Registered(g, q) = Registered(h, q)
       /\ Registered(h, p) = {rs[i] : i \in DOMAIN rs}
  BY <1>1, <1>4, <1>8 DEF Registered, Heap
<1>11. /\ g.target = h.target /\ g.state[p] = outcome /\ g.result[p] = value
       /\ \A q \in Promise : q # p => g.state[q] = h.state[q] /\ g.result[q] = h.result[q]
  BY <1>1, <1>4, <1>8 DEF Heap
<1> HIDE DEF rs
<1>12. ASSUME NEW q \in Promise, NEW r \in Promise
       PROVE  /\ WaitsFor(g, q, r) => WaitsFor(h, q, r)
              /\ WaitsFor(h, q, r) =>
                   WaitsFor(g, q, r) \/ (r = p /\ Gets(g, q, outcome, value))
  <2>1. WaitsFor(g, q, r) => WaitsFor(h, q, r)
    <3>1. \A i \in DOMAIN rs : ~ Locks(jobs[i], q, r)
      BY <1>7 DEF Locks, Adopts
    <3> QED
      BY <1>9, <1>10, <1>11, <3>1 DEF WaitsFor, Joins
  <2>2. ASSUME NEW i \in DOMAIN rs, Joins(h, rs[i], q)
        PROVE  Gets(g, q, outcome, value)
    <3>1. jobs[i] \in Jobs(g)
      BY <1>9
    <3>2. Gives(g, jobs[i], q, outcome, value)
      BY <1>7, <1>11, <2>2 DEF Gives, Joins
    <3> QED
      BY <3>1, <3>2 DEF Gets
  <2>3. WaitsFor(h, q, r) =>
          WaitsFor(g, q, r) \/ (r = p /\ Gets(g, q, outcome, value))
    BY <1>9, <1>10, <1>11, <2>2 DEF WaitsFor, Joins
  <2> QED
    BY <2>1, <2>3
<1>13. ASSUME NEW q \in Promise, NEW o, NEW v
       PROVE  /\ Gets(h, q, o, v) => Gets(g, q, o, v)
              /\ Gets(g, q, o, v) =>
                   Gets(h, q, o, v) \/ (WaitsFor(h, q, p) /\ o = outcome /\ v = value)
  <2>1. \A job : Gives(g, job, q, o, v) <=> Gives(h, job, q, o, v)
    BY <1>11 DEF Gives
  <2>2. ASSUME NEW i \in DOMAIN rs, Gives(h, jobs[i], q, o, v)
        PROVE  WaitsFor(h, q, p) /\ o = outcome /\ v = value
    <3>1. Joins(h, rs[i], q) /\ o = outcome /\ v = value
      BY <1>7, <2>2 DEF Gives, Joins
    <3> QED
      BY <1>10, <3>1 DEF WaitsFor
  <2> QED
    BY <1>9, <2>1, <2>2 DEF Gets
<1>14. \A q \in Promise : \/ q = p
                          \/ SameFate(h, g, q)
                          \/ WaitsFor(h, q, p) /\ Gets(g, q, outcome, value)
  BY <1>11, <1>12, <1>13 DEF SameFate
<1> QED
  BY <1>11, <1>12, <1>14 DEF Settles, g

LEMMA AfterUneventful ==
  ASSUME NEW h, NEW u, NEW g, Uneventful(h, u),
         u.state = h.state
  PROVE  /\ \A p \in Promise : \A o, v : Settles(u, g, p, o, v) => Settles(h, g, p, o, v)
         /\ \A p, q \in Promise : StartsWaiting(u, g, p, q) => StartsWaiting(h, g, p, q)
BY DEF Uneventful, SameFate, Settles, StartsWaiting

(* From h to g a function of pair k is called. *)
Decides(h, g, p) ==
  \/ \E o \in Outcome, v \in Pair : Settles(h, g, p, o, v)
  \/ \E q \in Promise \ {p} : StartsWaiting(h, g, p, q)

Calls(h, g, k) ==
  \/ Uneventful(h, g)
  \/ k \in Unused(h, h.target[k]) /\ Decides(h, g, h.target[k])

LEMMA NothingHappens ==
  ASSUME NEW h
  PROVE  Uneventful(h, h)
BY DEF Uneventful, SameFate

LEMMA UseUneventful ==
  ASSUME NEW h, HeapOK(h), NEW k \in Made(h)
  PROVE  LET u == Use(h, k)
         IN  /\ HeapOK(u) /\ Uneventful(h, u)
             /\ u.state = h.state /\ u.target = h.target
             /\ h.target[k] \in Created(u) /\ Created(u) = Created(h)
<1> DEFINE u == Use(h, k)
<1>1. /\ HeapOK(u) /\ SameNames(u, h) /\ u.queue = h.queue /\ u.reactions = h.reactions
  BY UseElsewhere
<1>2. u.state = h.state /\ u.result = h.result
  BY DEF Use, HeapOK, Heap
<1> HIDE DEF u
<1>3. u.target = h.target /\ Created(u) = Created(h)
  BY <1>1 DEF SameNames, Created
<1>4. Uneventful(h, u)
  BY <1>1, <1>2, <1>3, ElsewhereUneventful
<1> QED
  BY <1>1, <1>2, <1>3, <1>4 DEF u, HeapOK

LEMMA UseAndSettle ==
  ASSUME ~ TRACING, NEW h, HeapOK(h), NEW k \in Made(h), k \notin h.resolved,
         NEW outcome \in Outcome, NEW value \in Pair
  PROVE  LET g == Settle(Use(h, k), h.target[k], outcome, value)
         IN  /\ Settles(h, g, h.target[k], outcome, value)
             /\ Calls(h, g, k)
<1> DEFINE u == Use(h, k)
           p == h.target[k]
           g == Settle(u, p, outcome, value)
<1>1. /\ HeapOK(u) /\ Uneventful(h, u)
      /\ u.state = h.state /\ p \in Created(u)
  BY UseUneventful
<1>2. p \in Promise
  BY <1>1, CreatedIsPromise DEF HeapOK
<1> HIDE DEF u
<1>3. Settles(u, g, p, outcome, value)
  BY <1>1, SettleSettles
<1> HIDE DEF g
<1>4. Settles(h, g, p, outcome, value)
  BY <1>1, <1>2, <1>3, AfterUneventful
<1>6. k \in Unused(h, p)
  BY DEF Unused
<1>7. Decides(h, g, p)
  BY <1>4 DEF Decides
<1> QED
  BY <1>4, <1>6, <1>7 DEF g, u, Calls

(* The reject function. *)
LEMMA RejectCalls ==
  ASSUME ~ TRACING, NEW h, HeapOK(h), NEW k \in Made(h), NEW reason \in Pair
  PROVE  /\ Calls(h, RejectFunction(h, k, reason), k)
         /\ Usable(h, k) =>
              Settles(h, RejectFunction(h, k, reason), h.target[k], "rejected", reason)
<1>1. CASE ~ Usable(h, k)
  BY <1>1, NothingHappens DEF RejectFunction, Calls
<1>2. CASE Usable(h, k)
  <2>1. RejectFunction(h, k, reason)
          = Settle(Use(h, k), h.target[k], "rejected", reason)
    BY <1>2 DEF RejectFunction
  <2>2. k \notin h.resolved /\ "rejected" \in Outcome
    BY <1>2 DEF Usable, Outcome
  <2> QED
    BY <2>1, <2>2, UseAndSettle
<1> QED
  BY <1>1, <1>2

(* The resolve function. *)
LEMMA ResolveCalls ==
  ASSUME ~ TRACING, NEW h, HeapOK(h), Single(h), NEW k \in Made(h), NEW x, ResolvesWith(h, x)
  PROVE  /\ Calls(h, ResolveFunction(h, k, x), k)
         /\ Usable(h, k) /\ x.kind = "value" =>
              Settles(h, ResolveFunction(h, k, x), h.target[k], "fulfilled", x.ref)
<1> DEFINE u == Use(h, k)
           p == h.target[k]
           job == [type |-> "thenable", promise |-> p, thenable |-> x.ref]
           g == ResolveFunction(h, k, x)
<1>1. CASE ~ Usable(h, k)
  BY <1>1, NothingHappens DEF ResolveFunction, Calls
<1>2. CASE Usable(h, k)
  <2>1. \/ x.kind = "value" /\ x.ref \in Pair /\ g = Settle(u, p, "fulfilled", x.ref)
        \/ x.kind # "value" /\ g = Settle(u, p, "rejected", k)
        \/ /\ x.kind # "value" /\ x.ref \in Created(h) \cup {None} /\ x.ref # p
           /\ g = Enqueue(u, <<job>>)
    <3>1. CASE x.kind = "value"
      BY <1>2, <3>1 DEF ResolveFunction, ResolvesWith, Resolution
    <3>2. CASE x.kind = "poisoned" \/ (x.kind = "promise" /\ x.ref = p)
      BY <1>2, <3>2 DEF ResolveFunction, ResolvesWith, Resolution
    <3>3. CASE ~ (x.kind = "value" \/ x.kind = "poisoned"
                    \/ (x.kind = "promise" /\ x.ref = p))
      <4>1. g = Enqueue(u, <<job>>)
        BY <1>2, <3>3 DEF ResolveFunction
      <4>2. x.ref \in Created(h) \cup {None}
        BY <3>3 DEF ResolvesWith, Resolution
      <4>3. x.ref # p
        <5>1. p \in Promise /\ None \notin Promise
          BY CreatedIsPromise DEF HeapOK, Promise, None
        <5> QED
          BY <3>3, <5>1 DEF ResolvesWith, Resolution
      <4> QED
        BY <3>3, <4>1, <4>2, <4>3
    <3> QED
      BY <3>1, <3>2, <3>3
  <2>2. k \notin h.resolved /\ {"fulfilled", "rejected"} \subseteq Outcome /\ k \in Pair
    BY <1>2, CreatedIsPromise DEF Usable, Outcome, HeapOK
  <2>3. CASE x.kind = "value" /\ x.ref \in Pair /\ g = Settle(u, p, "fulfilled", x.ref)
    BY <2>2, <2>3, UseAndSettle
  <2>4. CASE x.kind # "value" /\ g = Settle(u, p, "rejected", k)
    BY <2>2, <2>4, UseAndSettle
  <2>5. CASE /\ x.kind # "value" /\ x.ref \in Created(h) \cup {None} /\ x.ref # p
             /\ g = Enqueue(u, <<job>>)
    <3>1. /\ HeapOK(u) /\ Uneventful(h, u)
          /\ u.state = h.state /\ p \in Created(u)
      BY UseUneventful
    <3>2. p \in Promise /\ Created(h) \subseteq Promise
      BY <3>1, CreatedIsPromise DEF HeapOK
    <3>3. job \in Job /\ job.type = "thenable"
      BY <2>5, <3>2 DEF Job, ThenableJob
    <3>4. k \in Unused(h, p) /\ h.state[p] = "pending"
      BY <2>2, <3>2 DEF Unused, Single, Undecided
    <3>5. \A q, r \in Promise : Locks(job, q, r) <=> q = p /\ r = x.ref
      BY DEF Locks, Adopts
    <3> HIDE DEF u, job, g, p
    <3>7. /\ \A q \in Promise :
               (\A r \in Promise : ~ Locks(job, q, r)) => SameFate(u, g, q)
          /\ \A q, r \in Promise : Locks(job, q, r) => WaitsFor(g, q, r)
      BY <2>5, <3>1, <3>3, EnqueueOneJob, Zenon
    <3>9. CASE x.ref \in Promise
      <4>1. StartsWaiting(u, g, p, x.ref)
        BY <3>2, <3>5, <3>7, <3>9 DEF StartsWaiting
      <4>2. StartsWaiting(h, g, p, x.ref)
        BY <3>1, <3>2, <3>9, <4>1, AfterUneventful
      <4>3. Decides(h, g, p)
        BY <2>5, <3>9, <4>2 DEF Decides
      <4> QED
        BY <2>5, <3>4, <4>3 DEF Calls, p, g
    <3>10. CASE x.ref \notin Promise
      <4>1. Uneventful(u, g)
        BY <3>5, <3>7, <3>10 DEF Uneventful
      <4>2. Uneventful(h, g)
        BY <3>1, <4>1, UneventfulTwice
      <4> QED
        BY <2>5, <4>2 DEF Calls, p, g
    <3> QED
      BY <3>9, <3>10
  <2> QED
    BY <2>1, <2>3, <2>4, <2>5
<1> QED
  BY <1>1, <1>2

(* One of the two gets the outcome of another promise. *)
LEMMA PassOnCalls ==
  ASSUME ~ TRACING, NEW h, HeapOK(h), Single(h), NEW k \in Made(h),
         NEW outcome \in Outcome, NEW value \in Pair
  PROVE  /\ Calls(h, PassOn(h, k, outcome, value), k)
         /\ Usable(h, k) =>
              Settles(h, PassOn(h, k, outcome, value), h.target[k], outcome, value)
<1> DEFINE x == [kind |-> "value", ref |-> value]
<1>1. ResolvesWith(h, x) /\ x.kind = "value" /\ x.ref = value
  BY DEF ResolvesWith, Resolution
<1>2. PassOn(h, k, outcome, value) = IF outcome = "fulfilled"
                                     THEN ResolveFunction(h, k, x)
                                     ELSE RejectFunction(h, k, value)
  BY DEF PassOn
<1>3. outcome = "fulfilled" \/ outcome = "rejected"
  BY DEF Outcome
<1> HIDE DEF x
<1> QED
  BY <1>1, <1>2, <1>3, ResolveCalls, RejectCalls

(* A pair or a promise is created. *)
LEMMA CreateUneventful ==
  ASSUME NEW h, HeapOK(h), h.pairs < MaxPairs
  PROVE  /\ \A p \in Created(h) :
              Uneventful(h, CreateResolvingFunctions(h, p))
         /\ h.promises < MaxPromises =>
              /\ Uneventful(h, NewPromise(h))
              /\ NewPromise(h).state = h.state
<1>1. /\ h \in Heap /\ h.pairs \in Nat
      /\ h.target \in [Pair -> Promise \cup {None}]
      /\ Made(h) \subseteq Pair
  <2>1. h \in Heap
    BY DEF HeapOK
  <2> QED
    BY <2>1, CreatedIsPromise DEF Heap
<1>2. ASSUME NEW f \in Heap, NEW p, f.target = h.target, f.pairs = h.pairs,
             NEW g, g = CreateResolvingFunctions(f, p)
      PROVE  /\ g.queue = f.queue /\ g.reactions = f.reactions
             /\ g.state = f.state /\ g.result = f.result
             /\ \A k \in Made(h) : g.target[k] = h.target[k]
  <2>1. /\ g.queue = f.queue /\ g.reactions = f.reactions
        /\ g.state = f.state /\ g.result = f.result
        /\ g.target = [h.target EXCEPT ![h.pairs + 1] = p]
    BY <1>2 DEF CreateResolvingFunctions, Heap
  <2>2. h.pairs + 1 \notin Made(h)
    BY <1>1 DEF Made
  <2> QED
    BY <1>1, <2>1, <2>2
<1>3. ASSUME NEW p \in Created(h)
      PROVE  Uneventful(h, CreateResolvingFunctions(h, p))
  <2> DEFINE g == CreateResolvingFunctions(h, p)
  <2>1. /\ g.queue = h.queue /\ g.reactions = h.reactions
        /\ g.state = h.state /\ g.result = h.result
        /\ \A k \in Made(h) : g.target[k] = h.target[k]
    BY <1>1, <1>2
  <2> HIDE DEF g
  <2>2. Uneventful(h, g)
    BY <2>1, ElsewhereUneventful
  <2> QED
    BY <2>2 DEF g
<1>4. ASSUME h.promises < MaxPromises
      PROVE  /\ Uneventful(h, NewPromise(h))
             /\ NewPromise(h).state = h.state
  <2> DEFINE f == [h EXCEPT !.promises = h.promises + 1]
             g == NewPromise(h)
  <2>1. f \in Heap
    <3>1. h.promises + 1 \in 0..MaxPromises
      BY <1>1, <1>4, BoundsAssumption DEF Heap
    <3> QED
      BY <1>1, <3>1 DEF Heap
  <2>2. /\ f.queue = h.queue /\ f.reactions = h.reactions /\ f.state = h.state
        /\ f.result = h.result /\ f.target = h.target /\ f.pairs = h.pairs
    BY <1>1 DEF Heap
  <2>3. g = CreateResolvingFunctions(f, h.promises + 1)
    BY DEF NewPromise
  <2> HIDE DEF f, g
  <2>4. /\ g.queue = h.queue /\ g.reactions = h.reactions
        /\ g.state = h.state /\ g.result = h.result
        /\ \A k \in Made(h) : g.target[k] = h.target[k]
    BY <1>2, <2>1, <2>2, <2>3
  <2>5. Uneventful(h, g)
    BY <2>4, ElsewhereUneventful
  <2> QED
    BY <2>4, <2>5 DEF g
<1> QED
  BY <1>3, <1>4

(* The polled job leaves the queue: something becomes only of the promise  *)
(* it decides about.                                                       *)
LEMMA PollForgets ==
  ASSUME NEW h, HeapOK(h), NEW i \in DOMAIN h.queue, NEW g,
         g = [h EXCEPT !.queue = RemoveAt(@, i)]
  PROVE  /\ \A p \in Promise :
              /\ \A q \in Promise : ~ Locks(h.queue[i], p, q)
              /\ \A o, v : ~ Gives(h, h.queue[i], p, o, v)
              => SameFate(h, g, p)
         /\ g.state = h.state /\ g.target = h.target
<1> DEFINE q == h.queue
           r == RemoveAt(q, i)
<1>1. h \in Heap /\ q \in Seq(Job)
  BY DEF HeapOK, Heap
<1>2. Len(q) \in Nat /\ DOMAIN q = 1..Len(q) /\ i \in 1..Len(q)
  BY <1>1, LenProperties
<1>3. /\ r \in Seq(Job) /\ Len(r) = Len(q) - 1
      /\ \A j \in 1..Len(q) - 1 : r[j] = IF j < i THEN q[j] ELSE q[j + 1]
  <2>1. i \in 1..Len(q)
    BY <1>2
  <2> HIDE DEF q, r
  <2> QED
    BY <1>1, <2>1, RemoveAtProperties DEF r
<1>4. /\ g.queue = r /\ g.reactions = h.reactions /\ g.target = h.target
      /\ g.state = h.state /\ g.result = h.result
  <2> HIDE DEF r
  <2>1. g = [h EXCEPT !.queue = r]
    BY DEF r
  <2> QED
    BY <1>1, <2>1 DEF Heap
<1> HIDE DEF r
<1>5. Jobs(g) \subseteq Jobs(h) /\ Jobs(h) \subseteq Jobs(g) \cup {h.queue[i]}
  <2> DEFINE m == Len(q)
  <2>1. /\ m \in Nat /\ DOMAIN q = 1..m /\ i \in 1..m /\ DOMAIN r = 1..(m - 1)
        /\ \A j \in 1..(m - 1) : r[j] = IF j < i THEN q[j] ELSE q[j + 1]
    BY <1>2, <1>3, LenProperties
  <2> HIDE DEF m, q
  <2>2. ASSUME NEW j \in DOMAIN r
        PROVE  \E k \in DOMAIN q : r[j] = q[k]
    <3>1. CASE j < i
      <4>1. j \in DOMAIN q /\ r[j] = q[j]
        BY <2>1, <2>2, <3>1
      <4> QED
        BY <4>1
    <3>2. CASE ~ (j < i)
      <4>1. j + 1 \in DOMAIN q /\ r[j] = q[j + 1]
        BY <2>1, <2>2, <3>2
      <4> QED
        BY <4>1
    <3> QED
      BY <3>1, <3>2
  <2>3. ASSUME NEW j \in DOMAIN q, j # i
        PROVE  \E k \in DOMAIN r : r[k] = q[j]
    <3>1. CASE j < i
      <4>1. j \in DOMAIN r /\ r[j] = q[j]
        BY <2>1, <2>3, <3>1
      <4> QED
        BY <4>1
    <3>2. CASE ~ (j < i)
      <4>1. j - 1 \in DOMAIN r /\ ~ (j - 1 < i) /\ (j - 1) + 1 = j
        BY <2>1, <2>3, <3>2
      <4>2. r[j - 1] = q[j]
        BY <2>1, <4>1
      <4> QED
        BY <4>1, <4>2
    <3> QED
      BY <3>1, <3>2
  <2> QED
    BY <1>4, <2>2, <2>3 DEF Jobs, q
<1>6. \A p : Registered(g, p) = Registered(h, p)
  BY <1>4 DEF Registered
<1> HIDE DEF q
<1>7. ASSUME NEW p \in Promise,
             \A s \in Promise : ~ Locks(h.queue[i], p, s),
             \A o, v : ~ Gives(h, h.queue[i], p, o, v)
      PROVE  SameFate(h, g, p)
  <2>1. \A s \in Promise : WaitsFor(g, p, s) <=> WaitsFor(h, p, s)
    BY <1>4, <1>5, <1>6, <1>7 DEF WaitsFor, Joins
  <2>2. \A job, o, v : Gives(g, job, p, o, v) <=> Gives(h, job, p, o, v)
    BY <1>4 DEF Gives
  <2>3. \A o, v : Gets(g, p, o, v) <=> Gets(h, p, o, v)
    BY <1>5, <1>7, <2>2 DEF Gets
  <2> QED
    BY <1>4, <2>1, <2>3 DEF SameFate
<1> QED
  BY <1>4, <1>7

(* A reaction r is registered at p, or its job is queued. *)
Registers(h, g, p, r, job) ==
  /\ g.state = h.state /\ g.result = h.result /\ g.target = h.target
  /\ h.state[p] = "pending" =>
       /\ Jobs(g) = Jobs(h)
       /\ Registered(g, p) = Registered(h, p) \cup {r}
       /\ \A q \in Promise : q # p => Registered(g, q) = Registered(h, q)
  /\ h.state[p] # "pending" =>
       /\ Jobs(g) = Jobs(h) \cup {job}
       /\ \A q \in Promise : Registered(g, q) = Registered(h, q)

(* Promise.prototype.then and await. *)
LEMMA ThenRegisters ==
  ASSUME ~ TRACING, NEW h, HeapOK(h), ~ h.error, NEW p \in Created(h),
         NEW r \in Reaction, ReactionOK(h, r)
  PROVE  Registers(h, PerformPromiseThen(h, p, r), p, r,
                   NewReactionJob(r, h.state[p], h.result[p]))
<1> DEFINE g   == PerformPromiseThen(h, p, r)
           job == NewReactionJob(r, h.state[p], h.result[p])
<1>1. h \in Heap /\ p \in Promise
  BY CreatedIsPromise DEF HeapOK
<1>2. CASE h.state[p] = "pending"
  <2> DEFINE rs == h.reactions[p]
             ss == Append(rs, r)
  <2>1. g = [h EXCEPT !.reactions = [h.reactions EXCEPT ![p] = ss],
                      !.handled = h.handled \cup {p}]
    BY <1>1, <1>2 DEF PerformPromiseThen
  <2>2. rs \in Seq(Reaction) /\ h.reactions \in [Promise -> Seq(Reaction)]
    BY <1>1 DEF Heap
  <2> HIDE DEF ss, g
  <2>3. /\ g.state = h.state /\ g.result = h.result /\ g.target = h.target
        /\ g.queue = h.queue
        /\ g.reactions = [h.reactions EXCEPT ![p] = ss]
    BY <1>1, <2>1 DEF Heap
  <2>4. g.reactions[p] = ss /\ \A q \in Promise : q # p => g.reactions[q] = h.reactions[q]
    BY <1>1, <2>2, <2>3
  <2> HIDE DEF rs
  <2>5. /\ Len(rs) \in Nat /\ DOMAIN rs = 1..Len(rs) /\ DOMAIN ss = 1..(Len(rs) + 1)
        /\ \A i \in 1..Len(rs) : ss[i] = rs[i]
        /\ ss[Len(rs) + 1] = r
    BY <2>2, AppendProperties, LenProperties DEF ss
  <2> DEFINE l == Len(rs)
  <2>6. /\ l \in Nat /\ DOMAIN rs = 1..l /\ DOMAIN ss = 1..(l + 1)
        /\ \A i \in 1..l : ss[i] = rs[i]
        /\ ss[l + 1] = r
    BY <2>5
  <2> HIDE DEF l
  <2>7. /\ \A i \in DOMAIN ss : i \in DOMAIN rs \/ i = l + 1
        /\ \A i \in DOMAIN rs : i \in DOMAIN ss
        /\ l + 1 \in DOMAIN ss
    BY <2>6
  <2>8. {ss[i] : i \in DOMAIN ss} = {rs[i] : i \in DOMAIN rs} \cup {r}
    BY <2>6, <2>7
  <2>9. Registered(g, p) = Registered(h, p) \cup {r}
    BY <2>4, <2>8 DEF Registered, rs
  <2> QED
    BY <1>2, <2>3, <2>4, <2>9 DEF Registers, Registered, Jobs, g
<1>3. CASE h.state[p] # "pending"
  <2> DEFINE told == [h EXCEPT !.unhandled = h.unhandled \ {p}]
             done == Enqueue(told, <<job>>)
             handled == IF done.error THEN done.handled
                        ELSE done.handled \cup {p}
  <2>1. g = [done EXCEPT !.handled = handled]
    BY <1>3 DEF PerformPromiseThen, TellHandled
  <2>2. h.state[p] \in Outcome /\ h.result[p] \in Pair
    BY <1>1, <1>3 DEF HeapOK, Heap
  <2>3. job \in Job
    BY <2>2, NewReactionJobOK DEF Job, ReactionJob
  <2>4. told \in Heap
    BY <1>1 DEF Heap
  <2>5. /\ told.queue = h.queue /\ told.reactions = h.reactions
        /\ told.state = h.state /\ told.result = h.result /\ told.target = h.target
    BY <1>1 DEF Heap
  <2> HIDE DEF told, job, handled
  <2>6. <<job>> \in Seq(Job) /\ {<<job>>[i] : i \in DOMAIN <<job>>} = {job}
    BY <2>3
  <2>7. /\ Jobs(done) = Jobs(told) \cup {job}
        /\ done.reactions = told.reactions /\ done.target = told.target
        /\ done.state = told.state /\ done.result = told.result
    BY <2>4, <2>6, EnqueueAdds, Zenon
  <2>8. /\ g.queue = done.queue /\ g.reactions = done.reactions
        /\ g.state = done.state /\ g.result = done.result /\ g.target = done.target
    BY <2>1, <2>4 DEF Enqueue, Heap
  <2> HIDE DEF done, g
  <2>9. Jobs(told) = Jobs(h) /\ Jobs(g) = Jobs(done)
    BY <2>5, <2>8 DEF Jobs
  <2> QED
    BY <1>3, <2>5, <2>7, <2>8, <2>9 DEF Registers, Registered, g, job
<1> QED
  BY <1>2, <1>3

(* ... that adopts nothing. *)
LEMMA ThenUneventful ==
  ASSUME ~ TRACING, NEW h, HeapOK(h), ~ h.error, NEW p \in Created(h),
         NEW r \in Reaction, ReactionOK(h, r), r.onFulfilled # "resolving"
  PROVE  LET g == PerformPromiseThen(h, p, r)
         IN  Uneventful(h, g)
<1> DEFINE g   == PerformPromiseThen(h, p, r)
           job == NewReactionJob(r, h.state[p], h.result[p])
<1>1. /\ g.state = h.state /\ g.result = h.result /\ g.target = h.target
      /\ h.state[p] = "pending" =>
           /\ Jobs(g) = Jobs(h)
           /\ Registered(g, p) = Registered(h, p) \cup {r}
           /\ \A q \in Promise : q # p => Registered(g, q) = Registered(h, q)
      /\ h.state[p] # "pending" =>
           /\ Jobs(g) = Jobs(h) \cup {job}
           /\ \A q \in Promise : Registered(g, q) = Registered(h, q)
  BY ThenRegisters DEF Registers
<1>2. r.onRejected # "resolving" /\ job.handler # "resolving" /\ job.type = "reaction"
  BY DEF ReactionOK, NewReactionJob
<1> HIDE DEF g, job
<1>3. Jobs(g) = Jobs(h) \/ Jobs(g) = Jobs(h) \cup {job}
  BY <1>1
<1>4. \A q \in Promise : \/ Registered(g, q) = Registered(h, q)
                         \/ Registered(g, q) = Registered(h, q) \cup {r}
  BY <1>1
<1>5. ASSUME NEW q \in Promise
      PROVE  SameFate(h, g, q)
  <2>1. \A s \in Promise : WaitsFor(g, q, s) <=> WaitsFor(h, q, s)
    BY <1>1, <1>2, <1>3, <1>4 DEF WaitsFor, Joins, Locks, Adopts
  <2>2. \A j, o, v : Gives(g, j, q, o, v) <=> Gives(h, j, q, o, v)
    BY <1>1 DEF Gives
  <2>3. \A o, v : ~ Gives(h, job, q, o, v)
    BY <1>2 DEF Gives
  <2>4. \A o, v : Gets(g, q, o, v) <=> Gets(h, q, o, v)
    BY <1>3, <2>2, <2>3 DEF Gets
  <2> QED
    BY <1>1, <2>1, <2>4 DEF SameFate
<1> QED
  BY <1>5 DEF Uneventful, g

(* ... by which the promise of r.fn adopts the state of q. *)
LEMMA ThenAdopts ==
  ASSUME ~ TRACING, NEW h, HeapOK(h), ~ h.error, NEW q \in Created(h),
         NEW r \in Reaction, ReactionOK(h, r), r.onFulfilled = "resolving",
         NEW p, p = h.target[r.fn]
  PROVE  LET g == PerformPromiseThen(h, q, r)
         IN  /\ \A s \in Promise : s # p => SameFate(h, g, s)
             /\ g.state = h.state /\ g.result = h.result
             /\ h.state[q] = "pending" => WaitsFor(g, p, q)
             /\ h.state[q] # "pending" => Gets(g, p, h.state[q], h.result[q])
<1> DEFINE g   == PerformPromiseThen(h, q, r)
           job == NewReactionJob(r, h.state[q], h.result[q])
<1>1. /\ g.state = h.state /\ g.result = h.result /\ g.target = h.target
      /\ h.state[q] = "pending" =>
           /\ Jobs(g) = Jobs(h)
           /\ Registered(g, q) = Registered(h, q) \cup {r}
           /\ \A s \in Promise : s # q => Registered(g, s) = Registered(h, s)
      /\ h.state[q] # "pending" =>
           /\ Jobs(g) = Jobs(h) \cup {job}
           /\ \A s \in Promise : Registered(g, s) = Registered(h, s)
  BY ThenRegisters DEF Registers
<1>2. /\ job.handler = "resolving" /\ job.type = "reaction" /\ job.fn = r.fn
      /\ job.outcome = h.state[q] /\ job.argument = h.result[q]
  BY DEF ReactionOK, NewReactionJob
<1>3. q \in Promise
  BY CreatedIsPromise DEF HeapOK
<1> HIDE DEF g, job
<1>4. Jobs(g) = Jobs(h) \/ Jobs(g) = Jobs(h) \cup {job}
  BY <1>1
<1>5. \A s \in Promise : \/ Registered(g, s) = Registered(h, s)
                         \/ Registered(g, s) = Registered(h, s) \cup {r}
  BY <1>1
<1>6. ASSUME NEW s \in Promise, s # p
      PROVE  SameFate(h, g, s)
  <2>1. ~ Joins(h, r, s) /\ \A t : ~ Locks(job, s, t)
    BY <1>2, <1>6 DEF Joins, Locks, Adopts
  <2>2. \A t \in Promise : WaitsFor(g, s, t) <=> WaitsFor(h, s, t)
    BY <1>1, <1>4, <1>5, <2>1 DEF WaitsFor, Joins
  <2>3. \A j, o, v : Gives(g, j, s, o, v) <=> Gives(h, j, s, o, v)
    BY <1>1 DEF Gives
  <2>4. \A o, v : ~ Gives(h, job, s, o, v)
    BY <1>2, <1>6 DEF Gives
  <2>5. \A o, v : Gets(g, s, o, v) <=> Gets(h, s, o, v)
    BY <1>4, <2>3, <2>4 DEF Gets
  <2> QED
    BY <1>1, <2>2, <2>5 DEF SameFate
<1>7. h.state[q] = "pending" => WaitsFor(g, p, q)
  BY <1>1 DEF WaitsFor, Joins
<1>8. h.state[q] # "pending" => Gets(g, p, h.state[q], h.result[q])
  BY <1>1, <1>2 DEF Gets, Gives
<1> QED
  BY <1>1, <1>6, <1>7, <1>8 DEF g
-----------------------------------------------------------------------------
(* An adoption is in one place, and has not been settled there. *)
AdoptionsOK(h) == \A k : Adopter(h, k) => Once(h, k) /\ k \notin h.resolved

(* Nothing has been decided about promise p. *)
OpenIn(h, p) == /\ h.state[p] = "pending"
                /\ \A q \in Promise : ~ WaitsFor(h, p, q)
                /\ \A o, v : ~ Gets(h, p, o, v)

(* A promise has one fate. *)
OneFate(h) ==
  \A p \in Promise :
    /\ \A q \in Promise : WaitsFor(h, p, q) =>
         /\ p \in Created(h) /\ h.state[p] = "pending"
         /\ \A r \in Promise : WaitsFor(h, p, r) => r = q
    /\ \A o, v : Gets(h, p, o, v) =>
         /\ p \in Created(h) /\ h.state[p] = "pending"
         /\ o \in Outcome /\ v \in Pair
         /\ \A q \in Promise : ~ WaitsFor(h, p, q)
         /\ \A x, y : Gets(h, p, x, y) => x = o /\ y = v

(* What a promise waits for, and what it gets, are of a pair of its that   *)
(* has not been used, unless the job is still to make that pair.           *)
LEMMA FatesAreOfPairs ==
  ASSUME NEW h, HeapOK(h), AdoptionsOK(h), NEW p \in Promise
  PROVE  /\ \A q \in Promise : WaitsFor(h, p, q) =>
              \/ \E i \in Adoptions(h, p) : h.queue[i].thenable = q
              \/ \E k \in Unused(h, p) :
                   Adopter(h, k) /\ Once(h, k) /\ ReactionsOf(h, q, k) # {}
         /\ \A o, v : Gets(h, p, o, v) =>
              \E k \in Unused(h, p) :
                /\ Adopter(h, k) /\ Once(h, k)
                /\ o \in Outcome /\ v \in Pair
                /\ \E i \in JobsOf(h, k) :
                     h.queue[i].outcome = o /\ h.queue[i].argument = v
<1>1. ASSUME NEW q \in Promise, WaitsFor(h, p, q)
      PROVE  \/ \E i \in Adoptions(h, p) : h.queue[i].thenable = q
             \/ \E k \in Unused(h, p) :
                  Adopter(h, k) /\ Once(h, k) /\ ReactionsOf(h, q, k) # {}
  <2>1. CASE \E job \in Jobs(h) : Locks(job, p, q)
    BY <2>1 DEF Jobs, Locks, Adoptions
  <2>2. ASSUME NEW r \in Registered(h, q), Joins(h, r, p)
        PROVE  \E k \in Unused(h, p) :
                 Adopter(h, k) /\ Once(h, k) /\ ReactionsOf(h, q, k) # {}
    <3>1. r.fn \in Made(h) /\ h.target[r.fn] = p
      BY <2>2, AdoptersAreMade DEF Joins
    <3>2. Adopter(h, r.fn)
      BY <2>2 DEF Adopter, Joins
    <3>3. r.fn \in Unused(h, p) /\ Once(h, r.fn)
      BY <3>1, <3>2 DEF AdoptionsOK, Unused
    <3>4. ReactionsOf(h, q, r.fn) # {}
      BY <2>2 DEF ReactionsOf, Registered, Holds
    <3> QED
      BY <3>2, <3>3, <3>4
  <2> QED
    BY <1>1, <2>1, <2>2 DEF WaitsFor
<1>2. ASSUME NEW o, NEW v, Gets(h, p, o, v)
      PROVE  \E k \in Unused(h, p) :
               /\ Adopter(h, k) /\ Once(h, k)
               /\ o \in Outcome /\ v \in Pair
               /\ \E i \in JobsOf(h, k) :
                    h.queue[i].outcome = o /\ h.queue[i].argument = v
  <2>1. PICK job \in Jobs(h) : Gives(h, job, p, o, v)
    BY <1>2 DEF Gets
  <2>2. job.fn \in Made(h) /\ h.target[job.fn] = p /\ Adopter(h, job.fn)
    BY <2>1, AdoptersAreMade DEF Gives, Adopter
  <2>3. job.fn \in Unused(h, p) /\ Once(h, job.fn)
    BY <2>2 DEF AdoptionsOK, Unused
  <2>4. \E i \in JobsOf(h, job.fn) : h.queue[i].outcome = o /\ h.queue[i].argument = v
    BY <2>1 DEF Gives, Jobs, JobsOf, Holds
  <2>5. job \in ReactionJob
    BY <2>1, MembersOK DEF Gives, Job, ThenableJob, Microtask
  <2>6. o \in Outcome /\ v \in Pair
    BY <2>1, <2>5 DEF Gives, ReactionJob
  <2> QED
    BY <2>2, <2>3, <2>4, <2>6
<1> QED
  BY <1>1, <1>2

LEMMA EachHasOneFate ==
  ASSUME NEW h, HeapOK(h), Single(h), AdoptionsOK(h)
  PROVE  OneFate(h)
<1> SUFFICES ASSUME NEW p \in Promise
             PROVE  /\ \A q \in Promise : WaitsFor(h, p, q) =>
                         /\ p \in Created(h) /\ h.state[p] = "pending"
                         /\ \A r \in Promise : WaitsFor(h, p, r) => r = q
                    /\ \A o, v : Gets(h, p, o, v) =>
                         /\ p \in Created(h) /\ h.state[p] = "pending"
                         /\ o \in Outcome /\ v \in Pair
                         /\ \A q \in Promise : ~ WaitsFor(h, p, q)
                         /\ \A x, y : Gets(h, p, x, y) => x = o /\ y = v
  BY DEF OneFate
<1>1. /\ \A k, l \in Unused(h, p) : k = l
      /\ \A i, j \in Adoptions(h, p) : i = j
      /\ Unused(h, p) = {} \/ Adoptions(h, p) = {}
      /\ Unused(h, p) # {} \/ Adoptions(h, p) # {} =>
           h.state[p] = "pending" /\ p \in Created(h)
  BY NothingDecidesNew DEF Single, Undecided
<1>2. \A q \in Promise : WaitsFor(h, p, q) =>
        \/ \E i \in Adoptions(h, p) : h.queue[i].thenable = q
        \/ \E k \in Unused(h, p) :
             Adopter(h, k) /\ Once(h, k) /\ ReactionsOf(h, q, k) # {}
  BY FatesAreOfPairs
<1>3. \A o, v : Gets(h, p, o, v) =>
        \E k \in Unused(h, p) :
          /\ Adopter(h, k) /\ Once(h, k)
          /\ o \in Outcome /\ v \in Pair
          /\ \E i \in JobsOf(h, k) :
               h.queue[i].outcome = o /\ h.queue[i].argument = v
  BY FatesAreOfPairs
<1>4. ASSUME NEW q \in Promise, WaitsFor(h, p, q)
      PROVE  /\ p \in Created(h) /\ h.state[p] = "pending"
             /\ \A r \in Promise : WaitsFor(h, p, r) => r = q
  BY <1>1, <1>2, <1>4 DEF Once
<1>5. ASSUME NEW o, NEW v, Gets(h, p, o, v)
      PROVE  /\ p \in Created(h) /\ h.state[p] = "pending"
             /\ o \in Outcome /\ v \in Pair
             /\ \A q \in Promise : ~ WaitsFor(h, p, q)
             /\ \A x, y : Gets(h, p, x, y) => x = o /\ y = v
  <2>1. PICK k \in Unused(h, p) :
          /\ Once(h, k) /\ o \in Outcome /\ v \in Pair
          /\ \E i \in JobsOf(h, k) :
               h.queue[i].outcome = o /\ h.queue[i].argument = v
    BY <1>3, <1>5
  <2>2. \A q \in Promise : ~ WaitsFor(h, p, q)
    BY <1>1, <1>2, <2>1 DEF Once
  <2>3. \A x, y : Gets(h, p, x, y) => x = o /\ y = v
    BY <1>1, <1>3, <2>1 DEF Once
  <2> QED
    BY <1>1, <2>1, <2>2, <2>3
<1> QED
  BY <1>4, <1>5

(* When the functions of a pair are still to be used, and not those of an  *)
(* adoption, nothing has been decided about its promise.                   *)
LEMMA UnusedUndecided ==
  ASSUME NEW h, HeapOK(h), Single(h), AdoptionsOK(h), NEW p \in Promise,
         NEW k \in Unused(h, p), ~ Adopter(h, k)
  PROVE  OpenIn(h, p)
<1>1. /\ \A l \in Unused(h, p) : l = k
      /\ Adoptions(h, p) = {} /\ h.state[p] = "pending"
  BY DEF Single, Undecided
<1> QED
  BY <1>1, FatesAreOfPairs DEF OpenIn

(* A pair whose continuation is nowhere, or in a job that is no adoption   *)
(* of it, is not that of an adoption.                                      *)
LEMMA NotAdopter ==
  ASSUME NEW h, NEW k
  PROVE  /\ Nowhere(h, k) => ~ Adopter(h, k)
         /\ \A i \in JobsOf(h, k) :
              Once(h, k) /\ ~ (h.queue[i].handler = "resolving" /\ h.queue[i].fn = k)
              => ~ Adopter(h, k)
<1>1. ASSUME Adopter(h, k)
      PROVE  \/ \E i \in JobsOf(h, k) : h.queue[i].handler = "resolving" /\ h.queue[i].fn = k
             \/ \E q \in Promise : ReactionsOf(h, q, k) # {}
  BY <1>1 DEF Adopter, Jobs, Registered, JobsOf, ReactionsOf, Holds
<1> QED
  BY <1>1 DEF Nowhere, Once

(* What a step may do to promise p. *)
Moves(h, g, p) ==
  \/ SameFate(h, g, p)
  \/ OpenIn(h, p) /\ g.state[p] # "pending"
  \/ OpenIn(h, p) /\ \E q \in Promise \ {p} : WaitsFor(g, p, q)
  \/ \E q \in Promise : \E o, v :
       WaitsFor(h, p, q) /\ Gets(g, p, o, v) /\ g.state[q] = o /\ g.result[q] = v
  \/ \E o, v : Gets(h, p, o, v) /\ g.state[p] = o /\ g.result[p] = v

(* Nothing happens, or something is decided about an open promise. *)
LEMMA DecisionMoves ==
  ASSUME NEW h, NEW g
  PROVE  /\ Uneventful(h, g) => \A q \in Promise : Moves(h, g, q)
         /\ \A p \in Promise : OpenIn(h, p) /\ Decides(h, g, p) =>
              \A q \in Promise : Moves(h, g, q)
<1>1. ASSUME NEW p \in Promise, OpenIn(h, p), Decides(h, g, p), NEW q \in Promise
      PROVE  Moves(h, g, q)
  <2>1. CASE \E o \in Outcome, v \in Pair : Settles(h, g, p, o, v)
    <3>1. PICK o \in Outcome, v \in Pair : Settles(h, g, p, o, v)
      BY <2>1
    <3>2. o # "pending" /\ g.state[p] = o /\ g.result[p] = v
      BY <3>1 DEF Settles, Outcome
    <3>3. CASE q = p
      BY <1>1, <3>2, <3>3 DEF Moves
    <3>4. CASE q # p
      BY <3>1, <3>2, <3>4 DEF Moves, Settles
    <3> QED
      BY <3>3, <3>4
  <2>2. CASE \E r \in Promise \ {p} : StartsWaiting(h, g, p, r)
    BY <1>1, <2>2 DEF Moves, StartsWaiting
  <2> QED
    BY <1>1, <2>1, <2>2 DEF Decides
<1> QED
  BY <1>1 DEF Moves, Uneventful

(* A promise that is settled before a step, and is new in it. *)
LEMMA DecisionAboutNew ==
  ASSUME NEW h, NEW g, NEW p \in Promise, Uneventful(h, g) \/ Decides(h, g, p),
         NEW q \in Promise \ {p}
  PROVE  Moves(h, g, q)
<1>1. CASE \E o \in Outcome, v \in Pair : Settles(h, g, p, o, v)
  BY <1>1 DEF Moves, Settles
<1>2. CASE \E r \in Promise \ {p} : StartsWaiting(h, g, p, r)
  BY <1>2 DEF Moves, StartsWaiting
<1> QED
  BY <1>1, <1>2 DEF Decides, Moves, Uneventful

(* Before or after what happens, nothing happens. *)
LEMMA MovesAround ==
  ASSUME NEW h, NEW u, NEW g, NEW f, Uneventful(h, u), Uneventful(g, f),
         NEW q \in Promise, Moves(u, g, q)
  PROVE  Moves(h, f, q)
<1>1. /\ SameFate(h, u, q) /\ SameFate(g, f, q)
      /\ \A p \in Promise : f.state[p] = g.state[p] /\ f.result[p] = g.result[p]
  BY DEF Uneventful, SameFate
<1>2. CASE SameFate(u, g, q)
  BY <1>1, <1>2 DEF Moves, SameFate
<1>3. CASE OpenIn(u, q)
  <2>1. OpenIn(h, q)
    BY <1>1, <1>3 DEF OpenIn, SameFate
  <2>2. CASE g.state[q] # "pending"
    BY <1>1, <2>1, <2>2 DEF Moves
  <2>3. CASE \E p \in Promise \ {q} : WaitsFor(g, q, p)
    BY <1>1, <2>1, <2>3 DEF Moves, SameFate
  <2>4. CASE ~ (g.state[q] # "pending" \/ \E p \in Promise \ {q} : WaitsFor(g, q, p))
    BY <1>2, <1>3, <2>4 DEF Moves, OpenIn
  <2> QED
    BY <2>2, <2>3, <2>4
<1>4. CASE \E p \in Promise : \E o, v : WaitsFor(u, q, p) /\ Gets(g, q, o, v)
                                          /\ g.state[p] = o /\ g.result[p] = v
  BY <1>1, <1>4 DEF Moves, SameFate
<1>5. CASE \E o, v : Gets(u, q, o, v) /\ g.state[q] = o /\ g.result[q] = v
  BY <1>1, <1>5 DEF Moves, SameFate
<1> QED
  BY <1>2, <1>3, <1>4, <1>5 DEF Moves

(* The job of an adoption runs: its promise p gets the outcome, and then   *)
(* one more promise is resolved.                                           *)
LEMMA AdoptionMoves ==
  ASSUME NEW h, NEW r, NEW g, NEW f, OneFate(h), OneFate(f),
         NEW p \in Promise, NEW o \in Outcome, NEW v, Gets(h, p, o, v),
         \A q \in Promise : q # p => SameFate(h, r, q),
         Settles(r, g, p, o, v),
         \/ Uneventful(g, f)
         \/ \E s \in Promise \ {p} : OpenIn(h, s) /\ Decides(g, f, s),
         NEW q \in Promise
  PROVE  Moves(h, f, q)
<1>1. g.state[p] = o /\ g.result[p] = v /\ o # "pending"
  BY DEF Settles, Outcome
<1>2. ASSUME q # p
      PROVE  \/ SameFate(h, g, q)
             \/ WaitsFor(h, q, p) /\ Gets(g, q, o, v)
  BY <1>2 DEF Settles, SameFate
<1>3. ASSUME q # p
      PROVE  \A t \in Promise : WaitsFor(g, q, t) => WaitsFor(h, q, t)
  BY <1>3 DEF Settles, SameFate
<1>4. CASE Uneventful(g, f)
  <2>1. SameFate(g, f, q) /\ f.state[p] = o /\ f.result[p] = v
    BY <1>1, <1>4 DEF Uneventful, SameFate
  <2>2. CASE q = p
    BY <2>1, <2>2 DEF Moves
  <2>3. CASE q # p
    BY <1>2, <2>1, <2>3 DEF Moves, SameFate
  <2> QED
    BY <2>2, <2>3
<1>5. ASSUME NEW s \in Promise, s # p, OpenIn(h, s), Decides(g, f, s)
      PROVE  Moves(h, f, q)
  <2>1. CASE \E x \in Outcome, y \in Pair : Settles(g, f, s, x, y)
    <3>1. PICK x \in Outcome, y \in Pair : Settles(g, f, s, x, y)
      BY <2>1
    <3>2. /\ f.state[s] = x /\ f.result[s] = y /\ x # "pending"
          /\ f.state[p] = o /\ f.result[p] = v
      BY <1>1, <1>5, <3>1 DEF Settles, Outcome
    <3>3. CASE q = s
      BY <1>5, <3>2, <3>3 DEF Moves
    <3>4. CASE q = p
      BY <3>2, <3>4 DEF Moves
    <3>5. CASE q # s /\ q # p
      <4>1. \/ SameFate(g, f, q)
            \/ WaitsFor(g, q, s) /\ Gets(f, q, x, y)
        BY <3>1, <3>5 DEF Settles
      <4>2. CASE SameFate(g, f, q)
        BY <1>2, <3>2, <3>5, <4>2 DEF Moves, SameFate
      <4>3. CASE WaitsFor(g, q, s) /\ Gets(f, q, x, y)
        BY <1>3, <3>2, <3>5, <4>3 DEF Moves
      <4> QED
        BY <4>1, <4>2, <4>3
    <3> QED
      BY <3>3, <3>4, <3>5
  <2>2. CASE \E t \in Promise \ {s} : StartsWaiting(g, f, s, t)
    <3>1. PICK t \in Promise \ {s} : StartsWaiting(g, f, s, t)
      BY <2>2
    <3>2. f.state[p] = o /\ f.result[p] = v
      BY <1>1, <1>5, <3>1 DEF StartsWaiting, SameFate
    <3>3. CASE q = s
      BY <1>5, <3>1, <3>3 DEF Moves, StartsWaiting
    <3>4. CASE q = p
      BY <3>2, <3>4 DEF Moves
    <3>5. CASE q # s /\ q # p
      <4>1. SameFate(g, f, q)
        BY <3>1, <3>5 DEF StartsWaiting
      <4> QED
        BY <1>2, <3>2, <3>5, <4>1 DEF Moves, SameFate
    <3> QED
      BY <3>3, <3>4, <3>5
  <2> QED
    BY <1>5, <2>1, <2>2 DEF Decides
<1> QED
  BY <1>4, <1>5

(* The job that locks p on q runs: p goes on waiting, or gets q's outcome. *)
LEMMA AdoptMoves ==
  ASSUME NEW h, NEW r, NEW u, NEW f, OneFate(h), OneFate(f),
         NEW p \in Promise, NEW q \in Promise, WaitsFor(h, p, q),
         \A s \in Promise : s # p => SameFate(h, r, s),
         r.state = h.state, r.result = h.result,
         Uneventful(r, u),
         \A s \in Promise : s # p => SameFate(u, f, s),
         f.state = u.state, f.result = u.result,
         u.state[q] = "pending" => WaitsFor(f, p, q),
         u.state[q] # "pending" => Gets(f, p, u.state[q], u.result[q]),
         NEW s \in Promise
  PROVE  Moves(h, f, s)
<1>1. \A t \in Promise : f.state[t] = h.state[t] /\ f.result[t] = h.result[t]
  BY DEF Uneventful, SameFate
<1>2. CASE s # p
  BY <1>2 DEF Moves, Uneventful, SameFate
<1>3. CASE s = p /\ u.state[q] = "pending"
  <2>1. WaitsFor(f, p, q) /\ WaitsFor(h, p, q)
    BY <1>3
  <2>2. /\ \A t \in Promise : WaitsFor(f, p, t) <=> t = q
        /\ \A t \in Promise : WaitsFor(h, p, t) <=> t = q
    BY <2>1 DEF OneFate
  <2>3. \A o, v : ~ Gets(f, p, o, v) /\ ~ Gets(h, p, o, v)
    BY <2>1 DEF OneFate
  <2> QED
    BY <1>1, <1>3, <2>2, <2>3 DEF Moves, SameFate
<1>4. CASE s = p /\ u.state[q] # "pending"
  BY <1>4 DEF Moves
<1> QED
  BY <1>2, <1>3, <1>4
=============================================================================
