--------------------- MODULE ThreadSafeFunction_proofs ---------------------
(***************************************************************************)
(* The proofs, for any number of threads and any bound on the queue, that  *)
(* thread_count is the number of threads that use the function, that no    *)
(* wake-up of the loop is lost, that releasing loses no datum, and that    *)
(* the data come out once and in order.                                    *)
(***************************************************************************)
EXTENDS ThreadSafeFunction, SequenceTheorems, FiniteSetTheorems, TLAPS

PcStates == {"out", "in", "wait", "woken"}

UsersOf(states) == {t \in Threads : states[t] # "out"}

(* Whatever is being closed or closed was declared closing first. *)
ClosedIsClosing == handles # "open" => is_closing

IInv == /\ TypeOK /\ CountIsUsers /\ ClosedIsClosing
        /\ DispatchDue /\ GracefulDelivery

(* A signal wakes a thread and makes none a user, nor ends the use of one. *)
LEMMA SignalKeepsUsers ==
  ASSUME NEW states \in [Threads -> PcStates], NEW woken \in Signal(states)
  PROVE  woken \in [Threads -> PcStates] /\ UsersOf(woken) = UsersOf(states)
BY DEF Signal, PcStates, UsersOf

LEMMA UsersAreFinite ==
  ASSUME NEW states
  PROVE  IsFiniteSet(UsersOf(states)) /\ Cardinality(UsersOf(states)) \in Nat
<1>1. UsersOf(states) \in SUBSET Threads
  BY DEF UsersOf
<1>2. IsFiniteSet(UsersOf(states))
  BY <1>1, FS_Subset, ThreadsAssumption
<1> QED
  BY <1>2, FS_CardinalityType

(* A thread that ends its use is one user less, one that begins one more. *)
LEMMA UserLeaves ==
  ASSUME NEW states \in [Threads -> PcStates], NEW t \in Threads,
         states[t] # "out"
  PROVE  LET left == [states EXCEPT ![t] = "out"]
         IN  /\ left \in [Threads -> PcStates]
             /\ Cardinality(UsersOf(left)) = Cardinality(UsersOf(states)) - 1
<1> DEFINE left == [states EXCEPT ![t] = "out"]
<1>1. left \in [Threads -> PcStates] /\ UsersOf(left) = UsersOf(states) \ {t}
  BY DEF PcStates, UsersOf
<1>2. t \in UsersOf(states)
  BY DEF UsersOf
<1> HIDE DEF left
<1>3. Cardinality(UsersOf(left)) = Cardinality(UsersOf(states)) - 1
  BY <1>1, <1>2, UsersAreFinite, FS_RemoveElement
<1> QED
  BY <1>1, <1>3 DEF left

LEMMA UserComes ==
  ASSUME NEW states \in [Threads -> PcStates], NEW t \in Threads,
         states[t] = "out"
  PROVE  LET more == [states EXCEPT ![t] = "in"]
         IN  /\ more \in [Threads -> PcStates]
             /\ Cardinality(UsersOf(more)) = Cardinality(UsersOf(states)) + 1
<1> DEFINE more == [states EXCEPT ![t] = "in"]
<1>1. more \in [Threads -> PcStates] /\ UsersOf(more) = UsersOf(states) \cup {t}
  BY DEF PcStates, UsersOf
<1>2. t \notin UsersOf(states)
  BY DEF UsersOf
<1> HIDE DEF more
<1>3. Cardinality(UsersOf(more)) = Cardinality(UsersOf(states)) + 1
  BY <1>1, <1>2, UsersAreFinite, FS_AddElement
<1> QED
  BY <1>1, <1>3 DEF more

(* What the other proofs take from the invariant. *)
LEMMA InvFacts ==
  ASSUME IInv
  PROVE  /\ TypeOK /\ ClosedIsClosing /\ DispatchDue /\ GracefulDelivery
         /\ pc \in [Threads -> PcStates]
         /\ handles # "deleted" => thread_count = Cardinality(UsersOf(pc))
         /\ Users = UsersOf(pc)
BY DEF IInv, TypeOK, PcStates, CountIsUsers, Users, UsersOf

LEMMA InitIInv == Init => IInv
<1> SUFFICES ASSUME Init PROVE IInv
  OBVIOUS
<1>1. IsFiniteSet(Initial) /\ Cardinality(Initial) \in Nat
  BY ThreadsAssumption, FS_Subset, FS_CardinalityType
<1>2. Cardinality(Initial) # 0
  BY <1>1, ThreadsAssumption, FS_EmptySet
<1>3. Users = Initial
  BY ThreadsAssumption DEF Init, Users
<1>4. TypeOK
  <2>1. /\ queue \in Seq(1 .. MaxData) /\ Len(queue) = 0
        /\ calling \in Seq(1 .. MaxData) /\ Len(calling) = 0
        /\ delivered \in Seq(1 .. MaxData) /\ returned \in Seq(1 .. MaxData)
    BY EmptySeq DEF Init
  <2>2. /\ pc \in [Threads -> {"out", "in", "wait", "woken"}]
        /\ thread_count \in Nat /\ accepted \in 0 .. MaxData
        /\ cut \subseteq {"abort", "cleanup"} /\ handles = "open"
    BY <1>1, SizeAssumption DEF Init
  <2>3. is_closing \in BOOLEAN /\ async \in BOOLEAN /\ idle \in BOOLEAN
    BY DEF Init
  <2> QED
    BY <2>1, <2>2, <2>3, SizeAssumption DEF TypeOK
<1>5. CountIsUsers
  BY <1>3 DEF Init, CountIsUsers
<1>6. ClosedIsClosing /\ DispatchDue /\ GracefulDelivery
  BY <1>2 DEF Init, ClosedIsClosing, DispatchDue, GracefulDelivery
<1> QED
  BY <1>4, <1>5, <1>6 DEF IInv

(* The three outcomes of Push *)
LEMMA PushIInv ==
  ASSUME IInv, NEW t \in Threads, PushWaits(t) \/ PushAccepted(t)
  PROVE  IInv'
<1>1. /\ TypeOK /\ ClosedIsClosing /\ DispatchDue /\ GracefulDelivery
      /\ pc \in [Threads -> PcStates] /\ Users = UsersOf(pc)
      /\ handles # "deleted" => thread_count = Cardinality(UsersOf(pc))
  BY InvFacts
<1>2. /\ pc' \in [Threads -> PcStates] /\ UsersOf(pc') = UsersOf(pc)
      /\ Users' = UsersOf(pc')
  BY <1>1 DEF PushWaits, PushAccepted, Calls, PcStates, UsersOf, Users
<1>3. CASE PushWaits(t)
  BY <1>1, <1>2, <1>3
     DEF PushWaits, IInv, TypeOK, CountIsUsers, ClosedIsClosing, DispatchDue,
         GracefulDelivery, PcStates, results
<1>4. CASE PushAccepted(t)
  <2>1. accepted + 1 \in 1 .. MaxData /\ accepted' \in 0 .. MaxData
    BY <1>1, <1>4, SizeAssumption DEF TypeOK, PushAccepted
  <2>2. /\ queue' \in Seq(1 .. MaxData) /\ Len(queue') = Len(queue) + 1
    BY <1>1, <1>4, <2>1, AppendProperties DEF TypeOK, PushAccepted
  <2>3. MaxQueueSize > 0 => Len(queue') <= MaxQueueSize
    BY <1>1, <1>4, <2>2, SizeAssumption, LenProperties
       DEF TypeOK, PushAccepted, Full
  <2>4. TypeOK'
    BY <1>1, <1>2, <1>4, <2>1, <2>2, <2>3
       DEF TypeOK, PushAccepted, PcStates, results
  <2> QED
    BY <1>1, <1>2, <1>4, <2>4
       DEF PushAccepted, IInv, CountIsUsers, ClosedIsClosing, DispatchDue,
           GracefulDelivery, results
<1> QED
  BY <1>3, <1>4

LEMMA PushClosingIInv ==
  ASSUME IInv, NEW t \in Threads, PushClosing(t)
  PROVE  IInv'
<1>1. /\ TypeOK /\ ClosedIsClosing /\ DispatchDue /\ GracefulDelivery
      /\ pc \in [Threads -> PcStates] /\ Users = UsersOf(pc)
      /\ handles # "deleted" => thread_count = Cardinality(UsersOf(pc))
  BY InvFacts
<1>2. pc[t] # "out" /\ handles # "deleted"
  BY DEF PushClosing, Calls
<1>3. /\ pc' \in [Threads -> PcStates]
      /\ Cardinality(UsersOf(pc')) = Cardinality(UsersOf(pc)) - 1
      /\ Users' = UsersOf(pc')
  BY <1>1, <1>2, UserLeaves DEF PushClosing, Users, UsersOf
<1>4. t \in Users /\ cut # {}
  BY <1>1, <1>2 DEF PushClosing, GracefulDelivery, UsersOf
<1>5. thread_count' \in Nat /\ thread_count' = thread_count - 1
  BY <1>1 DEF PushClosing, TypeOK
<1>6. TypeOK'
  BY <1>1, <1>3, <1>5 DEF TypeOK, PushClosing, PcStates, results
<1> QED
  BY <1>1, <1>2, <1>3, <1>4, <1>5, <1>6
     DEF PushClosing, IInv, CountIsUsers, ClosedIsClosing, DispatchDue,
         GracefulDelivery, results

LEMMA AcquireIInv ==
  ASSUME IInv, NEW t \in Threads, Acquire(t)
  PROVE  IInv'
<1>1. /\ TypeOK /\ ClosedIsClosing /\ DispatchDue /\ GracefulDelivery
      /\ pc \in [Threads -> PcStates] /\ Users = UsersOf(pc)
      /\ handles # "deleted" => thread_count = Cardinality(UsersOf(pc))
  BY InvFacts
<1>2. pc[t] = "out" /\ handles # "deleted" /\ ~ is_closing
  BY DEF Acquire
<1>3. /\ pc' \in [Threads -> PcStates]
      /\ Cardinality(UsersOf(pc')) = Cardinality(UsersOf(pc)) + 1
      /\ Users' = UsersOf(pc')
  BY <1>1, <1>2, UserComes DEF Acquire, Users, UsersOf
<1>4. thread_count' \in Nat /\ thread_count' = thread_count + 1
      /\ thread_count' # 0
  BY <1>1 DEF Acquire, TypeOK
<1>5. TypeOK'
  BY <1>1, <1>3, <1>4 DEF TypeOK, Acquire, PcStates, results
<1> QED
  BY <1>1, <1>2, <1>3, <1>4, <1>5
     DEF Acquire, IInv, CountIsUsers, ClosedIsClosing, DispatchDue,
         GracefulDelivery, results

LEMMA ReleaseIInv ==
  ASSUME IInv, NEW t \in Threads, NEW mode \in {"release", "abort"},
         Release(t, mode)
  PROVE  IInv'
<1>1. /\ TypeOK /\ ClosedIsClosing /\ DispatchDue /\ GracefulDelivery
      /\ pc \in [Threads -> PcStates] /\ Users = UsersOf(pc)
      /\ handles # "deleted" => thread_count = Cardinality(UsersOf(pc))
  BY InvFacts
<1>2. pc[t] # "out" /\ handles # "deleted"
  BY DEF Release
<1> DEFINE left == [pc EXCEPT ![t] = "out"]
           ends == EndsUse(thread_count - 1, mode) /\ ~ is_closing
<1>3. /\ left \in [Threads -> PcStates]
      /\ Cardinality(UsersOf(left)) = Cardinality(UsersOf(pc)) - 1
  BY <1>1, <1>2, UserLeaves
<1>4. pc' = left \/ pc' \in Signal(left)
  BY DEF Release
<1>5. UsersOf(left) \subseteq UsersOf(pc)
  BY <1>1 DEF UsersOf, PcStates
<1>6. /\ is_closing' = (is_closing \/ (ends /\ mode = "abort"))
      /\ cut' = IF ends /\ mode = "abort" THEN cut \cup {mode} ELSE cut
      /\ async' = (async \/ ends)
      /\ thread_count' = thread_count - 1 /\ thread_count > 0
      /\ UNCHANGED <<queue, idle, handles, accepted, calling, delivered,
                     returned>>
  BY DEF Release
<1>7. mode = "abort" => ends \/ is_closing
  BY DEF EndsUse
<1>8. thread_count' = 0 => ends \/ is_closing
  BY <1>6 DEF EndsUse
<1> HIDE DEF left, ends
<1>9. /\ pc' \in [Threads -> PcStates] /\ UsersOf(pc') = UsersOf(left)
      /\ Users' = UsersOf(pc')
  BY <1>3, <1>4, SignalKeepsUsers DEF Users, UsersOf
<1>10. thread_count' \in Nat
  BY <1>1, <1>6 DEF TypeOK
<1>11. is_closing' \in BOOLEAN /\ async' \in BOOLEAN
  BY <1>1, <1>6, Zenon DEF TypeOK
<1>12. cut' \subseteq {"abort", "cleanup"}
  BY <1>1, <1>6 DEF TypeOK
<1>13. TypeOK'
  BY <1>1, <1>6, <1>9, <1>10, <1>11, <1>12 DEF TypeOK, PcStates
<1>14. CountIsUsers'
  BY <1>1, <1>2, <1>3, <1>6, <1>9 DEF CountIsUsers
<1>15. ClosedIsClosing'
  BY <1>1, <1>6 DEF ClosedIsClosing
<1>16. DispatchDue'
  BY <1>1, <1>6, <1>7, <1>8 DEF DispatchDue
<1>17. GracefulDelivery'
  <2> SUFFICES ASSUME cut' = {} PROVE GracefulDelivery'
    BY DEF GracefulDelivery
  <2>1. cut = {} /\ ~ (ends /\ mode = "abort")
    BY <1>6
  <2> QED
    BY <1>1, <1>5, <1>6, <1>9, <2>1 DEF GracefulDelivery
<1> QED
  BY <1>13, <1>14, <1>15, <1>16, <1>17 DEF IInv

(* The callbacks that leave the threads and the queue alone *)
LEMMA LoopIInv ==
  ASSUME IInv,
         AsyncCb \/ DispatchClosing \/ CallJs \/ AsyncClosed \/ IdleClosed
  PROVE  IInv'
<1>1. /\ TypeOK /\ ClosedIsClosing /\ DispatchDue /\ GracefulDelivery
      /\ CountIsUsers
  BY DEF IInv
<1>2. CASE AsyncCb
  BY <1>1, <1>2 DEF AsyncCb, IInv, TypeOK, CountIsUsers, Users,
     ClosedIsClosing, DispatchDue, GracefulDelivery, producers, results
<1>3. CASE DispatchClosing
  <2>1. is_closing /\ handles' \in {"async", "idle", "finalizing", "deleted"}
    BY <1>1, <1>3 DEF DispatchClosing, HandlesClosing, TypeOK
  <2> QED
    BY <1>1, <1>3, <2>1 DEF DispatchClosing, InLoop, HandlesClosing, IInv,
       TypeOK, CountIsUsers, Users, ClosedIsClosing, DispatchDue,
       GracefulDelivery, producers, results
<1>4. CASE CallJs
  <2>1. /\ delivered' \in Seq(1 .. MaxData)
        /\ calling' \in Seq(1 .. MaxData) /\ Len(calling') <= 1
    BY <1>1, <1>4, ConcatProperties, EmptySeq DEF CallJs, TypeOK
  <2>2. TypeOK'
    BY <1>1, <1>4, <2>1 DEF CallJs, TypeOK, producers
  <2> QED
    BY <1>1, <1>4, <2>2 DEF CallJs, IInv, CountIsUsers, Users,
       ClosedIsClosing, DispatchDue, GracefulDelivery, producers
<1>5. CASE AsyncClosed
  BY <1>1, <1>5 DEF AsyncClosed, InLoop, IInv, TypeOK, CountIsUsers, Users,
     ClosedIsClosing, DispatchDue, GracefulDelivery, producers, results
<1>6. CASE IdleClosed
  BY <1>1, <1>6 DEF IdleClosed, InLoop, IInv, TypeOK, CountIsUsers, Users,
     ClosedIsClosing, DispatchDue, GracefulDelivery, producers, results
<1> QED
  BY <1>2, <1>3, <1>4, <1>5, <1>6

(* The first element and what is behind it. *)
LEMMA HeadIsFirst ==
  ASSUME NEW D, NEW q \in Seq(D), q # <<>>
  PROVE  <<Head(q)>> \o Tail(q) = q
<1>1. Len(q) \in Nat \ {0}
  BY EmptySeq
<1>2. 1 \in 1 .. Len(q) /\ Len(q) \in 1 .. Len(q)
  BY <1>1
<1>3. SubSeq(q, 1, Len(q)) = <<q[1]>> \o SubSeq(q, 1 + 1, Len(q))
  BY <1>2, SubSeqRecursiveFirst
<1>4. SubSeq(q, 1, Len(q)) = q
  BY <1>1, SubSeqFull
<1>5. SubSeq(q, 1 + 1, Len(q)) = Tail(q)
  BY TailIsSubSeq
<1>6. Head(q) = q[1]
  BY <1>1
<1> QED
  BY <1>3, <1>4, <1>5, <1>6

(* DispatchOne takes the first datum, if there is one. *)
LEMMA DispatchQueue ==
  ASSUME TypeOK, DispatchOne
  PROVE  \/ /\ queue = <<>> /\ queue' = <<>> /\ calling' = <<>>
         \/ /\ queue # <<>> /\ queue \in Seq(1 .. MaxData)
            /\ queue' = Tail(queue) /\ calling' = <<Head(queue)>>
<1>1. queue \in Seq(1 .. MaxData) /\ Len(queue) \in Nat
  BY LenProperties DEF TypeOK
<1>2. CASE Len(queue) = 0
  <2>1. queue = <<>>
    BY <1>1, <1>2, EmptySeq
  <2>2. queue' = queue /\ calling' = SubSeq(queue, 1, 0)
    BY <1>2 DEF DispatchOne
  <2> QED
    BY <1>1, <2>1, <2>2, SubSeqEmpty
<1>3. CASE Len(queue) > 0
  <2>1. queue # <<>> /\ Len(queue) - (Len(queue) - 1) = 1
    BY <1>1, <1>3, EmptySeq
  <2>2. queue' = Tail(queue)
        /\ calling' = SubSeq(queue, 1, Len(queue) - (Len(queue) - 1))
    BY <1>3 DEF DispatchOne
  <2>3. calling' = SubSeq(queue, 1, 1)
    BY <2>1, <2>2
  <2>4. SubSeq(queue, 1, 1) = <<Head(queue)>>
    <3>1. 1 \in 1 .. Len(queue) /\ 1 \in 1 .. 1
      BY <1>1, <1>3
    <3>2. SubSeq(queue, 1, 1) = <<queue[1]>> \o SubSeq(queue, 1 + 1, 1)
      BY <1>1, <3>1, SubSeqRecursiveFirst
    <3>3. SubSeq(queue, 1 + 1, 1) = <<>>
      BY SubSeqEmpty
    <3>4. queue[1] \in 1 .. MaxData
      BY <1>1, <3>1, ElementOfSeq
    <3>5. <<queue[1]>> \in Seq(1 .. MaxData) /\ Head(queue) = queue[1]
      BY <1>1, <3>4
    <3> QED
      BY <3>2, <3>3, <3>5, ConcatEmptySeq
  <2> QED
    BY <1>1, <2>1, <2>2, <2>3, <2>4
<1> QED
  BY <1>1, <1>2, <1>3

LEMMA DispatchIInv ==
  ASSUME IInv, DispatchOne
  PROVE  IInv'
<1>1. /\ TypeOK /\ ClosedIsClosing /\ DispatchDue /\ GracefulDelivery
      /\ pc \in [Threads -> PcStates] /\ Users = UsersOf(pc)
      /\ handles # "deleted" => thread_count = Cardinality(UsersOf(pc))
  BY InvFacts
<1> DEFINE left == IF Len(queue) > 0 THEN Len(queue) - 1 ELSE 0
           ends == EndsUnused(left)
<1>2. /\ handles \in {"open", "async"} /\ ~ is_closing /\ handles = "open"
      /\ is_closing' = ends
      /\ handles' = IF ends THEN "async" ELSE "open"
      /\ idle' = (ends \/ ~ StopsIdle(left))
      /\ UNCHANGED <<thread_count, async, accepted, delivered, returned, cut>>
  BY <1>1 DEF DispatchOne, HandlesClosing, ClosedIsClosing, results
<1>3. PICK woken \in [Threads -> PcStates] :
        /\ UsersOf(woken) = UsersOf(pc)
        /\ pc' = woken \/ pc' \in Signal(woken)
  BY <1>1, SignalKeepsUsers DEF DispatchOne
<1>4. ends = (left = 0 /\ thread_count = 0)
  BY DEF EndsUnused
<1>5. queue \in Seq(1 .. MaxData) /\ Len(queue) \in Nat
  BY <1>1, LenProperties DEF TypeOK
<1>6. /\ queue' \in Seq(1 .. MaxData) /\ Len(queue') = left
      /\ calling' \in Seq(1 .. MaxData) /\ Len(calling') <= 1
  <2>1. CASE queue = <<>>
    <3>1. queue' = <<>> /\ calling' = <<>> /\ Len(queue) = 0
      BY <1>1, <2>1, DispatchQueue, EmptySeq
    <3> QED
      BY <3>1, EmptySeq
  <2>2. CASE queue # <<>>
    <3>1. queue' = Tail(queue) /\ calling' = <<Head(queue)>>
      BY <1>1, <2>2, DispatchQueue
    <3>2. Len(queue) > 0
      BY <1>5, <2>2, EmptySeq
    <3>3. /\ Head(queue) \in 1 .. MaxData
          /\ Tail(queue) \in Seq(1 .. MaxData)
          /\ Len(Tail(queue)) = Len(queue) - 1
      BY <1>5, <2>2, HeadTailProperties
    <3> QED
      BY <3>1, <3>2, <3>3
  <2> QED
    BY <2>1, <2>2
<1>7. left \in Nat /\ left <= Len(queue)
  BY <1>5
<1>8. queue' # <<>> => left # 0
  BY <1>6, EmptySeq
<1> HIDE DEF left, ends
<1>9. /\ pc' \in [Threads -> PcStates] /\ UsersOf(pc') = UsersOf(pc)
      /\ Users' = UsersOf(pc')
  BY <1>3, SignalKeepsUsers DEF Users, UsersOf
<1>10. MaxQueueSize > 0 => Len(queue') <= MaxQueueSize
  BY <1>1, <1>5, <1>6, <1>7, SizeAssumption DEF TypeOK
<1>11. is_closing' \in BOOLEAN /\ idle' \in BOOLEAN
  BY <1>1, <1>2, <1>4, Zenon DEF StopsIdle
<1>12. TypeOK'
  BY <1>1, <1>2, <1>6, <1>9, <1>10, <1>11 DEF TypeOK, PcStates
<1>13. CountIsUsers'
  BY <1>1, <1>2, <1>9 DEF CountIsUsers
<1>14. ClosedIsClosing'
  BY <1>2 DEF ClosedIsClosing
<1>15. DispatchDue'
  BY <1>2, <1>4, <1>8 DEF DispatchDue, StopsIdle
<1>16. GracefulDelivery'
  <2> SUFFICES ASSUME cut' = {} PROVE GracefulDelivery'
    BY DEF GracefulDelivery
  <2>1. returned' = <<>>
    BY <1>1, <1>2 DEF GracefulDelivery
  <2>2. ASSUME is_closing' PROVE Users' = {} /\ queue' = <<>>
    <3>1. left = 0 /\ thread_count = 0
      BY <1>2, <1>4, <2>2
    <3>2. Cardinality(UsersOf(pc)) = 0 /\ IsFiniteSet(UsersOf(pc))
      BY <1>1, <1>2, <3>1, UsersAreFinite
    <3>3. UsersOf(pc) = {}
      BY <3>2, FS_EmptySet
    <3> QED
      BY <1>8, <1>9, <3>1, <3>3
  <2> QED
    BY <2>1, <2>2 DEF GracefulDelivery
<1> QED
  BY <1>12, <1>13, <1>14, <1>15, <1>16 DEF IInv

LEMMA EndIInv ==
  ASSUME IInv, Cleanup \/ Finalized
  PROVE  IInv'
<1>1. /\ TypeOK /\ ClosedIsClosing /\ DispatchDue /\ GracefulDelivery
      /\ pc \in [Threads -> PcStates] /\ Users = UsersOf(pc)
      /\ handles # "deleted" => thread_count = Cardinality(UsersOf(pc))
  BY InvFacts
<1>2. CASE Cleanup
  <2>1. /\ pc' \in [Threads -> PcStates] /\ UsersOf(pc') = UsersOf(pc)
        /\ Users' = UsersOf(pc')
    BY <1>1, <1>2, SignalKeepsUsers DEF Cleanup, Users, UsersOf
  <2>2. handles' \in {"async", "idle", "finalizing", "deleted"}
        /\ (handles = "deleted" <=> handles' = "deleted")
    BY <1>1, <1>2 DEF Cleanup, InLoop, HandlesClosing, TypeOK
  <2>3. TypeOK'
    BY <1>1, <1>2, <2>1, <2>2 DEF Cleanup, TypeOK, PcStates
  <2> QED
    BY <1>1, <1>2, <2>1, <2>2, <2>3 DEF Cleanup, IInv, CountIsUsers,
       ClosedIsClosing, DispatchDue, GracefulDelivery
<1>3. CASE Finalized
  <2>1. queue' = <<>> /\ returned' = queue /\ handles' = "deleted"
        /\ is_closing
    BY <1>1, <1>3 DEF Finalized, HandedBack, ClosedIsClosing
  <2>2. TypeOK'
    BY <1>1, <1>3, <2>1, EmptySeq, SizeAssumption DEF Finalized, TypeOK
  <2>3. Users' = {}
    BY <1>3 DEF Finalized, Users
  <2> QED
    BY <1>1, <1>3, <2>1, <2>2, <2>3 DEF Finalized, IInv, CountIsUsers,
       ClosedIsClosing, DispatchDue, GracefulDelivery
<1> QED
  BY <1>2, <1>3

LEMMA SpuriousWakeupIInv ==
  ASSUME IInv, NEW t \in Threads, SpuriousWakeup(t)
  PROVE  IInv'
<1>1. /\ TypeOK /\ ClosedIsClosing /\ DispatchDue /\ GracefulDelivery
      /\ pc \in [Threads -> PcStates] /\ Users = UsersOf(pc)
      /\ handles # "deleted" => thread_count = Cardinality(UsersOf(pc))
  BY InvFacts
<1>2. /\ pc' \in [Threads -> PcStates] /\ UsersOf(pc') = UsersOf(pc)
      /\ Users' = UsersOf(pc')
  BY <1>1 DEF SpuriousWakeup, PcStates, UsersOf, Users
<1> QED
  BY <1>1, <1>2 DEF SpuriousWakeup, IInv, TypeOK, CountIsUsers, PcStates,
     ClosedIsClosing, DispatchDue, GracefulDelivery, results

LEMMA NextIInv == IInv /\ [Next]_vars => IInv'
<1> SUFFICES ASSUME IInv, [Next]_vars PROVE IInv'
  OBVIOUS
<1>1. CASE UNCHANGED vars
  BY <1>1 DEF vars, producers, results, IInv, TypeOK, CountIsUsers, Users,
     ClosedIsClosing, DispatchDue, GracefulDelivery
<1>2. CASE LoopStep \/ Cleanup
  BY <1>2, LoopIInv, DispatchIInv, EndIInv DEF LoopStep
<1>3. ASSUME NEW t \in Threads, ThreadStep(t) \/ SpuriousWakeup(t)
      PROVE  IInv'
  BY <1>3, PushIInv, PushClosingIInv, AcquireIInv, ReleaseIInv,
     SpuriousWakeupIInv DEF ThreadStep
<1> QED
  BY <1>1, <1>2, <1>3 DEF Next

(***************************************************************************)
(* thread_count counts the threads that use the function, for any number   *)
(* of them and whatever they call.                                         *)
(***************************************************************************)
THEOREM CountsItsUsers == Spec => []CountIsUsers
<1>1. IInv => CountIsUsers
  BY DEF IInv
<1> QED
  BY <1>1, InitIInv, NextIInv, PTL DEF Spec

(***************************************************************************)
(* The data, from the first delivered to the last queued, are 1, 2, and so *)
(* on: the invariant that the order rests on needs that nothing is being   *)
(* delivered when the finalizer runs.                                      *)
(***************************************************************************)
QuietEnd == handles \in {"finalizing", "deleted"} => calling = <<>>

OrderInv == IInv /\ InOrderOnce /\ QuietEnd

(* One number more is appended to the numbers up to n. *)
LEMMA NumbersUpTo ==
  ASSUME NEW D, NEW n \in Nat, \A m \in 1 .. n + 1 : m \in D
  PROVE  /\ [m \in 1 .. n |-> m] \in Seq(D)
         /\ [m \in 1 .. n |-> m] \o <<n + 1>> = [m \in 1 .. n + 1 |-> m]
<1> DEFINE s == [m \in 1 .. n |-> m]
           t == [m \in 1 .. n + 1 |-> m]
<1>1. s \in Seq(D) /\ Len(s) = n /\ t \in Seq(D) /\ Len(t) = n + 1
  BY SMT
<1>2. <<n + 1>> \in Seq(D) /\ Len(<<n + 1>>) = 1 /\ <<n + 1>>[1] = n + 1
  BY SMT
<1>3. \A i \in 1 .. n : s[i] = i
  OBVIOUS
<1>4. \A i \in 1 .. n + 1 : t[i] = i
  OBVIOUS
<1> HIDE DEF s, t
<1> DEFINE u == <<n + 1>>
<1>5. u \in Seq(D) /\ Len(u) = 1 /\ u[1] = n + 1
  BY <1>2
<1> HIDE DEF u
<1>6. /\ s \o u \in Seq(D) /\ Len(s \o u) = Len(s) + Len(u)
      /\ \A i \in 1 .. Len(s) + Len(u) :
           (s \o u)[i] = IF i <= Len(s) THEN s[i] ELSE u[i - Len(s)]
  BY <1>1, <1>5, ConcatProperties
<1>7. \A i \in 1 .. n + 1 : (s \o u)[i] = t[i]
  <2> SUFFICES ASSUME NEW i \in 1 .. n + 1 PROVE (s \o u)[i] = i
    BY <1>4
  <2>1. CASE i <= n
    BY <1>1, <1>3, <1>5, <1>6, <2>1
  <2>2. CASE ~ (i <= n)
    <3>1. i = n + 1 /\ i - n = 1
      BY <2>2
    <3> QED
      BY <1>1, <1>5, <1>6, <2>2, <3>1
  <2> QED
    BY <2>1, <2>2
<1>8. Len(s \o u) = Len(t) /\ \A i \in 1 .. Len(s \o u) : (s \o u)[i] = t[i]
  BY <1>1, <1>5, <1>6, <1>7
<1>9. s \o u = t
  BY <1>1, <1>6, <1>8, SeqEqual
<1> QED
  BY <1>1, <1>9 DEF s, t, u

LEMMA InitOrder == Init => InOrderOnce /\ QuietEnd
<1> SUFFICES ASSUME Init PROVE InOrderOnce /\ QuietEnd
  OBVIOUS
<1>1. <<>> \o <<>> \o <<>> \o <<>> = <<>>
  BY ConcatEmptySeq, EmptySeq
<1>2. [n \in 1 .. 0 |-> n] = <<>>
  BY SMT
<1> QED
  BY <1>1, <1>2 DEF Init, InOrderOnce, QuietEnd

(* A datum is accepted behind all the others. *)
LEMMA PushOrder ==
  ASSUME OrderInv, NEW t \in Threads, PushAccepted(t)
  PROVE  InOrderOnce' /\ QuietEnd'
<1> DEFINE D == 1 .. MaxData
           before == delivered \o calling \o returned
           datum == <<accepted + 1>>
<1>1. /\ delivered \in Seq(D) /\ calling \in Seq(D) /\ returned \in Seq(D)
      /\ queue \in Seq(D) /\ accepted \in Nat
  BY DEF OrderInv, IInv, TypeOK
<1>2. /\ accepted < MaxData /\ accepted' = accepted + 1
      /\ queue' = Append(queue, accepted + 1)
      /\ handles # "deleted"
      /\ UNCHANGED <<delivered, calling, returned, handles>>
  BY DEF PushAccepted, Calls, results
<1>3. accepted + 1 \in D /\ \A m \in 1 .. accepted + 1 : m \in D
  BY <1>1, <1>2, SizeAssumption
<1>4. datum \in Seq(D)
  BY <1>3
<1>5. queue' = queue \o datum
  BY <1>1, <1>2, <1>3, AppendIsConcat
<1>6. before \in Seq(D)
  BY <1>1, ConcatProperties
<1>7. before \o queue = [m \in 1 .. accepted |-> m]
  BY DEF OrderInv, InOrderOnce
<1>8. [m \in 1 .. accepted |-> m] \o datum = [m \in 1 .. accepted + 1 |-> m]
  BY <1>1, <1>3, NumbersUpTo
<1>9. before' = before
  BY <1>2
<1>0. /\ before \in Seq(D) /\ queue \in Seq(D) /\ datum \in Seq(D)
  BY <1>1, <1>4, <1>6
<1> HIDE DEF before, datum, D
<1>10. before \o queue' = [m \in 1 .. accepted' |-> m]
  <2>1. (before \o queue) \o datum = before \o (queue \o datum)
    BY <1>0, ConcatAssociative
  <2>2. (before \o queue) \o datum = [m \in 1 .. accepted + 1 |-> m]
    BY <1>7, <1>8, Zenon
  <2> QED
    BY <1>2, <1>5, <2>1, <2>2, Zenon
<1>11. (before \o queue)' = [m \in 1 .. accepted' |-> m]
  BY <1>9, <1>10
<1> QED
  BY <1>2, <1>11 DEF before, OrderInv, InOrderOnce, QuietEnd

(* The first datum of the queue becomes the one that is being delivered. *)
LEMMA DispatchOrder ==
  ASSUME OrderInv, DispatchOne
  PROVE  InOrderOnce' /\ QuietEnd'
<1> DEFINE D == 1 .. MaxData
<1>1. /\ delivered \in Seq(D) /\ calling = <<>> /\ queue \in Seq(D)
      /\ handles \in {"open", "async"} /\ handles' \in {"open", "async"}
      /\ returned = <<>>
      /\ UNCHANGED <<delivered, returned, accepted>>
  BY DEF OrderInv, IInv, TypeOK, DispatchOne, InLoop, HandlesClosing, results,
     InOrderOnce
<1>2. delivered \o queue = [n \in 1 .. accepted |-> n]
  <2>1. delivered \o <<>> \o <<>> = delivered
    BY <1>1, ConcatEmptySeq
  <2> QED
    BY <1>1, <2>1 DEF OrderInv, InOrderOnce
<1>3. /\ delivered \o calling' \o <<>> = delivered \o calling'
      /\ delivered \o calling' \o queue' = delivered \o queue
  <2>1. CASE queue = <<>>
    <3>1. queue' = <<>> /\ calling' = <<>>
      BY <2>1, DispatchQueue DEF OrderInv, IInv
    <3> QED
      BY <1>1, <2>1, <3>1, ConcatEmptySeq
  <2>2. CASE queue # <<>>
    <3>1. queue' = Tail(queue) /\ calling' = <<Head(queue)>>
      BY <2>2, DispatchQueue DEF OrderInv, IInv
    <3>2. Head(queue) \in D /\ Tail(queue) \in Seq(D)
      BY <1>1, <2>2, HeadTailProperties
    <3>3. <<Head(queue)>> \in Seq(D)
      BY <3>2
    <3>4. <<Head(queue)>> \o Tail(queue) = queue
      BY <1>1, <2>2, HeadIsFirst
    <3>5. delivered \o calling' \in Seq(D)
      BY <1>1, <3>1, <3>3, ConcatProperties
    <3>6. delivered \o calling' \o queue' = delivered \o (calling' \o queue')
      BY <1>1, <3>1, <3>2, <3>3, ConcatAssociative
    <3> QED
      BY <3>1, <3>4, <3>5, <3>6, ConcatEmptySeq
  <2> QED
    BY <2>1, <2>2
<1> QED
  BY <1>1, <1>2, <1>3 DEF InOrderOnce, QuietEnd

(* What the other steps of the loop do: the datum in delivery is moved to  *)
(* those delivered, the queue to those handed back, or neither.            *)
LEMMA LoopOrder ==
  ASSUME OrderInv, LoopStep \/ Cleanup, ~ DispatchOne
  PROVE  InOrderOnce' /\ QuietEnd'
<1> DEFINE D == 1 .. MaxData
<1>1. /\ delivered \in Seq(D) /\ calling \in Seq(D) /\ returned \in Seq(D)
      /\ queue \in Seq(D)
      /\ delivered \o calling \in Seq(D)
  BY ConcatProperties DEF OrderInv, IInv, TypeOK
<1>2. InOrderOnce /\ QuietEnd
  BY DEF OrderInv
<1>3. CASE CallJs
  <2>1. /\ calling' = <<>> /\ delivered' = delivered \o calling
        /\ calling # <<>> /\ handles \notin {"finalizing", "deleted"}
        /\ UNCHANGED <<returned, queue, accepted, handles>>
    BY <1>2, <1>3 DEF CallJs, QuietEnd, producers
  <2>2. delivered' \o <<>> = delivered \o calling
    BY <1>1, <2>1, ConcatEmptySeq
  <2> QED
    BY <1>2, <2>1, <2>2 DEF InOrderOnce, QuietEnd
<1>4. CASE Finalized
  <2>1. /\ handles' = "deleted" /\ queue' = <<>> /\ returned' = queue
        /\ calling = <<>> /\ returned = <<>>
        /\ UNCHANGED <<delivered, calling, accepted>>
    BY <1>2, <1>4 DEF Finalized, HandedBack, InOrderOnce, QuietEnd
  <2>2. /\ delivered \o <<>> = delivered
        /\ delivered \o queue \in Seq(D)
        /\ delivered \o queue \o <<>> = delivered \o queue
    BY <1>1, ConcatEmptySeq, ConcatProperties
  <2> QED
    BY <1>2, <2>1, <2>2 DEF InOrderOnce, QuietEnd
<1>5. CASE AsyncCb \/ DispatchClosing \/ AsyncClosed \/ IdleClosed \/ Cleanup
  <2>1. UNCHANGED <<delivered, calling, returned, queue, accepted>>
    BY <1>5 DEF AsyncCb, DispatchClosing, AsyncClosed, IdleClosed, Cleanup,
       producers, results
  <2>2. /\ handles' = "deleted" <=> handles = "deleted"
        /\ handles' = "finalizing" => calling = <<>>
    BY <1>2, <1>5 DEF AsyncCb, DispatchClosing, AsyncClosed, IdleClosed,
       Cleanup, InLoop, HandlesClosing, QuietEnd
  <2> QED
    BY <1>2, <2>1, <2>2 DEF InOrderOnce, QuietEnd
<1> QED
  BY <1>3, <1>4, <1>5 DEF LoopStep

LEMMA NextOrder == OrderInv /\ [Next]_vars => OrderInv'
<1> SUFFICES ASSUME OrderInv, [Next]_vars PROVE InOrderOnce' /\ QuietEnd'
  BY NextIInv DEF OrderInv
<1>1. ASSUME UNCHANGED <<delivered, calling, returned, queue, accepted,
                         handles>>
      PROVE  InOrderOnce' /\ QuietEnd'
  BY <1>1 DEF OrderInv, InOrderOnce, QuietEnd
<1>2. ASSUME NEW t \in Threads, ThreadStep(t) \/ SpuriousWakeup(t)
      PROVE  InOrderOnce' /\ QuietEnd'
  <2>1. CASE PushAccepted(t)
    BY <2>1, PushOrder
  <2>2. CASE ~ PushAccepted(t)
    BY <1>1, <1>2, <2>2 DEF ThreadStep, SpuriousWakeup, PushWaits,
       PushClosing, Acquire, Release, results
  <2> QED
    BY <2>1, <2>2
<1> QED
  BY <1>1, <1>2, DispatchOrder, LoopOrder DEF Next, vars, producers, results

(***************************************************************************)
(* Each datum that a call of Push accepted comes out once and in its turn, *)
(* whatever threads push, and however the use of the function ends.        *)
(***************************************************************************)
THEOREM DataComeOutInOrder == Spec => []InOrderOnce
<1>1. Init => OrderInv
  BY InitIInv, InitOrder DEF OrderInv
<1>2. OrderInv => InOrderOnce
  BY DEF OrderInv
<1> QED
  BY <1>1, <1>2, NextOrder, PTL DEF Spec

(* Stopping the idle handle never loses the wake-up of a push or release.  *)
THEOREM NoWakeupIsLost == Spec => []DispatchDue
<1>1. IInv => DispatchDue
  BY DEF IInv
<1> QED
  BY <1>1, InitIInv, NextIInv, PTL DEF Spec

(* Without an abort or a teardown, closing waits for the last user and for *)
(* the last datum.                                                         *)
THEOREM ReleasingLosesNothing == Spec => []GracefulDelivery
<1>1. IInv => GracefulDelivery
  BY DEF IInv
<1> QED
  BY <1>1, InitIInv, NextIInv, PTL DEF Spec

(* The queue never exceeds its limit, however many threads push and wake   *)
(* up at once; and every variable keeps to its type.                       *)
THEOREM TypeCorrect == Spec => []TypeOK
<1>1. IInv => TypeOK
  BY DEF IInv
<1> QED
  BY <1>1, InitIInv, NextIInv, PTL DEF Spec
=============================================================================
