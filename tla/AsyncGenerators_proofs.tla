----------------------- MODULE AsyncGenerators_proofs -----------------------
(***************************************************************************)
(* The proofs that an async generator has one activation and answers its   *)
(* requests once and in order, for any number of requests, whoever makes   *)
(* them and whatever the body does.                                        *)
(***************************************************************************)
EXTENDS AsyncGenerators, SequenceTheorems, TLAPS

IInv == TypeOK /\ OneActivation

LEMMA InitIInv == Init => IInv
<1> SUFFICES ASSUME Init PROVE IInv
  OBVIOUS
<1>1. queue \in Seq(Request)
      /\ answers \in Seq([id : Nat, how : {"yield", "done", "reject"}])
  BY EmptySeq DEF Init
<1>2. pending \in [Reaction -> Nat] /\ pending["resume"] = 0
      /\ pending["processReturn"] = 0
  BY DEF Init, Reaction
<1>3. suspended \in 0 .. MaxSuspensions
  BY BoundsAssumption DEF Init
<1>4. state = "SuspendedStart" /\ pc = "idle" /\ wedged = FALSE
      /\ yielding = FALSE /\ stale = FALSE
  BY DEF Init
<1>5. TypeOK
  BY <1>1, <1>2, <1>3, <1>4, Zenon DEF TypeOK, State
<1>6. OneActivation
  BY <1>2, <1>4 DEF OneActivation
<1> QED
  BY <1>5, <1>6 DEF IInv

(* Taking the first request and telling its promise keep the types. *)
LEMMA AnswerTypes ==
  ASSUME TypeOK, NEW how \in {"yield", "done", "reject"}, Answer(how)
  PROVE  /\ queue' \in Seq(Request)
         /\ answers' \in Seq([id : Nat, how : {"yield", "done", "reject"}])
         /\ suspended' \in 0 .. MaxSuspensions
<1>1. /\ queue \in Seq(Request) /\ queue # <<>>
      /\ answers \in Seq([id : Nat, how : {"yield", "done", "reject"}])
  BY DEF TypeOK, Answer
<1>2. Head(queue) \in Request /\ Tail(queue) \in Seq(Request)
  BY <1>1, HeadTailProperties
<1>3. [id |-> Head(queue).id, how |-> how]
        \in [id : Nat, how : {"yield", "done", "reject"}]
  BY <1>2 DEF Request
<1>4. answers' \in Seq([id : Nat, how : {"yield", "done", "reject"}])
  BY <1>1, <1>3, AppendProperties DEF Answer
<1> QED
  BY <1>2, <1>4, BoundsAssumption DEF Answer

(* A request that is made keeps the types and those made before it. *)
LEMMA EnqueueQueue ==
  ASSUME TypeOK, NEW type \in Type, Enqueue(type)
  PROVE  /\ queue' \in Seq(Request) /\ queue' # <<>>
         /\ queue # <<>> => Head(queue') = Head(queue)
<1> DEFINE request == [id |-> Requests + 1, type |-> type]
<1>1. queue \in Seq(Request) /\ Len(queue) \in Nat /\ Len(answers) \in Nat
  BY LenProperties DEF TypeOK
<1>2. request \in Request
  BY <1>1 DEF Request, Requests
<1>3. queue' = Append(queue, request)
  BY DEF Enqueue
<1> HIDE DEF request
<1>4. /\ queue' \in Seq(Request) /\ Len(queue') = Len(queue) + 1
      /\ \A i \in 1 .. Len(queue) : queue'[i] = queue[i]
  BY <1>1, <1>2, <1>3, AppendProperties
<1>5. queue' # <<>>
  BY <1>1, <1>4
<1>6. queue # <<>> => Len(queue) # 0
  BY <1>1, EmptySeq
<1>7. queue # <<>> => 1 \in 1 .. Len(queue)
  BY <1>1, <1>6
<1>8. queue # <<>> => queue'[1] = queue[1]
  BY <1>4, <1>7
<1> QED
  BY <1>4, <1>5, <1>8

LEMMA EnqueueIInv ==
  ASSUME IInv, NEW type \in Type, Enqueue(type)
  PROVE  IInv'
<1>1. TypeOK /\ OneActivation
  BY DEF IInv
<1>2. /\ queue' \in Seq(Request) /\ queue' # <<>>
      /\ queue # <<>> => Head(queue') = Head(queue)
  BY <1>1, EnqueueQueue
<1>3. TypeOK'
  BY <1>1, <1>2 DEF TypeOK, Enqueue, frame
<1>4. OneActivation'
  BY <1>1, <1>2 DEF TypeOK, OneActivation, Enqueue
<1> QED
  BY <1>3, <1>4 DEF IInv

LEMMA ResumeNextIInv ==
  ASSUME IInv, ResumeNext
  PROVE  IInv'
<1>1. TypeOK /\ OneActivation
  BY DEF IInv
<1>2. CASE NothingToResume
  BY <1>1, <1>2 DEF IInv, TypeOK, OneActivation, NothingToResume, frame, State
<1>3. CASE AwaitReturn
  <2>1. TypeOK'
    <3>1. pending' \in [Reaction -> Nat]
      BY <1>1, <1>3 DEF TypeOK, AwaitReturn, Await, Reaction
    <3>2. wedged' \in BOOLEAN
      BY <1>1, <1>3, Zenon DEF TypeOK, AwaitReturn
    <3>3. state' \in State /\ pc' \in {"idle", "body", "resumeNext"}
      BY <1>3 DEF AwaitReturn, State
    <3>4. UNCHANGED <<queue, yielding, stale, answers, suspended>>
      BY <1>3 DEF AwaitReturn, frame
    <3> QED
      BY <1>1, <3>1, <3>2, <3>3, <3>4 DEF TypeOK
  <2>2. OneActivation'
    BY <1>1, <1>3 DEF TypeOK, OneActivation, AwaitReturn, ResumesNext, Await,
       Reaction, BodyIsOver
  <2> QED
    BY <2>1, <2>2 DEF IInv
<1>4. CASE RejectRequest
  <2>1. Answer("reject")
    BY <1>4 DEF RejectRequest
  <2>2. TypeOK'
    BY <1>1, <1>4, <2>1, AnswerTypes DEF TypeOK, RejectRequest, frame, State
  <2>3. OneActivation'
    BY <1>1, <1>4 DEF OneActivation, RejectRequest, ResumesNext, BodyIsOver
  <2> QED
    BY <2>2, <2>3 DEF IInv
<1>5. CASE AnswerDone
  <2>1. Answer("done")
    BY <1>5 DEF AnswerDone
  <2>2. TypeOK'
    BY <1>1, <1>5, <2>1, AnswerTypes DEF TypeOK, AnswerDone, frame
  <2>3. OneActivation'
    BY <1>1, <1>5 DEF OneActivation, AnswerDone, ResumesNext
  <2> QED
    BY <2>2, <2>3 DEF IInv
<1>6. CASE ResumeBody
  <2>1. TypeOK'
    BY <1>1, <1>6 DEF TypeOK, ResumeBody, frame, State
  <2>2. OneActivation'
    BY <1>1, <1>6 DEF OneActivation, ResumeBody, ResumesNext
  <2> QED
    BY <2>1, <2>2 DEF IInv
<1>7. CASE ReturnFromYield
  <2>1. TypeOK'
    BY <1>1, <1>7 DEF TypeOK, ReturnFromYield, Await, frame, State, Reaction
  <2>2. OneActivation'
    BY <1>1, <1>7 DEF TypeOK, OneActivation, ReturnFromYield, ResumesNext,
       Await, Reaction
  <2> QED
    BY <2>1, <2>2 DEF IInv
<1> QED
  BY <1>2, <1>3, <1>4, <1>5, <1>6, <1>7 DEF ResumeNext

LEMMA BodyIInv ==
  ASSUME IInv, Body
  PROVE  IInv'
<1>1. TypeOK /\ OneActivation
  BY DEF IInv
<1>2. CASE BodyAwaits
  <2>1. suspended' \in 0 .. MaxSuspensions
    BY <1>1, <1>2, BoundsAssumption DEF TypeOK, BodyAwaits
  <2>2. TypeOK'
    BY <1>1, <1>2, <2>1 DEF TypeOK, BodyAwaits, Await, Reaction
  <2>3. OneActivation'
    BY <1>1, <1>2 DEF TypeOK, OneActivation, BodyAwaits, Await, Reaction
  <2> QED
    BY <2>2, <2>3 DEF IInv
<1>3. CASE OperandFails
  BY <1>1, <1>3 DEF IInv, TypeOK, OneActivation, OperandFails
<1>4. CASE YieldUnawaited
  <2>1. Answer("yield")
    BY <1>4 DEF YieldUnawaited
  <2>2. TypeOK'
    BY <1>1, <1>4, <2>1, AnswerTypes DEF TypeOK, YieldUnawaited, State
  <2>3. OneActivation'
    BY <1>1, <1>4 DEF OneActivation, YieldUnawaited
  <2> QED
    BY <2>2, <2>3 DEF IInv
<1>5. ASSUME NEW how \in {"done", "reject"}, BodyEnds(how)
      PROVE  IInv'
  <2>1. Answer(how)
    BY <1>5 DEF BodyEnds
  <2>2. TypeOK'
    BY <1>1, <1>5, <2>1, AnswerTypes DEF TypeOK, BodyEnds, frame, State
  <2>3. OneActivation'
    BY <1>1, <1>5 DEF OneActivation, BodyEnds
  <2> QED
    BY <2>2, <2>3 DEF IInv
<1> QED
  BY <1>2, <1>3, <1>4, <1>5 DEF Body, BodyReturns, BodyThrows

LEMMA ReactionsIInv ==
  ASSUME IInv, Reactions
  PROVE  IInv'
<1>1. TypeOK /\ OneActivation
  BY DEF IInv
<1>2. ASSUME NEW r \in Reaction, Reacts(r)
      PROVE  pending' \in [Reaction -> Nat] /\ pending'[r] = pending[r] - 1
  BY <1>1, <1>2 DEF TypeOK, Reacts
<1>3. CASE ResumeAwait
  <2>1. TypeOK'
    BY <1>1, <1>2, <1>3 DEF TypeOK, ResumeAwait, Reaction
  <2>2. OneActivation'
    BY <1>1, <1>3 DEF TypeOK, OneActivation, ResumeAwait, Reacts, Reaction
  <2> QED
    BY <2>1, <2>2 DEF IInv
<1>4. CASE SuspendYield
  <2>1. Answer("yield")
    BY <1>4 DEF SuspendYield
  <2>2. TypeOK'
    BY <1>1, <1>2, <1>4, <2>1, AnswerTypes
       DEF TypeOK, SuspendYield, Reaction, State
  <2>3. OneActivation'
    BY <1>1, <1>4 DEF TypeOK, OneActivation, SuspendYield, Reacts, Reaction
  <2> QED
    BY <2>2, <2>3 DEF IInv
<1>5. ASSUME NEW how \in {"done", "reject"}, ReturnProcessed(how)
      PROVE  IInv'
  <2>1. Answer(how)
    BY <1>5 DEF ReturnProcessed
  <2>2. TypeOK'
    BY <1>1, <1>2, <1>5, <2>1, AnswerTypes
       DEF TypeOK, ReturnProcessed, Reaction, State, frame
  <2>3. OneActivation'
    BY <1>1, <1>5 DEF TypeOK, OneActivation, ReturnProcessed, Reacts, Reaction
  <2> QED
    BY <2>2, <2>3 DEF IInv
<1> QED
  BY <1>3, <1>4, <1>5 DEF Reactions

LEMMA NextIInv == IInv /\ [Next]_vars => IInv'
<1> SUFFICES ASSUME IInv, [Next]_vars PROVE IInv'
  OBVIOUS
<1>1. CASE UNCHANGED vars
  BY <1>1 DEF IInv, TypeOK, OneActivation, vars
<1>2. CASE Next
  BY <1>2, EnqueueIInv, ResumeNextIInv, BodyIInv, ReactionsIInv DEF Next
<1> QED
  BY <1>1, <1>2

(***************************************************************************)
(* However many requests are made, the body is active once at a time, the  *)
(* loop that serves the requests never meets it, and what is answered has  *)
(* been asked for.                                                         *)
(***************************************************************************)
THEOREM TheBodyIsActiveOnce == Spec => [](TypeOK /\ OneActivation)
<1>1. IInv => TypeOK /\ OneActivation
  BY DEF IInv
<1> QED
  BY <1>1, InitIInv, NextIInv, PTL DEF Spec
-----------------------------------------------------------------------------
(* What the callers see *)

LEMMA InitPromised == Init => Promised!Init
BY DEF Init, Promised!Init, Life

Promises == Promised!Next \/ UNCHANGED Promised!vars

LEMMA EnqueuePromised ==
  ASSUME NEW type \in Type, Enqueue(type)
  PROVE  Promised!Next
<1>1. Promised!Call
  BY DEF Enqueue, Requests, Promised!Call, Promised!Calls, Life
<1> QED
  BY <1>1 DEF Promised!Next

LEMMA AnswerPromised ==
  ASSUME NEW how, Answer(how)
  PROVE  Promised!Answer(how)
BY DEF Answer, Promised!Answer

LEMMA ResumeNextPromised ==
  ASSUME IInv, ResumeNext
  PROVE  Promises
<1>1. TypeOK /\ OneActivation
  BY DEF IInv
<1>2. pc = "resumeNext" /\ state \in State /\ state # "Executing"
  BY <1>1 DEF TypeOK, OneActivation, ResumeNext, NothingToResume, AwaitReturn,
     RejectRequest, AnswerDone, ResumeBody, ReturnFromYield, ResumesNext
<1>3. CASE NothingToResume
  BY <1>3 DEF NothingToResume, Promises, Promised!vars, Life
<1>4. CASE AwaitReturn
  <2>1. CASE state = "SuspendedStart"
    BY <1>4, <2>1 DEF AwaitReturn, ResumesNext, Promises, Promised!Next,
       Promised!CloseByReturn, Promised!Asks, Life
  <2>2. CASE state = "Completed"
    BY <1>4, <2>2 DEF AwaitReturn, Promises, Promised!vars, Life
  <2> QED
    BY <1>4, <2>1, <2>2 DEF AwaitReturn, BodyIsOver
<1>5. CASE RejectRequest
  <2>1. Promised!Answer("reject")
    BY <1>5, AnswerPromised DEF RejectRequest
  <2>2. Promised!CloseByThrow
    BY <1>5, <2>1 DEF RejectRequest, ResumesNext, BodyIsOver,
       Promised!CloseByThrow, Promised!Asks, Life
  <2> QED
    BY <2>2 DEF Promises, Promised!Next
<1>6. CASE AnswerDone
  <2>1. Promised!Answer("done")
    BY <1>6, AnswerPromised DEF AnswerDone
  <2>2. Promised!Done
    BY <1>6, <2>1 DEF AnswerDone, ResumesNext, Promised!Done, Promised!Asks,
       Life
  <2> QED
    BY <2>2 DEF Promises, Promised!Next
<1>7. CASE ResumeBody
  <2>1. CASE state = "SuspendedStart"
    <3>1. ResumesNext("normal")
      BY <1>7, <2>1 DEF ResumeBody, BodyIsOver
    <3>2. Promised!Begin
      BY <1>7, <2>1, <3>1 DEF ResumeBody, ResumesNext, Promised!Begin,
         Promised!Asks, Life
    <3> QED
      BY <3>2 DEF Promises, Promised!Next
  <2>2. CASE state = "SuspendedYield"
    BY <1>7, <2>2 DEF ResumeBody, Promises, Promised!vars, Life
  <2> QED
    BY <1>2, <1>7, <2>1, <2>2 DEF ResumeBody, ResumesNext, BodyIsOver, State
<1>8. CASE ReturnFromYield
  <2>1. state = "SuspendedYield" /\ state' = "Executing"
    BY <1>2, <1>8 DEF ReturnFromYield, ResumesNext, BodyIsOver, State
  <2> QED
    BY <1>8, <2>1 DEF ReturnFromYield, Promises, Promised!vars, Life
<1> QED
  BY <1>3, <1>4, <1>5, <1>6, <1>7, <1>8 DEF ResumeNext

LEMMA BodyPromised ==
  ASSUME IInv, Body
  PROVE  Promises
<1>1. state = "Executing"
  BY DEF IInv, OneActivation, Body, BodyAwaits, OperandFails, YieldUnawaited,
     BodyReturns, BodyThrows, BodyEnds
<1>2. CASE BodyAwaits
  BY <1>2 DEF BodyAwaits, Promises, Promised!vars, Life
<1>3. CASE OperandFails
  BY <1>3 DEF OperandFails, Promises, Promised!vars, Life
<1>4. CASE YieldUnawaited
  <2>1. Promised!Answer("yield")
    BY <1>4, AnswerPromised DEF YieldUnawaited
  <2>2. Promised!Yield
    BY <1>1, <1>4, <2>1 DEF YieldUnawaited, Promised!Yield, Life
  <2> QED
    BY <2>2 DEF Promises, Promised!Next
<1>5. ASSUME NEW how \in {"done", "reject"}, BodyEnds(how)
      PROVE  Promises
  <2>1. Promised!Answer(how)
    BY <1>5, AnswerPromised DEF BodyEnds
  <2>2. Promised!End
    BY <1>1, <1>5, <2>1 DEF BodyEnds, Promised!End, Life
  <2> QED
    BY <2>2 DEF Promises, Promised!Next
<1> QED
  BY <1>2, <1>3, <1>4, <1>5 DEF Body, BodyReturns, BodyThrows

LEMMA ReactionsPromised ==
  ASSUME IInv, Reactions
  PROVE  Promises
<1>1. TypeOK /\ OneActivation
  BY DEF IInv
<1>2. CASE ResumeAwait
  BY <1>2 DEF ResumeAwait, Promises, Promised!vars, Life
<1>3. CASE SuspendYield
  <2>1. Promised!Answer("yield")
    BY <1>3, AnswerPromised DEF SuspendYield
  <2>2. state = "Executing"
    BY <1>1, <1>3 DEF TypeOK, OneActivation, SuspendYield, Reacts, Reaction
  <2>3. Promised!Yield
    BY <1>3, <2>1, <2>2 DEF SuspendYield, Promised!Yield, Life
  <2> QED
    BY <2>3 DEF Promises, Promised!Next
<1>4. ASSUME NEW how \in {"done", "reject"}, ReturnProcessed(how)
      PROVE  Promises
  <2>1. Promised!Answer(how)
    BY <1>4, AnswerPromised DEF ReturnProcessed
  <2>2. state = "AwaitingReturn"
    BY <1>1, <1>4 DEF TypeOK, OneActivation, ReturnProcessed, Reacts, Reaction
  <2>3. Promised!Asks("return")
    BY <1>1, <2>2 DEF OneActivation, Promised!Asks
  <2>4. Promised!Return
    BY <1>4, <2>1, <2>2, <2>3 DEF ReturnProcessed, Promised!Return, Life
  <2> QED
    BY <2>4 DEF Promises, Promised!Next
<1> QED
  BY <1>2, <1>3, <1>4 DEF Reactions

LEMMA NextPromised == IInv /\ [Next]_vars => [Promised!Next]_Promised!vars
<1> SUFFICES ASSUME IInv, [Next]_vars PROVE Promises
  BY DEF Promises
<1>1. CASE UNCHANGED vars
  BY <1>1 DEF vars, Promises, Promised!vars, Life
<1>2. CASE Next
  BY <1>2, EnqueuePromised, ResumeNextPromised, BodyPromised,
     ReactionsPromised DEF Next, Promises
<1> QED
  BY <1>1, <1>2

(***************************************************************************)
(* For those that call it, the generator is its queue of requests: each is *)
(* answered once and in the order of the calls, by the body while it lives *)
(* and as the request asks before and after.                               *)
(***************************************************************************)
THEOREM RequestsAreServedInOrder == Spec => KeepsPromise
<1> QED
  BY InitPromised, InitIInv, NextIInv, NextPromised, PTL
     DEF Spec, KeepsPromise, Promised!Spec
=============================================================================
