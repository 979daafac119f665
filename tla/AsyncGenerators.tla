-------------------------- MODULE AsyncGenerators --------------------------
(***************************************************************************)
(* One async generator: the queue of its requests (AsyncGeneratorEnqueue), *)
(* the loop that serves them (AsyncGeneratorResumeNext), its body and the  *)
(* reactions that resume it (AsyncGeneratorBodyNode, AsyncGeneratorYield,  *)
(* AwaitNode).                                                             *)
(*                                                                         *)
(* The body is any sequence of await, yield, return and throw; it may call *)
(* next, throw and return of its own generator, and so may the program     *)
(* whenever the body does not run.  For the requests, yield* is a sequence *)
(* of awaits and yields.                                                   *)
(*                                                                         *)
(* Resolving the promise of a request runs no code of the program: a       *)
(* "then" defined on Object.prototype is left out.                         *)
(*                                                                         *)
(* Variants, each before the definition it changes: EnqueueUnchecked,      *)
(* UnstartedIsOpen, ReturnProcessedOnly.                                   *)
(***************************************************************************)
EXTENDS Naturals, Sequences

CONSTANTS
  MaxRequests,     \* bound: requests made
  MaxSuspensions   \* bound: times that a body awaits between two requests

ASSUME BoundsAssumption == MaxRequests \in Nat /\ MaxSuspensions \in Nat

VARIABLES
  state,      \* the hidden property ASYNC_GENERATOR_STATE_ID
  queue,      \* ... and ASYNC_GENERATOR_QUEUE_ID
  pc,         \* "idle", "body" or "resumeNext"
  yielding,   \* the body awaits the operand of a yield
  stale,      \* a yield has kept the state of an await that failed
  pending,    \* reactions that will resume the body, or process a return
  wedged,     \* the value of a return could not be awaited
  answers,    \* how the promises of the requests were settled, in order
  suspended   \* number of suspensions since the last answer, for the bound

vars == <<state, queue, pc, yielding, stale, pending, wedged, answers,
          suspended>>

frame == <<yielding, stale>>

Type == {"normal", "throw", "return"}

State == {"SuspendedStart", "SuspendedYield", "Executing", "AwaitingReturn",
          "Completed"}

Reaction == {"resume", "processReturn"}

Request == [id : Nat, type : Type]

TypeOK ==
  /\ state \in State
  /\ queue \in Seq(Request)
  /\ pc \in {"idle", "body", "resumeNext"}
  /\ yielding \in BOOLEAN /\ stale \in BOOLEAN
  /\ pending \in [Reaction -> Nat]
  /\ wedged \in BOOLEAN
  /\ answers \in Seq([id : Nat, how : {"yield", "done", "reject"}])
  /\ suspended \in 0 .. MaxSuspensions

Init ==
  /\ state = "SuspendedStart" /\ queue = <<>>
  /\ pc = "idle" /\ yielding = FALSE /\ stale = FALSE
  /\ pending = [r \in Reaction |-> 0]
  /\ wedged = FALSE /\ answers = <<>> /\ suspended = 0

Requests == Len(queue) + Len(answers)

(* performResolve and performReject *)
Answer(how) ==
  /\ queue # <<>>
  /\ queue' = Tail(queue)
  /\ answers' = Append(answers, [id |-> Head(queue).id, how |-> how])
  /\ suspended' = 0

(* performPromiseThen: the reaction runs when the promise is settled. *)
Await(r) == pending' = [pending EXCEPT ![r] = @ + 1]
-----------------------------------------------------------------------------
(***************************************************************************)
(* next, throw or return is called: by the body, by what it awaits, or by  *)
(* anybody else.                                                           *)
(***************************************************************************)
EnqueueUnchecked(type) ==
  /\ pc \in {"idle", "body"}
  /\ Requests < MaxRequests
  /\ queue' = Append(queue, [id |-> Requests + 1, type |-> type])
  /\ pc' = "resumeNext"
  /\ UNCHANGED <<state, frame, pending, wedged, answers, suspended>>

Enqueue(type) ==
  /\ pc \in {"idle", "body"}
  /\ Requests < MaxRequests
  /\ queue' = Append(queue, [id |-> Requests + 1, type |-> type])
  /\ pc' = IF state # "Executing" THEN "resumeNext" ELSE pc
  /\ UNCHANGED <<state, frame, pending, wedged, answers, suspended>>
-----------------------------------------------------------------------------
(* The iterations of AsyncGeneratorResumeNext *)

UnstartedIsOpen == state = "Completed"

(* An abrupt completion ends a generator that has not begun. *)
BodyIsOver == state \in {"SuspendedStart", "Completed"}

ResumesNext(type) ==
  /\ pc = "resumeNext" /\ state # "AwaitingReturn"
  /\ queue # <<>> /\ Head(queue).type = type

NothingToResume ==
  /\ pc = "resumeNext"
  /\ state = "AwaitingReturn" \/ queue = <<>>
  /\ pc' = "idle"
  /\ UNCHANGED <<state, queue, frame, pending, wedged, answers, suspended>>

(***************************************************************************)
(* The value of the return is awaited.  promiseResolve may throw, from the *)
(* "constructor" of that value: the caller of next gets the error, and no  *)
(* reaction will ever leave the state AwaitingReturn.                      *)
(***************************************************************************)
AwaitReturn ==
  /\ ResumesNext("return") /\ BodyIsOver
  /\ state' = "AwaitingReturn"
  /\ pc' = "idle"
  /\ \/ Await("processReturn") /\ UNCHANGED wedged
     \/ wedged' = TRUE /\ UNCHANGED pending
  /\ UNCHANGED <<queue, frame, answers, suspended>>

RejectRequest ==
  /\ ResumesNext("throw") /\ BodyIsOver
  /\ state' = "Completed"
  /\ Answer("reject")
  /\ UNCHANGED <<pc, frame, pending, wedged>>

AnswerDone ==
  /\ ResumesNext("normal") /\ state = "Completed"
  /\ Answer("done")
  /\ UNCHANGED <<state, pc, frame, pending, wedged>>

(* next() and throw() resume the body, the body of next() perhaps for the  *)
(* first time.                                                             *)
ResumeBody ==
  /\ \/ ResumesNext("normal") /\ state # "Completed"
     \/ ResumesNext("throw") /\ ~ BodyIsOver
  /\ state' = "Executing"
  /\ pc' = "body"
  /\ UNCHANGED <<queue, frame, pending, wedged, answers, suspended>>

(* The yield that return() resumes awaits the value, or throws what that   *)
(* throws.                                                                 *)
ReturnFromYield ==
  /\ ResumesNext("return") /\ ~ BodyIsOver
  /\ state' = "Executing"
  /\ \/ Await("resume") /\ pc' = "idle"
     \/ pc' = "body" /\ UNCHANGED pending
  /\ UNCHANGED <<queue, frame, wedged, answers, suspended>>
-----------------------------------------------------------------------------
(* The body *)

(* await, and the await of its operand that a yield begins with *)
BodyAwaits ==
  /\ pc = "body" /\ suspended < MaxSuspensions
  /\ Await("resume")
  /\ yielding' \in BOOLEAN
  /\ pc' = "idle"
  /\ suspended' = suspended + 1
  /\ UNCHANGED <<state, queue, stale, wedged, answers>>

(***************************************************************************)
(* promiseResolve throws and the body catches it; resume has set the state *)
(* of the yield before it calls suspendAwait.                              *)
(***************************************************************************)
OperandFails ==
  /\ pc = "body"
  /\ stale' = TRUE
  /\ UNCHANGED <<state, queue, pc, yielding, pending, wedged, answers,
                 suspended>>

(* A yield that has been left so is taken for one that awaited. *)
YieldUnawaited ==
  /\ pc = "body" /\ stale
  /\ stale' = FALSE
  /\ state' = "SuspendedYield"
  /\ Answer("yield")
  /\ pc' = "resumeNext"
  /\ UNCHANGED <<yielding, pending, wedged>>

BodyEnds(how) ==
  /\ pc = "body"
  /\ state' = "Completed"
  /\ Answer(how)
  /\ pc' = "resumeNext"
  /\ UNCHANGED <<frame, pending, wedged>>

BodyReturns == BodyEnds("done")
BodyThrows  == BodyEnds("reject")
-----------------------------------------------------------------------------
(* The reactions *)

Reacts(r) ==
  /\ pc = "idle" /\ pending[r] > 0
  /\ pending' = [pending EXCEPT ![r] = @ - 1]

(* The body continues with the value, or with the error, of what it awaits *)
ResumeAwait ==
  /\ Reacts("resume")
  /\ pc' = "body"
  /\ yielding' = FALSE
  /\ UNCHANGED <<state, queue, stale, wedged, answers, suspended>>

(* The operand of a yield has a value. *)
SuspendYield ==
  /\ Reacts("resume") /\ yielding
  /\ state' = "SuspendedYield"
  /\ yielding' = FALSE
  /\ Answer("yield")
  /\ pc' = "resumeNext"
  /\ UNCHANGED <<stale, wedged>>

ReturnProcessedOnly(how) ==
  /\ Reacts("processReturn")
  /\ state' = "Completed"
  /\ Answer(how)
  /\ pc' = "idle"
  /\ UNCHANGED <<frame, wedged>>

(* The return processors, onFulfilled and onRejected *)
ReturnProcessed(how) ==
  /\ Reacts("processReturn")
  /\ state' = "Completed"
  /\ Answer(how)
  /\ pc' = "resumeNext"
  /\ UNCHANGED <<frame, wedged>>
-----------------------------------------------------------------------------
ResumeNext == \/ NothingToResume \/ AwaitReturn \/ RejectRequest
              \/ AnswerDone \/ ResumeBody \/ ReturnFromYield

Body == \/ BodyAwaits \/ OperandFails \/ YieldUnawaited
        \/ BodyReturns \/ BodyThrows

Reactions == \/ ResumeAwait \/ SuspendYield
             \/ ReturnProcessed("done") \/ ReturnProcessed("reject")

Next == (\E type \in Type : Enqueue(type)) \/ ResumeNext \/ Body \/ Reactions

Spec == Init /\ [][Next]_vars

(***************************************************************************)
(* Calls come to an end and what is awaited is settled; how often a body   *)
(* awaits before it answers is bounded.                                    *)
(***************************************************************************)
FairSpec == Spec /\ WF_vars(ResumeNext \/ Body) /\ WF_vars(Reactions)
-----------------------------------------------------------------------------
(***************************************************************************)
(* The body runs once at a time and there is one reaction to come while it *)
(* is suspended in an await or a return is processed; ResumeNext never     *)
(* finds the generator executing, and there is a request to answer         *)
(* whenever one is answered.  These are the assertions of the three nodes, *)
(* at AsyncGeneratorResumeNextNode 113 and in performResolve, and what     *)
(* keeps two activations from sharing one frame.                           *)
(***************************************************************************)
OneActivation ==
  /\ state = "Executing" => \/ pc = "body" /\ pending["resume"] = 0
                            \/ pc = "idle" /\ pending["resume"] = 1
  /\ state # "Executing" => pc # "body" /\ pending["resume"] = 0
  /\ state = "AwaitingReturn" =>
       pending["processReturn"] = IF wedged THEN 0 ELSE 1
  /\ state # "AwaitingReturn" => pending["processReturn"] = 0 /\ ~ wedged
  /\ state = "Executing" => queue # <<>>
  /\ state = "AwaitingReturn" => queue # <<>> /\ Head(queue).type = "return"

(* The life of the generator, for those that call it. *)
Life == CASE state = "SuspendedStart"                -> "new"
          [] state \in {"SuspendedYield", "Executing"} -> "open"
          [] OTHER                                     -> "over"

Promised == INSTANCE GeneratorRequests WITH waiting <- queue, life <- Life

(***************************************************************************)
(* Each request is answered once and in order, by the body while it lives, *)
(* by what the request asks for before and after.                          *)
(***************************************************************************)
KeepsPromise == Promised!Spec

(***************************************************************************)
(* Every request is answered, unless the value of a return before it could *)
(* not be awaited.                                                         *)
(***************************************************************************)
RequestsAnswered ==
  \A n \in 1 .. MaxRequests :
    Requests >= n ~> Len(answers) >= n \/ wedged
=============================================================================
