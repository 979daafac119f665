------------------------- MODULE GeneratorRequests -------------------------
(***************************************************************************)
(* What an async generator promises to those that call next, throw and     *)
(* return: each call is answered once, in the order of the calls, and how  *)
(* depends on the life of the generator alone.  The body runs only while   *)
(* the generator is open; before and after, throw is rejected, return ends *)
(* with its own value, and next tells, afterwards, that all is done.       *)
(***************************************************************************)
EXTENDS Naturals, Sequences

CONSTANT Type   \* "normal", "throw" and "return"

VARIABLES
  waiting,   \* the calls not answered yet
  life,      \* "new", "open" or "over"
  answers    \* the answers given so far

vars == <<waiting, life, answers>>

Calls == Len(waiting) + Len(answers)

Init == waiting = <<>> /\ life = "new" /\ answers = <<>>

Call == /\ \E type \in Type :
             waiting' = Append(waiting, [id |-> Calls + 1, type |-> type])
        /\ UNCHANGED <<life, answers>>

Answer(how) == /\ waiting # <<>>
               /\ waiting' = Tail(waiting)
               /\ answers' = Append(answers, [id |-> Head(waiting).id,
                                              how |-> how])

Asks(type) == waiting # <<>> /\ Head(waiting).type = type

(* The first next starts the body. *)
Begin == /\ life = "new" /\ Asks("normal")
         /\ life' = "open"
         /\ UNCHANGED <<waiting, answers>>

Yield == life = "open" /\ Answer("yield") /\ UNCHANGED life

(* The body returns or throws. *)
End == /\ life = "open"
       /\ life' = "over"
       /\ Answer("done") \/ Answer("reject")

(* A generator that has not begun is closed by throw and return. *)
CloseByThrow == /\ life \in {"new", "over"} /\ Asks("throw")
                /\ life' = "over"
                /\ Answer("reject")

CloseByReturn == /\ life = "new" /\ Asks("return")
                 /\ life' = "over"
                 /\ UNCHANGED <<waiting, answers>>

(* The value given to return is awaited and may be a rejected promise. *)
Return == /\ life = "over" /\ Asks("return")
          /\ UNCHANGED life
          /\ Answer("done") \/ Answer("reject")

Done == life = "over" /\ Asks("normal") /\ Answer("done") /\ UNCHANGED life

Next == \/ Call \/ Begin \/ Yield \/ End
        \/ CloseByThrow \/ CloseByReturn \/ Return \/ Done

Spec == Init /\ [][Next]_vars
=============================================================================
