---------------------------- MODULE PromiseFates ----------------------------
(***************************************************************************)
(* What a promise promises, without jobs, reactions or resolving functions.*)
(* Its fate is open until it is settled or locked on another promise; a    *)
(* locked promise can only get the outcome of the one it is locked on: it  *)
(* is bound to that outcome once the other is settled.  Nothing that is    *)
(* settled changes.  Any number of promises may move in one step.          *)
(***************************************************************************)
CONSTANTS
  Promise,
  Outcome,   \* the ways a promise is settled
  Value

VARIABLE fate

Absent       == [is |-> "absent"]
Open         == [is |-> "open"]
Locked(q)    == [is |-> "locked", on |-> q]
Bound(o, v)  == [is |-> "bound", outcome |-> o, value |-> v]
Settled(o, v) == [is |-> "settled", outcome |-> o, value |-> v]

Init == fate = [p \in Promise |-> Absent]

Create(p) == fate[p] = Absent /\ fate'[p] # Absent

SettleOpen(p) == /\ fate[p] = Open
                 /\ \E o \in Outcome, v \in Value : fate'[p] = Settled(o, v)

Lock(p) == /\ fate[p] = Open
           /\ \E q \in Promise \ {p} : fate'[p] = Locked(q)

(* The promise that p is locked on is settled, in this step or before. *)
Bind(p) == \E q \in Promise, o \in Outcome, v \in Value :
             /\ fate[p] = Locked(q)
             /\ fate'[q] = Settled(o, v)
             /\ fate'[p] = Bound(o, v)

Adopt(p) == \E o \in Outcome, v \in Value :
              /\ fate[p] = Bound(o, v)
              /\ fate'[p] = Settled(o, v)

Next == \A p \in Promise :
          \/ fate'[p] = fate[p]
          \/ Create(p) \/ SettleOpen(p) \/ Lock(p) \/ Bind(p) \/ Adopt(p)

Spec == Init /\ [][Next]_fate
=============================================================================
