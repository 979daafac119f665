--------------------------- MODULE MCReplayOrder ---------------------------
(***************************************************************************)
(* Programs whose main script registers c1 and c2 and starts two events.   *)
(* The events settle promises but register nothing, so that every id is    *)
(* given by the main script or by a job; the jobs c1 and c2 may register   *)
(* or settle c3.                                                           *)
(***************************************************************************)
EXTENDS ReplayOrder, FiniteSets

CONSTANTS c1, c2, c3, main, e1, e2

Then(k)   == [op |-> "then", of |-> k]
Settles(k) == [op |-> "settle", of |-> k]
Start(e)  == [op |-> "start", of |-> e]

Upto2(S) == {s \in UNION {[1..n -> S] : n \in 0..2} : IsInjective(s)}

MCContinuation == {c1, c2, c3}
MCEvent == {main, e1, e2}

OfEvent == Upto2({Settles(c1), Settles(c2), Settles(c3)})
OfJob   == Upto2({Settles(c2), Settles(c3), Then(c3)})

MCPrograms ==
  {[t \in MCEvent \cup MCContinuation |->
      CASE t = main -> <<Then(c1), Then(c2), Start(e1), Start(e2)>>
        [] t = e1 -> p[1] [] t = e2 -> p[2]
        [] t = c1 -> p[3] [] t = c2 -> p[4] [] OTHER -> <<>>] :
     p \in {q \in OfEvent \X OfEvent \X OfJob \X OfJob :
              ~ \E i, j \in 1..2 : /\ i \in DOMAIN q[3] /\ j \in DOMAIN q[4]
                                   /\ q[3][i] = Then(c3) /\ q[4][j] = Then(c3)}}

ASSUME ProgramsAssumption == EventsRegisterNothing
=============================================================================
