-------------------------- MODULE RecordAndReplay --------------------------
(***************************************************************************)
(* The singleton of RecordAndReplay.java: what it writes when promise jobs *)
(* are enqueued, and which queued job it lets run next.                    *)
(*                                                                         *)
(* A job is known here only by its identifier, the id of the capability of *)
(* its reaction; NoIdentifier stands for the jobs that have none           *)
(* (getIdentifier then throws a NullPointerException).  A queue of jobs is *)
(* given by the sequence of its identifiers, oldest job first: the deque's *)
(* getLast() is index 1, its iteration order is from Len down to 1.        *)
(*                                                                         *)
(* NextJobUnmoved, NextJobAny and ReplayedKept are variants of NextJob and *)
(* Replayed with a bug, see PromiseHeap.                                   *)
(***************************************************************************)
EXTENDS Integers, Sequences, SequencesExt

CONSTANTS
  TRACING,      \* -Dtracing=true: identifiers are written to the file
  REPLAY        \* -Dreplay=true: the file's identifiers order the jobs

ASSUME ModesAssumption == /\ TRACING \in BOOLEAN
                          /\ REPLAY \in BOOLEAN

NoIdentifier == 0

(***************************************************************************)
(* serialize(job) runs before the job is pushed, so of a batch of jobs     *)
(* that are enqueued one after the other only those before the first job   *)
(* without an identifier are written and pushed.                           *)
(***************************************************************************)
Serializable(ids) ==
  IF TRACING /\ \E i \in 1..Len(ids) : ids[i] = NoIdentifier
  THEN SelectInSeq(ids, LAMBDA id : id = NoIdentifier) - 1
  ELSE Len(ids)

(* What serialize appends to the file for the jobs ids. *)
Written(ids) == IF TRACING THEN ids ELSE <<>>

(***************************************************************************)
(* reorganizeJobQueue and reOrder, when the queue is not empty.  order is  *)
(* the part of the recording that has not been replayed.                   *)
(***************************************************************************)
Replaying(order) == REPLAY /\ order # <<>>

(* The job moved to the end that is polled: the oldest one when it is the  *)
(* one recorded next, else the newest that matches; 0 when none does.      *)
NextJobUnmoved(ids, order) ==
  IF ~ Replaying(order) \/ \E i \in DOMAIN ids : ids[i] = Head(order)
  THEN 1 ELSE 0

NextJobAny(ids, order) ==
  IF ~ Replaying(order) \/ \A i \in DOMAIN ids : ids[i] # Head(order)
  THEN 1
  ELSE SelectLastInSeq(ids, LAMBDA id : id = Head(order))

NextJob(ids, order) ==
  IF ~ Replaying(order) \/ ids[1] = Head(order)
  THEN 1
  ELSE SelectLastInSeq(ids, LAMBDA id : id = Head(order))

(* The search asks jobs for their identifier, newest first, until it finds *)
(* the recorded one: a job without an identifier makes it throw.           *)
Unidentifiable(ids, order) ==
  /\ Replaying(order)
  /\ \/ ids[1] = NoIdentifier
     \/ /\ ids[1] # Head(order)
        /\ \E i \in 2..Len(ids) : /\ i > NextJob(ids, order)
                                  /\ ids[i] = NoIdentifier

(* reorganizeJobQueue returns false: the recorded job is not queued (yet). *)
Blocked(ids, order) ==
  /\ ids # <<>>
  /\ Replaying(order)
  /\ ~ Unidentifiable(ids, order)
  /\ NextJob(ids, order) = 0

(* The recording after a job was let through. *)
ReplayedKept(order) == order

Replayed(order) == IF Replaying(order) THEN Tail(order) ELSE order
=============================================================================
