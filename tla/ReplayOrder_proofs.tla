------------------------- MODULE ReplayOrder_proofs -------------------------
(***************************************************************************)
(* The proof that jobs run in the order of the file, for any program, any  *)
(* moment at which the recorded process ends and any order of the events;  *)
(* and that the ids in the file mean the same continuations in both runs.  *)
(***************************************************************************)
EXTENDS ReplayOrder, SequenceLemmas, SequenceTheorems, TLAPS

(* While recording, the file names the jobs that ran and then the queued   *)
(* ones; in the replay, what is left of it begins after the jobs that ran. *)
RecordInv ==
  phase = "record" =>
    /\ Len(file) = Len(ran) + Len(queue)
    /\ \A i \in 1..Len(queue) : file[Len(ran) + i] = queue[i].id

ReplayInv ==
  phase = "replay" =>
    /\ Len(order) = IF Len(ran) <= Len(file) THEN Len(file) - Len(ran) ELSE 0
    /\ \A i \in 1..Len(order) : order[i] = file[Len(ran) + i]

SeqsOK == /\ phase \in {"record", "replay"}
          /\ queue \in Seq(Job) /\ ran \in Seq(Job)
          /\ file \in Seq(Nat) /\ order \in Seq(Nat)

(* What the steps of the program need: its tasks only do what is modelled. *)
ProgramOK == /\ program \in [Task -> Seq(Op)]
             /\ id \in [Continuation -> Nat] /\ lastId \in Nat
             /\ todo \in Seq(Op)

Inv == ProgramOK /\ SeqsOK /\ RecordInv /\ ReplayInv /\ FollowsFile

LEMMA InitInv == Init => Inv
<1> SUFFICES ASSUME Init PROVE Inv
  OBVIOUS
<1>1. ProgramOK /\ SeqsOK
  BY ProgramAssumption, EmptySeq DEF Init, ProgramOK, SeqsOK, NoIds
<1>2. Len(queue) = 0 /\ Len(ran) = 0 /\ Len(file) = 0 /\ phase = "record"
  BY EmptySeq DEF Init
<1> QED
  BY <1>1, <1>2 DEF Inv, RecordInv, ReplayInv, FollowsFile

(* A job is enqueued: in a recording its identifier goes to the file. *)
LEMMA EnqueueKeeps ==
  ASSUME Inv, NEW c \in Continuation, NEW i \in Nat \ {0}, Enqueue(c, i),
         UNCHANGED <<phase, ran, order>>
  PROVE  (SeqsOK /\ RecordInv /\ ReplayInv /\ FollowsFile)'
<1> DEFINE job == [of |-> c, id |-> i]
<1>1. /\ queue \in Seq(Job) /\ ran \in Seq(Job) /\ job \in Job
      /\ file \in Seq(Nat) /\ order \in Seq(Nat)
      /\ Len(queue) \in Nat /\ Len(ran) \in Nat /\ Len(file) \in Nat
  BY LenProperties DEF Inv, SeqsOK, Job
<1>2. queue' = Append(queue, job)
  BY DEF Enqueue
<1>3. /\ queue' \in Seq(Job) /\ Len(queue') = Len(queue) + 1
      /\ \A j \in 1..Len(queue) : queue'[j] = queue[j]
      /\ queue'[Len(queue) + 1] = job
  BY <1>1, <1>2, AppendProperties
<1>4. CASE phase = "record"
  <2>1. file' = file \o <<i>>
    BY <1>4 DEF Enqueue, Recorder!Written
  <2>2. /\ file' \in Seq(Nat) /\ Len(file') = Len(file) + 1
        /\ \A j \in 1..Len(file) : file'[j] = file[j]
        /\ file'[Len(file) + 1] = i
    <3>1. <<i>> \in Seq(Nat) /\ Len(<<i>>) = 1 /\ <<i>>[1] = i
      OBVIOUS
    <3>2. /\ file \o <<i>> \in Seq(Nat)
          /\ Len(file \o <<i>>) = Len(file) + Len(<<i>>)
          /\ \A j \in 1 .. Len(file) + Len(<<i>>) :
               (file \o <<i>>)[j] = IF j <= Len(file) THEN file[j]
                                    ELSE <<i>>[j - Len(file)]
      BY <1>1, <3>1, ConcatProperties
    <3> QED
      BY <1>1, <2>1, <3>1, <3>2
  <2>3. /\ Len(file) = Len(ran) + Len(queue)
        /\ \A j \in 1..Len(queue) : file[Len(ran) + j] = queue[j].id
    BY <1>4 DEF Inv, RecordInv
  <2>4. RecordInv'
    <3>1. Len(file') = Len(ran) + Len(queue')
      BY <1>1, <1>3, <2>2, <2>3
    <3>2. ASSUME NEW j \in 1..Len(queue')
          PROVE  file'[Len(ran) + j] = queue'[j].id
      <4>1. CASE j = Len(queue) + 1
        <5>1. Len(ran) + j = Len(file) + 1
          BY <1>1, <2>3, <4>1
        <5> QED
          BY <1>3, <2>2, <4>1, <5>1
      <4>2. CASE j # Len(queue) + 1
        <5>1. j \in 1..Len(queue)
          BY <1>1, <1>3, <4>2
        <5>2. Len(ran) + j \in 1..Len(file)
          BY <1>1, <2>3, <5>1
        <5> QED
          BY <1>3, <2>2, <2>3, <5>1, <5>2
      <4> QED
        BY <4>1, <4>2
    <3> QED
      BY <3>1, <3>2 DEF RecordInv
  <2>5. FollowsFile'
    <3>1. \A j \in 1..Len(ran) : j \in 1..Len(file)
      BY <1>1, <2>3
    <3> QED
      BY <1>1, <2>2, <3>1 DEF Inv, FollowsFile
  <2> QED
    BY <1>1, <1>3, <1>4, <2>2, <2>4, <2>5 DEF Inv, SeqsOK, ReplayInv
<1>5. CASE phase = "replay"
  <2>1. file' = file
    BY <1>1, <1>5, ConcatEmptySeq DEF Enqueue, Recorder!Written
  <2> QED
    BY <1>1, <1>3, <1>5, <2>1 DEF Inv, SeqsOK, RecordInv, ReplayInv, FollowsFile
<1> QED
  BY <1>4, <1>5 DEF Inv, SeqsOK

(* The job that runs is queued: the first while recording, the one that    *)
(* the file names next in the replay.                                      *)
LEMMA JobIsQueued ==
  ASSUME Inv, RunJob
  PROVE  LET n == Recorder!NextJob(Ids(queue), order)
         IN  /\ n \in 1..Len(queue)
             /\ phase = "record" => n = 1
             /\ phase = "replay" /\ order # <<>> => queue[n].id = Head(order)
<1> DEFINE ids == Ids(queue)
           n == Recorder!NextJob(ids, order)
<1>1. /\ queue \in Seq(Job) /\ ran \in Seq(Job)
      /\ file \in Seq(Nat) /\ order \in Seq(Nat)
      /\ Len(ran) \in Nat /\ Len(file) \in Nat /\ Len(order) \in Nat
      /\ Len(queue) \in Nat \ {0} /\ DOMAIN queue = 1..Len(queue)
  BY LenProperties, EmptySeq DEF RunJob, Inv, SeqsOK
<1>2. ~ Recorder!Blocked(ids, order)
  BY DEF RunJob
<1>3. /\ ids \in Seq(Nat \ {0}) /\ Len(ids) = Len(queue)
      /\ \A i \in 1..Len(queue) : ids[i] = queue[i].id
  <2>1. \A i \in 1..Len(queue) : queue[i].id \in Nat \ {0}
    <3>1. \A i \in 1..Len(queue) : queue[i] \in Job
      BY <1>1, ElementOfSeq
    <3> QED
      BY <3>1 DEF Job
  <2>2. ids = [i \in 1..Len(queue) |-> queue[i].id]
    BY <1>1 DEF Ids
  <2>3. ids \in [1..Len(queue) -> Nat \ {0}]
    BY <2>1, <2>2
  <2> HIDE DEF ids
  <2>4. ids \in Seq(Nat \ {0})
    <3>1. Len(queue) \in Nat
      BY <1>1
    <3>2. [i \in 1..Len(queue) |-> queue[i].id] \in Seq(Nat \ {0})
      BY <2>1, <3>1, IsASeq
    <3> QED
      BY <2>2, <3>2
  <2>5. DOMAIN ids = 1..Len(queue) /\ DOMAIN ids = 1..Len(ids) /\ Len(ids) \in Nat
    BY <2>3, <2>4, LenProperties
  <2>6. Len(ids) = Len(queue)
    BY <1>1, <2>5
  <2> QED
    BY <2>2, <2>4, <2>6
<1> HIDE DEF ids
<1>4. n \in 1..Len(queue) /\ (phase = "record" => n = 1)
      /\ (phase = "replay" /\ order # <<>> => queue[n].id = Head(order))
  <2>1. CASE ~ Recorder!Replaying(order) \/ ids[1] = Head(order)
    <3>1. n = 1
      BY <2>1 DEF Recorder!NextJob
    <3> QED
      BY <1>1, <1>3, <2>1, <3>1 DEF Recorder!Replaying
  <2>2. CASE ~ (~ Recorder!Replaying(order) \/ ids[1] = Head(order))
    <3> DEFINE I == {i \in 1..Len(ids) : ids[i] = Head(order)}
    <3>1. n = IF I # {} THEN Max(I) ELSE 0
      BY <2>2 DEF Recorder!NextJob, Recorder!SelectLastInSeq, Recorder!Max, Max
    <3>2. phase = "replay"
      BY <2>2 DEF Recorder!Replaying
    <3>3. \A i \in 1..Len(ids) : ids[i] # Recorder!NoIdentifier
      BY <1>3 DEF Recorder!NoIdentifier
    <3>4. ~ Recorder!Unidentifiable(ids, order)
      BY <1>1, <1>3, <3>3 DEF Recorder!Unidentifiable
    <3>5. ids # <<>>
      BY <1>1, <1>3, EmptySeq
    <3>6. n # 0
      BY <1>2, <2>2, <3>4, <3>5 DEF Recorder!Blocked
    <3>7. n \in 1..Len(ids) /\ ids[n] = Head(order)
      <4>1. I \in SUBSET (1..Len(ids)) /\ Len(ids) \in Nat
        BY <1>1, <1>3
      <4>2. \A i \in I : i \in 1..Len(ids) /\ ids[i] = Head(order)
        OBVIOUS
      <4> HIDE DEF I, n
      <4> QED
        BY <3>1, <3>6, <4>1, <4>2, LastIndex
    <3> QED
      BY <1>3, <3>2, <3>7
  <2> QED
    BY <2>1, <2>2
<1> HIDE DEF n
<1> QED
  BY <1>4 DEF n, ids

(* The queue without a job: the others keep their order. *)
LEMMA RunJobKeeps ==
  ASSUME Inv, RunJob
  PROVE  (SeqsOK /\ RecordInv /\ ReplayInv /\ FollowsFile)'
<1> DEFINE ids == Ids(queue)
           n == Recorder!NextJob(ids, order)
<1>1. /\ queue \in Seq(Job) /\ ran \in Seq(Job)
      /\ file \in Seq(Nat) /\ order \in Seq(Nat)
      /\ Len(ran) \in Nat /\ Len(file) \in Nat /\ Len(order) \in Nat
      /\ Len(queue) \in Nat \ {0} /\ DOMAIN queue = 1..Len(queue)
  BY LenProperties, EmptySeq DEF RunJob, Inv, SeqsOK
<1>2. /\ ~ Recorder!Blocked(ids, order)
      /\ ran' = Append(ran, queue[n]) /\ queue' = RemoveAt(queue, n)
      /\ order' = Recorder!Replayed(order)
      /\ file' = file /\ phase' = phase
  BY DEF RunJob
<1>4. n \in 1..Len(queue) /\ (phase = "record" => n = 1)
      /\ (phase = "replay" /\ order # <<>> => queue[n].id = Head(order))
  BY JobIsQueued
<1> HIDE DEF ids, n
<1>5. /\ queue' \in Seq(Job) /\ Len(queue') = Len(queue) - 1
      /\ \A j \in 1..Len(queue) - 1 :
           queue'[j] = IF j < n THEN queue[j] ELSE queue[j + 1]
  BY <1>1, <1>2, <1>4, RemoveAtProperties
<1>6. /\ ran' \in Seq(Job) /\ Len(ran') = Len(ran) + 1
      /\ \A j \in 1..Len(ran) : ran'[j] = ran[j]
      /\ ran'[Len(ran) + 1] = queue[n]
  <2>1. queue[n] \in Job
    BY <1>1, <1>4, ElementOfSeq
  <2> QED
    BY <1>1, <1>2, <2>1, AppendProperties
<1>7. CASE phase = "record"
  <2>1. order' = order /\ n = 1
    BY <1>2, <1>4, <1>7 DEF Recorder!Replayed, Recorder!Replaying
  <2>2. /\ Len(file) = Len(ran) + Len(queue)
        /\ \A j \in 1..Len(queue) : file[Len(ran) + j] = queue[j].id
    BY <1>7 DEF Inv, RecordInv
  <2>3. RecordInv'
    <3>1. Len(file') = Len(ran') + Len(queue')
      BY <1>1, <1>2, <1>5, <1>6, <2>2
    <3>2. ASSUME NEW j \in 1..Len(queue')
          PROVE  file'[Len(ran') + j] = queue'[j].id
      <4>1. j + 1 \in 1..Len(queue) /\ Len(ran') + j = Len(ran) + (j + 1)
        BY <1>1, <1>5, <1>6
      <4>2. queue'[j] = queue[j + 1]
        BY <1>1, <1>5, <2>1
      <4> QED
        BY <1>2, <2>2, <4>1, <4>2
    <3> QED
      BY <3>1, <3>2 DEF RecordInv
  <2>4. FollowsFile'
    <3>1. file[Len(ran) + 1] = queue[1].id
      <4>1. 1 \in 1..Len(queue)
        BY <1>1
      <4> QED
        BY <2>2, <4>1
    <3>2. ASSUME NEW j \in 1..Len(ran'), j <= Len(file)
          PROVE  ran'[j].id = file[j]
      <4>1. CASE j = Len(ran) + 1
        BY <1>6, <2>1, <3>1, <4>1
      <4>2. CASE j # Len(ran) + 1
        <5>1. j \in 1..Len(ran)
          BY <1>1, <1>6, <4>2
        <5> QED
          BY <1>6, <3>2, <5>1 DEF Inv, FollowsFile
      <4> QED
        BY <4>1, <4>2
    <3> QED
      BY <1>2, <3>2 DEF FollowsFile
  <2> QED
    BY <1>1, <1>2, <1>5, <1>6, <1>7, <2>1, <2>3, <2>4 DEF SeqsOK, ReplayInv
<1>8. CASE phase = "replay"
  <2>1. /\ Len(order) = IF Len(ran) <= Len(file) THEN Len(file) - Len(ran) ELSE 0
        /\ \A i \in 1..Len(order) : order[i] = file[Len(ran) + i]
    BY <1>8 DEF Inv, ReplayInv
  <2>2. CASE order # <<>>
    <3>1. order' = Tail(order) /\ queue[n].id = Head(order)
      BY <1>2, <1>4, <1>8, <2>2 DEF Recorder!Replayed, Recorder!Replaying
    <3>2. Len(order) # 0
      BY <1>1, <2>2, EmptySeq
    <3>3. /\ order' \in Seq(Nat) /\ Len(order') = Len(order) - 1
          /\ \A i \in 1..Len(order') : order'[i] = order[i + 1]
      BY <1>1, <2>2, <3>1, HeadTailProperties
    <3>4. Head(order) = file[Len(ran) + 1]
      <4>1. Head(order) = order[1]
        BY <1>1
      <4>2. 1 \in 1..Len(order)
        BY <1>1, <3>2
      <4> QED
        BY <2>1, <4>1, <4>2
    <3>5. ReplayInv'
      <4>1. Len(order') = IF Len(ran') <= Len(file) THEN Len(file) - Len(ran') ELSE 0
        BY <1>1, <1>6, <2>1, <3>2, <3>3
      <4>2. ASSUME NEW i \in 1..Len(order')
            PROVE  order'[i] = file[Len(ran') + i]
        <5>1. i + 1 \in 1..Len(order) /\ Len(ran') + i = Len(ran) + (i + 1)
          BY <1>1, <1>6, <3>3
        <5> QED
          BY <2>1, <3>3, <5>1
      <4> QED
        BY <1>2, <4>1, <4>2 DEF ReplayInv
    <3>6. FollowsFile'
      <4>1. ASSUME NEW j \in 1..Len(ran'), j <= Len(file)
            PROVE  ran'[j].id = file[j]
        <5>1. CASE j = Len(ran) + 1
          BY <1>6, <3>1, <3>4, <5>1
        <5>2. CASE j # Len(ran) + 1
          <6>1. j \in 1..Len(ran)
            BY <1>1, <1>6, <5>2
          <6> QED
            BY <1>6, <4>1, <6>1 DEF Inv, FollowsFile
        <5> QED
          BY <5>1, <5>2
      <4> QED
        BY <1>2, <4>1 DEF FollowsFile
    <3> QED
      BY <1>1, <1>2, <1>5, <1>6, <1>8, <3>3, <3>5, <3>6 DEF SeqsOK, RecordInv
  <2>3. CASE order = <<>>
    <3>1. order' = order
      BY <1>2, <2>3 DEF Recorder!Replayed, Recorder!Replaying
    <3>2. Len(order) = 0 /\ Len(file) <= Len(ran)
      BY <1>1, <2>1, <2>3
    <3>3. ReplayInv'
      BY <1>1, <1>2, <1>6, <3>1, <3>2 DEF ReplayInv
    <3>4. FollowsFile'
      <4>1. ASSUME NEW j \in 1..Len(ran'), j <= Len(file)
            PROVE  ran'[j].id = file[j]
        <5>1. j \in 1..Len(ran)
          BY <1>1, <1>6, <3>2, <4>1
        <5> QED
          BY <1>6, <4>1, <5>1 DEF Inv, FollowsFile
      <4> QED
        BY <1>2, <4>1 DEF FollowsFile
    <3> QED
      BY <1>1, <1>2, <1>5, <1>6, <1>8, <3>1, <3>3, <3>4 DEF SeqsOK, RecordInv
  <2> QED
    BY <2>2, <2>3
<1> QED
  BY <1>7, <1>8 DEF Inv, SeqsOK

(* What a task has left to do. *)
LEMMA DoingOK ==
  ASSUME ProgramOK, todo # <<>>
  PROVE  /\ Head(todo) \in Op /\ Tail(todo) \in Seq(Op)
         /\ Head(todo).op \in {"then", "settle"} => Head(todo).of \in Continuation
<1>1. Head(todo) \in Op /\ Tail(todo) \in Seq(Op)
  BY HeadTailProperties DEF ProgramOK
<1> QED
  BY <1>1 DEF Op

LEMMA NextKeepsInv == Inv /\ [Next]_vars => Inv'
<1> SUFFICES ASSUME Inv, [Next]_vars PROVE Inv'
  OBVIOUS
<1>1. ProgramOK /\ SeqsOK /\ RecordInv /\ ReplayInv /\ FollowsFile
  BY DEF Inv
<1> DEFINE c == Head(todo).of
<1>2. CASE RegisterThen
  <2>1. /\ todo # <<>> /\ Head(todo).op = "then" /\ todo' = Tail(todo)
        /\ lastId' = lastId + 1 /\ id' = [id EXCEPT ![c] = lastId + 1]
        /\ UNCHANGED <<program, phase, ran, order>>
    BY <1>2 DEF RegisterThen, Doing, Done
  <2>2. c \in Continuation /\ todo' \in Seq(Op)
    BY <1>1, <2>1, DoingOK
  <2>3. lastId + 1 \in Nat \ {0}
    BY <1>1 DEF ProgramOK
  <2>4. ProgramOK'
    BY <1>1, <2>1, <2>2, <2>3 DEF ProgramOK
  <2>5. CASE c \in settled
    <3>1. Enqueue(c, lastId + 1)
      BY <1>2, <2>5 DEF RegisterThen
    <3> QED
      BY <2>1, <2>2, <2>3, <2>4, <3>1, EnqueueKeeps DEF Inv
  <2>6. CASE c \notin settled
    <3>1. UNCHANGED <<queue, file>>
      BY <1>2, <2>6 DEF RegisterThen
    <3> QED
      BY <1>1, <2>1, <2>4, <3>1 DEF Inv, SeqsOK, RecordInv, ReplayInv, FollowsFile
  <2> QED
    BY <2>5, <2>6
<1>3. CASE SettlePromise
  <2>1. /\ todo # <<>> /\ Head(todo).op = "settle" /\ todo' = Tail(todo)
        /\ UNCHANGED <<program, phase, ran, order, id, lastId>>
    BY <1>3 DEF SettlePromise, Doing, Done
  <2>2. c \in Continuation /\ todo' \in Seq(Op)
    BY <1>1, <2>1, DoingOK
  <2>3. ProgramOK'
    BY <1>1, <2>1, <2>2 DEF ProgramOK
  <2>4. CASE c \notin settled /\ id[c] # 0
    <3>1. Enqueue(c, id[c])
      BY <1>3, <2>4 DEF SettlePromise, Registered
    <3>2. id[c] \in Nat \ {0}
      BY <1>1, <2>2, <2>4 DEF ProgramOK
    <3> QED
      BY <2>1, <2>2, <2>3, <3>1, <3>2, EnqueueKeeps DEF Inv
  <2>5. CASE ~ (c \notin settled /\ id[c] # 0)
    <3>1. UNCHANGED <<queue, file>>
      BY <1>3, <2>5 DEF SettlePromise, Registered
    <3> QED
      BY <1>1, <2>1, <2>3, <3>1 DEF Inv, SeqsOK, RecordInv, ReplayInv, FollowsFile
  <2> QED
    BY <2>4, <2>5
<1>4. CASE StartEvent
  <2>1. /\ todo # <<>> /\ todo' = Tail(todo)
        /\ UNCHANGED <<program, phase, ran, order, id, lastId, queue, file>>
    BY <1>4 DEF StartEvent, Doing, Done
  <2>2. todo' \in Seq(Op)
    BY <1>1, <2>1, DoingOK
  <2> QED
    BY <1>1, <2>1, <2>2 DEF Inv, ProgramOK, SeqsOK, RecordInv, ReplayInv, FollowsFile
<1>5. CASE RunJob
  <2>1. (SeqsOK /\ RecordInv /\ ReplayInv /\ FollowsFile)'
    BY <1>5, RunJobKeeps
  <2>2. PICK i : todo' = program[queue[i].of] /\ ran' = Append(ran, queue[i])
    BY <1>5 DEF RunJob
  <2>3. queue[i] \in Job
    <3>1. /\ ran \in Seq(Job) /\ ran' \in Seq(Job)
          /\ Len(ran) \in Nat
      BY <1>1, <2>1, LenProperties DEF SeqsOK
    <3>2. Len(ran') = Len(ran) + 1 /\ ran'[Len(ran) + 1] = queue[i]
      BY <2>2, <3>1
    <3>3. Len(ran) + 1 \in 1..Len(ran')
      BY <3>1, <3>2
    <3> QED
      BY <3>1, <3>2, <3>3, ElementOfSeq
  <2>4. todo' \in Seq(Op)
    BY <1>1, <2>2, <2>3 DEF ProgramOK, Job, Task
  <2>5. ProgramOK'
    BY <1>1, <1>5, <2>4 DEF RunJob, ProgramOK
  <2> QED
    BY <2>1, <2>5 DEF Inv
<1>6. CASE StopProcessing
  BY <1>1, <1>6
     DEF StopProcessing, Inv, ProgramOK, SeqsOK, RecordInv, ReplayInv, FollowsFile
<1>7. CASE StartReplay
  <2>1. /\ phase' = "replay" /\ order' = file /\ file' = file
        /\ queue' = <<>> /\ ran' = <<>> /\ todo' = <<>>
        /\ id' = NoIds /\ lastId' = 0 /\ program' = program
    BY <1>7 DEF StartReplay
  <2>2. Len(ran') = 0 /\ Len(file) \in Nat
    BY <1>1, <2>1, EmptySeq, LenProperties DEF SeqsOK
  <2>3. ProgramOK' /\ SeqsOK'
    BY <1>1, <2>1, EmptySeq DEF ProgramOK, SeqsOK, NoIds
  <2> QED
    BY <2>1, <2>2, <2>3 DEF Inv, RecordInv, ReplayInv, FollowsFile
<1>8. ASSUME NEW e \in Event, EventHappens(e)
      PROVE  Inv'
  <2>1. /\ todo' = program[e]
        /\ UNCHANGED <<program, phase, id, lastId, queue, ran, file, order>>
    BY <1>8 DEF EventHappens
  <2>2. todo' \in Seq(Op)
    BY <1>1, <2>1 DEF ProgramOK, Task
  <2> QED
    BY <1>1, <2>1, <2>2 DEF Inv, ProgramOK, SeqsOK, RecordInv, ReplayInv, FollowsFile
<1>9. CASE UNCHANGED vars
  BY <1>1, <1>9
     DEF vars, Inv, ProgramOK, SeqsOK, RecordInv, ReplayInv, FollowsFile
<1> QED
  BY <1>2, <1>3, <1>4, <1>5, <1>6, <1>7, <1>8, <1>9 DEF Next, Step

(* The n-th job that runs is the n-th that the file names: of any program, *)
(* killed at any moment of its recording, and replayed with its events in  *)
(* any order.                                                              *)
THEOREM JobsFollowTheFile == Spec => []FollowsFile
<1>1. Inv => FollowsFile
  BY DEF Inv
<1> QED
  BY <1>1, InitInv, NextKeepsInv, PTL DEF Spec

(***************************************************************************)
(* What the rest of the state needs: the main script comes first.          *)
(***************************************************************************)
RestOK == /\ program \in Programs
          /\ settled \subseteq Continuation /\ started \subseteq Event
          /\ happened \subseteq Event /\ processing \in BOOLEAN
          /\ recorded \in Seq(Continuation)

MainFirst ==
  /\ happened = {} => /\ started = {Main} /\ todo = <<>> /\ ~ processing
                      /\ lastId = 0 /\ ran = <<>>
  /\ happened # {} => Main \in happened

FullInv == Inv /\ RestOK /\ MainFirst

LEMMA InitFull == Init => FullInv
<1> SUFFICES ASSUME Init PROVE FullInv
  OBVIOUS
<1>1. RestOK /\ MainFirst
  BY ProgramAssumption, EmptySeq DEF Init, RestOK, MainFirst
<1> QED
  BY <1>1, InitInv DEF FullInv

LEMMA StartsEvents ==
  ASSUME ProgramOK, todo # <<>>, Head(todo).op = "start"
  PROVE  Head(todo).of \in Event
<1>1. Head(todo) \in Op
  BY DoingOK
<1> QED
  BY <1>1 DEF Op

(* A continuation that is enqueued is added to the recorded ones. *)
LEMMA EnqueueRecords ==
  ASSUME recorded \in Seq(Continuation), NEW c \in Continuation, NEW i,
         Enqueue(c, i) \/ UNCHANGED recorded
  PROVE  recorded' \in Seq(Continuation)
BY AppendProperties DEF Enqueue

LEMMA NextKeepsFull == FullInv /\ [Next]_vars => FullInv'
<1> SUFFICES ASSUME FullInv, [Next]_vars PROVE RestOK' /\ MainFirst'
  BY NextKeepsInv DEF FullInv
<1>1. /\ ProgramOK /\ RestOK /\ MainFirst
      /\ Main \in Event
  BY ProgramAssumption DEF FullInv, Inv
<1>2. CASE RegisterThen \/ SettlePromise
  <2>1. /\ todo # <<>> /\ Head(todo).op \in {"then", "settle"}
        /\ Head(todo).of \in Continuation
        /\ UNCHANGED <<program, started, happened, processing>>
        /\ settled' = settled \/ settled' = settled \cup {Head(todo).of}
    BY <1>1, <1>2, DoingOK DEF RegisterThen, SettlePromise, Doing, Done
  <2>2. happened # {}
    BY <1>1, <2>1 DEF MainFirst
  <2>3. \E i : Enqueue(Head(todo).of, i) \/ UNCHANGED recorded
    BY <1>2 DEF RegisterThen, SettlePromise
  <2>4. recorded' \in Seq(Continuation)
    BY <1>1, <2>1, <2>3, EnqueueRecords DEF RestOK
  <2> QED
    BY <1>1, <2>1, <2>2, <2>4 DEF RestOK, MainFirst
<1>3. CASE StartEvent
  <2>1. /\ todo # <<>> /\ Head(todo).op = "start"
        /\ started' = started \cup {Head(todo).of}
        /\ UNCHANGED <<program, settled, happened, processing, recorded>>
    BY <1>3 DEF StartEvent, Doing, Done
  <2>2. Head(todo).of \in Event /\ happened # {}
    BY <1>1, <2>1, StartsEvents DEF MainFirst
  <2> QED
    BY <1>1, <2>1, <2>2 DEF RestOK, MainFirst
<1>4. CASE RunJob \/ StopProcessing
  <2>1. /\ processing /\ processing' \in BOOLEAN
        /\ UNCHANGED <<program, settled, started, happened, recorded>>
    BY <1>1, <1>4 DEF RunJob, StopProcessing, RestOK
  <2> QED
    BY <1>1, <2>1 DEF RestOK, MainFirst
<1>5. CASE StartReplay
  BY <1>1, <1>5 DEF StartReplay, RestOK, MainFirst
<1>6. ASSUME NEW e \in Event, EventHappens(e)
      PROVE  RestOK' /\ MainFirst'
  BY <1>1, <1>6 DEF EventHappens, RestOK, MainFirst
<1>7. CASE UNCHANGED vars
  BY <1>1, <1>7 DEF vars, RestOK, MainFirst
<1> QED
  BY <1>2, <1>3, <1>4, <1>5, <1>6, <1>7 DEF Next, Step

(* Every variable keeps to its type. *)
THEOREM TypeCorrect == Spec => []TypeOK
<1>1. FullInv => TypeOK
  BY DEF FullInv, Inv, ProgramOK, SeqsOK, RestOK, TypeOK
<1> QED
  BY <1>1, InitFull, NextKeepsFull, PTL DEF Spec

(***************************************************************************)
(* The ids mean the same in both runs.  A place of a run is given by the   *)
(* number of jobs that have been run, by what the main script or the last  *)
(* of them has left to do, and by the last id that was given.  The places  *)
(* that the recording went through, from the first to the last one, and    *)
(* the continuations that the ids were given to, in order, are what the    *)
(* replay is compared with: it is at one of these places, or it has given  *)
(* all the ids that the file may name.                                     *)
(***************************************************************************)
At(n, ops, i) == <<n, ops, i>>

Prefix(s, t) == Len(s) <= Len(t) /\ \A i \in 1..Len(s) : s[i] = t[i]

(* The place that follows v is one of V; names are the continuations that  *)
(* the ids were given to, jobs those that were enqueued.                   *)
Goes(V, v, names, jobs) ==
  IF v[2] = <<>>
  THEN /\ v[1] + 1 \in 1..Len(jobs)
       /\ At(v[1] + 1, program[jobs[v[1] + 1]], v[3]) \in V
  ELSE IF Head(v[2]).op = "then"
  THEN /\ v[3] + 1 \in 1..Len(names) /\ names[v[3] + 1] = Head(v[2]).of
       /\ At(v[1], Tail(v[2]), v[3] + 1) \in V
  ELSE At(v[1], Tail(v[2]), v[3]) \in V

Path(V, end, names, jobs) ==
  /\ V \in SUBSET (Nat \X Seq(Op) \X Nat)
  /\ At(0, program[Main], 0) \in V
  /\ end \in V /\ end[3] = Len(names)
  /\ \A v \in V \ {end} : Goes(V, v, names, jobs)

(* A longer recording goes through the same places. *)
LEMMA GoesOn ==
  ASSUME NEW V, NEW W, V \subseteq W, NEW v \in Nat \X Seq(Op) \X Nat,
         NEW names \in Seq(Continuation), NEW more \in Seq(Continuation),
         NEW jobs \in Seq(Continuation), NEW later \in Seq(Continuation),
         Prefix(names, more), Prefix(jobs, later), Goes(V, v, names, jobs)
  PROVE  Goes(W, v, more, later)
<1>1. /\ Len(names) \in Nat /\ Len(more) \in Nat /\ Len(jobs) \in Nat
      /\ Len(later) \in Nat /\ v[1] \in Nat /\ v[3] \in Nat
  BY LenProperties
<1>2. CASE v[2] = <<>>
  <2>1. v[1] + 1 \in 1..Len(jobs)
    BY <1>2 DEF Goes
  <2>2. v[1] + 1 \in 1..Len(later) /\ later[v[1] + 1] = jobs[v[1] + 1]
    BY <1>1, <2>1 DEF Prefix
  <2> QED
    BY <1>2, <2>1, <2>2 DEF Goes
<1>3. CASE v[2] # <<>> /\ Head(v[2]).op = "then"
  <2>1. v[3] + 1 \in 1..Len(names)
    BY <1>3 DEF Goes
  <2>2. v[3] + 1 \in 1..Len(more) /\ more[v[3] + 1] = names[v[3] + 1]
    BY <1>1, <2>1 DEF Prefix
  <2> QED
    BY <1>3, <2>1, <2>2 DEF Goes
<1>4. CASE v[2] # <<>> /\ Head(v[2]).op # "then"
  BY <1>4 DEF Goes
<1> QED
  BY <1>2, <1>3, <1>4

(* The recording goes one place further. *)
LEMMA PathGoesOn ==
  ASSUME NEW V, NEW end, NEW next \in Nat \X Seq(Op) \X Nat,
         NEW names \in Seq(Continuation), NEW more \in Seq(Continuation),
         NEW jobs \in Seq(Continuation), NEW later \in Seq(Continuation),
         Prefix(names, more), Prefix(jobs, later),
         Path(V, end, names, jobs),
         next[3] = Len(more), Goes(V \cup {next}, end, more, later) \/ next = end
  PROVE  Path(V \cup {next}, next, more, later)
<1> DEFINE W == V \cup {next}
<1>1. /\ W \in SUBSET (Nat \X Seq(Op) \X Nat) /\ At(0, program[Main], 0) \in W
      /\ next \in W
  BY DEF Path
<1>2. ASSUME NEW v \in W \ {next} PROVE Goes(W, v, more, later)
  <2>1. v \in V /\ v \in Nat \X Seq(Op) \X Nat
    BY <1>1, <1>2
  <2>2. CASE v = end
    BY <1>2, <2>2
  <2>3. CASE v # end
    <3>1. Goes(V, v, names, jobs)
      BY <2>1, <2>3 DEF Path
    <3> QED
      BY <2>1, <3>1, GoesOn
  <2> QED
    BY <2>2, <2>3
<1> HIDE DEF W
<1>3. Path(W, next, more, later)
  BY <1>1, <1>2 DEF Path
<1> QED
  BY <1>3 DEF W

LEMMA PrefixFacts ==
  ASSUME NEW S, NEW s \in Seq(S), NEW x \in S
  PROVE  /\ Prefix(s, s) /\ Prefix(s, Append(s, x))
         /\ Append(s, x) \in Seq(S) /\ Len(Append(s, x)) = Len(s) + 1
         /\ Append(s, x)[Len(s) + 1] = x
<1>1. Len(s) \in Nat
  BY LenProperties
<1>2. /\ Append(s, x) \in Seq(S) /\ Len(Append(s, x)) = Len(s) + 1
      /\ \A i \in 1..Len(s) : Append(s, x)[i] = s[i]
      /\ Append(s, x)[Len(s) + 1] = x
  BY AppendProperties
<1> QED
  BY <1>1, <1>2 DEF Prefix

-----------------------------------------------------------------------------
(* What the main script, or the job that was run last, has left to do: an  *)
(* event that happened since then registers nothing.                       *)
Quiet(ops) == \A i \in DOMAIN ops : ops[i].op # "then"

Left(ops) == IF happened = {} THEN ops = program[Main]
             ELSE ops = todo \/ (ops = <<>> /\ Quiet(todo))

(* The ids up to Len(names) belong to the continuations names. *)
NamedIds(names) ==
  \A c \in Continuation : id[c] \in 1..Len(names) => names[id[c]] = c

NamedJobs(names) ==
  /\ \A i \in 1..Len(queue) :
       queue[i].id \in 1..Len(names) => names[queue[i].id] = queue[i].of
  /\ Len(recorded) = Len(file)
  /\ \A i \in 1..Len(file) : /\ file[i] \in 1..Len(names)
                             /\ names[file[i]] = recorded[i]

AtEnd(end) ==
  phase = "record" =>
    /\ \E ops \in Seq(Op) : Left(ops) /\ end = At(Len(ran), ops, lastId)
    /\ \A c \in Continuation : id[c] <= lastId
    /\ \A i \in 1..Len(queue) : queue[i].id <= lastId

OnPath(V, names) ==
  phase = "replay" =>
    \/ lastId >= Len(names)
    \/ \E ops \in Seq(Op) : Left(ops) /\ At(Len(ran), ops, lastId) \in V

Same(V, end, names) ==
  /\ names \in Seq(Continuation)
  /\ Path(V, end, names, recorded) /\ NamedIds(names) /\ NamedJobs(names)
  /\ AtEnd(end) /\ OnPath(V, names)

SameInv == /\ FullInv /\ ReplaysRecordedJobs
           /\ \E V, end, names : Same(V, end, names)

LEMMA InitSame == Init => SameInv
<1> SUFFICES ASSUME Init PROVE SameInv
  OBVIOUS
<1>1. FullInv /\ ReplaysRecordedJobs
  BY InitFull, EmptySeq DEF Init, ReplaysRecordedJobs
<1> DEFINE end == At(0, program[Main], 0)
<1>2. end \in Nat \X Seq(Op) \X Nat /\ end[3] = 0 /\ program[Main] \in Seq(Op)
  BY <1>1, ProgramAssumption DEF FullInv, Inv, ProgramOK, Task, At
<1>3. <<>> \in Seq(Continuation) /\ Len(<<>>) = 0
  BY EmptySeq
<1>4. Path({end}, end, <<>>, recorded)
  BY <1>2, <1>3 DEF Path
<1>5. NamedIds(<<>>) /\ NamedJobs(<<>>)
  BY <1>3 DEF Init, NamedIds, NamedJobs, NoIds
<1>6. AtEnd(end) /\ OnPath({end}, <<>>)
  BY <1>2, <1>3 DEF Init, AtEnd, OnPath, Left, NoIds
<1>7. Same({end}, end, <<>>)
  BY <1>3, <1>4, <1>5, <1>6 DEF Same
<1> QED
  BY <1>1, <1>7 DEF SameInv

LEMMA Basics ==
  ASSUME SameInv
  PROVE  /\ ProgramOK /\ SeqsOK /\ RestOK /\ MainFirst
         /\ ReplaysRecordedJobs /\ RecordInv /\ ReplayInv
         /\ Len(queue) \in Nat /\ Len(ran) \in Nat /\ Len(file) \in Nat
         /\ Len(recorded) \in Nat /\ Len(order) \in Nat
         /\ \A i \in 1..Len(queue) : queue[i] \in Job
         /\ todo # <<>> => happened # {}
<1>1. /\ ProgramOK /\ SeqsOK /\ RestOK /\ MainFirst
      /\ ReplaysRecordedJobs /\ RecordInv /\ ReplayInv
  BY DEF SameInv, FullInv, Inv
<1>2. /\ Len(queue) \in Nat /\ Len(ran) \in Nat /\ Len(file) \in Nat
      /\ Len(recorded) \in Nat /\ Len(order) \in Nat
  BY <1>1, LenProperties DEF SeqsOK, RestOK
<1>3. \A i \in 1..Len(queue) : queue[i] \in Job
  BY <1>1, ElementOfSeq DEF SeqsOK
<1> QED
  BY <1>1, <1>2, <1>3 DEF MainFirst

(* A continuation is enqueued with the id that it was given. *)
LEMMA EnqueueNamed ==
  ASSUME SameInv, NEW names \in Seq(Continuation), NamedJobs(names),
         NEW c \in Continuation, NEW i \in Nat \ {0}, Enqueue(c, i),
         UNCHANGED phase,
         i \in 1..Len(names) => names[i] = c,
         phase = "record" => i \in 1..Len(names)
  PROVE  /\ NamedJobs(names)'
         /\ Prefix(recorded, recorded')
         /\ Len(queue') = Len(queue) + 1
         /\ \A j \in 1..Len(queue) : queue'[j] = queue[j]
         /\ queue'[Len(queue) + 1] = [of |-> c, id |-> i]
<1> DEFINE job == [of |-> c, id |-> i]
<1>1. /\ SeqsOK /\ RestOK /\ Len(queue) \in Nat /\ Len(file) \in Nat
      /\ Len(recorded) \in Nat
  BY Basics
<1>2. job \in Job
  BY DEF Job
<1>3. queue' = Append(queue, job)
  BY DEF Enqueue
<1>4. /\ Len(queue') = Len(queue) + 1
      /\ \A j \in 1..Len(queue) : queue'[j] = queue[j]
      /\ queue'[Len(queue) + 1] = job
  BY <1>1, <1>2, <1>3, AppendProperties DEF SeqsOK
<1>5. \A j \in 1..Len(queue') :
        queue'[j].id \in 1..Len(names) => names[queue'[j].id] = queue'[j].of
  <2> SUFFICES ASSUME NEW j \in 1..Len(queue'), queue'[j].id \in 1..Len(names)
               PROVE  names[queue'[j].id] = queue'[j].of
    OBVIOUS
  <2>1. CASE j = Len(queue) + 1
    BY <1>4, <2>1
  <2>2. CASE j # Len(queue) + 1
    <3>1. j \in 1..Len(queue)
      BY <1>1, <1>4, <2>2
    <3> QED
      BY <1>4, <3>1 DEF NamedJobs
  <2> QED
    BY <2>1, <2>2
<1>6. CASE phase = "record"
  <2>1. file' = file \o <<i>> /\ recorded' = Append(recorded, c)
    BY <1>6 DEF Enqueue, Recorder!Written
  <2>2. file' = Append(file, i)
    BY <1>1, <2>1, AppendIsConcat DEF SeqsOK
  <2>3. /\ Len(file') = Len(file) + 1
        /\ \A j \in 1..Len(file) : file'[j] = file[j]
        /\ file'[Len(file) + 1] = i
    BY <1>1, <2>2, AppendProperties DEF SeqsOK
  <2>4. /\ Len(recorded') = Len(recorded) + 1
        /\ \A j \in 1..Len(recorded) : recorded'[j] = recorded[j]
        /\ recorded'[Len(recorded) + 1] = c
    BY <1>1, <2>1, AppendProperties DEF RestOK
  <2>5. \A j \in 1..Len(file') : /\ file'[j] \in 1..Len(names)
                                 /\ names[file'[j]] = recorded'[j]
    <3> SUFFICES ASSUME NEW j \in 1..Len(file')
                 PROVE  /\ file'[j] \in 1..Len(names)
                        /\ names[file'[j]] = recorded'[j]
      OBVIOUS
    <3>1. CASE j = Len(file) + 1
      BY <1>6, <2>3, <2>4, <3>1 DEF NamedJobs
    <3>2. CASE j # Len(file) + 1
      <4>1. j \in 1..Len(file)
        BY <1>1, <2>3, <3>2
      <4> QED
        BY <2>3, <2>4, <4>1 DEF NamedJobs
    <3> QED
      BY <3>1, <3>2
  <2> QED
    BY <1>1, <1>4, <1>5, <2>3, <2>4, <2>5 DEF NamedJobs, Prefix
<1>7. CASE phase # "record"
  <2>1. file' = file /\ recorded' = recorded
    BY <1>1, <1>7, ConcatEmptySeq DEF Enqueue, Recorder!Written, SeqsOK
  <2> QED
    BY <1>1, <1>4, <1>5, <2>1 DEF NamedJobs, Prefix
<1> QED
  BY <1>6, <1>7

(* One id more is given while recording. *)
LEMMA NamesGrow ==
  ASSUME NEW names \in Seq(Continuation), NEW c \in Continuation,
         FullInv, NamedIds(names), NamedJobs(names),
         \A d \in Continuation : id[d] <= Len(names),
         \A i \in 1..Len(queue) : queue[i].id <= Len(names)
  PROVE  NamedIds(Append(names, c)) /\ NamedJobs(Append(names, c))
<1> DEFINE more == Append(names, c)
<1>1. /\ Len(more) = Len(names) + 1 /\ Len(names) \in Nat
      /\ \A i \in 1..Len(names) : more[i] = names[i]
  BY AppendProperties, LenProperties
<1>2. /\ queue \in Seq(Job) /\ id \in [Continuation -> Nat]
  BY DEF FullInv, Inv, ProgramOK, SeqsOK
<1>3. \A i \in 1..Len(queue) : queue[i].id \in Nat \ {0}
  <2>1. \A i \in 1..Len(queue) : queue[i] \in Job
    BY <1>2, ElementOfSeq
  <2> QED
    BY <2>1 DEF Job
<1> HIDE DEF more
<1>4. NamedIds(more)
  BY <1>1, <1>2 DEF NamedIds
<1>5. NamedJobs(more)
  <2>1. \A i \in 1..Len(queue) : queue[i].id \in 1..Len(names)
    BY <1>1, <1>3
  <2>2. 1..Len(names) \subseteq 1..Len(more)
    BY <1>1
  <2> QED
    BY <1>1, <2>1, <2>2 DEF NamedJobs
<1> QED
  BY <1>4, <1>5 DEF more

(* A longer recording does not change what the jobs that ran are. *)
LEMMA RanTheSame ==
  ASSUME SameInv, NEW V, NEW end, NEW names, Same(V, end, names),
         UNCHANGED <<phase, ran>>,
         Prefix(recorded, recorded'),
         phase = "replay" => UNCHANGED recorded
  PROVE  ReplaysRecordedJobs'
<1>1. Len(ran) \in Nat /\ Len(recorded) \in Nat /\ Len(queue) \in Nat
      /\ Len(file) \in Nat /\ ReplaysRecordedJobs /\ RecordInv
      /\ phase \in {"record", "replay"} /\ Len(recorded) = Len(file)
  BY Basics DEF Same, NamedJobs, SeqsOK
<1>2. CASE phase = "record"
  <2>1. \A i \in 1..Len(ran) : i \in 1..Len(recorded)
    BY <1>1, <1>2 DEF RecordInv
  <2> QED
    BY <1>1, <2>1 DEF ReplaysRecordedJobs, Prefix
<1>3. CASE phase = "replay"
  BY <1>1, <1>3 DEF ReplaysRecordedJobs
<1> QED
  BY <1>1, <1>2, <1>3

LEMMA RegisterSame ==
  ASSUME SameInv, NEW V, NEW end, NEW names, Same(V, end, names),
         RegisterThen
  PROVE  ReplaysRecordedJobs' /\ \E W, e, n : Same(W, e, n)'
<1>a. /\ todo # <<>> /\ Head(todo).op = "then"
      /\ Head(todo).of \in Continuation /\ lastId + 1 \in Nat \ {0}
  BY Basics, DoingOK DEF RegisterThen, Doing, ProgramOK
<1>b. PICK c \in Continuation : c = Head(todo).of
  BY <1>a
<1>c. PICK i \in Nat \ {0} : i = lastId + 1
  BY <1>a
<1>1. /\ todo # <<>> /\ Head(todo).op = "then" /\ todo' = Tail(todo)
      /\ id' = [id EXCEPT ![c] = i] /\ lastId' = i
      /\ Enqueue(c, i) \/ UNCHANGED <<queue, file, recorded>>
      /\ UNCHANGED <<program, phase, happened, ran, order>>
  BY <1>b, <1>c DEF RegisterThen, Doing, Done
<1>2. /\ c \in Continuation /\ i \in Nat \ {0} /\ lastId \in Nat
      /\ i = lastId + 1
      /\ Tail(todo) \in Seq(Op) /\ todo \in Seq(Op)
      /\ FullInv /\ id \in [Continuation -> Nat] /\ happened # {}
      /\ Len(ran) \in Nat /\ phase \in {"record", "replay"}
      /\ recorded \in Seq(Continuation)
  BY <1>1, <1>c, Basics, DoingOK DEF ProgramOK, SameInv, SeqsOK, RestOK
<1>3. /\ names \in Seq(Continuation) /\ Len(names) \in Nat
      /\ Path(V, end, names, recorded)
      /\ NamedIds(names) /\ NamedJobs(names) /\ AtEnd(end) /\ OnPath(V, names)
  BY LenProperties DEF Same
<1>4. ~ Quiet(todo)
  <2>1. 1 \in DOMAIN todo /\ todo[1] = Head(todo)
    BY <1>1, <1>2, EmptySeq
  <2> QED
    BY <1>1, <2>1 DEF Quiet
<1>5. \A ops : Left(ops) <=> ops = todo
  BY <1>2, <1>4 DEF Left
<1>6. \A ops : Left(ops)' <=> (ops = todo' \/ (ops = <<>> /\ Quiet(todo)'))
  BY <1>1, <1>2 DEF Left
<1>7. CASE phase = "record"
  <2>1. /\ end = At(Len(ran), todo, lastId) /\ end[3] = Len(names)
        /\ Len(names) = lastId
        /\ \A d \in Continuation : id[d] <= lastId
        /\ \A j \in 1..Len(queue) : queue[j].id <= lastId
    <3>1. /\ \E ops \in Seq(Op) : Left(ops) /\ end = At(Len(ran), ops, lastId)
          /\ \A d \in Continuation : id[d] <= lastId
          /\ \A j \in 1..Len(queue) : queue[j].id <= lastId
      BY <1>3, <1>7 DEF AtEnd
    <3>2. end = At(Len(ran), todo, lastId)
      BY <1>5, <3>1
    <3>3. end[3] = Len(names)
      BY <1>3 DEF Path
    <3> QED
      BY <3>1, <3>2, <3>3 DEF At
  <2>a. Append(names, c) \in Seq(Continuation)
    BY <1>3, PrefixFacts
  <2>b. PICK more \in Seq(Continuation) : more = Append(names, c)
    BY <2>a
  <2>2. /\ more \in Seq(Continuation) /\ Len(more) = i /\ more[i] = c
        /\ Prefix(names, more)
    BY <1>2, <1>3, <2>1, <2>b, PrefixFacts
  <2>3. NamedIds(more) /\ NamedJobs(more)
    BY <1>2, <1>3, <2>1, <2>b, NamesGrow
  <2>4. /\ NamedJobs(more)' /\ Prefix(recorded, recorded')
        /\ recorded' \in Seq(Continuation)
        /\ \A j \in 1..Len(queue') : queue'[j].id <= i
    <3>1. recorded' \in Seq(Continuation)
      BY <1>1, <1>2, EnqueueRecords
    <3>2. CASE Enqueue(c, i)
      <4>1. /\ NamedJobs(more)' /\ Prefix(recorded, recorded')
            /\ Len(queue') = Len(queue) + 1
            /\ \A j \in 1..Len(queue) : queue'[j] = queue[j]
            /\ queue'[Len(queue) + 1] = [of |-> c, id |-> i]
        <5>1. i \in 1..Len(more) /\ UNCHANGED phase
          BY <1>1, <1>2, <2>2
        <5> QED
          BY <2>2, <2>3, <3>2, <5>1, EnqueueNamed
      <4>2. \A j \in 1..Len(queue') : queue'[j].id <= i
        <5> SUFFICES ASSUME NEW j \in 1..Len(queue') PROVE queue'[j].id <= i
          OBVIOUS
        <5>1. Len(queue) \in Nat /\ \A l \in 1..Len(queue) : queue[l] \in Job
          BY Basics
        <5>2. CASE j = Len(queue) + 1
          BY <1>2, <4>1, <5>2
        <5>3. CASE j # Len(queue) + 1
          <6>1. j \in 1..Len(queue)
            BY <4>1, <5>1, <5>3
          <6>2. queue[j].id \in Nat /\ queue[j].id <= lastId
            BY <2>1, <5>1, <6>1 DEF Job
          <6> QED
            BY <1>2, <4>1, <6>1, <6>2
        <5> QED
          BY <5>2, <5>3
      <4> QED
        BY <3>1, <4>1, <4>2
    <3>3. CASE UNCHANGED <<queue, file, recorded>>
      <4>1. Prefix(recorded, recorded')
        BY <1>2, <3>3, LenProperties DEF Prefix
      <4>2. \A j \in 1..Len(queue) : queue[j].id \in Nat
        BY Basics DEF Job
      <4>3. \A j \in 1..Len(queue') : queue'[j].id <= i
        BY <1>2, <2>1, <3>3, <4>2
      <4> QED
        BY <2>3, <3>1, <3>3, <4>1, <4>3 DEF NamedJobs
    <3> QED
      BY <1>1, <3>2, <3>3
  <2>c. At(Len(ran), Tail(todo), i) \in Nat \X Seq(Op) \X Nat
    BY <1>2 DEF At
  <2>d. PICK next \in Nat \X Seq(Op) \X Nat :
             next = At(Len(ran), Tail(todo), i)
    BY <2>c
  <2>5. next[3] = i
    BY <2>d DEF At
  <2>6. Goes(V \cup {next}, end, more, recorded')
    BY <1>1, <1>2, <1>b, <2>1, <2>2, <2>d DEF Goes, At
  <2>7. Path(V \cup {next}, next, more, recorded')
    BY <1>2, <1>3, <2>2, <2>4, <2>5, <2>6, PathGoesOn, Zenon
  <2>8. Path(V \cup {next}, next, more, recorded)'
    BY <1>1, <2>7 DEF Path, Goes
  <2>9. NamedIds(more)'
    BY <1>1, <1>2, <2>2, <2>3 DEF NamedIds
  <2>10. AtEnd(next)'
    <3>1. \A d \in Continuation : id'[d] <= i
      BY <1>1, <1>2, <2>1
    <3>2. \E ops \in Seq(Op) : ops = Tail(todo) /\ Left(ops)'
      BY <1>1, <1>2, <1>6
    <3>3. next = At(Len(ran'), Tail(todo), lastId')
      BY <1>1, <2>d
    <3> QED
      BY <1>1, <2>4, <3>1, <3>2, <3>3 DEF AtEnd
  <2>11. OnPath(V \cup {next}, more)'
    BY <1>1, <1>7 DEF OnPath
  <2>12. Same(V \cup {next}, next, more)'
    BY <2>2, <2>4, <2>8, <2>9, <2>10, <2>11 DEF Same
  <2>13. ReplaysRecordedJobs'
    BY <1>1, <1>7, <2>4, RanTheSame
  <2> QED
    BY <2>12, <2>13
<1>8. CASE phase = "replay"
  <2>1. i \in 1..Len(names) => /\ names[i] = c
                               /\ At(Len(ran), Tail(todo), i) \in V
    <3> SUFFICES ASSUME i \in 1..Len(names)
                 PROVE  names[i] = c /\ At(Len(ran), Tail(todo), i) \in V
      OBVIOUS
    <3>1. lastId < Len(names)
      BY <1>2, <1>3
    <3>2. At(Len(ran), todo, lastId) \in V
      BY <1>2, <1>3, <1>5, <1>8, <3>1 DEF OnPath
    <3> DEFINE v == At(Len(ran), todo, lastId)
    <3>3. v # end
      BY <1>2, <1>3, <3>1 DEF Path, At
    <3>4. Goes(V, v, names, recorded)
      BY <1>3, <3>2, <3>3 DEF Path
    <3> QED
      BY <1>1, <1>2, <1>b, <3>4 DEF Goes, At
  <2>2. UNCHANGED recorded
    BY <1>1, <1>8 DEF Enqueue
  <2>3. NamedJobs(names)'
    <3>1. CASE Enqueue(c, i)
      BY <1>1, <1>2, <1>3, <1>8, <2>1, <3>1, EnqueueNamed
    <3>2. CASE UNCHANGED <<queue, file, recorded>>
      BY <1>3, <3>2 DEF NamedJobs
    <3> QED
      BY <1>1, <3>1, <3>2
  <2>4. NamedIds(names)'
    BY <1>1, <1>2, <1>3, <2>1 DEF NamedIds
  <2>5. OnPath(V, names)'
    <3>1. CASE i \in 1..Len(names)
      BY <1>1, <1>2, <1>6, <2>1, <3>1 DEF OnPath
    <3>2. CASE i \notin 1..Len(names)
      <4>1. lastId' >= Len(names)
        BY <1>1, <1>2, <1>3, <3>2
      <4> QED
        BY <4>1 DEF OnPath
    <3> QED
      BY <3>1, <3>2
  <2>6. AtEnd(end)' /\ Path(V, end, names, recorded)'
    BY <1>1, <1>3, <1>8, <2>2 DEF AtEnd, Path, Goes
  <2>7. Same(V, end, names)'
    BY <1>3, <2>3, <2>4, <2>5, <2>6 DEF Same
  <2>8. Prefix(recorded, recorded')
    BY <1>2, <2>2, LenProperties DEF Prefix
  <2>9. ReplaysRecordedJobs'
    BY <1>1, <2>2, <2>8, RanTheSame
  <2> QED
    BY <2>7, <2>9
<1> QED
  BY <1>2, <1>7, <1>8

(* An operation that gives no id. *)
LEMMA OtherOpSame ==
  ASSUME SameInv, NEW V, NEW end, NEW names, Same(V, end, names),
         todo # <<>>, Head(todo).op # "then", todo' = Tail(todo),
         UNCHANGED <<program, phase, happened, ran, lastId, id>>,
         NamedJobs(names)', Prefix(recorded, recorded'),
         recorded' \in Seq(Continuation),
         phase = "replay" => UNCHANGED recorded,
         phase = "record" => \A j \in 1..Len(queue') : queue'[j].id <= lastId
  PROVE  ReplaysRecordedJobs' /\ \E W, e, n : Same(W, e, n)'
<1>1. /\ lastId \in Nat /\ todo \in Seq(Op) /\ Tail(todo) \in Seq(Op)
      /\ happened # {} /\ Len(ran) \in Nat /\ phase \in {"record", "replay"}
      /\ recorded \in Seq(Continuation)
  BY Basics, DoingOK DEF ProgramOK, SeqsOK, RestOK
<1>2. /\ names \in Seq(Continuation) /\ Len(names) \in Nat
      /\ Path(V, end, names, recorded) /\ NamedIds(names)
      /\ AtEnd(end) /\ OnPath(V, names)
  BY LenProperties DEF Same
<1>3. ReplaysRecordedJobs' /\ NamedIds(names)'
  BY <1>2, RanTheSame DEF NamedIds
<1>4. Quiet(todo) => Quiet(Tail(todo))
  <2>1. \A j \in DOMAIN Tail(todo) : j + 1 \in DOMAIN todo
                                   /\ Tail(todo)[j] = todo[j + 1]
    BY <1>1
  <2> QED
    BY <2>1 DEF Quiet
<1>5. ASSUME NEW ops \in Seq(Op), Left(ops)
      PROVE  ops # todo => ops = <<>> /\ (\E o \in Seq(Op) : o = ops /\ Left(o)')
  BY <1>1, <1>4, <1>5 DEF Left, Quiet
<1>6. \E o \in Seq(Op) : o = Tail(todo) /\ Left(o)'
  BY <1>1 DEF Left
<1>7. CASE phase = "record"
  <2>1. PICK ops \in Seq(Op) : Left(ops) /\ end = At(Len(ran), ops, lastId)
    BY <1>2, <1>7 DEF AtEnd
  <2>2. lastId = Len(names)
    BY <1>2, <2>1 DEF Path, At
  <2>3. Prefix(names, names)
    BY <1>2 DEF Prefix
  <2>4. \A c \in Continuation : id[c] <= lastId
    BY <1>2, <1>7 DEF AtEnd
  <2>5. CASE ops = todo
    <3>1. At(Len(ran), Tail(todo), lastId) \in Nat \X Seq(Op) \X Nat
      BY <1>1 DEF At
    <3>2. PICK next \in Nat \X Seq(Op) \X Nat :
               next = At(Len(ran), Tail(todo), lastId)
      BY <3>1
    <3>3. next[3] = Len(names)
      BY <2>2, <3>2 DEF At
    <3>4. Goes(V \cup {next}, end, names, recorded')
      BY <1>1, <2>1, <2>5, <3>2 DEF Goes, At
    <3>5. Path(V \cup {next}, next, names, recorded')
      BY <1>1, <1>2, <2>3, <3>3, <3>4, PathGoesOn, Zenon
    <3>6. Path(V \cup {next}, next, names, recorded)'
      BY <3>5 DEF Path, Goes
    <3>7. AtEnd(next)'
      BY <1>6, <1>7, <2>4, <3>2 DEF AtEnd
    <3>8. OnPath(V \cup {next}, names)'
      BY <1>7 DEF OnPath
    <3>9. Same(V \cup {next}, next, names)'
      BY <1>2, <1>3, <3>6, <3>7, <3>8 DEF Same
    <3> QED
      BY <1>3, <3>9
  <2>6. CASE ops # todo
    <3>1. \E o \in Seq(Op) : o = ops /\ Left(o)'
      BY <1>5, <2>1, <2>6
    <3>2. /\ end \in Nat \X Seq(Op) \X Nat /\ V \cup {end} = V
          /\ end[3] = Len(names)
      BY <1>2 DEF Path
    <3>3. Path(V \cup {end}, end, names, recorded')
      BY <1>1, <1>2, <2>3, <3>2, PathGoesOn, Zenon
    <3>4. Path(V, end, names, recorded)'
      BY <3>2, <3>3 DEF Path, Goes
    <3>5. AtEnd(end)'
      BY <1>7, <2>1, <2>4, <3>1 DEF AtEnd
    <3>6. OnPath(V, names)'
      BY <1>7 DEF OnPath
    <3>7. Same(V, end, names)'
      BY <1>2, <1>3, <3>4, <3>5, <3>6 DEF Same
    <3> QED
      BY <1>3, <3>7
  <2> QED
    BY <2>5, <2>6
<1>8. CASE phase = "replay"
  <2>1. OnPath(V, names)'
    <3>1. CASE lastId >= Len(names)
      BY <3>1 DEF OnPath
    <3>2. CASE ~ (lastId >= Len(names))
      <4>1. PICK ops \in Seq(Op) : Left(ops) /\ At(Len(ran), ops, lastId) \in V
        BY <1>2, <1>8, <3>2 DEF OnPath
      <4>2. CASE ops = todo
        <5> DEFINE v == At(Len(ran), todo, lastId)
        <5>1. v \in V /\ v # end
          BY <1>1, <1>2, <3>2, <4>1, <4>2 DEF Path, At
        <5>2. Goes(V, v, names, recorded)
          BY <1>2, <5>1 DEF Path
        <5>3. At(Len(ran), Tail(todo), lastId) \in V
          BY <1>1, <5>2 DEF Goes, At
        <5> QED
          BY <1>6, <5>3 DEF OnPath
      <4>3. CASE ops # todo
        BY <1>5, <4>1, <4>3 DEF OnPath
      <4> QED
        BY <4>2, <4>3
    <3> QED
      BY <3>1, <3>2
  <2>2. AtEnd(end)' /\ Path(V, end, names, recorded)'
    BY <1>2, <1>8 DEF AtEnd, Path, Goes
  <2>3. Same(V, end, names)'
    BY <1>2, <1>3, <2>1, <2>2 DEF Same
  <2> QED
    BY <1>3, <2>3
<1> QED
  BY <1>1, <1>7, <1>8

LEMMA SettleSame ==
  ASSUME SameInv, NEW V, NEW end, NEW names, Same(V, end, names),
         SettlePromise
  PROVE  ReplaysRecordedJobs' /\ \E W, e, n : Same(W, e, n)'
<1>1. /\ todo # <<>> /\ Head(todo).op = "settle" /\ todo' = Tail(todo)
      /\ UNCHANGED <<program, phase, happened, ran, lastId, id>>
      /\ Head(todo).of \in Continuation
  BY Basics, DoingOK DEF SettlePromise, Doing, Done
<1>2. PICK c \in Continuation : c = Head(todo).of
  BY <1>1
<1>3. /\ id \in [Continuation -> Nat] /\ recorded \in Seq(Continuation)
      /\ names \in Seq(Continuation) /\ NamedIds(names) /\ NamedJobs(names)
      /\ Len(queue) \in Nat /\ \A j \in 1..Len(queue) : queue[j] \in Job
      /\ lastId \in Nat
  BY Basics DEF ProgramOK, RestOK, Same
<1>4. phase = "record" =>
        /\ lastId = Len(names) /\ \A d \in Continuation : id[d] <= lastId
        /\ \A j \in 1..Len(queue) : queue[j].id <= lastId
  BY DEF Same, AtEnd, Path, At
<1>5. CASE UNCHANGED <<queue, file, recorded>>
  <2>1. NamedJobs(names)' /\ Prefix(recorded, recorded')
    BY <1>3, <1>5, LenProperties DEF NamedJobs, Prefix
  <2> QED
    BY <1>1, <1>3, <1>4, <1>5, <2>1, OtherOpSame
<1>6. CASE ~ (UNCHANGED <<queue, file, recorded>>)
  <2>1. Enqueue(c, id[c]) /\ id[c] # 0
    BY <1>2, <1>6 DEF SettlePromise, Registered
  <2>2. PICK i \in Nat \ {0} : i = id[c]
    BY <1>3, <2>1
  <2>3. /\ Enqueue(c, i)
        /\ i \in 1..Len(names) => names[i] = c
        /\ phase = "record" => i \in 1..Len(names)
    BY <1>3, <1>4, <2>1, <2>2, LenProperties DEF NamedIds
  <2>4. /\ NamedJobs(names)' /\ Prefix(recorded, recorded')
        /\ Len(queue') = Len(queue) + 1
        /\ \A j \in 1..Len(queue) : queue'[j] = queue[j]
        /\ queue'[Len(queue) + 1] = [of |-> c, id |-> i]
    BY <1>1, <1>3, <2>3, EnqueueNamed
  <2>5. recorded' \in Seq(Continuation)
    BY <1>3, <2>3, EnqueueRecords
  <2>6. phase = "record" => \A j \in 1..Len(queue') : queue'[j].id <= lastId
    <3> SUFFICES ASSUME phase = "record", NEW j \in 1..Len(queue')
                 PROVE  queue'[j].id <= lastId
      OBVIOUS
    <3>1. CASE j = Len(queue) + 1
      BY <1>4, <2>2, <2>4, <3>1
    <3>2. CASE j # Len(queue) + 1
      <4>1. j \in 1..Len(queue)
        BY <1>3, <2>4, <3>2
      <4> QED
        BY <1>4, <2>4, <4>1
    <3> QED
      BY <3>1, <3>2
  <2>7. phase = "replay" => UNCHANGED recorded
    BY <2>1 DEF Enqueue
  <2> QED
    BY <1>1, <2>4, <2>5, <2>6, <2>7, OtherOpSame
<1> QED
  BY <1>5, <1>6

LEMMA StartSame ==
  ASSUME SameInv, NEW V, NEW end, NEW names, Same(V, end, names),
         StartEvent
  PROVE  ReplaysRecordedJobs' /\ \E W, e, n : Same(W, e, n)'
<1>1. /\ todo # <<>> /\ Head(todo).op = "start" /\ todo' = Tail(todo)
      /\ UNCHANGED <<program, phase, happened, ran, lastId, id, queue, file,
                     recorded>>
  BY DEF StartEvent, Doing, Done
<1>2. /\ NamedJobs(names) /\ recorded \in Seq(Continuation)
  BY Basics DEF RestOK, Same
<1>3. NamedJobs(names)' /\ Prefix(recorded, recorded')
  BY <1>1, <1>2, LenProperties DEF NamedJobs, Prefix
<1>4. phase = "record" => \A j \in 1..Len(queue') : queue'[j].id <= lastId
  BY <1>1 DEF Same, AtEnd
<1> QED
  BY <1>1, <1>2, <1>3, <1>4, OtherOpSame

(* Nothing is registered or enqueued, and no job runs. *)
LEMMA OutsideSame ==
  ASSUME SameInv, NEW V, NEW end, NEW names, Same(V, end, names),
         UNCHANGED <<program, phase, id, lastId, queue, ran, file, recorded>>,
         \A ops \in Seq(Op) : Left(ops) => \E o \in Seq(Op) : o = ops /\ Left(o)'
  PROVE  ReplaysRecordedJobs' /\ \E W, e, n : Same(W, e, n)'
<1>1. ReplaysRecordedJobs' /\ NamedIds(names)' /\ NamedJobs(names)'
  BY Basics DEF ReplaysRecordedJobs, NamedIds, NamedJobs, Same
<1>2. Path(V, end, names, recorded)'
  BY DEF Same, Path, Goes
<1>3. AtEnd(end)' /\ OnPath(V, names)'
  BY DEF Same, AtEnd, OnPath
<1>4. Same(V, end, names)'
  BY <1>1, <1>2, <1>3 DEF Same
<1> QED
  BY <1>1, <1>4

LEMMA EventSame ==
  ASSUME EventsRegisterNothing,
         SameInv, NEW V, NEW end, NEW names, Same(V, end, names),
         NEW e \in Event, EventHappens(e)
  PROVE  ReplaysRecordedJobs' /\ \E W, f, n : Same(W, f, n)'
<1>1. /\ todo = <<>> /\ e \in started \ happened
      /\ todo' = program[e] /\ happened' = happened \cup {e}
      /\ UNCHANGED <<program, phase, id, lastId, queue, ran, file, recorded>>
  BY DEF EventHappens
<1>2. program \in Programs /\ MainFirst
  BY Basics DEF RestOK
<1>3. ASSUME NEW ops \in Seq(Op), Left(ops)
      PROVE  \E o \in Seq(Op) : o = ops /\ Left(o)'
  <2>1. CASE happened = {}
    <3>1. e = Main
      BY <1>1, <1>2, <2>1 DEF MainFirst
    <3> QED
      BY <1>1, <1>3, <2>1, <3>1 DEF Left
  <2>2. CASE happened # {}
    <3>1. e # Main
      BY <1>1, <1>2, <2>2 DEF MainFirst
    <3>2. Quiet(todo')
      BY <1>1, <1>2, <3>1 DEF Quiet, EventsRegisterNothing
    <3>3. ops = <<>>
      BY <1>1, <1>3, <2>2 DEF Left
    <3> QED
      BY <1>1, <3>2, <3>3 DEF Left, Quiet
  <2> QED
    BY <2>1, <2>2
<1> QED
  BY <1>1, <1>3, OutsideSame

LEMMA RestartSame ==
  ASSUME SameInv, NEW V, NEW end, NEW names, Same(V, end, names),
         StartReplay
  PROVE  ReplaysRecordedJobs' /\ \E W, e, n : Same(W, e, n)'
<1>1. /\ phase' = "replay" /\ id' = NoIds /\ lastId' = 0 /\ happened' = {}
      /\ queue' = <<>> /\ ran' = <<>> /\ Len(ran') = 0 /\ Len(queue') = 0
      /\ UNCHANGED <<program, file, recorded>>
  BY EmptySeq DEF StartReplay
<1>2. ReplaysRecordedJobs' /\ NamedIds(names)' /\ NamedJobs(names)'
  BY <1>1 DEF ReplaysRecordedJobs, NamedIds, NamedJobs, Same, NoIds
<1>3. Path(V, end, names, recorded)' /\ At(0, program[Main], 0) \in V
  BY <1>1 DEF Same, Path, Goes
<1>4. program[Main] \in Seq(Op)
  BY Basics, ProgramAssumption DEF ProgramOK, Task
<1>5. AtEnd(end)' /\ OnPath(V, names)'
  BY <1>1, <1>3, <1>4 DEF AtEnd, OnPath, Left
<1>6. Same(V, end, names)'
  BY <1>2, <1>3, <1>5 DEF Same
<1> QED
  BY <1>2, <1>6

(* The job that runs is the one that the recording has at this place. *)
LEMMA RunsRecordedJob ==
  ASSUME SameInv, NEW V, NEW end, NEW names, Same(V, end, names), RunJob
  PROVE  LET n == Recorder!NextJob(Ids(queue), order)
         IN  /\ Len(ran) + 1 \in 1..Len(recorded) =>
                   queue[n].of = recorded[Len(ran) + 1]
             /\ NamedJobs(names)' /\ ReplaysRecordedJobs'
             /\ phase = "record" =>
                  /\ Len(ran) + 1 \in 1..Len(recorded)
                  /\ \A j \in 1..Len(queue') : queue'[j].id <= lastId
<1> DEFINE n == Recorder!NextJob(Ids(queue), order)
<1>1. /\ queue \in Seq(Job) /\ ran \in Seq(Job) /\ queue # <<>>
      /\ Len(queue) \in Nat \ {0} /\ Len(ran) \in Nat /\ Len(file) \in Nat
      /\ Len(recorded) \in Nat /\ RecordInv /\ ReplaysRecordedJobs
      /\ Inv /\ NamedJobs(names)
  BY Basics, EmptySeq DEF SeqsOK, RunJob, SameInv, FullInv, Same
<1>2. /\ ran' = Append(ran, queue[n]) /\ queue' = RemoveAt(queue, n)
      /\ UNCHANGED <<file, recorded, phase>>
  BY DEF RunJob
<1>3. n \in 1..Len(queue)
  BY <1>1, JobIsQueued
<1>4. FollowsFile'
  BY <1>1, RunJobKeeps
<1> HIDE DEF n
<1>5. /\ Len(queue') = Len(queue) - 1
      /\ \A j \in 1..Len(queue) - 1 :
           queue'[j] = IF j < n THEN queue[j] ELSE queue[j + 1]
  BY <1>1, <1>2, <1>3, RemoveAtProperties
<1>6. \A j \in 1..Len(queue') : \E l \in 1..Len(queue) : queue'[j] = queue[l]
  <2> SUFFICES ASSUME NEW j \in 1..Len(queue')
               PROVE  \E l \in 1..Len(queue) : queue'[j] = queue[l]
    OBVIOUS
  <2>1. j \in 1..Len(queue) /\ j + 1 \in 1..Len(queue) /\ j \in 1..Len(queue) - 1
    BY <1>1, <1>5
  <2> QED
    BY <1>5, <2>1
<1>7. NamedJobs(names)'
  BY <1>1, <1>2, <1>6 DEF NamedJobs
<1>8. /\ Len(ran') = Len(ran) + 1
      /\ \A j \in 1..Len(ran) : ran'[j] = ran[j]
      /\ ran'[Len(ran) + 1] = queue[n]
  <2>1. queue[n] \in Job
    BY <1>1, <1>3, ElementOfSeq
  <2> QED
    BY <1>1, <1>2, <2>1, AppendProperties
<1>9. ASSUME Len(ran) + 1 \in 1..Len(recorded)
      PROVE  queue[n].of = recorded[Len(ran) + 1]
  <2>1. Len(ran) + 1 \in 1..Len(file)
    BY <1>1, <1>9 DEF NamedJobs
  <2>2. queue[n].id = file[Len(ran) + 1]
    BY <1>1, <1>2, <1>4, <1>8, <2>1 DEF FollowsFile
  <2> QED
    BY <1>1, <1>3, <2>1, <2>2 DEF NamedJobs
<1>10. ReplaysRecordedJobs'
  <2> SUFFICES ASSUME NEW j \in 1..Len(ran'), j <= Len(recorded)
               PROVE  ran'[j].of = recorded[j]
    BY <1>2 DEF ReplaysRecordedJobs
  <2>1. CASE j = Len(ran) + 1
    BY <1>1, <1>8, <1>9, <2>1
  <2>2. CASE j # Len(ran) + 1
    <3>1. j \in 1..Len(ran)
      BY <1>1, <1>8, <2>2
    <3> QED
      BY <1>1, <1>8, <3>1 DEF ReplaysRecordedJobs
  <2> QED
    BY <2>1, <2>2
<1>11. phase = "record" =>
         /\ Len(ran) + 1 \in 1..Len(recorded)
         /\ \A j \in 1..Len(queue') : queue'[j].id <= lastId
  <2>1. phase = "record" => Len(ran) + 1 \in 1..Len(recorded)
    BY <1>1 DEF RecordInv, NamedJobs
  <2>2. phase = "record" => \A j \in 1..Len(queue) : queue[j].id <= lastId
    BY DEF Same, AtEnd
  <2> QED
    BY <1>6, <2>1, <2>2
<1> QED
  BY <1>7, <1>9, <1>10, <1>11 DEF n

LEMMA RunJobSame ==
  ASSUME SameInv, NEW V, NEW end, NEW names, Same(V, end, names), RunJob
  PROVE  ReplaysRecordedJobs' /\ \E W, e, n : Same(W, e, n)'
<1> DEFINE k == Recorder!NextJob(Ids(queue), order)
<1>1. /\ todo = <<>> /\ happened # {} /\ todo' = program[queue[k].of]
      /\ ran' = Append(ran, queue[k])
      /\ UNCHANGED <<program, phase, id, lastId, happened, recorded>>
  BY Basics DEF RunJob, MainFirst
<1>2. /\ Len(ran) + 1 \in 1..Len(recorded) =>
           queue[k].of = recorded[Len(ran) + 1]
      /\ NamedJobs(names)' /\ ReplaysRecordedJobs'
      /\ phase = "record" =>
           /\ Len(ran) + 1 \in 1..Len(recorded)
           /\ \A j \in 1..Len(queue') : queue'[j].id <= lastId
  BY RunsRecordedJob
<1>3. /\ k \in 1..Len(queue) /\ queue[k] \in Job /\ Len(ran) \in Nat
      /\ lastId \in Nat /\ phase \in {"record", "replay"} /\ ran \in Seq(Job)
      /\ program \in [Task -> Seq(Op)] /\ recorded \in Seq(Continuation)
  BY Basics, JobIsQueued DEF SameInv, FullInv, ProgramOK, SeqsOK, RestOK
<1> HIDE DEF k
<1>4. Len(ran') = Len(ran) + 1 /\ todo' \in Seq(Op)
  BY <1>1, <1>3, AppendProperties DEF Job, Task
<1>5. /\ names \in Seq(Continuation) /\ Len(names) \in Nat
      /\ Path(V, end, names, recorded) /\ NamedIds(names)
      /\ AtEnd(end) /\ OnPath(V, names)
  BY LenProperties DEF Same
<1>6. NamedIds(names)'
  BY <1>1, <1>5 DEF NamedIds
<1>7. \A ops \in Seq(Op) : Left(ops) => ops = <<>>
  BY <1>1 DEF Left
<1>8. \E o \in Seq(Op) : o = todo' /\ Left(o)'
  BY <1>1, <1>4 DEF Left
<1>9. CASE phase = "record"
  <2>1. end = At(Len(ran), <<>>, lastId) /\ lastId = Len(names)
    <3>1. end = At(Len(ran), <<>>, lastId)
      BY <1>5, <1>7, <1>9 DEF AtEnd
    <3> QED
      BY <1>5, <3>1 DEF Path, At
  <2>2. At(Len(ran) + 1, todo', lastId) \in Nat \X Seq(Op) \X Nat
    BY <1>3, <1>4 DEF At
  <2>3. PICK next \in Nat \X Seq(Op) \X Nat :
             next = At(Len(ran) + 1, todo', lastId)
    BY <2>2
  <2>4. next[3] = Len(names)
    BY <2>1, <2>3 DEF At
  <2>5. Goes(V \cup {next}, end, names, recorded)
    BY <1>1, <1>2, <1>3, <1>9, <2>1, <2>3 DEF Goes, At
  <2>6. Prefix(names, names) /\ Prefix(recorded, recorded)
    BY <1>3, <1>5, LenProperties DEF Prefix
  <2>7. Path(V \cup {next}, next, names, recorded)
    BY <1>3, <1>5, <2>4, <2>5, <2>6, PathGoesOn, Zenon
  <2>8. Path(V \cup {next}, next, names, recorded)'
    BY <1>1, <2>7 DEF Path, Goes
  <2>9. AtEnd(next)'
    BY <1>1, <1>2, <1>4, <1>5, <1>8, <1>9, <2>3 DEF AtEnd
  <2>10. OnPath(V \cup {next}, names)'
    BY <1>1, <1>9 DEF OnPath
  <2>11. Same(V \cup {next}, next, names)'
    BY <1>2, <1>5, <1>6, <2>8, <2>9, <2>10 DEF Same
  <2> QED
    BY <1>2, <2>11
<1>10. CASE phase = "replay"
  <2>1. OnPath(V, names)'
    <3>1. CASE lastId >= Len(names)
      BY <1>1, <3>1 DEF OnPath
    <3>2. CASE ~ (lastId >= Len(names))
      <4> DEFINE v == At(Len(ran), <<>>, lastId)
      <4>1. v \in V
        BY <1>5, <1>7, <1>10, <3>2 DEF OnPath
      <4>2. v # end
        BY <1>3, <1>5, <3>2 DEF Path, At
      <4>3. Goes(V, v, names, recorded)
        BY <1>5, <4>1, <4>2 DEF Path
      <4>4. At(Len(ran) + 1, todo', lastId) \in V
        BY <1>1, <1>2, <4>3 DEF Goes, At
      <4> QED
        BY <1>1, <1>4, <1>8, <4>4 DEF OnPath
    <3> QED
      BY <3>1, <3>2
  <2>2. AtEnd(end)' /\ Path(V, end, names, recorded)'
    BY <1>1, <1>5, <1>10 DEF AtEnd, Path, Goes
  <2>3. Same(V, end, names)'
    BY <1>2, <1>5, <1>6, <2>1, <2>2 DEF Same
  <2> QED
    BY <1>2, <2>3
<1> QED
  BY <1>3, <1>9, <1>10

LEMMA NextKeepsSame ==
  ASSUME EventsRegisterNothing
  PROVE  SameInv /\ [Next]_vars => SameInv'
<1> SUFFICES ASSUME SameInv, [Next]_vars
             PROVE  ReplaysRecordedJobs' /\ \E W, e, n : Same(W, e, n)'
  BY NextKeepsFull DEF SameInv
<1>1. PICK V, end, names : Same(V, end, names)
  BY DEF SameInv
<1>2. CASE RegisterThen \/ SettlePromise \/ StartEvent \/ RunJob \/ StartReplay
  BY <1>1, <1>2, RegisterSame, SettleSame, StartSame, RunJobSame, RestartSame
<1>3. ASSUME NEW e \in Event, EventHappens(e)
      PROVE  ReplaysRecordedJobs' /\ \E W, f, n : Same(W, f, n)'
  BY <1>1, <1>3, EventSame
<1>4. CASE StopProcessing \/ UNCHANGED vars
  <2>1. UNCHANGED <<program, phase, id, lastId, queue, ran, file, recorded,
                    happened, todo>>
    BY <1>4 DEF StopProcessing, vars
  <2>2. \A ops \in Seq(Op) :
          Left(ops) => \E o \in Seq(Op) : o = ops /\ Left(o)'
    BY <2>1 DEF Left, Quiet
  <2> QED
    BY <1>1, <2>1, <2>2, OutsideSame
<1> QED
  BY <1>2, <1>3, <1>4 DEF Next, Step

(***************************************************************************)
(* The ids mean the same in the replay as in the recording: what runs n-th *)
(* is the continuation that was recorded n-th, in whatever order the events*)
(* come and whenever the recorded process was killed.  The programs are    *)
(* those in which only the main script and the jobs register.              *)
(***************************************************************************)
THEOREM IdsMeanTheSame ==
  ASSUME EventsRegisterNothing
  PROVE  Spec => []ReplaysRecordedJobs
<1>1. SameInv /\ [Next]_vars => SameInv'
  BY NextKeepsSame
<1>2. SameInv => ReplaysRecordedJobs
  BY DEF SameInv
<1> QED
  BY <1>1, <1>2, InitSame, PTL DEF Spec
=============================================================================
