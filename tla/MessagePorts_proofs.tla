------------------------- MODULE MessagePorts_proofs -------------------------
(***************************************************************************)
(* The proofs, for any channels, threads and number of messages, that no   *)
(* wake-up of a receiving port is lost, that a port without a sibling has  *)
(* been told so, that messages are taken in the order of posting, and that *)
(* every data always has exactly one holder.                               *)
(*                                                                         *)
(* All rest on where the data are (Places): whoever holds one that moves   *)
(* is the only one, and it is owned by no thread meanwhile.  The order     *)
(* also needs that a queue whose sibling is there has no close message     *)
(* (PeerLearns), and the type invariant that whatever moves is held (Held) *)
(* and that no queue is longer than the bound (Sequenced and Bounded).     *)
(***************************************************************************)
EXTENDS MessagePorts, SequenceTheorems, FiniteSetTheorems, TLAPS

Msg == [n : Nat, port : Ports \cup {"none"}]

Types ==
  /\ sibling \in [Ports -> Ports \cup {"none"}]
  /\ incoming \in [Ports -> Seq(Msg)]
  /\ place \in [Ports -> Threads \cup {"moving", "gone"}]
  /\ receiving \subseteq Ports /\ closing \subseteq Ports
  /\ signalled \subseteq Ports
  /\ hand \in [Threads -> SUBSET [from : Ports, port : Ports \cup {"none"}]]
  /\ running \in [Threads -> Ports \cup {"none", "detached"}]
  /\ dying \in [Threads -> SUBSET Ports]
  /\ sent \in [Ports -> Nat]

(* The i-th message in the queue of q carries e.                           *)
Queued(q, i, e) == i \in 1 .. Len(incoming[q]) /\ incoming[q][i].port = e

(* Who holds a port that no thread owns.                                   *)
InHand(t, e) == \E m \in hand[t] : m.port = e

Moving ==
  \A e \in Ports :
    /\ \A t \in Threads : InHand(t, e) \/ e \in dying[t] => place[e] = "moving"
    /\ \A q \in Ports : \A i \in Nat : Queued(q, i, e) => place[e] = "moving"

OneHand == \A e \in Ports : \A t, u \in Threads :
             InHand(t, e) /\ InHand(u, e) => t = u

OneDeath == \A e \in Ports : \A t, u \in Threads :
              /\ e \in dying[t] /\ e \in dying[u] => t = u
              /\ ~ (InHand(t, e) /\ e \in dying[u])

QueueAlone == \A e, q \in Ports : \A t \in Threads : \A i \in Nat :
                Queued(q, i, e) => ~ InHand(t, e) /\ e \notin dying[t]

OneQueue == \A e, q, r \in Ports : \A i, j \in Nat :
              Queued(q, i, e) /\ Queued(r, j, e) => q = r /\ i = j

OneHolder == OneHand /\ OneDeath /\ QueueAlone /\ OneQueue

OwnedLive ==
  /\ \A p \in receiving \cup closing \cup signalled : place[p] \in Threads
  /\ closing \cap signalled = {}

RunsOwned ==
  \A t \in Threads : running[t] \in Ports => place[running[t]] = t

InOneCall ==
  \A t \in Threads : /\ \A m, l \in hand[t] : m = l
                     /\ hand[t] # {} => dying[t] = {}

Owning == OwnedLive /\ RunsOwned /\ InOneCall

Siblings ==
  \A p \in Ports :
    /\ sibling[p] # "none" => sibling[sibling[p]] = p /\ sibling[p] # p
    /\ place[p] = "gone" => sibling[p] = "none"

Places == Types /\ Moving /\ OneHolder /\ Owning /\ Siblings

IInv == Places /\ NoLostWakeup /\ PeerLearns
-----------------------------------------------------------------------------
(* Queues *)

LEMMA QueueFacts ==
  ASSUME Types, NEW q \in Ports
  PROVE  /\ incoming[q] \in Seq(Msg) /\ Len(incoming[q]) \in Nat
         /\ DOMAIN incoming[q] = 1 .. Len(incoming[q])
         /\ incoming[q] # <<>> => Len(incoming[q]) \in Nat \ {0}
BY LenProperties, EmptySeq DEF Types

(* The first message is taken.                                             *)
LEMMA Taking ==
  ASSUME Types, NEW p \in Ports, incoming[p] # <<>>,
         incoming' = [incoming EXCEPT ![p] = Tail(@)]
  PROVE  /\ incoming' \in [Ports -> Seq(Msg)]
         /\ Head(incoming[p]) \in Msg /\ Head(incoming[p]) = incoming[p][1]
         /\ Len(incoming'[p]) = Len(incoming[p]) - 1
         /\ \A i \in 1 .. Len(incoming'[p]) :
              incoming'[p][i] = incoming[p][i + 1]
         /\ \A q \in Ports : q # p => incoming'[q] = incoming[q]
         /\ \A q, e \in Ports : \A i \in Nat :
              Queued(q, i, e)' => Queued(q, IF q = p THEN i + 1 ELSE i, e)
<1>1. /\ incoming[p] \in Seq(Msg) /\ Len(incoming[p]) \in Nat \ {0}
  BY QueueFacts
<1>2. /\ Head(incoming[p]) \in Msg /\ Tail(incoming[p]) \in Seq(Msg)
      /\ Len(Tail(incoming[p])) = Len(incoming[p]) - 1
      /\ \A i \in 1 .. Len(Tail(incoming[p])) :
           Tail(incoming[p])[i] = incoming[p][i + 1]
  BY <1>1, HeadTailProperties
<1>3. Head(incoming[p]) = incoming[p][1]
  BY <1>1
<1>4. incoming'[p] = Tail(incoming[p])
      /\ \A q \in Ports : q # p => incoming'[q] = incoming[q]
  BY DEF Types
<1>5. incoming' \in [Ports -> Seq(Msg)]
  BY <1>2 DEF Types
<1>6. ASSUME NEW q \in Ports, NEW e \in Ports, NEW i \in Nat, Queued(q, i, e)'
      PROVE  Queued(q, IF q = p THEN i + 1 ELSE i, e)
  <2>1. CASE q = p
    <3>1. i \in 1 .. Len(Tail(incoming[p])) /\ Tail(incoming[p])[i].port = e
      BY <1>4, <1>6, <2>1 DEF Queued
    <3>2. i + 1 \in 1 .. Len(incoming[p]) /\ incoming[p][i + 1].port = e
      BY <1>1, <1>2, <3>1
    <3> QED
      BY <2>1, <3>2 DEF Queued
  <2>2. CASE q # p
    BY <1>4, <1>6, <2>2 DEF Queued
  <2> QED
    BY <2>1, <2>2
<1> QED
  BY <1>2, <1>3, <1>4, <1>5, <1>6

(* A message is added at the end.                                          *)
LEMMA Adding ==
  ASSUME Types, NEW s \in Ports, NEW m \in Msg
  PROVE  LET after == Append(incoming[s], m)
         IN
         /\ after \in Seq(Msg) /\ Len(after) = Len(incoming[s]) + 1
         /\ \A i \in 1 .. Len(incoming[s]) : after[i] = incoming[s][i]
         /\ after[Len(incoming[s]) + 1] = m
BY QueueFacts, AppendProperties

LEMMA Woken1 ==
  ASSUME Types, NEW p \in Ports
  PROVE  /\ Woken(p) \subseteq Ports
         /\ \A q \in Woken(p) : q = p /\ place[p] \in Threads
                                /\ p \notin closing
         /\ place[p] \in Threads /\ p \notin closing => p \in Woken(p)
BY DEF Woken

(* The steps that leave all queues and all holders alone.                  *)
LEMMA StillPlaces ==
  ASSUME Places, UNCHANGED <<sibling, incoming, place, hand, dying>>
  PROVE  Moving' /\ OneHolder' /\ Siblings'
BY DEF Places, Moving, OneHolder, OneHand, OneDeath, QueueAlone, OneQueue,
   Siblings, InHand, Queued
-----------------------------------------------------------------------------
(* Places: what the program does *)

LEMMA InitPlaces == Init => Places
<1> SUFFICES ASSUME Init PROVE Places
  OBVIOUS
<1>1. Types
  BY PortsAssumption DEF Init, Types
<1>2. Moving
  BY DEF Init, Moving, InHand, Queued
<1>3. OneHolder
  BY DEF Init, OneHolder, OneHand, OneDeath, QueueAlone, OneQueue, InHand,
     Queued
<1>4. Owning
  BY PlacesAssumption DEF Init, Owning, OwnedLive, RunsOwned, InOneCall
<1>5. Siblings
  BY PortsAssumption, PlacesAssumption DEF Init, Siblings
<1> QED
  BY <1>1, <1>2, <1>3, <1>4, <1>5 DEF Places

LEMMA SerializePlaces ==
  ASSUME Places, NEW t \in Threads, NEW p \in Ports,
         NEW e \in Ports \cup {"none"}, Serialize(t, p, e)
  PROVE  Places'
<1>1. /\ hand[t] = {} /\ dying[t] = {} /\ place[p] = t
      /\ hand' = [hand EXCEPT ![t] = {[from |-> p, port |-> e]}]
      /\ e \in Ports => place[e] = t /\ e \notin closing
      /\ place' = [q \in Ports |-> IF q = e THEN "moving" ELSE place[q]]
      /\ receiving' = receiving \ {e} /\ signalled' = signalled \ {e}
      /\ running' = LoopWithout(t, e)
      /\ UNCHANGED <<sibling, incoming, closing, dying, sent>>
  BY PlacesAssumption DEF Serialize, RunsProgram, InCpp
<1>2. t \notin {"moving", "gone"} /\ "none" \notin Ports
  BY PlacesAssumption
<1>3. \A u \in Threads, x \in Ports :
         InHand(u, x)' => InHand(u, x) \/ (u = t /\ x = e)
  <2>1. hand'[t] = {[from |-> p, port |-> e]}
        /\ \A u \in Threads : u # t => hand'[u] = hand[u]
    BY <1>1 DEF Places, Types
  <2> QED
    BY <2>1 DEF InHand
<1>4. \A q, x \in Ports : \A i \in Nat : Queued(q, i, x)' <=> Queued(q, i, x)
  BY <1>1 DEF Queued
<1>5. e \in Ports =>
        /\ \A u \in Threads : ~ InHand(u, e) /\ e \notin dying[u]
        /\ \A q \in Ports : \A i \in Nat : ~ Queued(q, i, e)
  BY <1>1, <1>2 DEF Places, Moving
<1>6. Types'
  BY <1>1 DEF Places, Types, LoopWithout
<1>7. Moving'
  BY <1>1, <1>3, <1>4 DEF Places, Moving
<1>8. OneHolder'
  <2>1. OneHand'
    BY <1>3, <1>5 DEF Places, OneHolder, OneHand
  <2>2. OneDeath'
    BY <1>1, <1>3, <1>5 DEF Places, OneHolder, OneDeath
  <2>3. QueueAlone'
    BY <1>1, <1>3, <1>4, <1>5 DEF Places, OneHolder, QueueAlone
  <2>4. OneQueue'
    BY <1>4 DEF Places, OneHolder, OneQueue
  <2> QED
    BY <2>1, <2>2, <2>3, <2>4 DEF OneHolder
<1>9. Owning'
  <2>1. OwnedLive'
    BY <1>1, <1>2 DEF Places, Owning, OwnedLive, Types
  <2>2. RunsOwned'
    <3> SUFFICES ASSUME NEW u \in Threads, running'[u] \in Ports
                 PROVE  place'[running'[u]] = u
      BY DEF RunsOwned
    <3>1. running'[u] = running[u] /\ place[running[u]] = u
      BY <1>1, PlacesAssumption DEF Places, Owning, RunsOwned, Types,
         LoopWithout
    <3>2. running[u] # e
      BY <1>1, <3>1, PlacesAssumption DEF LoopWithout, Places, Types
    <3> QED
      BY <1>1, <3>1, <3>2 DEF Places, Types
  <2>3. InOneCall'
    <3>1. hand'[t] = {[from |-> p, port |-> e]}
          /\ \A u \in Threads : u # t => hand'[u] = hand[u]
      BY <1>1 DEF Places, Types
    <3> QED
      BY <1>1, <3>1 DEF Places, Owning, InOneCall
  <2> QED
    BY <2>1, <2>2, <2>3 DEF Owning
<1>10. Siblings'
  BY <1>1 DEF Places, Siblings
<1> QED
  BY <1>6, <1>7, <1>8, <1>9, <1>10 DEF Places


LEMMA PostPlaces ==
  ASSUME Places, NEW t \in Threads, PostMessage(t)
  PROVE  Places'
<1>1. PICK m \in hand[t] :
        LET p == m.from
            e == m.port
            s == sibling[p]
        IN  \/ /\ Dropped(p, e)
               /\ dying' = [dying EXCEPT ![t] = {e} \ {"none"}]
               /\ UNCHANGED <<incoming, signalled, sent>>
            \/ /\ ~ Dropped(p, e)
               /\ sent' = [sent EXCEPT ![s] = @ + 1]
               /\ incoming' = [incoming EXCEPT ![s] =
                                 EndOfQueue(@, [n |-> sent[s] + 1, port |-> e])]
               /\ signalled' = signalled \cup Woken(s)
               /\ UNCHANGED dying
  BY DEF PostMessage
<1> DEFINE p == m.from
           e == m.port
           s == sibling[p]
<1>2. /\ hand' = [hand EXCEPT ![t] = {}]
      /\ UNCHANGED <<sibling, place, receiving, closing, running>>
  BY DEF PostMessage
<1>3. /\ p \in Ports /\ e \in Ports \cup {"none"} /\ InHand(t, e)
      /\ dying[t] = {} /\ "none" \notin Ports
  <2>1. m \in [from : Ports, port : Ports \cup {"none"}]
    BY DEF Places, Types
  <2>2. dying[t] = {}
    BY DEF Places, Owning, InOneCall
  <2>3. InHand(t, e)
    BY DEF InHand
  <2> QED
    BY <2>1, <2>2, <2>3, PlacesAssumption
<1> HIDE DEF p, e, s
<1>4. \A u \in Threads, x \in Ports : InHand(u, x)' => InHand(u, x) /\ u # t
  BY <1>2 DEF InHand, Places, Types
<1>5. e \in Ports => place[e] = "moving"
  BY <1>3 DEF Places, Moving
<1>6. CASE Dropped(p, e)
  <2>1. /\ dying' = [dying EXCEPT ![t] = {e} \ {"none"}]
        /\ UNCHANGED <<incoming, signalled, sent>>
    BY <1>1, <1>6 DEF p, e, s
  <2>2. \A u \in Threads, x \in Ports :
           x \in dying'[u] => x \in dying[u] \/ (u = t /\ x = e)
    BY <2>1 DEF Places, Types
  <2>3. \A q, x \in Ports : \A i \in Nat : Queued(q, i, x)' <=> Queued(q, i, x)
    BY <2>1 DEF Queued
  <2>4. Types'
    BY <1>2, <1>3, <2>1 DEF Places, Types
  <2>5. Moving'
    BY <1>2, <1>4, <1>5, <2>2, <2>3 DEF Places, Moving
  <2>6. OneHand'
    BY <1>4 DEF Places, OneHolder, OneHand
  <2>7. OneDeath'
    BY <1>3, <1>4, <2>2 DEF Places, OneHolder, OneDeath, OneHand
  <2>8. QueueAlone'
    BY <1>3, <1>4, <2>2, <2>3 DEF Places, OneHolder, QueueAlone
  <2>9. OneQueue'
    BY <2>3 DEF Places, OneHolder, OneQueue
  <2>10. Owning'
    <3>1. \A u \in Threads : /\ hand'[u] = IF u = t THEN {} ELSE hand[u]
                             /\ u # t => dying'[u] = dying[u]
      BY <1>2, <2>1 DEF Places, Types
    <3>2. InOneCall'
      BY <3>1 DEF Places, Owning, InOneCall
    <3> QED
      BY <1>2, <2>1, <3>2 DEF Places, Owning, OwnedLive, RunsOwned
  <2>11. Siblings'
    BY <1>2 DEF Places, Siblings
  <2> QED
    BY <2>4, <2>5, <2>6, <2>7, <2>8, <2>9, <2>10, <2>11 DEF Places, OneHolder
<1>7. CASE ~ Dropped(p, e)
  <2> DEFINE msg == [n |-> sent[s] + 1, port |-> e]
             after == Append(incoming[s], msg)
  <2>1. /\ s \in Ports /\ s # "none"
        /\ sent' = [sent EXCEPT ![s] = @ + 1]
        /\ incoming' = [incoming EXCEPT ![s] = after]
        /\ signalled' = signalled \cup Woken(s)
        /\ UNCHANGED dying
    BY <1>1, <1>3, <1>7 DEF p, e, s, Dropped, EndOfQueue, Places, Types
  <2>2. msg \in Msg /\ msg.port = e
    BY <1>3, <2>1 DEF Msg, Places, Types
  <2>3. /\ after \in Seq(Msg) /\ Len(after) = Len(incoming[s]) + 1
        /\ \A i \in 1 .. Len(incoming[s]) : after[i] = incoming[s][i]
        /\ after[Len(incoming[s]) + 1] = msg
    BY <2>1, <2>2, Adding DEF Places
  <2> HIDE DEF msg, after
  <2>4. /\ incoming'[s] = after
        /\ \A q \in Ports : q # s => incoming'[q] = incoming[q]
    BY <2>1 DEF Places, Types
  <2>5. Len(incoming[s]) \in Nat
    BY <2>1, QueueFacts DEF Places
  <2>6. \A q, x \in Ports : \A i \in Nat :
           Queued(q, i, x)' => \/ Queued(q, i, x)
                               \/ q = s /\ i = Len(incoming[s]) + 1 /\ x = e
    <3> SUFFICES ASSUME NEW q \in Ports, NEW x \in Ports, NEW i \in Nat,
                        Queued(q, i, x)'
                 PROVE  \/ Queued(q, i, x)
                        \/ q = s /\ i = Len(incoming[s]) + 1 /\ x = e
      OBVIOUS
    <3>1. CASE q # s
      BY <2>4, <3>1 DEF Queued
    <3>2. CASE q = s /\ i \in 1 .. Len(incoming[s])
      BY <2>3, <2>4, <3>2 DEF Queued
    <3>3. CASE q = s /\ i \notin 1 .. Len(incoming[s])
      <4>1. i = Len(incoming[s]) + 1 /\ after[i].port = x
        BY <2>3, <2>4, <2>5, <3>3 DEF Queued
      <4> QED
        BY <2>2, <2>3, <3>3, <4>1
    <3> QED
      BY <3>1, <3>2, <3>3
  <2>7. Types'
    BY <1>2, <1>3, <2>1, <2>3, Woken1 DEF Places, Types
  <2>8. Moving'
    BY <1>2, <1>4, <1>5, <2>1, <2>6 DEF Places, Moving
  <2>9. OneHand'
    BY <1>4 DEF Places, OneHolder, OneHand
  <2>10. OneDeath'
    BY <1>4, <2>1 DEF Places, OneHolder, OneDeath
  <2>11. QueueAlone'
    BY <1>3, <1>4, <2>1, <2>6 DEF Places, OneHolder, QueueAlone, OneHand,
       OneDeath
  <2>12. OneQueue'
    BY <1>3, <2>6 DEF Places, OneHolder, OneQueue, QueueAlone
  <2>13. Owning'
    <3>1. \A u \in Threads : hand'[u] = IF u = t THEN {} ELSE hand[u]
      BY <1>2 DEF Places, Types
    <3>2. InOneCall'
      BY <2>1, <3>1 DEF Places, Owning, InOneCall
    <3>3. OwnedLive'
      BY <1>2, <2>1, Woken1 DEF Places, Owning, OwnedLive
    <3> QED
      BY <1>2, <3>2, <3>3 DEF Places, Owning, RunsOwned
  <2>14. Siblings'
    BY <1>2 DEF Places, Siblings
  <2> QED
    BY <2>7, <2>8, <2>9, <2>10, <2>11, <2>12, <2>13, <2>14
       DEF Places, OneHolder
<1> QED
  BY <1>6, <1>7

(* A port that no one else has goes to its end.                            *)
LEMMA DyingPlaces ==
  ASSUME Places, NEW t \in Threads, NEW e \in Ports, place[e] = t,
         dying[t] = {}, hand[t] = {},
         place' = [place EXCEPT ![e] = "moving"],
         dying' = [dying EXCEPT ![t] = {e}],
         receiving' = receiving \ {e}, closing' = closing \ {e},
         signalled' = signalled \ {e},
         running' \in [Threads -> Ports \cup {"none", "detached"}],
         running'[t] # e,
         \A u \in Threads : running'[u] \in Ports => running'[u] = running[u],
         UNCHANGED <<sibling, incoming, hand, sent>>
  PROVE  Places'
<1>1. t \notin {"moving", "gone"}
  BY PlacesAssumption
<1>2. \A u \in Threads : ~ InHand(u, e) /\ e \notin dying[u]
  BY <1>1 DEF Places, Moving
<1>3. \A q \in Ports : \A i \in Nat : ~ Queued(q, i, e)
  BY <1>1 DEF Places, Moving
<1>4. \A u \in Threads, x \in Ports :
         /\ InHand(u, x)' <=> InHand(u, x)
         /\ x \in dying'[u] => x \in dying[u] \/ (u = t /\ x = e)
  BY DEF InHand, Places, Types
<1>5. \A q, x \in Ports : \A i \in Nat : Queued(q, i, x)' <=> Queued(q, i, x)
  BY DEF Queued
<1>6. Types'
  BY DEF Places, Types
<1>7. Moving'
  BY <1>2, <1>3, <1>4, <1>5 DEF Places, Moving, Types
<1>8. OneHand'
  BY <1>4 DEF Places, OneHolder, OneHand
<1>9. OneDeath'
  BY <1>2, <1>4 DEF Places, OneHolder, OneDeath
<1>10. QueueAlone'
  BY <1>3, <1>4, <1>5 DEF Places, OneHolder, QueueAlone
<1>11. OneQueue'
  BY <1>5 DEF Places, OneHolder, OneQueue
<1>12. Owning'
  <2>1. OwnedLive'
    BY DEF Places, Owning, OwnedLive, Types
  <2>2. RunsOwned'
    <3> SUFFICES ASSUME NEW u \in Threads, running'[u] \in Ports
                 PROVE  place'[running'[u]] = u
      BY DEF RunsOwned
    <3>1. running'[u] = running[u] /\ place[running[u]] = u
      BY DEF Places, Owning, RunsOwned
    <3>2. running[u] # e
      BY <3>1
    <3> QED
      BY <3>1, <3>2 DEF Places, Types
  <2>3. InOneCall'
    BY DEF Places, Owning, InOneCall, Types
  <2> QED
    BY <2>1, <2>2, <2>3 DEF Owning
<1>13. Siblings'
  BY DEF Places, Siblings, Types
<1> QED
  BY <1>6, <1>7, <1>8, <1>9, <1>10, <1>11, <1>12, <1>13 DEF Places, OneHolder

-----------------------------------------------------------------------------
(* Places: taking messages *)

(* What is known when t may take the first message of p.                   *)
CanTake(t, p) == /\ t \in Threads /\ p \in Ports /\ place[p] = t
                 /\ hand[t] = {} /\ dying[t] = {}

(* A thread returns from its handlers.                                     *)
LEMMA StopRuns ==
  ASSUME Types, RunsOwned, NEW t \in Threads, UNCHANGED place,
         UNCHANGED running \/ running' = [running EXCEPT ![t] = "none"]
  PROVE  RunsOwned'
<1> SUFFICES ASSUME NEW u \in Threads, running'[u] \in Ports
             PROVE  place'[running'[u]] = u
  BY DEF RunsOwned
<1>1. running'[u] = running[u] \/ running'[u] = "none"
  BY DEF Types
<1> QED
  BY <1>1, PlacesAssumption DEF RunsOwned

LEMMA TakeQueues ==
  ASSUME Places, NEW p \in Ports, incoming[p] # <<>>,
         incoming' = [incoming EXCEPT ![p] = Tail(@)]
  PROVE  /\ incoming' \in [Ports -> Seq(Msg)]
         /\ OneQueue'
         /\ \A x, q \in Ports : \A i \in Nat :
              Queued(q, i, x)' =>
                /\ x # Head(incoming[p]).port
                /\ \E j \in Nat : Queued(q, j, x)
         /\ \A x \in Carried({Head(incoming[p])}) :
              /\ x \in Ports /\ x = Head(incoming[p]).port
              /\ place[x] = "moving"
              /\ \E j \in Nat : Queued(p, j, x)
<1>1. /\ incoming' \in [Ports -> Seq(Msg)]
      /\ Head(incoming[p]) \in Msg /\ Head(incoming[p]) = incoming[p][1]
      /\ \A q, e \in Ports : \A i \in Nat :
           Queued(q, i, e)' => Queued(q, IF q = p THEN i + 1 ELSE i, e)
  BY Taking DEF Places
<1>2. Len(incoming[p]) \in Nat \ {0}
  BY QueueFacts DEF Places
<1>3. Queued(p, 1, Head(incoming[p]).port)
  BY <1>1, <1>2 DEF Queued
<1>4. ASSUME NEW x \in Ports, NEW q \in Ports, NEW i \in Nat, Queued(q, i, x)'
      PROVE  x # Head(incoming[p]).port /\ \E j \in Nat : Queued(q, j, x)
  <2> DEFINE j == IF q = p THEN i + 1 ELSE i
  <2>1. j \in Nat /\ Queued(q, j, x)
    BY <1>1, <1>4
  <2>2. i \in Nat \ {0}
    BY <1>4 DEF Queued
  <2>3. q # p \/ j # 1
    BY <2>2
  <2> HIDE DEF j
  <2>4. x # Head(incoming[p]).port
    BY <1>3, <2>1, <2>3 DEF Places, OneHolder, OneQueue
  <2> QED
    BY <2>1, <2>4
<1>5. OneQueue'
  <2> SUFFICES ASSUME NEW e \in Ports, NEW q \in Ports, NEW r \in Ports,
                      NEW k \in Nat, NEW l \in Nat,
                      Queued(q, k, e)', Queued(r, l, e)'
               PROVE  q = r /\ k = l
    BY DEF OneQueue
  <2>1. /\ Queued(q, IF q = p THEN k + 1 ELSE k, e)
        /\ Queued(r, IF r = p THEN l + 1 ELSE l, e)
    BY <1>1
  <2>2. q = r /\ (IF q = p THEN k + 1 ELSE k) = (IF r = p THEN l + 1 ELSE l)
    BY <2>1 DEF Places, OneHolder, OneQueue
  <2> QED
    BY <2>2
<1>6. ASSUME NEW x \in Carried({Head(incoming[p])})
      PROVE  /\ x \in Ports /\ x = Head(incoming[p]).port
             /\ place[x] = "moving"
             /\ \E j \in Nat : Queued(p, j, x)
  <2>1. x = Head(incoming[p]).port /\ x # "none"
    BY DEF Carried
  <2>2. x \in Ports
    BY <1>1, <2>1 DEF Msg
  <2> QED
    BY <1>3, <2>1, <2>2 DEF Places, Moving
<1> QED
  BY <1>1, <1>4, <1>5, <1>6

(* The port that a message has is adopted by t.                            *)
LEMMA AdoptPlaces ==
  ASSUME Places, NEW t, NEW p, CanTake(t, p),
         NEW signals \in SUBSET signalled, Taken(p), Adopt(t, p, signals),
         UNCHANGED <<sibling, receiving, closing, hand, sent>>,
         \/ UNCHANGED running
         \/ \E r \in {p, "none"} : running' = [running EXCEPT ![t] = r]
  PROVE  Places'
<1> DEFINE new == Carried({Head(incoming[p])})
<1>1. /\ incoming[p] # <<>> /\ incoming' = [incoming EXCEPT ![p] = Tail(@)]
      /\ place' = [q \in Ports |-> IF q \in new THEN t ELSE place[q]]
      /\ signalled' = signals \cup new
      /\ UNCHANGED <<sibling, receiving, closing, hand, dying, sent>>
  BY DEF Adopt, Taken
<1>2. /\ t \in Threads /\ p \in Ports /\ place[p] = t
      /\ t \notin {"moving", "gone"}
  BY PlacesAssumption DEF CanTake
<1>3. /\ incoming' \in [Ports -> Seq(Msg)]
      /\ OneQueue'
      /\ \A x, q \in Ports : \A i \in Nat :
           Queued(q, i, x)' => x \notin new /\ \E j \in Nat : Queued(q, j, x)
      /\ \A x \in new : /\ x \in Ports /\ place[x] = "moving"
                        /\ \E j \in Nat : Queued(p, j, x)
  BY <1>1, <1>2, TakeQueues
<1> HIDE DEF new
<1>4. \A u \in Threads, x \in Ports : InHand(u, x)' <=> InHand(u, x)
  BY <1>1 DEF InHand
<1>5. \A u \in Threads, x \in new : ~ InHand(u, x) /\ x \notin dying[u]
  BY <1>2, <1>3 DEF Places, OneHolder, QueueAlone
<1>6. PICK r \in {running[t], p, "none"} : running' = [running EXCEPT ![t] = r]
  BY <1>2 DEF Places, Types
<1>7. /\ running' \in [Threads -> Ports \cup {"none", "detached"}]
      /\ \A u \in Threads : u # t => running'[u] = running[u]
      /\ running'[t] = r
  BY <1>2, <1>6 DEF Places, Types
<1>8. Types'
  BY <1>1, <1>2, <1>3, <1>7 DEF Places, Types
<1>9. Moving'
  BY <1>1, <1>3, <1>4, <1>5 DEF Places, Moving
<1>10. OneHand' /\ OneDeath'
  BY <1>1, <1>4 DEF Places, OneHolder, OneHand, OneDeath
<1>11. QueueAlone'
  BY <1>1, <1>3, <1>4 DEF Places, OneHolder, QueueAlone
<1>12. OwnedLive'
  BY <1>1, <1>2, <1>3, PlacesAssumption DEF Places, Owning, OwnedLive, Types
<1>13. RunsOwned'
  <2> SUFFICES ASSUME NEW u \in Threads, running'[u] \in Ports
               PROVE  place'[running'[u]] = u
    BY DEF RunsOwned
  <2>1. place[running'[u]] = u
    <3>1. CASE running'[u] = running[u]
      BY <3>1 DEF Places, Owning, RunsOwned
    <3>2. CASE running'[u] # running[u]
      BY <1>2, <1>6, <1>7, <3>2, PlacesAssumption
    <3> QED
      BY <3>1, <3>2
  <2>2. u # "moving"
    BY PlacesAssumption
  <2> QED
    BY <1>1, <1>3, <2>1, <2>2
<1>14. InOneCall' /\ Siblings'
  BY <1>1, <1>2 DEF Places, Owning, InOneCall, Siblings, Types
<1> QED
  BY <1>3, <1>8, <1>9, <1>10, <1>11, <1>12, <1>13, <1>14
     DEF Places, OneHolder, Owning

LEMMA TakeMessagePlaces ==
  ASSUME Places, NEW t, NEW p, CanTake(t, p),
         NEW signals \in SUBSET signalled, TakeMessage(t, p, signals),
         UNCHANGED running \/ running' = [running EXCEPT ![t] = p]
  PROVE  Places'
BY AdoptPlaces DEF TakeMessage

(* The port that a message has is destroyed with it.                       *)
LEMMA DropMessagePlaces ==
  ASSUME Places, NEW t, NEW p, CanTake(t, p),
         NEW signals \in SUBSET signalled, Taken(p), signalled' = signals,
         dying' = [dying EXCEPT ![t] = Carried({Head(incoming[p])})],
         UNCHANGED <<sibling, place, receiving, closing, hand, sent>>,
         UNCHANGED running \/ running' = [running EXCEPT ![t] = "none"]
  PROVE  Places'
<1> DEFINE new == Carried({Head(incoming[p])})
<1>1. /\ incoming[p] # <<>> /\ incoming' = [incoming EXCEPT ![p] = Tail(@)]
      /\ dying' = [dying EXCEPT ![t] = new]
      /\ signalled' = signals
      /\ UNCHANGED <<sibling, place, receiving, closing, hand, sent>>
  BY DEF Taken
<1>2. /\ t \in Threads /\ p \in Ports /\ place[p] = t
      /\ dying[t] = {} /\ hand[t] = {} /\ "none" \notin Ports
  BY PlacesAssumption DEF CanTake
<1>3. /\ incoming' \in [Ports -> Seq(Msg)]
      /\ OneQueue'
      /\ \A x, q \in Ports : \A i \in Nat :
           Queued(q, i, x)' => x \notin new /\ \E j \in Nat : Queued(q, j, x)
      /\ \A x \in new : /\ x \in Ports /\ place[x] = "moving"
                        /\ \E j \in Nat : Queued(p, j, x)
  BY <1>1, <1>2, TakeQueues
<1> HIDE DEF new
<1>4. \A u \in Threads : \A x \in Ports :
        /\ InHand(u, x)' <=> InHand(u, x)
        /\ x \in dying'[u] <=> IF u = t THEN x \in new ELSE x \in dying[u]
  BY <1>1, <1>3 DEF InHand, Places, Types
<1>5. \A u \in Threads, x \in new : ~ InHand(u, x) /\ x \notin dying[u]
  BY <1>2, <1>3 DEF Places, OneHolder, QueueAlone
<1>6. Types'
  BY <1>1, <1>2, <1>3 DEF Places, Types
<1>7. Moving'
  BY <1>1, <1>3, <1>4 DEF Places, Moving
<1>8. OneHand' /\ OneDeath'
  BY <1>4, <1>5 DEF Places, OneHolder, OneHand, OneDeath
<1>9. QueueAlone'
  BY <1>3, <1>4 DEF Places, OneHolder, QueueAlone
<1>10. OwnedLive' /\ RunsOwned'
  BY <1>1, <1>2 DEF Places, Owning, OwnedLive, RunsOwned, Types
<1>11. InOneCall'
  <2>1. \A u \in Threads : dying'[u] = IF u = t THEN new ELSE dying[u]
    BY <1>1 DEF Places, Types
  <2> QED
    BY <1>1, <1>2, <2>1 DEF Places, Owning, InOneCall
<1>12. Siblings'
  BY <1>1 DEF Places, Siblings
<1> QED
  BY <1>3, <1>6, <1>7, <1>8, <1>9, <1>10, <1>11, <1>12
     DEF Places, OneHolder, Owning

LEMMA LoseMessagePlaces ==
  ASSUME Places, NEW t, NEW p, CanTake(t, p),
         NEW signals \in SUBSET signalled, LoseMessage(t, p, signals),
         UNCHANGED running \/ running' = [running EXCEPT ![t] = "none"]
  PROVE  Places'
BY AdoptPlaces, DropMessagePlaces DEF LoseMessage

LEMMA TakeClosePlaces ==
  ASSUME Places, NEW t, NEW p, CanTake(t, p),
         NEW signals \in SUBSET signalled, TakeClose(t, p, signals),
         UNCHANGED running \/ running' = [running EXCEPT ![t] = "none"]
  PROVE  Places'
<1>1. /\ incoming[p] # <<>> /\ incoming' = [incoming EXCEPT ![p] = Tail(@)]
      /\ closing' = closing \cup {p} /\ signalled' = signals \ {p}
      /\ UNCHANGED <<sibling, place, receiving, hand, dying, sent>>
  BY DEF TakeClose, history
<1>2. t \in Threads /\ p \in Ports /\ place[p] = t /\ "none" \notin Ports
  BY PlacesAssumption DEF CanTake
<1>3. /\ incoming' \in [Ports -> Seq(Msg)]
      /\ OneQueue'
      /\ \A x, q \in Ports : \A i \in Nat :
           Queued(q, i, x)' => \E j \in Nat : Queued(q, j, x)
  BY <1>1, <1>2, TakeQueues
<1>4. \A u \in Threads, x \in Ports : InHand(u, x)' <=> InHand(u, x)
  BY <1>1 DEF InHand
<1>5. Types'
  BY <1>1, <1>2, <1>3 DEF Places, Types
<1>6. Moving'
  BY <1>1, <1>3, <1>4 DEF Places, Moving
<1>7. OneHand' /\ OneDeath' /\ QueueAlone'
  BY <1>1, <1>3, <1>4 DEF Places, OneHolder, OneHand, OneDeath, QueueAlone
<1>8. OwnedLive'
  BY <1>1, <1>2, PlacesAssumption DEF Places, Owning, OwnedLive, Types
<1>9. RunsOwned'
  BY <1>1, <1>2, StopRuns DEF Places, Owning
<1>10. InOneCall' /\ Siblings'
  BY <1>1 DEF Places, Owning, InOneCall, Siblings
<1> QED
  BY <1>3, <1>5, <1>6, <1>7, <1>8, <1>9, <1>10 DEF Places, OneHolder, Owning

LEMMA IteratePlaces ==
  ASSUME Places, NEW t, NEW p, CanTake(t, p),
         NEW signals \in SUBSET signalled, Iterate(t, p, signals)
  PROVE  Places'
<1>1. CASE ~ Wants(p)
  <2>1. /\ running' = [running EXCEPT ![t] = "none"] /\ signalled' = signals
        /\ UNCHANGED <<sibling, incoming, place, receiving, closing, hand,
                       dying, sent>>
    BY <1>1 DEF Iterate, history
  <2>2. Types'
    BY <2>1 DEF Places, Types
  <2>3. OwnedLive' /\ InOneCall'
    BY <2>1 DEF Places, Owning, OwnedLive, InOneCall
  <2>4. RunsOwned'
    BY <2>1, StopRuns DEF Places, Owning, CanTake
  <2> QED
    BY <2>1, <2>2, <2>3, <2>4, StillPlaces DEF Places, Owning
<1>2. CASE Wants(p)
  BY <1>2, TakeClosePlaces, TakeMessagePlaces, LoseMessagePlaces DEF Iterate
<1> QED
  BY <1>1, <1>2
-----------------------------------------------------------------------------
(* Places: what owners do to their ports, and the end of a port *)

(* Steps of a thread that leave the data where they are.                   *)
LEMMA OwnerPlaces ==
  ASSUME Places,
         receiving' \subseteq Ports, closing' \subseteq Ports,
         signalled' \subseteq Ports,
         running' \in [Threads -> Ports \cup {"none", "detached"}],
         \A u \in Threads : running'[u] \in Ports => running'[u] = running[u],
         \A q \in receiving' \cup closing' \cup signalled' :
           place[q] \in Threads,
         closing' \cap signalled' = {},
         UNCHANGED <<sibling, incoming, place, hand, dying, sent>>
  PROVE  Places'
<1>1. Types'
  BY DEF Places, Types
<1>2. OwnedLive'
  BY DEF OwnedLive
<1>3. RunsOwned'
  <2> SUFFICES ASSUME NEW u \in Threads, running'[u] \in Ports
               PROVE  place'[running'[u]] = u
    BY DEF RunsOwned
  <2> QED
    BY DEF Places, Owning, RunsOwned
<1>4. InOneCall'
  BY DEF Places, Owning, InOneCall
<1> QED
  BY <1>1, <1>2, <1>3, <1>4, StillPlaces DEF Places, Owning

(* The loop of t without e.                                                *)
LEMMA LoopOut ==
  ASSUME Types, NEW t \in Threads, NEW e \in Ports,
         running' = LoopWithout(t, e)
  PROVE  /\ running' \in [Threads -> Ports \cup {"none", "detached"}]
         /\ running'[t] # e
         /\ \A u \in Threads : running'[u] \in Ports => running'[u] = running[u]
         /\ \A u \in Threads : running[u] # e => running'[u] = running[u]
BY PlacesAssumption DEF LoopWithout, Types

LEMMA PostThroughClosedPlaces ==
  ASSUME Places, NEW t \in Threads, NEW e \in Ports, PostThroughClosed(t, e)
  PROVE  Places'
<1>1. /\ place[e] = t /\ e \notin closing /\ hand[t] = {} /\ dying[t] = {}
      /\ place' = [place EXCEPT ![e] = "moving"]
      /\ receiving' = receiving \ {e} /\ signalled' = signalled \ {e}
      /\ running' = LoopWithout(t, e)
      /\ dying' = [dying EXCEPT ![t] = {e}]
      /\ UNCHANGED <<sibling, incoming, closing, hand, sent>>
  BY DEF PostThroughClosed, RunsProgram, InCpp, history
<1>2. /\ running' \in [Threads -> Ports \cup {"none", "detached"}]
      /\ running'[t] # e
      /\ \A u \in Threads : running'[u] \in Ports => running'[u] = running[u]
  BY <1>1, LoopOut DEF Places
<1>3. closing' = closing \ {e}
  BY <1>1
<1> QED
  BY <1>1, <1>2, <1>3, DyingPlaces

LEMMA OnClosePlaces ==
  ASSUME Places, NEW t \in Threads, NEW p \in Ports, OnClose(t, p)
  PROVE  Places'
<1>1. /\ place[p] = t /\ p \in closing /\ hand[t] = {} /\ dying[t] = {}
      /\ running[t] = "none"
      /\ place' = [place EXCEPT ![p] = "moving"]
      /\ receiving' = receiving \ {p} /\ closing' = closing \ {p}
      /\ dying' = [dying EXCEPT ![t] = {p}]
      /\ UNCHANGED <<sibling, incoming, signalled, hand, running, sent>>
  BY DEF OnClose, InLoop, InCpp, history
<1>2. signalled' = signalled \ {p}
  BY <1>1 DEF Places, Owning, OwnedLive
<1>3. /\ running' \in [Threads -> Ports \cup {"none", "detached"}]
      /\ running'[t] # p
      /\ \A u \in Threads : running'[u] \in Ports => running'[u] = running[u]
  BY <1>1, PlacesAssumption DEF Places, Types
<1> QED
  BY <1>1, <1>2, <1>3, DyingPlaces

LEMMA MoveToContextPlaces ==
  ASSUME Places, NEW t \in Threads, NEW p \in Ports, MoveToContext(t, p)
  PROVE  Places'
<1>1. /\ place[p] = t /\ p \notin closing
      /\ receiving' = receiving \ {p} /\ signalled' = signalled \cup {p}
      /\ running' = LoopWithout(t, p)
      /\ UNCHANGED <<sibling, incoming, place, closing, hand, dying, sent>>
  BY DEF MoveToContext, history
<1>2. /\ running' \in [Threads -> Ports \cup {"none", "detached"}]
      /\ \A u \in Threads : running'[u] \in Ports => running'[u] = running[u]
  BY <1>1, LoopOut DEF Places
<1>3. /\ receiving' \subseteq Ports /\ closing' \subseteq Ports
      /\ signalled' \subseteq Ports
      /\ closing' \cap signalled' = {}
      /\ \A q \in receiving' \cup closing' \cup signalled' :
           place[q] \in Threads
  BY <1>1 DEF Places, Types, Owning, OwnedLive
<1> QED
  BY <1>1, <1>2, <1>3, OwnerPlaces

LEMMA OwnerStepPlaces ==
  ASSUME Places, NEW t \in Threads, NEW p \in Ports,
         Start(t, p) \/ Stop(t, p) \/ ClosePort(t, p)
  PROVE  Places'
<1>1. /\ place[p] = t
      /\ receiving' \subseteq receiving \cup {p}
      /\ \/ UNCHANGED closing /\ signalled' \subseteq signalled \cup Woken(p)
         \/ closing' = closing \cup {p} /\ signalled' = signalled \ {p}
      /\ UNCHANGED <<sibling, incoming, place, hand, running, dying, sent>>
  BY DEF Start, Stop, ClosePort, WokenByStart, history
<1>2. /\ running' \in [Threads -> Ports \cup {"none", "detached"}]
      /\ \A u \in Threads : running'[u] \in Ports => running'[u] = running[u]
  BY <1>1 DEF Places, Types
<1>3. /\ receiving' \subseteq Ports /\ closing' \subseteq Ports
      /\ signalled' \subseteq Ports
      /\ closing' \cap signalled' = {}
      /\ \A q \in receiving' \cup closing' \cup signalled' :
           place[q] \in Threads
  BY <1>1, Woken1 DEF Places, Types, Owning, OwnedLive
<1> QED
  BY <1>1, <1>2, <1>3, OwnerPlaces

LEMMA HandlerThrowsPlaces ==
  ASSUME Places, NEW t \in Threads, HandlerThrows(t)
  PROVE  Places'
<1>1. /\ running[t] \in Ports \cup {"detached"}
      /\ running' = [running EXCEPT ![t] = "none"]
      /\ \/ signalled' = signalled
         \/ running[t] \in Ports
            /\ signalled' = signalled \cup Woken(running[t])
      /\ UNCHANGED <<sibling, incoming, place, receiving, closing, hand, dying,
                     sent>>
  BY DEF HandlerThrows, Rescheduled, history
<1>2. /\ running' \in [Threads -> Ports \cup {"none", "detached"}]
      /\ \A u \in Threads : running'[u] \in Ports => running'[u] = running[u]
  BY <1>1, PlacesAssumption DEF Places, Types
<1>3. /\ receiving' \subseteq Ports /\ closing' \subseteq Ports
      /\ signalled' \subseteq Ports
      /\ closing' \cap signalled' = {}
      /\ \A q \in receiving' \cup closing' \cup signalled' :
           place[q] \in Threads
  BY <1>1, Woken1 DEF Places, Types, Owning, OwnedLive
<1> QED
  BY <1>1, <1>2, <1>3, OwnerPlaces

LEMMA TeardownPlaces ==
  ASSUME Places, NEW t \in Threads, Teardown(t)
  PROVE  Places'
<1>1. /\ closing' = closing \cup Owned(t) /\ signalled' = signalled \ Owned(t)
      /\ running' = [running EXCEPT ![t] = "none"]
      /\ UNCHANGED <<sibling, incoming, place, receiving, hand, dying, sent>>
  BY DEF Teardown, history
<1>2. /\ running' \in [Threads -> Ports \cup {"none", "detached"}]
      /\ \A u \in Threads : running'[u] \in Ports => running'[u] = running[u]
  BY <1>1, PlacesAssumption DEF Places, Types
<1>3. /\ receiving' \subseteq Ports /\ closing' \subseteq Ports
      /\ signalled' \subseteq Ports
      /\ closing' \cap signalled' = {}
      /\ \A q \in receiving' \cup closing' \cup signalled' :
           place[q] \in Threads
  BY <1>1 DEF Places, Types, Owning, OwnedLive, Owned
<1> QED
  BY <1>1, <1>2, <1>3, OwnerPlaces

LEMMA HandlerReturnsPlaces ==
  ASSUME Places, NEW t \in Threads, HandlerReturns(t)
  PROVE  Places'
<1>1. CASE \E p \in Ports : running[t] = p /\ Iterate(t, p, signalled)
  <2>1. PICK p \in Ports : running[t] = p /\ Iterate(t, p, signalled)
    BY <1>1
  <2>2. CanTake(t, p)
    BY <2>1 DEF HandlerReturns, RunsProgram, InCpp, CanTake, Places, Owning,
       RunsOwned
  <2> QED
    BY <2>1, <2>2, IteratePlaces
<1>2. CASE ~ \E p \in Ports : running[t] = p /\ Iterate(t, p, signalled)
  <2>1. /\ running' = [running EXCEPT ![t] = "none"]
        /\ UNCHANGED <<sibling, incoming, place, owned, hand, dying, sent>>
    BY <1>2 DEF HandlerReturns, history
  <2>2. /\ running' \in [Threads -> Ports \cup {"none", "detached"}]
        /\ \A u \in Threads : running'[u] \in Ports => running'[u] = running[u]
    BY <2>1, PlacesAssumption DEF Places, Types
  <2> QED
    BY <2>1, <2>2, OwnerPlaces DEF Places, Types, Owning, OwnedLive, owned
<1> QED
  BY <1>1, <1>2

LEMMA TakePlaces ==
  ASSUME Places, NEW t \in Threads, NEW p \in Ports,
         OnMessage(t, p) \/ Drain(t, p) \/ ReceiveMessageOnPort(t, p)
  PROVE  Places'
<1>1. CanTake(t, p)
  BY DEF OnMessage, Drain, ReceiveMessageOnPort, CanTake, InLoop, RunsProgram,
     InCpp
<1>2. signalled \ {p} \in SUBSET signalled /\ signalled \in SUBSET signalled
  OBVIOUS
<1> QED
  BY <1>1, <1>2, IteratePlaces, TakeClosePlaces, TakeMessagePlaces,
     LoseMessagePlaces DEF OnMessage, Drain, ReceiveMessageOnPort

(* What Disentangle(t, p) does, element by element.                        *)
LEMMA DisentangleFacts ==
  ASSUME Places, NEW t \in Threads, NEW p \in Ports, Disentangle(t, p)
  PROVE  /\ p \in dying[t] /\ place[p] = "moving" /\ hand[t] = {}
         /\ \A q \in Ports : sibling'[q] = IF q = p \/ q = sibling[p]
                                           THEN "none" ELSE sibling[q]
         /\ sibling' \in [Ports -> Ports \cup {"none"}]
         /\ incoming'[p] = <<>>
         /\ \A q \in Ports \ {p} :
              IF q = sibling[p] THEN incoming'[q] = Append(incoming[q], Close)
                                ELSE incoming'[q] = incoming[q]
         /\ incoming' \in [Ports -> Seq(Msg)]
         /\ \A q \in Ports : place'[q] = IF q = p THEN "gone" ELSE place[q]
         /\ \A u \in Threads : \A x \in Ports :
              x \in dying'[u] <=> \/ x \in dying[u] \ {p}
                                  \/ u = t /\ \E i \in Nat : Queued(p, i, x)
         /\ dying' \in [Threads -> SUBSET Ports]
         /\ signalled' \subseteq Ports
         /\ \A q \in signalled' \ signalled :
              place[q] \in Threads /\ q \notin closing
         /\ sibling[p] \in Ports => Woken(sibling[p]) \subseteq signalled'
         /\ signalled \subseteq signalled'
         /\ UNCHANGED <<receiving, closing, hand, running, sent>>
<1>1. /\ p \in dying[t]
      /\ sibling' = [q \in Ports |-> IF q \in {p, sibling[p]} THEN "none"
                                                              ELSE sibling[q]]
      /\ incoming' = [q \in Ports |-> CASE q = p -> <<>>
                                        [] q \in SiblingTold(p) ->
                                                 EndOfQueue(incoming[q], Close)
                                        [] OTHER -> incoming[q]]
      /\ signalled' = signalled \cup UNION {Woken(q) : q \in SiblingTold(p)}
      /\ place' = [place EXCEPT ![p] = "gone"]
      /\ dying' = [dying EXCEPT ![t] = (@ \ {p}) \cup Carried(InQueue(p))]
      /\ UNCHANGED <<receiving, closing, hand, running, sent>>
  BY DEF Disentangle, Unlinked, history
<1>2. place[p] = "moving" /\ hand[t] = {}
  BY <1>1 DEF Places, Moving, Owning, InOneCall
<1>3. /\ sibling[p] \in Ports \cup {"none"} /\ sibling[p] # p
      /\ "none" \notin Ports
  BY PlacesAssumption DEF Places, Types, Siblings
<1>4. SiblingTold(p) = IF sibling[p] = "none" THEN {} ELSE {sibling[p]}
  BY DEF SiblingTold
<1>5. /\ \A q \in Ports : sibling'[q] = IF q = p \/ q = sibling[p]
                                        THEN "none" ELSE sibling[q]
      /\ sibling' \in [Ports -> Ports \cup {"none"}]
  BY <1>1 DEF Places, Types
<1>6. \A q \in Ports \ {p} : q \in SiblingTold(p) <=> q = sibling[p]
  BY <1>3, <1>4
<1>7. incoming'[p] = <<>>
  BY <1>1, <1>3, <1>4
<1>8. \A q \in Ports \ {p} : IF q = sibling[p]
                             THEN incoming'[q] = Append(incoming[q], Close)
                             ELSE incoming'[q] = incoming[q]
  BY <1>1, <1>6 DEF EndOfQueue
<1>9. incoming' \in [Ports -> Seq(Msg)]
  <2>1. Close \in Msg
    BY DEF Close, Msg
  <2>2. \A q \in Ports : incoming[q] \in Seq(Msg)
                         /\ Append(incoming[q], Close) \in Seq(Msg)
    BY <2>1, Adding, QueueFacts DEF Places
  <2>3. <<>> \in Seq(Msg)
    BY EmptySeq
  <2>4. \A q \in Ports : incoming'[q] \in Seq(Msg)
    BY <1>7, <1>8, <2>2, <2>3
  <2>5. incoming' = [q \in Ports |-> incoming'[q]]
    BY <1>1
  <2> QED
    BY <2>4, <2>5
<1>10. \A q \in Ports : place'[q] = IF q = p THEN "gone" ELSE place[q]
  BY <1>1 DEF Places, Types
<1>11. \A x \in Ports : x \in Carried(InQueue(p)) <=>
                          \E i \in Nat : Queued(p, i, x)
  <2>1. /\ Len(incoming[p]) \in Nat
        /\ DOMAIN incoming[p] = 1 .. Len(incoming[p])
    BY QueueFacts DEF Places
  <2>2. 1 .. Len(incoming[p]) \subseteq Nat
    BY <2>1
  <2> QED
    BY <1>3, <2>1, <2>2 DEF Carried, InQueue, Queued
<1>12. Carried(InQueue(p)) \subseteq Ports
  <2>1. \A m \in InQueue(p) : m \in Msg
    BY QueueFacts DEF InQueue, Places
  <2> QED
    BY <2>1 DEF Carried, Msg
<1>13. /\ \A u \in Threads : \A x \in Ports :
            x \in dying'[u] <=> \/ x \in dying[u] \ {p}
                                \/ u = t /\ \E i \in Nat : Queued(p, i, x)
       /\ dying' \in [Threads -> SUBSET Ports]
  <2>1. \A u \in Threads : dying'[u] = IF u = t
                             THEN (dying[t] \ {p}) \cup Carried(InQueue(p))
                             ELSE dying[u]
    BY <1>1 DEF Places, Types
  <2>2. \A u \in Threads : u # t => p \notin dying[u]
    BY <1>1 DEF Places, OneHolder, OneDeath
  <2>3. dying' \in [Threads -> SUBSET Ports]
    BY <1>1, <1>12 DEF Places, Types
  <2> QED
    BY <1>11, <2>1, <2>2, <2>3
<1>14. \A q \in SiblingTold(p) : q \in Ports /\ q = sibling[p]
  BY <1>3, <1>4
<1>15. /\ signalled' \subseteq Ports
       /\ \A q \in signalled' \ signalled :
            place[q] \in Threads /\ q \notin closing
       /\ sibling[p] \in Ports => Woken(sibling[p]) \subseteq signalled'
       /\ signalled \subseteq signalled'
  BY <1>1, <1>3, <1>4, <1>14, Woken1 DEF Places, Types
<1> HIDE DEF Disentangle
<1> QED
  BY <1>1, <1>2, <1>5, <1>7, <1>8, <1>9, <1>10, <1>13, <1>15

LEMMA DisentanglePlaces ==
  ASSUME Places, NEW t \in Threads, NEW p \in Ports, Disentangle(t, p)
  PROVE  Places'
<1>1. /\ p \in dying[t] /\ place[p] = "moving" /\ hand[t] = {}
      /\ \A q \in Ports : sibling'[q] = IF q = p \/ q = sibling[p]
                                        THEN "none" ELSE sibling[q]
      /\ sibling' \in [Ports -> Ports \cup {"none"}]
      /\ incoming' \in [Ports -> Seq(Msg)]
      /\ \A q \in Ports : place'[q] = IF q = p THEN "gone" ELSE place[q]
      /\ \A u \in Threads : \A x \in Ports :
           x \in dying'[u] <=> \/ x \in dying[u] \ {p}
                               \/ u = t /\ \E i \in Nat : Queued(p, i, x)
      /\ dying' \in [Threads -> SUBSET Ports]
      /\ signalled' \subseteq Ports
      /\ \A q \in signalled' \ signalled :
           place[q] \in Threads /\ q \notin closing
      /\ UNCHANGED <<receiving, closing, hand, running, sent>>
  BY DisentangleFacts
<1>2. ASSUME NEW q \in Ports, NEW x \in Ports, NEW i \in Nat, Queued(q, i, x)'
      PROVE  q # p /\ Queued(q, i, x)
  <2>1. /\ incoming'[p] = <<>>
        /\ q # p => IF q = sibling[p]
                    THEN incoming'[q] = Append(incoming[q], Close)
                    ELSE incoming'[q] = incoming[q]
    BY DisentangleFacts
  <2>2. i \in 1 .. Len(incoming'[q]) /\ incoming'[q][i].port = x
    BY <1>2 DEF Queued
  <2>3. q # p
    <3>1. Len(<<>>) = 0
      OBVIOUS
    <3> QED
      BY <2>1, <2>2, <3>1
  <2>4. CASE q # sibling[p]
    BY <2>1, <2>2, <2>3, <2>4 DEF Queued
  <2>5. CASE q = sibling[p]
    <3> DEFINE after == Append(incoming[q], Close)
    <3>1. Close \in Msg /\ Close.port = "none" /\ "none" \notin Ports
      BY PlacesAssumption DEF Close, Msg
    <3>2. /\ Len(after) = Len(incoming[q]) + 1
          /\ \A k \in 1 .. Len(incoming[q]) : after[k] = incoming[q][k]
          /\ after[Len(incoming[q]) + 1] = Close
      BY <3>1, Adding DEF Places
    <3>3. Len(incoming[q]) \in Nat
      BY QueueFacts DEF Places
    <3>4. i \in 1 .. Len(after) /\ after[i].port = x
      BY <2>1, <2>2, <2>3, <2>5
    <3> HIDE DEF after
    <3>5. i # Len(incoming[q]) + 1
      BY <3>1, <3>2, <3>4
    <3>6. i \in 1 .. Len(incoming[q])
      BY <3>2, <3>3, <3>4, <3>5
    <3> QED
      BY <2>3, <3>2, <3>4, <3>6 DEF Queued
  <2> QED
    BY <2>4, <2>5
<1>3. \A u \in Threads, x \in Ports : InHand(u, x)' <=> InHand(u, x)
  BY <1>1 DEF InHand
<1>4. /\ \A u \in Threads : ~ InHand(u, p) /\ (u # t => p \notin dying[u])
      /\ \A q \in Ports : \A i \in Nat : ~ Queued(q, i, p)
  BY <1>1 DEF Places, OneHolder, OneDeath, QueueAlone
<1>5. Types'
  <2>1. place' \in [Ports -> Threads \cup {"moving", "gone"}]
    BY DEF Disentangle, Places, Types
  <2> QED
    BY <1>1, <2>1 DEF Places, Types
<1>6. Moving'
  BY <1>1, <1>2, <1>3, <1>4 DEF Places, Moving
<1>7. OneHand'
  BY <1>3 DEF Places, OneHolder, OneHand
<1>8. OneDeath'
  BY <1>1, <1>3 DEF Places, OneHolder, OneDeath, QueueAlone
<1>9. QueueAlone'
  <2> SUFFICES ASSUME NEW e \in Ports, NEW q \in Ports, NEW u \in Threads,
                      NEW i \in Nat, Queued(q, i, e)'
               PROVE  ~ InHand(u, e)' /\ e \notin dying'[u]
    BY DEF QueueAlone
  <2>1. q # p /\ Queued(q, i, e)
    BY <1>2
  <2>2. ~ InHand(u, e) /\ e \notin dying[u]
    BY <2>1 DEF Places, OneHolder, QueueAlone
  <2>3. \A k \in Nat : ~ Queued(p, k, e)
    BY <2>1 DEF Places, OneHolder, OneQueue
  <2> QED
    BY <1>1, <1>3, <2>2, <2>3
<1>10. OneQueue'
  BY <1>2 DEF Places, OneHolder, OneQueue
<1>11. OwnedLive'
  <2>1. \A q \in receiving' \cup closing' \cup signalled' :
          place[q] \in Threads /\ q \in Ports
    BY <1>1 DEF Places, Owning, OwnedLive, Types
  <2>2. \A q \in receiving' \cup closing' \cup signalled' : q # p
    BY <1>1, <2>1, PlacesAssumption
  <2>3. closing' \cap signalled' = {}
    BY <1>1 DEF Places, Owning, OwnedLive
  <2> QED
    BY <1>1, <2>1, <2>2, <2>3 DEF OwnedLive
<1>12. RunsOwned'
  <2> SUFFICES ASSUME NEW u \in Threads, running'[u] \in Ports
               PROVE  place'[running'[u]] = u
    BY DEF RunsOwned
  <2>1. place[running'[u]] = u /\ u # "moving"
    BY <1>1, PlacesAssumption DEF Places, Owning, RunsOwned
  <2> QED
    BY <1>1, <2>1
<1>13. InOneCall'
  <2> SUFFICES ASSUME NEW u \in Threads
               PROVE  /\ \A m, l \in hand[u] : m = l
                      /\ hand[u] # {} => dying'[u] = {}
    BY <1>1 DEF InOneCall
  <2>1. CASE u = t
    BY <1>1, <2>1
  <2>2. CASE u # t
    <3>1. dying'[u] \subseteq dying[u]
      BY <1>1, <2>2
    <3> QED
      BY <3>1 DEF Places, Owning, InOneCall
  <2> QED
    BY <2>1, <2>2
<1>14. Siblings'
  <2> SUFFICES ASSUME NEW x \in Ports
               PROVE  /\ sibling'[x] # "none" => /\ sibling'[sibling'[x]] = x
                                                 /\ sibling'[x] # x
                      /\ place'[x] = "gone" => sibling'[x] = "none"
    BY DEF Siblings
  <2>1. /\ sibling[x] # "none" => sibling[sibling[x]] = x /\ sibling[x] # x
        /\ place[x] = "gone" => sibling[x] = "none"
        /\ sibling[x] \in Ports \cup {"none"}
        /\ sibling[p] # "none" => sibling[sibling[p]] = p
    BY DEF Places, Siblings, Types
  <2> QED
    BY <1>1, <2>1
<1> QED
  BY <1>5, <1>6, <1>7, <1>8, <1>9, <1>10, <1>11, <1>12, <1>13, <1>14
     DEF Places, OneHolder, Owning

LEMMA NextPlaces ==
  ASSUME Places, [Next]_vars
  PROVE  Places'
<1>1. CASE UNCHANGED vars
  <2>1. UNCHANGED <<sibling, incoming, place, receiving, closing, signalled,
                    hand, running, dying, sent>>
    BY <1>1 DEF vars, owned, history
  <2> QED
    BY <2>1, OwnerPlaces DEF Places, Types, Owning, OwnedLive
<1>2. CASE Next
  <2>1. PICK t \in Threads : Program(t) \/ ThreadStep(t) \/ HandlerThrows(t)
    BY <1>2 DEF Next
  <2>2. ASSUME NEW p \in Ports, ClosePort(t, p) \/ PostThroughClosed(t, p)
        PROVE  Places'
    BY <2>2, OwnerStepPlaces, PostThroughClosedPlaces
  <2>3. ASSUME NEW p \in Ports,
               \/ Start(t, p) \/ Stop(t, p) \/ MoveToContext(t, p)
               \/ ReceiveMessageOnPort(t, p) \/ Drain(t, p)
        PROVE  Places'
    BY <2>3, OwnerStepPlaces, MoveToContextPlaces, TakePlaces
  <2>4. ASSUME NEW p \in Ports, NEW e \in Ports \cup {"none"},
               Serialize(t, p, e)
        PROVE  Places'
    BY <2>4, SerializePlaces
  <2>5. ASSUME Program(t) PROVE Places'
    BY <2>2, <2>3, <2>4, <2>5, TeardownPlaces, RolesAssumption DEF Program
  <2>6. ASSUME ThreadStep(t) PROVE Places'
    BY <2>6, PostPlaces, TakePlaces, OnClosePlaces, DisentanglePlaces,
       HandlerReturnsPlaces DEF ThreadStep
  <2> QED
    BY <2>1, <2>5, <2>6, HandlerThrowsPlaces
<1> QED
  BY <1>1, <1>2
-----------------------------------------------------------------------------
(* NoLostWakeup *)

(* The invariant for a single port.                                        *)
Awake(q) ==
  /\ q \in receiving \ (closing \cup failed)
  /\ incoming[q] # <<>>
  => q \in signalled \/ running[place[q]] = q

LEMMA AwakeAll == NoLostWakeup <=> \A q \in receiving : Awake(q)
BY DEF NoLostWakeup, Awake

(* A port for which nothing gets worse.                                    *)
LEMMA AwakeStill ==
  ASSUME NEW q, Awake(q), q \in receiving,
         q \notin closing' \cup failed' => q \notin closing \cup failed,
         incoming'[q] # <<>> => incoming[q] # <<>>,
         q \in signalled => q \in signalled',
         place'[q] = place[q],
         running[place[q]] = q => running'[place[q]] = q
  PROVE  Awake(q)'
BY DEF Awake

LEMMA SerializeAwake ==
  ASSUME Places, NoLostWakeup, NEW t \in Threads, NEW p \in Ports,
         NEW e \in Ports \cup {"none"},
         Serialize(t, p, e) \/ (PostThroughClosed(t, e) /\ e \in Ports)
  PROVE  NoLostWakeup'
<1>1. /\ receiving' = receiving \ {e} /\ signalled' = signalled \ {e}
      /\ \A q \in Ports : q # e => place'[q] = place[q]
      /\ running' = LoopWithout(t, e)
      /\ UNCHANGED <<incoming, closing, failed>>
  BY DEF Serialize, PostThroughClosed, history, Places, Types
<1>2. \A u \in Threads : running[u] # e => running'[u] = running[u]
  BY <1>1 DEF LoopWithout, Places, Types
<1> SUFFICES ASSUME NEW q \in receiving' PROVE Awake(q)'
  BY DEF NoLostWakeup, Awake
<1>3. q \in Ports /\ q # e /\ q \in receiving /\ place[q] \in Threads
  BY <1>1 DEF Places, Types, Owning, OwnedLive
<1> QED
  BY <1>1, <1>2, <1>3, AwakeAll, AwakeStill

LEMMA PostAwake ==
  ASSUME Places, NoLostWakeup, NEW t \in Threads, PostMessage(t)
  PROVE  NoLostWakeup'
<1>1. /\ UNCHANGED <<place, receiving, closing, running, failed>>
      /\ \/ UNCHANGED <<incoming, signalled>>
         \/ \E m \in hand[t] :
              LET s == sibling[m.from]
              IN  /\ s # "none"
                  /\ signalled' = signalled \cup Woken(s)
                  /\ \A q \in Ports : q # s => incoming'[q] = incoming[q]
  BY DEF PostMessage, Dropped, Places, Types
<1> SUFFICES ASSUME NEW q \in receiving' PROVE Awake(q)'
  BY DEF NoLostWakeup, Awake
<1>2. q \in Ports /\ q \in receiving /\ place[q] \in Threads
  BY <1>1 DEF Places, Types, Owning, OwnedLive
<1>3. CASE q \in closing \/ q \in signalled'
  BY <1>1, <1>3 DEF Awake
<1>4. CASE ~ (q \in closing \/ q \in signalled')
  <2>1. incoming'[q] = incoming[q] /\ q \notin signalled
    BY <1>1, <1>2, <1>4 DEF Woken
  <2> QED
    BY <1>1, <1>2, <2>1, AwakeAll, AwakeStill
<1> QED
  BY <1>3, <1>4

LEMMA OwnerAwake ==
  ASSUME Places, NoLostWakeup, NEW t \in Threads, NEW p \in Ports,
         \/ OnClose(t, p) \/ MoveToContext(t, p) \/ Start(t, p) \/ Stop(t, p)
         \/ ClosePort(t, p)
  PROVE  NoLostWakeup'
<1>1. UNCHANGED <<incoming, failed>>
  BY DEF OnClose, MoveToContext, Start, Stop, ClosePort, history
<1>2. /\ receiving' \subseteq receiving \cup {p}
      /\ \A q \in Ports : q # p => /\ q \in signalled' <=> q \in signalled
                                   /\ q \in closing' <=> q \in closing
                                   /\ place'[q] = place[q]
  BY DEF OnClose, MoveToContext, Start, Stop, ClosePort, WokenByStart, Woken,
     Places, Types
<1>3. \A u \in Threads : running[u] # p => running'[u] = running[u]
  BY DEF OnClose, MoveToContext, Start, Stop, ClosePort, LoopWithout, Places,
     Types
<1> SUFFICES ASSUME NEW q \in receiving' PROVE Awake(q)'
  BY DEF NoLostWakeup, Awake
<1>4. q \in Ports
  BY <1>2 DEF Places, Types
<1>5. CASE q # p
  <2>1. q \in receiving /\ place[q] \in Threads
    BY <1>2, <1>5 DEF Places, Owning, OwnedLive
  <2> QED
    BY <1>1, <1>2, <1>3, <1>4, <1>5, <2>1, AwakeAll, AwakeStill
<1>6. CASE q = p
  <2>1. Start(t, p) \/ ClosePort(t, p)
    BY <1>6 DEF OnClose, MoveToContext, Stop
  <2>2. CASE Start(t, p)
    <3>1. /\ signalled' = signalled \cup WokenByStart(p)
          /\ place[p] = t /\ UNCHANGED <<closing, incoming>>
      BY <2>2 DEF Start
    <3> QED
      BY <1>6, <3>1 DEF Awake, WokenByStart, Woken
  <2>3. CASE ClosePort(t, p)
    BY <1>6, <2>3 DEF Awake, ClosePort
  <2> QED
    BY <2>1, <2>2, <2>3
<1> QED
  BY <1>5, <1>6

LEMMA HandlerThrowsAwake ==
  ASSUME Places, NoLostWakeup, NEW t \in Threads, HandlerThrows(t)
  PROVE  NoLostWakeup'
<1>1. /\ \A u \in Threads : running'[u] = IF u = t THEN "none" ELSE running[u]
      /\ signalled \subseteq signalled'
      /\ running[t] \in Ports => Woken(running[t]) \subseteq signalled'
      /\ UNCHANGED <<incoming, place, receiving, closing, failed>>
  BY PlacesAssumption DEF HandlerThrows, Rescheduled, history, Places, Types
<1> SUFFICES ASSUME NEW q \in receiving' PROVE Awake(q)'
  BY DEF NoLostWakeup, Awake
<1>2. q \in Ports /\ q \in receiving /\ place[q] \in Threads
  BY <1>1 DEF Places, Types, Owning, OwnedLive
<1>3. CASE running[t] # q
  BY <1>1, <1>2, <1>3, AwakeAll, AwakeStill
<1>4. CASE running[t] = q
  BY <1>1, <1>2, <1>4 DEF Awake, Woken
<1> QED
  BY <1>3, <1>4

LEMMA TeardownAwake ==
  ASSUME Places, NoLostWakeup, NEW t \in Threads, Teardown(t)
  PROVE  NoLostWakeup'
<1>1. /\ \A u \in Threads : running'[u] = IF u = t THEN "none" ELSE running[u]
      /\ closing' = closing \cup Owned(t) /\ signalled' = signalled \ Owned(t)
      /\ UNCHANGED <<incoming, place, receiving, failed>>
  BY DEF Teardown, history, Places, Types
<1> SUFFICES ASSUME NEW q \in receiving' PROVE Awake(q)'
  BY DEF NoLostWakeup, Awake
<1>2. q \in Ports /\ q \in receiving /\ place[q] \in Threads
  BY <1>1 DEF Places, Types, Owning, OwnedLive
<1>3. CASE place[q] = t
  BY <1>1, <1>2, <1>3 DEF Awake, Owned
<1>4. CASE place[q] # t
  BY <1>1, <1>2, <1>4, AwakeAll, AwakeStill DEF Owned
<1> QED
  BY <1>3, <1>4

LEMMA DisentangleAwake ==
  ASSUME Places, NoLostWakeup, NEW t \in Threads, NEW p \in Ports,
         Disentangle(t, p)
  PROVE  NoLostWakeup'
<1>1. /\ place[p] = "moving"
      /\ \A q \in Ports \ {p} : IF q = sibling[p]
                                THEN incoming'[q] = Append(incoming[q], Close)
                                ELSE incoming'[q] = incoming[q]
      /\ \A q \in Ports : place'[q] = IF q = p THEN "gone" ELSE place[q]
      /\ sibling[p] \in Ports => Woken(sibling[p]) \subseteq signalled'
      /\ signalled \subseteq signalled'
      /\ UNCHANGED <<receiving, closing, running>>
  BY DisentangleFacts
<1>2. UNCHANGED failed
  BY DEF Disentangle, history
<1> SUFFICES ASSUME NEW q \in receiving' PROVE Awake(q)'
  BY DEF NoLostWakeup, Awake
<1>3. q \in Ports /\ q \in receiving /\ place[q] \in Threads
  BY <1>1 DEF Places, Types, Owning, OwnedLive
<1>4. q # p
  BY <1>1, <1>3, PlacesAssumption
<1>5. CASE q = sibling[p]
  BY <1>1, <1>3, <1>4, <1>5 DEF Awake, Woken
<1>6. CASE q # sibling[p]
  BY <1>1, <1>2, <1>3, <1>4, <1>6, AwakeAll, AwakeStill
<1> QED
  BY <1>5, <1>6

(* Taking, when what is signalled is at most p, which is looked at now.    *)
LEMMA TakeAwake ==
  ASSUME Places, NoLostWakeup, NEW t, NEW p, CanTake(t, p),
         NEW signals \in SUBSET signalled, signalled \ {p} \subseteq signals,
         \/ /\ Iterate(t, p, signals)
            /\ running[t] \notin Ports \ {p}
         \/ /\ \/ TakeClose(t, p, signals) \/ LoseMessage(t, p, signals)
               \/ TakeMessage(t, p, signals)
            /\ UNCHANGED running /\ signals = signalled
  PROVE  NoLostWakeup'
<1>1. t \in Threads /\ p \in Ports /\ place[p] = t
  BY DEF CanTake
<1>2. /\ UNCHANGED receiving
      /\ closing \subseteq closing' /\ failed \subseteq failed'
      /\ \A q \in Ports : q # p => incoming'[q] = incoming[q]
      /\ incoming'[p] # <<>> => incoming[p] # <<>>
      /\ signals \ {p} \subseteq signalled'
      /\ \A q \in Ports : place[q] \in Threads => place'[q] = place[q]
  <2>1. CASE UNCHANGED <<incoming, place, receiving, closing, failed>>
             /\ signalled' = signals
    BY <2>1
  <2>2. CASE TakeClose(t, p, signals)
    BY <1>1, <2>2 DEF TakeClose, history, Places, Types
  <2>3. CASE Taken(p) /\ UNCHANGED <<place, receiving, closing>>
             /\ signalled' = signals /\ failed \subseteq failed'
    BY <1>1, <2>3 DEF Taken, Places, Types
  <2>4. CASE /\ Taken(p) /\ Adopt(t, p, signals)
             /\ UNCHANGED <<receiving, closing>> /\ failed \subseteq failed'
    <3> DEFINE new == Carried({Head(incoming[p])})
    <3>1. /\ incoming[p] # <<>>
          /\ incoming' = [incoming EXCEPT ![p] = Tail(@)]
          /\ place' = [q \in Ports |-> IF q \in new THEN t ELSE place[q]]
          /\ signalled' = signals \cup new
      BY <2>4 DEF Adopt, Taken
    <3>2. \A x \in new : place[x] = "moving"
      BY <1>1, <3>1, TakeQueues
    <3> HIDE DEF new
    <3> QED
      BY <1>1, <2>4, <3>1, <3>2, PlacesAssumption DEF Places, Types
  <2> QED
    BY <2>1, <2>2, <2>3, <2>4 DEF Iterate, TakeMessage, LoseMessage, history
<1>3. \A u \in Threads : u # t => running'[u] = running[u]
  BY <1>1 DEF Iterate, Places, Types
<1> SUFFICES ASSUME NEW q \in receiving' PROVE Awake(q)'
  BY DEF NoLostWakeup, Awake
<1>4. q \in Ports /\ q \in receiving /\ place[q] \in Threads
  BY <1>2 DEF Places, Types, Owning, OwnedLive
<1>5. CASE q # p
  <2>1. running[place[q]] = q => running'[place[q]] = q
    <3>1. CASE UNCHANGED running
      BY <3>1
    <3>2. CASE running[t] \notin Ports \ {p}
      BY <1>3, <1>4, <1>5, <3>2
    <3> QED
      BY <3>1, <3>2
  <2> QED
    BY <1>2, <1>4, <1>5, <2>1, AwakeAll, AwakeStill
<1>6. CASE q = p
  <2>1. CASE TakeClose(t, p, signals)
    BY <1>6, <2>1 DEF TakeClose, Awake
  <2>2. CASE LoseMessage(t, p, signals)
    BY <1>6, <2>2 DEF LoseMessage, Awake
  <2>3. CASE TakeMessage(t, p, signals)
             /\ running' = [running EXCEPT ![t] = p]
    BY <1>1, <1>2, <1>4, <1>6, <2>3 DEF Awake, Places, Types
  <2>4. CASE /\ TakeMessage(t, p, signals)
             /\ UNCHANGED running /\ signals = signalled
    <3>1. signalled \subseteq signalled'
      BY <2>4 DEF TakeMessage, Adopt
    <3> QED
      BY <1>2, <1>4, <1>6, <2>4, <3>1, AwakeAll, AwakeStill
  <2>5. CASE ~ Wants(p) /\ UNCHANGED incoming
    BY <1>2, <1>4, <1>6, <2>5 DEF Awake, Wants
  <2> QED
    BY <2>1, <2>2, <2>3, <2>4, <2>5 DEF Iterate
<1> QED
  BY <1>5, <1>6

LEMMA CallsAwake ==
  ASSUME Places, NoLostWakeup, NEW t \in Threads, NEW p \in Ports,
         OnMessage(t, p) \/ Drain(t, p) \/ ReceiveMessageOnPort(t, p)
  PROVE  NoLostWakeup'
<1>1. CanTake(t, p)
  BY DEF OnMessage, Drain, ReceiveMessageOnPort, CanTake, InLoop, RunsProgram,
     InCpp
<1>2. signalled \ {p} \in SUBSET signalled /\ signalled \in SUBSET signalled
  OBVIOUS
<1>3. CASE OnMessage(t, p)
  <2>1. Iterate(t, p, signalled \ {p}) /\ running[t] = "none"
    BY <1>3 DEF OnMessage, InLoop
  <2> QED
    BY <1>1, <1>2, <2>1, TakeAwake, PlacesAssumption
<1>4. CASE Drain(t, p)
  <2>1. Iterate(t, p, signalled) /\ running[t] = "none"
    BY <1>4 DEF Drain
  <2> QED
    BY <1>1, <1>2, <2>1, TakeAwake, PlacesAssumption
<1>5. CASE ReceiveMessageOnPort(t, p)
  BY <1>1, <1>2, <1>5, TakeAwake DEF ReceiveMessageOnPort
<1> QED
  BY <1>3, <1>4, <1>5

LEMMA HandlerReturnsAwake ==
  ASSUME Places, NoLostWakeup, NEW t \in Threads, HandlerReturns(t)
  PROVE  NoLostWakeup'
<1>1. CASE \E p \in Ports : running[t] = p /\ Iterate(t, p, signalled)
  <2>1. PICK p \in Ports : running[t] = p /\ Iterate(t, p, signalled)
    BY <1>1
  <2>2. CanTake(t, p)
    BY <2>1 DEF HandlerReturns, RunsProgram, InCpp, CanTake, Places, Owning,
       RunsOwned
  <2> QED
    BY <2>1, <2>2, TakeAwake
<1>2. CASE ~ \E p \in Ports : running[t] = p /\ Iterate(t, p, signalled)
  <2>1. /\ running[t] = "detached"
        /\ \A u \in Threads : u # t => running'[u] = running[u]
        /\ UNCHANGED <<incoming, place, owned, failed>>
    BY <1>2 DEF HandlerReturns, history, Places, Types
  <2> SUFFICES ASSUME NEW q \in receiving' PROVE Awake(q)'
    BY DEF NoLostWakeup, Awake
  <2>2. q \in Ports /\ q \in receiving /\ place[q] \in Threads
    BY <2>1 DEF Places, Types, Owning, OwnedLive, owned
  <2>3. running[t] # q
    BY <2>1, <2>2, PlacesAssumption
  <2> QED
    BY <2>1, <2>2, <2>3, AwakeAll, AwakeStill DEF owned
<1> QED
  BY <1>1, <1>2

LEMMA NextAwake ==
  ASSUME Places, NoLostWakeup, [Next]_vars
  PROVE  NoLostWakeup'
<1>1. CASE UNCHANGED vars
  BY <1>1 DEF vars, owned, history, NoLostWakeup
<1>2. CASE Next
  <2>1. PICK t \in Threads : Program(t) \/ ThreadStep(t) \/ HandlerThrows(t)
    BY <1>2 DEF Next
  <2>2. ASSUME NEW p \in Ports,
               \/ ClosePort(t, p) \/ Start(t, p) \/ Stop(t, p)
               \/ MoveToContext(t, p)
        PROVE  NoLostWakeup'
    BY <2>2, OwnerAwake
  <2>3. ASSUME NEW p \in Ports, PostThroughClosed(t, p)
        PROVE  NoLostWakeup'
    BY <2>3, SerializeAwake
  <2>4. ASSUME NEW p \in Ports, NEW e \in Ports \cup {"none"},
               Serialize(t, p, e)
        PROVE  NoLostWakeup'
    BY <2>4, SerializeAwake
  <2>5. ASSUME NEW p \in Ports, ReceiveMessageOnPort(t, p) \/ Drain(t, p)
        PROVE  NoLostWakeup'
    BY <2>5, CallsAwake
  <2>6. ASSUME Program(t) PROVE NoLostWakeup'
    BY <2>2, <2>3, <2>4, <2>5, <2>6, TeardownAwake, RolesAssumption
       DEF Program
  <2>7. ASSUME ThreadStep(t) PROVE NoLostWakeup'
    BY <2>7, PostAwake, CallsAwake, OwnerAwake, DisentangleAwake,
       HandlerReturnsAwake DEF ThreadStep
  <2> QED
    BY <2>1, <2>6, <2>7, HandlerThrowsAwake
<1> QED
  BY <1>1, <1>2
-----------------------------------------------------------------------------
(* PeerLearns *)

Closes(q) == {i \in DOMAIN incoming[q] : incoming[q][i] = Close}

(* Nobody is left who would read a close message.                          *)
Quiet(q) == \/ q \in closing \/ place[q] = "gone"
            \/ \E t \in Threads : q \in dying[t]

(* The invariant for a single port.                                        *)
Told(q) == IF sibling[q] = "none"
           THEN Quiet(q) \/ Closes(q) = {Len(incoming[q])}
           ELSE Closes(q) = {} /\ place[sibling[q]] # "gone"

LEMMA ToldAll == PeerLearns <=> \A q \in Ports : Told(q)
BY DEF PeerLearns, Told, Quiet, Closes

LEMMA ToldStill ==
  ASSUME Types, PeerLearns, NEW q \in Ports, UNCHANGED sibling,
         incoming'[q] = incoming[q], Quiet(q) => Quiet(q)',
         \A r \in Ports : place'[r] = "gone" => place[r] = "gone"
  PROVE  Told(q)'
<1>1. Told(q)
  BY ToldAll
<1>2. Closes(q)' = Closes(q)
  BY DEF Closes
<1> QED
  BY <1>1, <1>2 DEF Told, Types

(* The steps that leave all queues alone.                                  *)
LEMMA QueuesStill ==
  ASSUME Types, PeerLearns, UNCHANGED <<sibling, incoming>>,
         \A q \in Ports : Quiet(q) => Quiet(q)',
         \A r \in Ports : place'[r] = "gone" => place[r] = "gone"
  PROVE  PeerLearns'
<1>1. \A q \in Ports : Told(q)'
  BY ToldStill
<1> QED
  BY <1>1 DEF PeerLearns, Told, Quiet, Closes

LEMMA ProgramTold ==
  ASSUME Places, PeerLearns, NEW t \in Threads, NEW p \in Ports,
         NEW e \in Ports \cup {"none"},
         \/ Serialize(t, p, e) \/ PostThroughClosed(t, p) \/ MoveToContext(t, p)
         \/ Start(t, p) \/ Stop(t, p) \/ ClosePort(t, p) \/ OnClose(t, p)
         \/ Teardown(t) \/ HandlerThrows(t)
  PROVE  PeerLearns'
<1>0. UNCHANGED <<sibling, incoming>>
  BY DEF Serialize, PostThroughClosed, MoveToContext, Start, Stop, ClosePort,
     OnClose, Teardown, HandlerThrows
<1>1. \A q \in Ports : q \in closing =>
        q \in closing' \/ (OnClose(t, p) /\ q = p)
  <2>1. closing \subseteq closing'
        \/ (OnClose(t, p) /\ closing' = closing \ {p})
    BY DEF Serialize, PostThroughClosed, MoveToContext, Start, Stop, ClosePort,
       OnClose, Teardown, HandlerThrows
  <2> QED
    BY <2>1
<1>2. OnClose(t, p) => p \in dying'[t]
  BY DEF OnClose, Places, Types
<1>3. \A q \in Ports : \A u \in Threads : q \in dying[u] => q \in dying'[u]
  <2>1. \/ UNCHANGED dying
        \/ dying[t] = {} /\ dying' = [dying EXCEPT ![t] = {p}]
    BY DEF Serialize, PostThroughClosed, MoveToContext, Start, Stop, ClosePort,
       OnClose, Teardown, HandlerThrows, RunsProgram, InLoop, InCpp
  <2> QED
    BY <2>1 DEF Places, Types
<1>4. \A q \in Ports : place[q] = "gone" <=> place'[q] = "gone"
  <2>1. \A u \in Threads : u # "gone"
    BY PlacesAssumption
  <2>2. /\ Serialize(t, p, e) => e = "none" \/ place[e] = t
        /\ Serialize(t, p, e) =>
             place' = [q \in Ports |-> IF q = e THEN "moving" ELSE place[q]]
    BY DEF Serialize
  <2>3. ~ Serialize(t, p, e) =>
          \/ UNCHANGED place
          \/ place[p] = t /\ place' = [place EXCEPT ![p] = "moving"]
    BY DEF PostThroughClosed, MoveToContext, Start, Stop, ClosePort, OnClose,
       Teardown, HandlerThrows
  <2> QED
    BY <2>1, <2>2, <2>3, PlacesAssumption DEF Places, Types
<1>5. \A q \in Ports : Quiet(q) => Quiet(q)'
  BY <1>1, <1>2, <1>3, <1>4 DEF Quiet
<1> QED
  BY <1>0, <1>4, <1>5, QueuesStill DEF Places

LEMMA PostTold ==
  ASSUME Places, PeerLearns, NEW t \in Threads, PostMessage(t)
  PROVE  PeerLearns'
<1>1. PICK m \in hand[t] :
        LET p == m.from
            e == m.port
            s == sibling[p]
        IN  \/ /\ Dropped(p, e)
               /\ dying' = [dying EXCEPT ![t] = {e} \ {"none"}]
               /\ UNCHANGED <<incoming, signalled, sent>>
            \/ /\ ~ Dropped(p, e)
               /\ sent' = [sent EXCEPT ![s] = @ + 1]
               /\ incoming' = [incoming EXCEPT ![s] =
                                 EndOfQueue(@, [n |-> sent[s] + 1, port |-> e])]
               /\ signalled' = signalled \cup Woken(s)
               /\ UNCHANGED dying
  BY DEF PostMessage
<1>2. UNCHANGED <<sibling, place, closing>>
  BY DEF PostMessage
<1>3. \A q \in Ports : Quiet(q) => Quiet(q)'
  <2>1. dying[t] = {}
    BY DEF Places, Owning, InOneCall
  <2>2. \A u \in Threads : dying[u] # {} => dying'[u] = dying[u]
    BY <1>1, <2>1 DEF Places, Types
  <2> QED
    BY <1>2, <2>2 DEF Quiet
<1>4. CASE UNCHANGED incoming
  BY <1>2, <1>3, <1>4, QueuesStill DEF Places
<1>5. CASE ~ UNCHANGED incoming
  <2>1. ~ Dropped(m.from, m.port)
    BY <1>1, <1>5
  <2>0. PICK s : s = sibling[m.from]
    OBVIOUS
  <2> DEFINE msg == [n |-> sent[s] + 1, port |-> m.port]
             after == Append(incoming[s], msg)
  <2>2. /\ m.from \in Ports /\ m.port \in Ports \cup {"none"}
        /\ s # "none" /\ s \in Ports /\ sibling[s] = m.from
        /\ m.from # "none"
    BY <2>0, <2>1, PlacesAssumption DEF Dropped, Places, Types, Siblings
  <2>3. incoming' = [incoming EXCEPT ![s] = after]
    BY <1>1, <2>0, <2>1 DEF EndOfQueue
  <2>4. msg \in Msg /\ msg # Close
    <3>1. sent[s] \in Nat
      BY <2>2 DEF Places, Types
    <3>2. msg.n # 0 /\ Close.n = 0
      BY <3>1 DEF Close
    <3> QED
      BY <2>2, <3>1, <3>2 DEF Msg
  <2>5. /\ after \in Seq(Msg) /\ Len(after) = Len(incoming[s]) + 1
        /\ \A i \in 1 .. Len(incoming[s]) : after[i] = incoming[s][i]
        /\ after[Len(incoming[s]) + 1] = msg
    BY <2>2, <2>4, Adding DEF Places
  <2>6. /\ Len(incoming[s]) \in Nat
        /\ DOMAIN incoming[s] = 1 .. Len(incoming[s])
    BY <2>2, QueueFacts DEF Places
  <2> HIDE DEF msg, after
  <2>7. Closes(s) = {} /\ place[m.from] # "gone"
    BY <2>2, ToldAll DEF Told
  <2>8. Closes(s)' = {}
    <3>1. ASSUME NEW i \in DOMAIN after PROVE after[i] # Close
      <4>1. i \in 1 .. (Len(incoming[s]) + 1)
        BY <2>5
      <4>2. CASE i = Len(incoming[s]) + 1
        BY <2>4, <2>5, <4>2
      <4>3. CASE i # Len(incoming[s]) + 1
        <5>1. i \in 1 .. Len(incoming[s])
          BY <2>6, <4>1, <4>3
        <5> QED
          BY <2>5, <2>6, <2>7, <5>1 DEF Closes
      <4> QED
        BY <4>2, <4>3
    <3>2. incoming'[s] = after
      BY <2>2, <2>3 DEF Places, Types
    <3> QED
      BY <3>1, <3>2 DEF Closes
  <2>9. ASSUME NEW q \in Ports PROVE Told(q)'
    <3>1. CASE q = s
      <4>1. sibling'[s] = m.from /\ place'[m.from] # "gone"
        BY <1>2, <2>2, <2>7
      <4> QED
        BY <2>2, <2>8, <3>1, <4>1 DEF Told
    <3>2. CASE q # s
      <4>1. incoming'[q] = incoming[q]
        BY <2>3, <3>2 DEF Places, Types
      <4> QED
        BY <1>2, <1>3, <4>1, ToldStill DEF Places
    <3> QED
      BY <3>1, <3>2
  <2> QED
    BY <2>9 DEF PeerLearns, Told, Quiet, Closes
<1> QED
  BY <1>4, <1>5

(* A message is taken, or a close message and the port closes.             *)
LEMMA TakeTold ==
  ASSUME Places, PeerLearns, NEW t, NEW p, CanTake(t, p), NEW signals,
         \/ TakeClose(t, p, signals) \/ TakeMessage(t, p, signals)
         \/ LoseMessage(t, p, signals)
  PROVE  PeerLearns'
<1>1. /\ t \in Threads /\ p \in Ports /\ dying[t] = {}
      /\ incoming[p] # <<>> /\ incoming' = [incoming EXCEPT ![p] = Tail(@)]
      /\ UNCHANGED sibling /\ closing \subseteq closing'
      /\ Head(incoming[p]) # Close \/ p \in closing'
  BY DEF CanTake, TakeClose, TakeMessage, LoseMessage, Adopt, Taken
<1>2. \A q \in Ports : place'[q] = "gone" <=> place[q] = "gone"
  <2>1. \A x \in Carried({Head(incoming[p])}) : place[x] = "moving"
    BY <1>1, TakeQueues
  <2>2. t # "gone"
    BY <1>1, PlacesAssumption
  <2>3. CASE UNCHANGED place
    BY <2>3
  <2>4. CASE place' = [q \in Ports |-> IF q \in Carried({Head(incoming[p])})
                                       THEN t ELSE place[q]]
    BY <2>1, <2>2, <2>4
  <2> QED
    BY <2>3, <2>4 DEF TakeClose, TakeMessage, LoseMessage, Adopt
<1>3. \A u \in Threads : dying[u] # {} => dying'[u] = dying[u]
  BY <1>1 DEF TakeClose, TakeMessage, LoseMessage, Adopt, Places,
     Types
<1>4. \A q \in Ports : Quiet(q) => Quiet(q)'
  BY <1>1, <1>2, <1>3 DEF Quiet
<1>5. /\ Head(incoming[p]) = incoming[p][1]
      /\ Len(incoming'[p]) = Len(incoming[p]) - 1
      /\ \A i \in 1 .. Len(incoming'[p]) :
           incoming'[p][i] = incoming[p][i + 1]
      /\ incoming' \in [Ports -> Seq(Msg)]
      /\ \A q \in Ports : q # p => incoming'[q] = incoming[q]
  BY <1>1, Taking DEF Places
<1>6. /\ Len(incoming[p]) \in Nat \ {0}
      /\ DOMAIN incoming[p] = 1 .. Len(incoming[p])
      /\ DOMAIN incoming'[p] = 1 .. Len(incoming'[p])
  BY <1>1, <1>5, QueueFacts DEF Places
<1>7. Told(p)'
  <2>1. CASE Head(incoming[p]) = Close
    <3>1. 1 \in Closes(p) /\ p \in closing'
      BY <1>1, <1>5, <1>6, <2>1 DEF Closes
    <3>2. sibling[p] = "none"
      BY <1>1, <3>1, ToldAll DEF Told
    <3> QED
      BY <1>1, <3>1, <3>2 DEF Told, Quiet
  <2>2. CASE Head(incoming[p]) # Close
    <3>1. /\ \A i \in Nat :
               i \in Closes(p)' <=> i \in 1 .. (Len(incoming[p]) - 1)
                                   /\ i + 1 \in Closes(p)
          /\ Closes(p)' \subseteq Nat
      BY <1>5, <1>6 DEF Closes
    <3>2. 1 \notin Closes(p)
      BY <1>5, <2>2 DEF Closes
    <3>3. CASE Closes(p) = {}
      <4>1. Closes(p)' = {}
        BY <3>1, <3>3
      <4>2. sibling[p] # "none" \/ Quiet(p)
        BY <1>1, <1>6, <3>3, ToldAll DEF Told
      <4>3. sibling[p] # "none" => place[sibling[p]] # "gone"
        BY <1>1, ToldAll DEF Told
      <4> QED
        BY <1>1, <1>2, <1>4, <4>1, <4>2, <4>3 DEF Told, Places, Types
    <3>4. CASE Closes(p) # {}
      <4>1. sibling[p] = "none"
        BY <1>1, <3>4, ToldAll DEF Told
      <4>2. Quiet(p) \/ Closes(p) = {Len(incoming[p])}
        BY <1>1, <4>1, ToldAll DEF Told
      <4>3. CASE Quiet(p)
        BY <1>1, <1>4, <4>1, <4>3 DEF Told
      <4>4. CASE Closes(p) = {Len(incoming[p])}
        <5>1. PICK n \in Nat \ {0} : n = Len(incoming[p])
          BY <1>6
        <5>2. n # 1 /\ \A j \in Nat : j \in Closes(p) <=> j = n
          BY <3>2, <4>4, <5>1
        <5>3. \A i \in Nat :
                i \in Closes(p)' <=> i \in 1 .. (n - 1) /\ i + 1 = n
          BY <3>1, <5>1, <5>2
        <5>4. \A i \in Nat : i \in Closes(p)' <=> i = n - 1
          BY <5>2, <5>3
        <5>5. Closes(p)' = {n - 1}
          <6>1. n - 1 \in Nat
            BY <5>1
          <6> QED
            BY <3>1, <5>4, <6>1
        <5> QED
          BY <1>1, <1>5, <4>1, <5>1, <5>5 DEF Told
      <4> QED
        BY <4>2, <4>3, <4>4
    <3> QED
      BY <3>3, <3>4
  <2> QED
    BY <2>1, <2>2
<1>8. ASSUME NEW q \in Ports, q # p PROVE Told(q)'
  BY <1>1, <1>2, <1>4, <1>5, <1>8, ToldStill DEF Places
<1> QED
  BY <1>7, <1>8 DEF PeerLearns, Told, Quiet, Closes

LEMMA IterateTold ==
  ASSUME Places, PeerLearns, NEW t, NEW p, CanTake(t, p), NEW signals,
         Iterate(t, p, signals)
  PROVE  PeerLearns'
<1>1. CASE ~ Wants(p)
  BY <1>1, QueuesStill DEF Iterate, history, Places, Quiet
<1>2. CASE Wants(p)
  BY <1>2, TakeTold DEF Iterate
<1> QED
  BY <1>1, <1>2

LEMMA CallsTold ==
  ASSUME Places, PeerLearns, NEW t \in Threads, NEW p \in Ports,
         OnMessage(t, p) \/ Drain(t, p) \/ ReceiveMessageOnPort(t, p)
  PROVE  PeerLearns'
<1>1. CanTake(t, p)
  BY DEF OnMessage, Drain, ReceiveMessageOnPort, CanTake, InLoop, RunsProgram,
     InCpp
<1> QED
  BY <1>1, IterateTold, TakeTold DEF OnMessage, Drain, ReceiveMessageOnPort

LEMMA HandlerReturnsTold ==
  ASSUME Places, PeerLearns, NEW t \in Threads, HandlerReturns(t)
  PROVE  PeerLearns'
<1>1. CASE \E p \in Ports : running[t] = p /\ Iterate(t, p, signalled)
  <2>1. PICK p \in Ports : running[t] = p /\ Iterate(t, p, signalled)
    BY <1>1
  <2>2. CanTake(t, p)
    BY <2>1 DEF HandlerReturns, RunsProgram, InCpp, CanTake, Places, Owning,
       RunsOwned
  <2> QED
    BY <2>1, <2>2, IterateTold
<1>2. CASE ~ \E p \in Ports : running[t] = p /\ Iterate(t, p, signalled)
  BY <1>2, QueuesStill DEF HandlerReturns, owned, history, Places, Quiet
<1> QED
  BY <1>1, <1>2

LEMMA DisentangleTold ==
  ASSUME Places, PeerLearns, NEW t \in Threads, NEW p \in Ports,
         Disentangle(t, p)
  PROVE  PeerLearns'
<1>1. /\ \A q \in Ports : sibling'[q] = IF q = p \/ q = sibling[p]
                                        THEN "none" ELSE sibling[q]
      /\ \A q \in Ports \ {p} : IF q = sibling[p]
                                THEN incoming'[q] = Append(incoming[q], Close)
                                ELSE incoming'[q] = incoming[q]
      /\ incoming' \in [Ports -> Seq(Msg)]
      /\ \A q \in Ports : place'[q] = IF q = p THEN "gone" ELSE place[q]
      /\ \A u \in Threads : \A x \in Ports \ {p} :
           x \in dying[u] => x \in dying'[u]
      /\ UNCHANGED closing
  BY DisentangleFacts
<1>2. /\ \A q \in Ports : sibling[q] \in Ports \cup {"none"}
      /\ \A q \in Ports : sibling[q] # "none" => sibling[sibling[q]] = q
                                                 /\ sibling[q] # q
  BY DEF Places, Types, Siblings
<1>3. Told(p)'
  BY <1>1 DEF Told, Quiet
<1>4. ASSUME NEW q \in Ports, q # p, q = sibling[p] PROVE Told(q)'
  <2> DEFINE after == Append(incoming[q], Close)
  <2>1. sibling[q] = p /\ p # "none" /\ Closes(q) = {}
    BY <1>2, <1>4, ToldAll, PlacesAssumption DEF Told
  <2>2. Close \in Msg
    BY DEF Close, Msg
  <2>3. /\ after \in Seq(Msg) /\ Len(after) = Len(incoming[q]) + 1
        /\ \A i \in 1 .. Len(incoming[q]) : after[i] = incoming[q][i]
        /\ after[Len(incoming[q]) + 1] = Close
    BY <2>2, Adding DEF Places
  <2>4. /\ Len(incoming[q]) \in Nat
        /\ DOMAIN incoming[q] = 1 .. Len(incoming[q])
    BY QueueFacts DEF Places
  <2> HIDE DEF after
  <2>5. incoming'[q] = after
    BY <1>1, <1>4 DEF after
  <2>6. DOMAIN after = 1 .. (Len(incoming[q]) + 1)
    BY <2>3
  <2>7. \A i \in 1 .. Len(incoming[q]) : after[i] # Close
    BY <2>1, <2>3, <2>4 DEF Closes
  <2>8. Closes(q)' = {Len(incoming[q]) + 1}
    <3>1. \A i : i \in Closes(q)' <=>
                   i \in 1 .. (Len(incoming[q]) + 1) /\ after[i] = Close
      BY <2>5, <2>6 DEF Closes
    <3>2. \A i : i \in Closes(q)' <=> i = Len(incoming[q]) + 1
      BY <2>3, <2>4, <2>7, <3>1
    <3> QED
      BY <3>2
  <2> QED
    BY <1>1, <1>4, <2>3, <2>5, <2>8 DEF Told
<1>5. ASSUME NEW q \in Ports, q # p, q # sibling[p] PROVE Told(q)'
  <2>1. Told(q)
    BY ToldAll
  <2>2. /\ sibling'[q] = sibling[q] /\ incoming'[q] = incoming[q]
        /\ Quiet(q) => Quiet(q)'
    BY <1>1, <1>5 DEF Quiet
  <2>3. sibling[q] # "none" => sibling[q] # p /\ sibling[q] \in Ports
    BY <1>2, <1>5
  <2>4. Closes(q)' = Closes(q)
    BY <2>2 DEF Closes
  <2> QED
    BY <1>1, <2>1, <2>2, <2>3, <2>4 DEF Told
<1> QED
  BY <1>3, <1>4, <1>5 DEF PeerLearns, Told, Quiet, Closes

LEMMA NextTold ==
  ASSUME Places, PeerLearns, [Next]_vars
  PROVE  PeerLearns'
<1>1. CASE UNCHANGED vars
  BY <1>1, QueuesStill DEF vars, owned, history, Places, Quiet
<1>2. CASE Next
  <2>1. PICK t \in Threads : Program(t) \/ ThreadStep(t) \/ HandlerThrows(t)
    BY <1>2 DEF Next
  <2>2. ASSUME NEW p \in Ports, NEW e \in Ports \cup {"none"},
               \/ Serialize(t, p, e) \/ PostThroughClosed(t, p)
               \/ MoveToContext(t, p) \/ Start(t, p) \/ Stop(t, p)
               \/ ClosePort(t, p) \/ OnClose(t, p)
        PROVE  PeerLearns'
    BY <2>2, ProgramTold
  <2>3. ASSUME NEW p \in Ports,
               OnMessage(t, p) \/ Drain(t, p) \/ ReceiveMessageOnPort(t, p)
        PROVE  PeerLearns'
    BY <2>3, CallsTold
  <2>4. ASSUME Teardown(t) \/ HandlerThrows(t) PROVE PeerLearns'
    <3>1. PICK p : p \in Ports \/ Ports = {}
      OBVIOUS
    <3>2. CASE Ports = {}
      BY <3>2 DEF PeerLearns
    <3>3. CASE Ports # {}
      BY <2>4, <3>3, ProgramTold
    <3> QED
      BY <3>2, <3>3
  <2>5. ASSUME Program(t) PROVE PeerLearns'
    BY <2>2, <2>3, <2>4, <2>5, RolesAssumption DEF Program
  <2>6. ASSUME ThreadStep(t) PROVE PeerLearns'
    BY <2>2, <2>3, <2>6, PostTold, DisentangleTold, HandlerReturnsTold
       DEF ThreadStep
  <2> QED
    BY <2>1, <2>4, <2>5, <2>6
<1> QED
  BY <1>1, <1>2
-----------------------------------------------------------------------------
(* The theorems *)

LEMMA InitIInv == Init => IInv
<1> SUFFICES ASSUME Init PROVE IInv
  OBVIOUS
<1>1. NoLostWakeup
  BY DEF Init, NoLostWakeup
<1>2. ASSUME NEW q \in Ports PROVE Told(q)
  <2>1. sibling[q] \in Ports /\ sibling[q] # "none" /\ incoming[q] = <<>>
    BY PortsAssumption, PlacesAssumption DEF Init
  <2>2. Closes(q) = {}
    BY <2>1 DEF Closes
  <2>3. place[sibling[q]] # "gone"
    BY <2>1, PortsAssumption, PlacesAssumption DEF Init
  <2> QED
    BY <2>1, <2>2, <2>3 DEF Told
<1> QED
  BY <1>1, <1>2, InitPlaces, ToldAll DEF IInv

LEMMA NextIInv == IInv /\ [Next]_vars => IInv'
BY NextPlaces, NextAwake, NextTold DEF IInv

(* A port that receives and has messages is about to run its loop, or is   *)
(* in it, whichever thread it belongs to by then: the flag and the queue   *)
(* of MessagePortData and the async handle of MessagePort never disagree.  *)
THEOREM NoWakeupOfAPortIsLost == Spec => []NoLostWakeup
<1>1. Init => IInv
  BY InitIInv
<1>2. IInv /\ [Next]_vars => IInv'
  BY NextIInv
<1>3. IInv => NoLostWakeup
  BY DEF IInv
<1> QED
  BY <1>1, <1>2, <1>3, PTL DEF Spec

(* A port whose sibling is gone has exactly one close message, the last in *)
(* its queue, unless it is closing itself or destroyed; a port that still  *)
(* has a sibling has none.                                                 *)
THEOREM TheOtherEndIsTold == Spec => []PeerLearns
<1>1. Init => IInv
  BY InitIInv
<1>2. IInv /\ [Next]_vars => IInv'
  BY NextIInv
<1>3. IInv => PeerLearns
  BY DEF IInv
<1> QED
  BY <1>1, <1>2, <1>3, PTL DEF Spec
-----------------------------------------------------------------------------
(* InOrder *)

Messages(q) == {i \in DOMAIN incoming[q] : incoming[q][i] # Close}

(* The invariant for a single port, and what has been taken a sequence.    *)
Ordered(q) ==
  /\ taken[q] \in Seq(Nat)
  /\ taken[q] = [n \in 1 .. Len(taken[q]) |-> n]
  /\ \A i \in Messages(q) : incoming[q][i].n = Len(taken[q]) + i
  /\ Len(taken[q]) <= sent[q]
  /\ Messages(q) = IF place[q] = "gone" THEN {}
                   ELSE 1 .. (sent[q] - Len(taken[q]))

Sequenced == taken \in [Ports -> Seq(Nat)] /\ \A q \in Ports : Ordered(q)

LEMMA OrderedStill ==
  ASSUME Sequenced, NEW q \in Ports,
         Messages(q)' = Messages(q),
         \A i \in Messages(q) : incoming'[q][i] = incoming[q][i],
         taken'[q] = taken[q], sent'[q] = sent[q],
         place'[q] = "gone" <=> place[q] = "gone"
  PROVE  Ordered(q)'
BY DEF Sequenced, Ordered

LEMMA ProgramOrder ==
  ASSUME Places, Sequenced, UNCHANGED <<incoming, taken, sent>>,
         \A q \in Ports : place'[q] = "gone" <=> place[q] = "gone"
  PROVE  Sequenced'
<1>1. ASSUME NEW q \in Ports PROVE Ordered(q)'
  <2>1. Messages(q)' = Messages(q)
    BY DEF Messages
  <2> QED
    BY <2>1, OrderedStill
<1> QED
  BY <1>1 DEF Sequenced

LEMMA Intervals ==
  ASSUME NEW a \in Nat, NEW b \in Nat, 1 .. a = 1 .. b
  PROVE  a = b
<1>1. a # 0 => a \in 1 .. b
  OBVIOUS
<1>2. b # 0 => b \in 1 .. a
  OBVIOUS
<1> QED
  BY <1>1, <1>2

LEMMA PostOrder ==
  ASSUME Places, PeerLearns, Sequenced, NEW t \in Threads, PostMessage(t)
  PROVE  Sequenced'
<1>1. PICK m \in hand[t] :
        LET p == m.from
            e == m.port
            s == sibling[p]
        IN  \/ UNCHANGED <<incoming, signalled, sent>>
            \/ /\ ~ Dropped(p, e)
               /\ sent' = [sent EXCEPT ![s] = @ + 1]
               /\ incoming' = [incoming EXCEPT ![s] =
                                 EndOfQueue(@, [n |-> sent[s] + 1, port |-> e])]
  BY DEF PostMessage
<1>2. UNCHANGED <<place, taken>>
  BY DEF PostMessage
<1>3. CASE UNCHANGED <<incoming, sent>>
  BY <1>2, <1>3, ProgramOrder
<1>4. CASE ~ UNCHANGED <<incoming, sent>>
  <2>1. ~ Dropped(m.from, m.port)
    BY <1>1, <1>4
  <2>2. PICK s : s = sibling[m.from]
    OBVIOUS
  <2> DEFINE msg == [n |-> sent[s] + 1, port |-> m.port]
             after == Append(incoming[s], msg)
  <2>3. /\ m.from \in Ports /\ m.port \in Ports \cup {"none"}
        /\ s # "none" /\ s \in Ports /\ sibling[s] = m.from
        /\ m.from # "none" /\ sent[s] \in Nat
    BY <2>1, <2>2, PlacesAssumption DEF Dropped, Places, Types, Siblings
  <2>4. /\ incoming' = [incoming EXCEPT ![s] = after]
        /\ sent' = [sent EXCEPT ![s] = @ + 1]
    BY <1>1, <1>4, <2>2 DEF EndOfQueue
  <2>5. msg \in Msg /\ msg.n = sent[s] + 1 /\ msg # Close
    <3>1. msg.n # 0 /\ Close.n = 0
      BY <2>3 DEF Close
    <3> QED
      BY <2>3, <3>1 DEF Msg
  <2>6. /\ after \in Seq(Msg) /\ Len(after) = Len(incoming[s]) + 1
        /\ \A i \in 1 .. Len(incoming[s]) : after[i] = incoming[s][i]
        /\ after[Len(incoming[s]) + 1] = msg
    BY <2>3, <2>5, Adding DEF Places
  <2>7. /\ Len(incoming[s]) \in Nat
        /\ DOMAIN incoming[s] = 1 .. Len(incoming[s])
        /\ DOMAIN after = 1 .. (Len(incoming[s]) + 1)
    BY <2>3, <2>6, QueueFacts DEF Places
  <2> HIDE DEF msg, after
  <2>8. Closes(s) = {} /\ place[s] # "gone"
    BY <2>3, ToldAll DEF Told, Places, Siblings
  <2>9. Messages(s) = 1 .. Len(incoming[s])
    BY <2>7, <2>8 DEF Messages, Closes
  <2>10. /\ taken[s] \in Seq(Nat) /\ Len(taken[s]) \in Nat
         /\ taken[s] = [n \in 1 .. Len(taken[s]) |-> n]
         /\ \A i \in Messages(s) : incoming[s][i].n = Len(taken[s]) + i
         /\ Len(taken[s]) <= sent[s]
         /\ Messages(s) = 1 .. (sent[s] - Len(taken[s]))
    BY <2>3, <2>8, LenProperties DEF Sequenced, Ordered
  <2>11. Len(incoming[s]) = sent[s] - Len(taken[s])
    BY <2>3, <2>7, <2>9, <2>10, Intervals
  <2>12. incoming'[s] = after /\ sent'[s] = sent[s] + 1
    BY <2>3, <2>4 DEF Places, Types
  <2>13. \A i \in 1 .. (Len(incoming[s]) + 1) : after[i] # Close
    <3> SUFFICES ASSUME NEW i \in 1 .. (Len(incoming[s]) + 1)
                 PROVE  after[i] # Close
      OBVIOUS
    <3>1. CASE i = Len(incoming[s]) + 1
      BY <2>5, <2>6, <3>1
    <3>2. CASE i # Len(incoming[s]) + 1
      <4>1. i \in 1 .. Len(incoming[s])
        BY <2>7, <3>2
      <4> QED
        BY <2>6, <2>9, <4>1 DEF Messages
    <3> QED
      BY <3>1, <3>2
  <2>14. Messages(s)' = 1 .. (Len(incoming[s]) + 1)
    BY <2>7, <2>12, <2>13 DEF Messages
  <2>15. \A i \in 1 .. (Len(incoming[s]) + 1) :
           incoming'[s][i].n = Len(taken[s]) + i
    <3> SUFFICES ASSUME NEW i \in 1 .. (Len(incoming[s]) + 1)
                 PROVE  after[i].n = Len(taken[s]) + i
      BY <2>12
    <3>1. CASE i = Len(incoming[s]) + 1
      <4>1. after[i].n = sent[s] + 1
        BY <2>5, <2>6, <3>1
      <4> QED
        BY <2>3, <2>7, <2>10, <2>11, <3>1, <4>1
    <3>2. CASE i # Len(incoming[s]) + 1
      <4>1. i \in 1 .. Len(incoming[s])
        BY <2>7, <3>2
      <4>2. after[i].n = incoming[s][i].n
        BY <2>6, <4>1
      <4> QED
        BY <2>9, <2>10, <4>1, <4>2
    <3> QED
      BY <3>1, <3>2
  <2>16. Ordered(s)'
    <3>1. taken'[s] = taken[s] /\ place'[s] # "gone"
      BY <1>2, <2>8
    <3>2. /\ Len(taken[s]) <= sent'[s]
          /\ Len(incoming[s]) + 1 = sent'[s] - Len(taken[s])
      BY <2>3, <2>7, <2>10, <2>11, <2>12
    <3> QED
      BY <2>10, <2>14, <2>15, <3>1, <3>2 DEF Ordered
  <2>17. ASSUME NEW q \in Ports, q # s PROVE Ordered(q)'
    <3>1. incoming'[q] = incoming[q] /\ sent'[q] = sent[q]
      BY <2>4, <2>17 DEF Places, Types
    <3>2. Messages(q)' = Messages(q)
      BY <3>1 DEF Messages
    <3> QED
      BY <1>2, <3>1, <3>2, OrderedStill
  <2> QED
    BY <1>2, <2>16, <2>17 DEF Sequenced
<1> QED
  BY <1>3, <1>4

(* The first is taken: the next message, or the close after all of them.   *)
LEMMA TakeOrder ==
  ASSUME Places, Sequenced, NEW t, NEW p, CanTake(t, p), NEW signals,
         \/ TakeClose(t, p, signals) \/ TakeMessage(t, p, signals)
         \/ LoseMessage(t, p, signals)
  PROVE  Sequenced'
<1>1. /\ t \in Threads /\ p \in Ports /\ place[p] = t
      /\ incoming[p] # <<>> /\ incoming' = [incoming EXCEPT ![p] = Tail(@)]
      /\ UNCHANGED sent
  BY DEF CanTake, TakeClose, TakeMessage, LoseMessage, Adopt, Taken, history
<1>2. \A q \in Ports : place'[q] = "gone" <=> place[q] = "gone"
  <2>1. \A x \in Carried({Head(incoming[p])}) : place[x] = "moving"
    BY <1>1, TakeQueues
  <2>2. t # "gone"
    BY <1>1, PlacesAssumption
  <2>3. CASE UNCHANGED place
    BY <2>3
  <2>4. CASE place' = [q \in Ports |-> IF q \in Carried({Head(incoming[p])})
                                       THEN t ELSE place[q]]
    BY <2>1, <2>2, <2>4
  <2> QED
    BY <2>3, <2>4 DEF TakeClose, TakeMessage, LoseMessage, Adopt
<1>3. place[p] # "gone"
  BY <1>1, PlacesAssumption
<1>4. /\ Head(incoming[p]) = incoming[p][1]
      /\ Len(incoming'[p]) = Len(incoming[p]) - 1
      /\ \A i \in 1 .. Len(incoming'[p]) :
           incoming'[p][i] = incoming[p][i + 1]
      /\ incoming' \in [Ports -> Seq(Msg)]
      /\ \A q \in Ports : q # p => incoming'[q] = incoming[q]
  BY <1>1, Taking DEF Places
<1>5. PICK len \in Nat \ {0} : len = Len(incoming[p])
  BY <1>1, QueueFacts DEF Places
<1>6. /\ DOMAIN incoming[p] = 1 .. len
      /\ DOMAIN incoming'[p] = 1 .. (len - 1)
  <2>1. DOMAIN incoming'[p] = 1 .. Len(incoming'[p])
    BY <1>1, <1>4, LenProperties
  <2> QED
    BY <1>1, <1>4, <1>5, <2>1, QueueFacts DEF Places
<1>7. PICK done \in Nat : done = Len(taken[p])
  BY <1>1, LenProperties DEF Sequenced, Ordered
<1>8. PICK left \in Nat : left = sent[p] - done
  BY <1>1, <1>7 DEF Sequenced, Ordered, Places, Types
<1>9. /\ taken[p] \in Seq(Nat) /\ taken[p] = [n \in 1 .. done |-> n]
      /\ \A i \in Messages(p) : incoming[p][i].n = done + i
      /\ Messages(p) = 1 .. left
  BY <1>1, <1>3, <1>7, <1>8 DEF Sequenced, Ordered
<1>10. \A i : i \in Messages(p)' <=> i \in 1 .. (len - 1)
                                     /\ i + 1 \in Messages(p)
  <2>1. \A i \in 1 .. (len - 1) : i + 1 \in 1 .. len
                                  /\ incoming'[p][i] = incoming[p][i + 1]
    BY <1>4, <1>5
  <2> QED
    BY <1>6, <2>1 DEF Messages
<1>11. sent[p] \in Nat /\ left <= len
  <2>1. 1 .. left \subseteq 1 .. len
    BY <1>6, <1>9 DEF Messages
  <2>2. left = 0 \/ left \in 1 .. left
    OBVIOUS
  <2>3. left = 0 \/ left \in 1 .. len
    BY <2>1, <2>2
  <2>4. left <= len
    BY <2>3
  <2> QED
    BY <1>1, <2>4 DEF Places, Types
<1>12. Ordered(p)' /\ taken'[p] \in Seq(Nat)
  <2>1. CASE TakeClose(t, p, signals)
    <3>1. 1 \notin Messages(p) /\ UNCHANGED taken
      BY <1>4, <2>1 DEF TakeClose, Messages, history
    <3>2. left = 0
      BY <1>9, <3>1
    <3>3. Messages(p)' = {}
      BY <1>9, <1>10, <3>2
    <3>4. /\ taken'[p] = taken[p] /\ sent'[p] = sent[p]
          /\ place'[p] # "gone"
      BY <1>1, <1>2, <1>3, <3>1
    <3>5. done <= sent[p] /\ 1 .. (sent[p] - done) = {}
      BY <1>8, <1>11, <3>2
    <3> QED
      BY <1>7, <1>9, <3>3, <3>4, <3>5 DEF Ordered
  <2>2. CASE TakeMessage(t, p, signals) \/ LoseMessage(t, p, signals)
    <3>1. /\ taken' = [taken EXCEPT ![p] = Append(@, Head(incoming[p]).n)]
          /\ Head(incoming[p]) # Close
      BY <2>2 DEF TakeMessage, LoseMessage, Adopt, Taken
    <3>2. 1 \in Messages(p)
      <4>1. 1 \in 1 .. len
        BY <1>5
      <4> QED
        BY <1>4, <1>6, <3>1, <4>1 DEF Messages
    <3>3. left >= 1 /\ Head(incoming[p]).n = done + 1
      <4>1. 1 \in 1 .. left /\ incoming[p][1].n = done + 1
        BY <1>9, <3>2
      <4> QED
        BY <1>4, <4>1
    <3>4. taken'[p] = Append(taken[p], done + 1)
      BY <1>1, <3>1, <3>3 DEF Sequenced
    <3>5. /\ taken'[p] \in Seq(Nat) /\ Len(taken'[p]) = done + 1
          /\ taken'[p] = [n \in 1 .. (done + 1) |-> n]
      <4> DEFINE a == Append(taken[p], done + 1)
      <4>1. /\ a \in Seq(Nat) /\ Len(a) = done + 1
            /\ \A i \in 1 .. done : a[i] = taken[p][i]
            /\ a[done + 1] = done + 1
        BY <1>7, <1>9, AppendProperties
      <4>2. \A i \in 1 .. done : a[i] = i
        BY <1>9, <4>1
      <4> HIDE DEF a
      <4>3. \A i \in 1 .. (done + 1) : a[i] = i
        <5> SUFFICES ASSUME NEW i \in 1 .. (done + 1), i # done + 1
                     PROVE  a[i] = i
          BY <4>1
        <5>1. i \in 1 .. done
          OBVIOUS
        <5> QED
          BY <4>2, <5>1
      <4>4. a = [n \in 1 .. (done + 1) |-> n]
        <5>1. a = [n \in 1 .. Len(a) |-> a[n]]
          BY <4>1
        <5> QED
          BY <4>1, <4>3, <5>1
      <4> QED
        BY <3>4, <4>1, <4>4 DEF a
    <3>6. Messages(p)' = 1 .. (left - 1)
      <4>1. \A i : i \in Messages(p)' <=> i \in 1 .. (len - 1)
                                          /\ i + 1 \in 1 .. left
        BY <1>9, <1>10
      <4>2. \A i : i \in Messages(p)' <=> i \in 1 .. (left - 1)
        BY <1>11, <4>1
      <4> QED
        BY <4>2
    <3>7. \A i \in 1 .. (left - 1) : incoming'[p][i].n = done + 1 + i
      <4>1. \A i \in 1 .. (left - 1) : /\ i \in 1 .. (len - 1)
                                       /\ i + 1 \in 1 .. left
                                       /\ done + (i + 1) = done + 1 + i
        BY <1>11
      <4>2. \A i \in 1 .. (left - 1) :
              /\ incoming'[p][i] = incoming[p][i + 1]
              /\ i + 1 \in Messages(p)
        BY <1>4, <1>5, <1>9, <4>1
      <4> QED
        BY <1>9, <4>1, <4>2
    <3>8. done + 1 <= sent[p] /\ left - 1 = sent[p] - (done + 1)
      BY <1>8, <1>11, <3>3
    <3> QED
      BY <1>1, <1>2, <1>3, <3>5, <3>6, <3>7, <3>8 DEF Ordered
  <2> QED
    BY <2>1, <2>2
<1>13. /\ \A q \in Ports : q # p => taken'[q] = taken[q]
       /\ taken' = [q \in Ports |-> taken'[q]]
  BY <1>1 DEF TakeClose, TakeMessage, LoseMessage, Adopt, Taken, history,
     Sequenced
<1>14. ASSUME NEW q \in Ports, q # p PROVE Ordered(q)'
  <2>1. incoming'[q] = incoming[q] /\ taken'[q] = taken[q] /\ sent'[q] = sent[q]
    BY <1>1, <1>4, <1>13, <1>14
  <2>2. Messages(q)' = Messages(q)
    BY <2>1 DEF Messages
  <2> QED
    BY <1>2, <2>1, <2>2, OrderedStill
<1>15. \A q \in Ports : taken'[q] \in Seq(Nat)
  BY <1>12, <1>14 DEF Ordered
<1>16. taken' \in [Ports -> Seq(Nat)]
  BY <1>13, <1>15
<1> QED
  BY <1>12, <1>14, <1>16 DEF Sequenced

LEMMA IterateOrder ==
  ASSUME Places, Sequenced, NEW t, NEW p, CanTake(t, p), NEW signals,
         Iterate(t, p, signals)
  PROVE  Sequenced'
<1>1. CASE ~ Wants(p)
  BY <1>1, ProgramOrder DEF Iterate, history
<1>2. CASE Wants(p)
  BY <1>2, TakeOrder DEF Iterate
<1> QED
  BY <1>1, <1>2

LEMMA CallsOrder ==
  ASSUME Places, Sequenced, NEW t \in Threads, NEW p \in Ports,
         OnMessage(t, p) \/ Drain(t, p) \/ ReceiveMessageOnPort(t, p)
  PROVE  Sequenced'
<1>1. CanTake(t, p)
  BY DEF OnMessage, Drain, ReceiveMessageOnPort, CanTake, InLoop, RunsProgram,
     InCpp
<1> QED
  BY <1>1, IterateOrder, TakeOrder DEF OnMessage, Drain, ReceiveMessageOnPort

LEMMA HandlerReturnsOrder ==
  ASSUME Places, Sequenced, NEW t \in Threads, HandlerReturns(t)
  PROVE  Sequenced'
<1>1. CASE \E p \in Ports : running[t] = p /\ Iterate(t, p, signalled)
  <2>1. PICK p \in Ports : running[t] = p /\ Iterate(t, p, signalled)
    BY <1>1
  <2>2. CanTake(t, p)
    BY <2>1 DEF HandlerReturns, RunsProgram, InCpp, CanTake, Places, Owning,
       RunsOwned
  <2> QED
    BY <2>1, <2>2, IterateOrder
<1>2. CASE ~ \E p \in Ports : running[t] = p /\ Iterate(t, p, signalled)
  BY <1>2, ProgramOrder DEF HandlerReturns, owned, history
<1> QED
  BY <1>1, <1>2

LEMMA DisentangleOrder ==
  ASSUME Places, PeerLearns, Sequenced, NEW t \in Threads, NEW p \in Ports,
         Disentangle(t, p)
  PROVE  Sequenced'
<1>1. /\ incoming'[p] = <<>>
      /\ \A q \in Ports \ {p} : IF q = sibling[p]
                                THEN incoming'[q] = Append(incoming[q], Close)
                                ELSE incoming'[q] = incoming[q]
      /\ \A q \in Ports : place'[q] = IF q = p THEN "gone" ELSE place[q]
      /\ UNCHANGED sent
  BY DisentangleFacts
<1>2. UNCHANGED taken
  BY DEF Disentangle, history
<1>3. Ordered(p)'
  <2>1. Messages(p)' = {}
    BY <1>1 DEF Messages
  <2> QED
    BY <1>1, <1>2, <2>1 DEF Sequenced, Ordered
<1>4. ASSUME NEW q \in Ports, q # p, q = sibling[p] PROVE Ordered(q)'
  <2> DEFINE after == Append(incoming[q], Close)
  <2>1. Close \in Msg
    BY DEF Close, Msg
  <2>2. /\ after \in Seq(Msg) /\ Len(after) = Len(incoming[q]) + 1
        /\ \A i \in 1 .. Len(incoming[q]) : after[i] = incoming[q][i]
        /\ after[Len(incoming[q]) + 1] = Close
    BY <2>1, Adding DEF Places
  <2>3. PICK len \in Nat : /\ len = Len(incoming[q])
                           /\ DOMAIN incoming[q] = 1 .. len
    BY QueueFacts DEF Places
  <2>4. DOMAIN after = 1 .. (len + 1)
    BY <2>2, <2>3
  <2> HIDE DEF after
  <2>5. incoming'[q] = after
    BY <1>1, <1>4 DEF after
  <2>6. \A i : /\ i \in 1 .. (len + 1) <=> i \in 1 .. len \/ i = len + 1
    BY <2>3
  <2>7. Messages(q)' = Messages(q)
    BY <2>2, <2>3, <2>4, <2>5, <2>6 DEF Messages
  <2>8. \A i \in Messages(q) : incoming'[q][i] = incoming[q][i]
    BY <2>2, <2>3, <2>5 DEF Messages
  <2> QED
    BY <1>1, <1>2, <1>4, <2>7, <2>8, OrderedStill
<1>5. ASSUME NEW q \in Ports, q # p, q # sibling[p] PROVE Ordered(q)'
  <2>1. incoming'[q] = incoming[q]
    BY <1>1, <1>5
  <2>2. Messages(q)' = Messages(q)
    BY <2>1 DEF Messages
  <2> QED
    BY <1>1, <1>2, <1>5, <2>1, <2>2, OrderedStill
<1> QED
  BY <1>2, <1>3, <1>4, <1>5 DEF Sequenced

(* The steps that touch no queue.                                          *)
LEMMA QuietStep ==
  ASSUME Places, NEW t \in Threads, NEW p \in Ports,
         NEW e \in Ports \cup {"none"},
         \/ Serialize(t, p, e) \/ PostThroughClosed(t, p) \/ MoveToContext(t, p)
         \/ Start(t, p) \/ Stop(t, p) \/ ClosePort(t, p) \/ OnClose(t, p)
         \/ Teardown(t) \/ HandlerThrows(t)
  PROVE  /\ UNCHANGED <<sibling, incoming, taken, sent>>
         /\ \A q \in Ports : place'[q] = "gone" <=> place[q] = "gone"
<1>1. UNCHANGED <<sibling, incoming, taken, sent>>
  BY DEF Serialize, PostThroughClosed, MoveToContext, Start, Stop, ClosePort,
     OnClose, Teardown, HandlerThrows, history
<1>2. \A q \in Ports : place[q] = "gone" <=> place'[q] = "gone"
  <2>1. \A u \in Threads : u # "gone"
    BY PlacesAssumption
  <2>2. /\ Serialize(t, p, e) => e = "none" \/ place[e] = t
        /\ Serialize(t, p, e) =>
             place' = [q \in Ports |-> IF q = e THEN "moving" ELSE place[q]]
    BY DEF Serialize
  <2>3. ~ Serialize(t, p, e) =>
          \/ UNCHANGED place
          \/ place[p] = t /\ place' = [place EXCEPT ![p] = "moving"]
    BY DEF PostThroughClosed, MoveToContext, Start, Stop, ClosePort, OnClose,
       Teardown, HandlerThrows
  <2> QED
    BY <2>1, <2>2, <2>3, PlacesAssumption DEF Places, Types
<1> QED
  BY <1>1, <1>2

LEMMA NextOrder ==
  ASSUME Places, PeerLearns, Sequenced, [Next]_vars
  PROVE  Sequenced'
<1>1. CASE UNCHANGED vars
  BY <1>1, ProgramOrder DEF vars, owned, history
<1>2. CASE Next
  <2>1. PICK t \in Threads : Program(t) \/ ThreadStep(t) \/ HandlerThrows(t)
    BY <1>2 DEF Next
  <2>2. ASSUME NEW p \in Ports, NEW e \in Ports \cup {"none"},
               \/ Serialize(t, p, e) \/ PostThroughClosed(t, p)
               \/ MoveToContext(t, p) \/ Start(t, p) \/ Stop(t, p)
               \/ ClosePort(t, p) \/ OnClose(t, p)
        PROVE  Sequenced'
    BY <2>2, QuietStep, ProgramOrder
  <2>3. ASSUME NEW p \in Ports,
               OnMessage(t, p) \/ Drain(t, p) \/ ReceiveMessageOnPort(t, p)
        PROVE  Sequenced'
    BY <2>3, CallsOrder
  <2>4. ASSUME Teardown(t) \/ HandlerThrows(t) PROVE Sequenced'
    <3>1. UNCHANGED <<incoming, taken, sent, place>>
      BY <2>4 DEF Teardown, HandlerThrows, history
    <3> QED
      BY <3>1, ProgramOrder
  <2>5. ASSUME Program(t) PROVE Sequenced'
    BY <2>2, <2>3, <2>4, <2>5, RolesAssumption DEF Program
  <2>6. ASSUME ThreadStep(t) PROVE Sequenced'
    BY <2>2, <2>3, <2>6, PostOrder, DisentangleOrder, HandlerReturnsOrder
       DEF ThreadStep
  <2> QED
    BY <2>1, <2>4, <2>5, <2>6
<1> QED
  BY <1>1, <1>2

LEMMA InitOrder == Init => Sequenced
<1> SUFFICES ASSUME Init PROVE Sequenced
  OBVIOUS
<1>1. <<>> \in Seq(Nat) /\ Len(<<>>) = 0
  BY EmptySeq
<1>2. ASSUME NEW q \in Ports PROVE Ordered(q)
  <2>1. incoming[q] = <<>> /\ taken[q] = <<>> /\ sent[q] = 0
    BY DEF Init
  <2>2. Messages(q) = {} /\ 1 .. (0 - 0) = {}
    BY <2>1 DEF Messages
  <2> QED
    BY <1>1, <2>1, <2>2 DEF Ordered
<1>3. taken \in [Ports -> Seq(Nat)]
  BY <1>1 DEF Init
<1> QED
  BY <1>2, <1>3 DEF Sequenced

(* The messages of a queue are taken in the order of posting, none twice   *)
(* and none left out: those still waiting are exactly the rest.  Neither   *)
(* the number of channels and threads nor the number of transfers matters. *)
THEOREM MessagesKeepTheirOrder == Spec => []InOrder
<1>1. Init => IInv /\ Sequenced
  BY InitIInv, InitOrder
<1>2. IInv /\ Sequenced /\ [Next]_vars => (IInv /\ Sequenced)'
  BY NextIInv, NextOrder DEF IInv
<1>3. Sequenced => InOrder
  BY DEF Sequenced, Ordered, Messages, InOrder
<1> QED
  BY <1>1, <1>2, <1>3, PTL DEF Spec
-----------------------------------------------------------------------------
(* TypeOK: whatever moves is held by someone *)

HeldSomewhere(e) ==
  \/ \E t \in Threads : InHand(t, e) \/ e \in dying[t]
  \/ \E q \in Ports : \E i \in Nat : Queued(q, i, e)

Held == \A e \in Ports : place[e] = "moving" => HeldSomewhere(e)

(* The threads between the two steps of PostMessage.                       *)
Posting == {t \in Threads : hand[t] # {}}

Bounded ==
  /\ posts \in Nat /\ posts <= MaxMessages
  /\ IsFiniteSet(Posting)
  /\ \A q \in Ports : sent[q] + Cardinality(Posting) <= posts

(* A holder stays one, and what begins to move has one.                    *)
LEMMA HeldStill ==
  ASSUME Held,
         \A t \in Threads : \A x \in Ports :
           /\ InHand(t, x) => HeldSomewhere(x)'
           /\ x \in dying[t] => x \in dying'[t],
         \A q, x \in Ports : \A i \in Nat :
           Queued(q, i, x) => HeldSomewhere(x)',
         \A x \in Ports : place'[x] = "moving" =>
                            place[x] = "moving" \/ HeldSomewhere(x)'
  PROVE  Held'
<1> SUFFICES ASSUME NEW x \in Ports, place'[x] = "moving"
             PROVE  HeldSomewhere(x)'
  BY DEF Held
<1>1. CASE place[x] # "moving"
  BY <1>1
<1>2. CASE place[x] = "moving"
  <2>1. HeldSomewhere(x)
    BY <1>2 DEF Held
  <2>2. ASSUME NEW t \in Threads, x \in dying[t] PROVE HeldSomewhere(x)'
    <3>1. x \in dying'[t]
      BY <2>2
    <3> QED
      BY <3>1 DEF HeldSomewhere
  <2> QED
    BY <2>1, <2>2 DEF HeldSomewhere
<1> QED
  BY <1>1, <1>2

LEMMA QueuesKept ==
  ASSUME UNCHANGED incoming, NEW q \in Ports, NEW x \in Ports, NEW i \in Nat,
         Queued(q, i, x)
  PROVE  HeldSomewhere(x)'
BY DEF HeldSomewhere, Queued

LEMMA HandsKept ==
  ASSUME NEW t \in Threads, hand'[t] = hand[t], NEW x, InHand(t, x)
  PROVE  HeldSomewhere(x)'
BY DEF HeldSomewhere, InHand

LEMMA QuietHeld ==
  ASSUME Places, Held, NEW t \in Threads, NEW p \in Ports,
         NEW e \in Ports \cup {"none"},
         \/ Serialize(t, p, e) \/ PostThroughClosed(t, p) \/ MoveToContext(t, p)
         \/ Start(t, p) \/ Stop(t, p) \/ ClosePort(t, p) \/ OnClose(t, p)
         \/ Teardown(t) \/ HandlerThrows(t)
  PROVE  Held'
<1>1. UNCHANGED incoming
  BY DEF Serialize, PostThroughClosed, MoveToContext, Start, Stop, ClosePort,
     OnClose, Teardown, HandlerThrows
<1>2. CASE Serialize(t, p, e)
  <2>1. /\ hand[t] = {} /\ hand' = [hand EXCEPT ![t] = {[from |-> p, port |-> e]}]
        /\ place' = [q \in Ports |-> IF q = e THEN "moving" ELSE place[q]]
        /\ UNCHANGED dying
    BY <1>2 DEF Serialize, RunsProgram, InCpp
  <2>2. HeldSomewhere(e)'
    <3>1. hand'[t] = {[from |-> p, port |-> e]}
      BY <2>1 DEF Places, Types
    <3>2. InHand(t, e)'
      BY <3>1 DEF InHand
    <3> QED
      BY <3>2 DEF HeldSomewhere
  <2>3. \A u \in Threads : u # t => hand'[u] = hand[u]
    BY <2>1 DEF Places, Types
  <2>4. ASSUME NEW u \in Threads, NEW x \in Ports, InHand(u, x)
        PROVE  HeldSomewhere(x)'
    <3>1. u # t
      BY <2>1, <2>4 DEF InHand
    <3> QED
      BY <2>3, <2>4, <3>1, HandsKept
  <2> QED
    BY <1>1, <2>1, <2>2, <2>4, QueuesKept, HeldStill
<1>3. CASE ~ Serialize(t, p, e)
  <2>1. /\ UNCHANGED hand
        /\ \/ UNCHANGED <<place, dying>>
           \/ /\ dying[t] = {} /\ dying' = [dying EXCEPT ![t] = {p}]
              /\ place' = [place EXCEPT ![p] = "moving"]
    BY <1>3 DEF PostThroughClosed, MoveToContext, Start, Stop, ClosePort,
       OnClose, Teardown, HandlerThrows, RunsProgram, InLoop, InCpp
  <2>2. \A u \in Threads : \A x \in Ports : x \in dying[u] => x \in dying'[u]
    BY <2>1 DEF Places, Types
  <2>3. ASSUME NEW x \in Ports, place'[x] = "moving", place[x] # "moving"
        PROVE  HeldSomewhere(x)'
    <3>1. x = p /\ p \in dying'[t]
      BY <2>1, <2>3 DEF Places, Types
    <3> QED
      BY <3>1 DEF HeldSomewhere
  <2> QED
    BY <1>1, <2>1, <2>2, <2>3, QueuesKept, HandsKept, HeldStill
<1> QED
  BY <1>2, <1>3

LEMMA PostHeld ==
  ASSUME Places, Held, NEW t \in Threads, PostMessage(t)
  PROVE  Held'
<1>1. PICK m \in hand[t] :
        LET p == m.from
            e == m.port
            s == sibling[p]
        IN  \/ /\ Dropped(p, e)
               /\ dying' = [dying EXCEPT ![t] = {e} \ {"none"}]
               /\ UNCHANGED <<incoming, signalled, sent>>
            \/ /\ ~ Dropped(p, e)
               /\ incoming' = [incoming EXCEPT ![s] =
                                 EndOfQueue(@, [n |-> sent[s] + 1, port |-> e])]
               /\ UNCHANGED dying
  BY DEF PostMessage
<1>2. hand' = [hand EXCEPT ![t] = {}] /\ UNCHANGED <<sibling, place>>
  BY DEF PostMessage
<1>3. /\ m.from \in Ports /\ m.port \in Ports \cup {"none"}
      /\ dying[t] = {} /\ \A l \in hand[t] : l = m
      /\ "none" \notin Ports
  <2>1. m \in [from : Ports, port : Ports \cup {"none"}]
    BY DEF Places, Types
  <2>2. dying[t] = {} /\ \A l \in hand[t] : l = m
    BY DEF Places, Owning, InOneCall
  <2> QED
    BY <2>1, <2>2, PlacesAssumption
<1>4. \A u \in Threads : u # t => hand'[u] = hand[u]
  BY <1>2 DEF Places, Types
<1>5. CASE Dropped(m.from, m.port)
  <2>1. dying' = [dying EXCEPT ![t] = {m.port} \ {"none"}]
        /\ UNCHANGED incoming
    BY <1>1, <1>5
  <2>2. \A u \in Threads : \A x \in Ports : x \in dying[u] => x \in dying'[u]
    BY <1>3, <2>1 DEF Places, Types
  <2>3. ASSUME NEW u \in Threads, NEW x \in Ports, InHand(u, x)
        PROVE  HeldSomewhere(x)'
    <3>1. CASE u = t
      <4>1. x = m.port
        BY <1>3, <2>3, <3>1 DEF InHand
      <4>2. x \in dying'[t]
        BY <1>3, <2>1, <4>1 DEF Places, Types
      <4> QED
        BY <4>2 DEF HeldSomewhere
    <3>2. CASE u # t
      BY <1>4, <2>3, <3>2, HandsKept
    <3> QED
      BY <3>1, <3>2
  <2> QED
    BY <1>2, <2>1, <2>2, <2>3, QueuesKept, HeldStill
<1>6. CASE ~ Dropped(m.from, m.port)
  <2>1. PICK s : s = sibling[m.from]
    OBVIOUS
  <2> DEFINE msg == [n |-> sent[s] + 1, port |-> m.port]
             after == Append(incoming[s], msg)
  <2>2. /\ s \in Ports /\ s # "none" /\ UNCHANGED dying
        /\ incoming' = [incoming EXCEPT ![s] = after]
    BY <1>1, <1>3, <1>6, <2>1 DEF EndOfQueue, Dropped, Places, Types
  <2>3. msg \in Msg /\ msg.port = m.port
    BY <1>3, <2>2 DEF Msg, Places, Types
  <2>4. /\ after \in Seq(Msg) /\ Len(after) = Len(incoming[s]) + 1
        /\ \A i \in 1 .. Len(incoming[s]) : after[i] = incoming[s][i]
        /\ after[Len(incoming[s]) + 1] = msg
    BY <2>2, <2>3, Adding DEF Places
  <2> HIDE DEF msg, after
  <2>5. PICK len \in Nat : len = Len(incoming[s])
    BY <2>2, QueueFacts DEF Places
  <2>6. /\ incoming'[s] = after
        /\ \A q \in Ports : q # s => incoming'[q] = incoming[q]
    BY <2>2 DEF Places, Types
  <2>7. ASSUME NEW q \in Ports, NEW x \in Ports, NEW i \in Nat, Queued(q, i, x)
        PROVE  HeldSomewhere(x)'
    <3>1. Queued(q, i, x)'
      <4>1. CASE q = s
        <5>1. i \in 1 .. len /\ incoming[s][i].port = x
          BY <2>5, <2>7, <4>1 DEF Queued
        <5>2. i \in 1 .. (len + 1)
          BY <5>1
        <5> QED
          BY <2>4, <2>5, <2>6, <4>1, <5>1, <5>2 DEF Queued
      <4>2. CASE q # s
        BY <2>6, <2>7, <4>2 DEF Queued
      <4> QED
        BY <4>1, <4>2
    <3> QED
      BY <3>1 DEF HeldSomewhere
  <2>8. HeldSomewhere(m.port)'
    <3>1. len + 1 \in Nat /\ len + 1 \in 1 .. (len + 1)
      OBVIOUS
    <3>2. Queued(s, len + 1, m.port)'
      BY <2>3, <2>4, <2>5, <2>6, <3>1 DEF Queued
    <3> QED
      BY <2>2, <3>1, <3>2 DEF HeldSomewhere
  <2>9. ASSUME NEW u \in Threads, NEW x \in Ports, InHand(u, x)
        PROVE  HeldSomewhere(x)'
    <3>1. CASE u = t
      BY <1>3, <2>8, <2>9, <3>1 DEF InHand
    <3>2. CASE u # t
      BY <1>4, <2>9, <3>2, HandsKept
    <3> QED
      BY <3>1, <3>2
  <2> QED
    BY <1>2, <2>2, <2>7, <2>9, HeldStill
<1> QED
  BY <1>5, <1>6

LEMMA TakeHeld ==
  ASSUME Places, Held, NEW t, NEW p, CanTake(t, p), NEW signals,
         \/ TakeClose(t, p, signals) \/ TakeMessage(t, p, signals)
         \/ LoseMessage(t, p, signals)
  PROVE  Held'
<1> DEFINE new == Carried({Head(incoming[p])})
<1>1. /\ t \in Threads /\ p \in Ports /\ dying[t] = {}
      /\ incoming[p] # <<>> /\ incoming' = [incoming EXCEPT ![p] = Tail(@)]
      /\ UNCHANGED hand
      /\ \/ Head(incoming[p]) = Close /\ UNCHANGED <<place, dying>>
         \/ /\ place' = [q \in Ports |-> IF q \in new THEN t ELSE place[q]]
            /\ UNCHANGED dying
         \/ /\ dying' = [dying EXCEPT ![t] = new]
            /\ UNCHANGED place
  BY DEF CanTake, TakeClose, TakeMessage, LoseMessage, Adopt, Taken
<1>2. /\ Head(incoming[p]) = incoming[p][1]
      /\ Len(incoming'[p]) = Len(incoming[p]) - 1
      /\ \A i \in 1 .. Len(incoming'[p]) :
           incoming'[p][i] = incoming[p][i + 1]
      /\ \A q \in Ports : q # p => incoming'[q] = incoming[q]
  BY <1>1, Taking DEF Places
<1>3. PICK len \in Nat \ {0} : len = Len(incoming[p])
  BY <1>1, QueueFacts DEF Places
<1>4. ASSUME NEW q \in Ports, NEW x \in Ports, NEW i \in Nat, Queued(q, i, x),
             ~ (q = p /\ i = 1)
      PROVE  HeldSomewhere(x)'
  <2>1. CASE q = p
    <3>1. i \in 1 .. len /\ i # 1 /\ incoming[p][i].port = x
      BY <1>3, <1>4, <2>1 DEF Queued
    <3>2. i - 1 \in Nat /\ i - 1 \in 1 .. (len - 1) /\ (i - 1) + 1 = i
      BY <3>1
    <3>3. incoming'[p][i - 1] = incoming[p][i]
      BY <1>2, <1>3, <3>2
    <3>4. Queued(p, i - 1, x)'
      BY <1>2, <1>3, <3>1, <3>2, <3>3 DEF Queued
    <3> QED
      BY <1>1, <3>2, <3>4 DEF HeldSomewhere
  <2>2. CASE q # p
    <3>1. Queued(q, i, x)'
      BY <1>2, <1>4, <2>2 DEF Queued
    <3> QED
      BY <3>1 DEF HeldSomewhere
  <2> QED
    BY <2>1, <2>2
<1>5. \A x \in Ports : Queued(p, 1, x) => x \in new /\ Head(incoming[p]) # Close
  <2>1. "none" \notin Ports /\ Close.port = "none"
    BY PlacesAssumption DEF Close
  <2> QED
    BY <1>2, <2>1 DEF Queued, Carried
<1> HIDE DEF new
<1>6. \A x \in Ports : place'[x] = "moving" => place[x] = "moving"
  <2>1. t # "moving"
    BY <1>1, PlacesAssumption
  <2> QED
    BY <1>1, <2>1
<1> SUFFICES ASSUME NEW x \in Ports, place'[x] = "moving"
             PROVE  HeldSomewhere(x)'
  BY DEF Held
<1>7. HeldSomewhere(x)
  BY <1>6 DEF Held
<1>8. ASSUME NEW u \in Threads, x \in dying[u] PROVE HeldSomewhere(x)'
  <2>1. x \in dying'[u]
    BY <1>1, <1>8 DEF Places, Types
  <2> QED
    BY <2>1 DEF HeldSomewhere
<1>9. ASSUME Queued(p, 1, x) PROVE HeldSomewhere(x)'
  <2>1. x \in new /\ Head(incoming[p]) # Close
    BY <1>5, <1>9
  <2>2. place' # [q \in Ports |-> IF q \in new THEN t ELSE place[q]]
    BY <1>1, <2>1, PlacesAssumption
  <2>3. dying' = [dying EXCEPT ![t] = new]
    BY <1>1, <2>1, <2>2
  <2>4. x \in dying'[t]
    BY <1>1, <2>1, <2>3 DEF Places, Types
  <2> QED
    BY <1>1, <2>4 DEF HeldSomewhere
<1> QED
  BY <1>1, <1>4, <1>7, <1>8, <1>9, HandsKept DEF HeldSomewhere

LEMMA IterateHeld ==
  ASSUME Places, Held, NEW t, NEW p, CanTake(t, p), NEW signals,
         Iterate(t, p, signals)
  PROVE  Held'
<1>1. CASE ~ Wants(p)
  BY <1>1 DEF Iterate, Held, HeldSomewhere, InHand, Queued
<1>2. CASE Wants(p)
  BY <1>2, TakeHeld DEF Iterate
<1> QED
  BY <1>1, <1>2

LEMMA CallsHeld ==
  ASSUME Places, Held, NEW t \in Threads, NEW p \in Ports,
         OnMessage(t, p) \/ Drain(t, p) \/ ReceiveMessageOnPort(t, p)
  PROVE  Held'
<1>1. CanTake(t, p)
  BY DEF OnMessage, Drain, ReceiveMessageOnPort, CanTake, InLoop, RunsProgram,
     InCpp
<1> QED
  BY <1>1, IterateHeld, TakeHeld DEF OnMessage, Drain, ReceiveMessageOnPort

LEMMA HandlerReturnsHeld ==
  ASSUME Places, Held, NEW t \in Threads, HandlerReturns(t)
  PROVE  Held'
<1>1. CASE \E p \in Ports : running[t] = p /\ Iterate(t, p, signalled)
  <2>1. PICK p \in Ports : running[t] = p /\ Iterate(t, p, signalled)
    BY <1>1
  <2>2. CanTake(t, p)
    BY <2>1 DEF HandlerReturns, RunsProgram, InCpp, CanTake, Places, Owning,
       RunsOwned
  <2> QED
    BY <2>1, <2>2, IterateHeld
<1>2. CASE ~ \E p \in Ports : running[t] = p /\ Iterate(t, p, signalled)
  BY <1>2 DEF HandlerReturns, Held, HeldSomewhere, InHand, Queued
<1> QED
  BY <1>1, <1>2

LEMMA DisentangleHeld ==
  ASSUME Places, Held, NEW t \in Threads, NEW p \in Ports, Disentangle(t, p)
  PROVE  Held'
<1>1. /\ \A q \in Ports \ {p} : IF q = sibling[p]
                                THEN incoming'[q] = Append(incoming[q], Close)
                                ELSE incoming'[q] = incoming[q]
      /\ \A q \in Ports : place'[q] = IF q = p THEN "gone" ELSE place[q]
      /\ \A u \in Threads : \A x \in Ports :
           x \in dying'[u] <=> \/ x \in dying[u] \ {p}
                               \/ u = t /\ \E i \in Nat : Queued(p, i, x)
      /\ UNCHANGED hand
  BY DisentangleFacts
<1> SUFFICES ASSUME NEW x \in Ports, place'[x] = "moving"
             PROVE  HeldSomewhere(x)'
  BY DEF Held
<1>2. x # p /\ HeldSomewhere(x)
  BY <1>1 DEF Held
<1>3. ASSUME NEW u \in Threads, x \in dying[u] PROVE HeldSomewhere(x)'
  <2>1. x \in dying'[u]
    BY <1>1, <1>2, <1>3
  <2> QED
    BY <2>1 DEF HeldSomewhere
<1>4. ASSUME NEW q \in Ports, NEW i \in Nat, Queued(q, i, x)
      PROVE  HeldSomewhere(x)'
  <2>1. CASE q = p
    <3>1. x \in dying'[t]
      BY <1>1, <1>4, <2>1
    <3> QED
      BY <3>1 DEF HeldSomewhere
  <2>2. CASE q # p
    <3>1. Queued(q, i, x)'
      <4>1. PICK len \in Nat : len = Len(incoming[q])
        BY QueueFacts DEF Places
      <4>2. i \in 1 .. len /\ i \in 1 .. (len + 1) /\ incoming[q][i].port = x
        BY <1>4, <4>1 DEF Queued
      <4>3. Close \in Msg
        BY DEF Close, Msg
      <4>4. /\ Len(Append(incoming[q], Close)) = len + 1
            /\ Append(incoming[q], Close)[i] = incoming[q][i]
        BY <4>1, <4>2, <4>3, Adding DEF Places
      <4> QED
        BY <1>1, <2>2, <4>1, <4>2, <4>4 DEF Queued
    <3> QED
      BY <3>1 DEF HeldSomewhere
  <2> QED
    BY <2>1, <2>2
<1> QED
  BY <1>1, <1>2, <1>3, <1>4, HandsKept DEF HeldSomewhere

LEMMA NextHeld ==
  ASSUME Places, Held, [Next]_vars
  PROVE  Held'
<1>1. CASE UNCHANGED vars
  BY <1>1 DEF vars, Held, HeldSomewhere, InHand, Queued
<1>2. CASE Next
  <2>1. PICK t \in Threads : Program(t) \/ ThreadStep(t) \/ HandlerThrows(t)
    BY <1>2 DEF Next
  <2>2. ASSUME NEW p \in Ports, NEW e \in Ports \cup {"none"},
               \/ Serialize(t, p, e) \/ PostThroughClosed(t, p)
               \/ MoveToContext(t, p) \/ Start(t, p) \/ Stop(t, p)
               \/ ClosePort(t, p) \/ OnClose(t, p)
        PROVE  Held'
    BY <2>2, QuietHeld
  <2>3. ASSUME NEW p \in Ports,
               OnMessage(t, p) \/ Drain(t, p) \/ ReceiveMessageOnPort(t, p)
        PROVE  Held'
    BY <2>3, CallsHeld
  <2>4. ASSUME Teardown(t) \/ HandlerThrows(t) PROVE Held'
    BY <2>4 DEF Teardown, HandlerThrows, Held, HeldSomewhere, InHand, Queued
  <2>5. ASSUME Program(t) PROVE Held'
    BY <2>2, <2>3, <2>4, <2>5, RolesAssumption DEF Program
  <2>6. ASSUME ThreadStep(t) PROVE Held'
    BY <2>2, <2>3, <2>6, PostHeld, DisentangleHeld, HandlerReturnsHeld
       DEF ThreadStep
  <2> QED
    BY <2>1, <2>4, <2>5, <2>6
<1> QED
  BY <1>1, <1>2
-----------------------------------------------------------------------------
(* TypeOK: the bound on messages *)

LEMMA PostingStill ==
  ASSUME Bounded, UNCHANGED <<hand, posts, sent>>
  PROVE  Bounded'
BY DEF Bounded, Posting

LEMMA SerializeBounded ==
  ASSUME Places, Bounded, NEW t \in Threads, NEW p \in Ports,
         NEW e \in Ports \cup {"none"}, Serialize(t, p, e)
  PROVE  Bounded'
<1>1. /\ hand[t] = {} /\ hand' = [hand EXCEPT ![t] = {[from |-> p, port |-> e]}]
      /\ posts < MaxMessages /\ posts' = posts + 1 /\ UNCHANGED sent
  BY DEF Serialize, RunsProgram, InCpp
<1>2. \A u \in Threads : hand'[u] # {} <=> u = t \/ hand[u] # {}
  BY <1>1 DEF Places, Types
<1>3. Posting' = Posting \cup {t} /\ t \notin Posting
  BY <1>1, <1>2 DEF Posting
<1>4. /\ IsFiniteSet(Posting') /\ Cardinality(Posting) \in Nat
      /\ Cardinality(Posting') = Cardinality(Posting) + 1
  BY <1>3, FS_AddElement, FS_CardinalityType DEF Bounded
<1>5. posts' \in Nat /\ posts' <= MaxMessages
  BY <1>1, PlacesAssumption DEF Bounded
<1>6. ASSUME NEW q \in Ports
      PROVE  sent'[q] + Cardinality(Posting)' <= posts'
  <2>1. sent[q] \in Nat /\ sent[q] + Cardinality(Posting) <= posts
        /\ posts \in Nat
    BY DEF Bounded, Places, Types
  <2> QED
    BY <1>1, <1>4, <2>1
<1> QED
  BY <1>4, <1>5, <1>6 DEF Bounded

LEMMA PostBounded ==
  ASSUME Places, Bounded, NEW t \in Threads, PostMessage(t)
  PROVE  Bounded'
<1>1. PICK m \in hand[t] :
        \/ UNCHANGED sent
        \/ sent' = [sent EXCEPT ![sibling[m.from]] = @ + 1]
  BY DEF PostMessage
<1>2. hand' = [hand EXCEPT ![t] = {}] /\ UNCHANGED posts
  BY DEF PostMessage
<1>3. \A u \in Threads : hand'[u] # {} <=> u # t /\ hand[u] # {}
  BY <1>2 DEF Places, Types
<1>4. Posting' = Posting \ {t} /\ t \in Posting
  BY <1>3 DEF Posting
<1>5. /\ IsFiniteSet(Posting') /\ Cardinality(Posting) \in Nat
      /\ Cardinality(Posting') = Cardinality(Posting) - 1
  BY <1>4, FS_RemoveElement, FS_CardinalityType DEF Bounded
<1>6. ASSUME NEW q \in Ports
      PROVE  sent'[q] + Cardinality(Posting)' <= posts'
  <2>1. sent[q] \in Nat /\ sent[q] + Cardinality(Posting) <= posts
        /\ posts \in Nat
    BY DEF Bounded, Places, Types
  <2>2. sent'[q] = sent[q] \/ sent'[q] = sent[q] + 1
    BY <1>1 DEF Places, Types
  <2> QED
    BY <1>2, <1>5, <2>1, <2>2
<1> QED
  BY <1>2, <1>5, <1>6 DEF Bounded

LEMMA NextBounded ==
  ASSUME Places, Bounded, [Next]_vars
  PROVE  Bounded'
<1>1. CASE UNCHANGED vars
  BY <1>1, PostingStill DEF vars, history
<1>2. CASE Next
  <2>1. PICK t \in Threads : Program(t) \/ ThreadStep(t) \/ HandlerThrows(t)
    BY <1>2 DEF Next
  <2>2. ASSUME NEW p \in Ports,
               \/ PostThroughClosed(t, p)
               \/ MoveToContext(t, p) \/ Start(t, p) \/ Stop(t, p)
               \/ ClosePort(t, p) \/ OnClose(t, p) \/ Disentangle(t, p)
        PROVE  UNCHANGED <<hand, posts, sent>>
    BY <2>2 DEF PostThroughClosed, MoveToContext, Start, Stop, ClosePort,
       OnClose, Disentangle, history
  <2>3. ASSUME NEW p \in Ports, NEW signals, Iterate(t, p, signals)
        PROVE  UNCHANGED <<hand, posts, sent>>
    BY <2>3 DEF Iterate, TakeClose, TakeMessage, LoseMessage, Adopt, Taken,
       history
  <2>4. ASSUME NEW p \in Ports,
               OnMessage(t, p) \/ Drain(t, p) \/ ReceiveMessageOnPort(t, p)
        PROVE  UNCHANGED <<hand, posts, sent>>
    BY <2>3, <2>4 DEF OnMessage, Drain, ReceiveMessageOnPort, TakeClose,
       TakeMessage, LoseMessage, Adopt, Taken, history
  <2>5. ASSUME Teardown(t) \/ HandlerThrows(t)
        PROVE  UNCHANGED <<hand, posts, sent>>
    BY <2>5 DEF Teardown, HandlerThrows, history
  <2>6. ASSUME HandlerReturns(t) PROVE UNCHANGED <<hand, posts, sent>>
    BY <2>3, <2>6 DEF HandlerReturns, history
  <2>7. ASSUME Program(t) PROVE Bounded'
    BY <2>2, <2>4, <2>5, <2>7, PostingStill, SerializeBounded, RolesAssumption
       DEF Program
  <2>8. ASSUME ThreadStep(t) PROVE Bounded'
    BY <2>2, <2>4, <2>6, <2>8, PostingStill, PostBounded DEF ThreadStep
  <2> QED
    BY <2>1, <2>5, <2>7, <2>8, PostingStill
<1> QED
  BY <1>1, <1>2

LEMMA InitBounded == Init => Held /\ Bounded
<1> SUFFICES ASSUME Init PROVE Held /\ Bounded
  OBVIOUS
<1>1. Posting = {}
  BY DEF Init, Posting
<1>2. IsFiniteSet(Posting) /\ Cardinality(Posting) = 0
  BY <1>1, FS_EmptySet
<1>3. \A e \in Ports : place[e] # "moving"
  BY PortsAssumption, PlacesAssumption DEF Init
<1> QED
  BY <1>2, <1>3, PlacesAssumption DEF Init, Held, Bounded
-----------------------------------------------------------------------------
(* TypeOK: the theorem *)

(* Two holders of a data are the same one.                                 *)
LEMMA OneHolderOf ==
  ASSUME Places, NEW e \in Ports, NEW g \in Holders(e), NEW h \in Holders(e)
  PROVE  g = h
<1>1. ASSUME NEW x \in Holders(e)
      PROVE  \/ \E t \in Threads : x = <<"posted", t>> /\ InHand(t, e)
             \/ \E t \in Threads : x = <<"destroyed", t>> /\ e \in dying[t]
             \/ \E q \in Ports : \E i \in Nat : x = <<q, i>> /\ Queued(q, i, e)
  <2>1. CASE x \in {<<"posted", t>> : t \in {u \in Threads :
                                         \E m \in hand[u] : m.port = e}}
    BY <2>1 DEF InHand
  <2>2. CASE x \in {<<"destroyed", t>> : t \in {u \in Threads : e \in dying[u]}}
    BY <2>2
  <2>3. CASE x \in {y \in Ports \X (1 .. MaxMessages) :
                      y[2] \in DOMAIN incoming[y[1]]
                      /\ incoming[y[1]][y[2]].port = e}
    <3>1. PICK q \in Ports, i \in 1 .. MaxMessages : x = <<q, i>>
      BY <2>3
    <3>2. i \in Nat /\ Queued(q, i, e)
      BY <2>3, <3>1, QueueFacts DEF Queued, Places
    <3> QED
      BY <3>1, <3>2
  <2> QED
    BY <2>1, <2>2, <2>3 DEF Holders
<1>2. /\ \A t, u \in Threads :
           /\ InHand(t, e) /\ InHand(u, e) => t = u
           /\ e \in dying[t] /\ e \in dying[u] => t = u
           /\ ~ (InHand(t, e) /\ e \in dying[u])
      /\ \A q \in Ports : \A t \in Threads : \A i \in Nat :
           Queued(q, i, e) => ~ InHand(t, e) /\ e \notin dying[t]
      /\ \A q, r \in Ports : \A i, j \in Nat :
           Queued(q, i, e) /\ Queued(r, j, e) => q = r /\ i = j
  BY DEF Places, OneHolder, OneHand, OneDeath, QueueAlone, OneQueue
<1>3. CASE \E t \in Threads : InHand(t, e)
  <2>1. PICK t \in Threads : InHand(t, e)
    BY <1>3
  <2>2. ASSUME NEW x \in Holders(e) PROVE x = <<"posted", t>>
    BY <1>1, <1>2, <2>1, Zenon
  <2> QED
    BY <2>2, Zenon
<1>4. CASE \E t \in Threads : e \in dying[t]
  BY <1>1, <1>2, <1>4, Zenon
<1>5. CASE \E q \in Ports : \E i \in Nat : Queued(q, i, e)
  BY <1>1, <1>2, <1>5, Zenon
<1> QED
  BY <1>1, <1>3, <1>4, <1>5

(* The number of a message, and its place in the queue, are within bounds. *)
LEMMA NumbersBounded ==
  ASSUME Places, Sequenced, Bounded, NEW q \in Ports, NEW i \in Messages(q)
  PROVE  i \in 1 .. MaxMessages /\ incoming[q][i].n \in 1 .. MaxMessages
<1>1. PICK done \in Nat : done = Len(taken[q])
  BY LenProperties DEF Sequenced, Ordered
<1>2. /\ i \in 1 .. (sent[q] - done) /\ incoming[q][i].n = done + i
      /\ done <= sent[q] /\ sent[q] \in Nat
  BY <1>1 DEF Sequenced, Ordered, Places, Types
<1>3. sent[q] <= posts /\ posts \in Nat /\ posts <= MaxMessages
  <2>1. Cardinality(Posting) \in Nat /\ sent[q] + Cardinality(Posting) <= posts
        /\ posts \in Nat /\ posts <= MaxMessages
    BY FS_CardinalityType DEF Bounded
  <2> QED
    BY <1>2, <2>1
<1> QED
  BY <1>2, <1>3, PlacesAssumption

LEMMA HoldersCounted ==
  ASSUME Places, Sequenced, Held, Bounded, NEW e \in Ports
  PROVE  Cardinality(Holders(e)) = IF place[e] = "moving" THEN 1 ELSE 0
<1>1. ASSUME HeldSomewhere(e) PROVE Holders(e) # {}
  <2>1. CASE \E t \in Threads : InHand(t, e) \/ e \in dying[t]
    BY <2>1 DEF Holders, InHand
  <2>2. CASE \E q \in Ports : \E i \in Nat : Queued(q, i, e)
    <3>1. PICK q \in Ports, i \in Nat : Queued(q, i, e)
      BY <2>2
    <3>2. /\ i \in DOMAIN incoming[q] /\ incoming[q][i].port = e
          /\ incoming[q][i] # Close
      BY <3>1, QueueFacts, PlacesAssumption DEF Queued, Places, Close
    <3>3. i \in 1 .. MaxMessages
      BY <3>2, NumbersBounded DEF Messages
    <3>4. /\ <<q, i>> \in Ports \X (1 .. MaxMessages)
          /\ <<q, i>>[1] = q /\ <<q, i>>[2] = i
      BY <3>3
    <3>5. <<q, i>> \in {h \in Ports \X (1 .. MaxMessages) :
                          h[2] \in DOMAIN incoming[h[1]]
                          /\ incoming[h[1]][h[2]].port = e}
      BY <3>2, <3>4
    <3> QED
      BY <3>5 DEF Holders
  <2> QED
    BY <1>1, <2>1, <2>2 DEF HeldSomewhere
<1>2. ASSUME NEW h \in Holders(e) PROVE place[e] = "moving"
  <2>1. CASE h \in {<<"posted", t>> : t \in {u \in Threads :
                                         \E m \in hand[u] : m.port = e}}
    BY <2>1 DEF InHand, Places, Moving
  <2>2. CASE h \in {<<"destroyed", t>> : t \in {u \in Threads : e \in dying[u]}}
    BY <2>2 DEF Places, Moving
  <2>3. CASE h \in {y \in Ports \X (1 .. MaxMessages) :
                      y[2] \in DOMAIN incoming[y[1]]
                      /\ incoming[y[1]][y[2]].port = e}
    <3>1. PICK q \in Ports, i \in 1 .. MaxMessages : h = <<q, i>>
      BY <2>3
    <3>2. i \in Nat /\ Queued(q, i, e)
      BY <2>3, <3>1, QueueFacts DEF Queued, Places
    <3> QED
      BY <3>2 DEF Places, Moving
  <2> QED
    BY <2>1, <2>2, <2>3 DEF Holders
<1>3. CASE place[e] = "moving"
  <2>1. PICK h \in Holders(e) : TRUE
    BY <1>1, <1>3 DEF Held
  <2>2. Holders(e) = {h}
    BY OneHolderOf
  <2> QED
    BY <1>3, <2>2, FS_Singleton
<1>4. CASE place[e] # "moving"
  <2>1. Holders(e) = {}
    BY <1>2, <1>4
  <2> QED
    BY <1>4, <2>1, FS_EmptySet
<1> QED
  BY <1>3, <1>4

LEMMA TypesOfQueues ==
  ASSUME Places, Sequenced, Bounded
  PROVE  incoming \in [Ports -> Seq(Message \cup {Close})]
<1>1. ASSUME NEW q \in Ports PROVE incoming[q] \in Seq(Message \cup {Close})
  <2>1. incoming[q] \in Seq(Msg)
    BY QueueFacts DEF Places
  <2>2. PICK len \in Nat : incoming[q] \in [1 .. len -> Msg]
    BY <2>1, LenProperties
  <2>3. ASSUME NEW i \in 1 .. len, incoming[q][i] # Close
        PROVE  incoming[q][i] \in Message
    <3>1. i \in Messages(q) /\ incoming[q][i] \in Msg
      BY <2>2, <2>3 DEF Messages
    <3>2. incoming[q][i].n \in 1 .. MaxMessages
      BY <3>1, NumbersBounded
    <3> QED
      BY <3>1, <3>2 DEF Msg, Message
  <2>4. incoming[q] \in [1 .. len -> Message \cup {Close}]
    BY <2>2, <2>3
  <2> QED
    BY <2>4, SeqDef, Zenon
<1> QED
  BY <1>1 DEF Places, Types

LEMMA AtMostOneElement ==
  ASSUME NEW S, \A x, y \in S : x = y
  PROVE  Cardinality(S) <= 1
<1>1. CASE S = {}
  BY <1>1, FS_EmptySet
<1>2. CASE S # {}
  <2>1. PICK x : S = {x}
    BY <1>2
  <2> QED
    BY <2>1, FS_Singleton
<1> QED
  BY <1>1, <1>2

LEMMA InvariantTypeOK ==
  ASSUME Places, Sequenced, Held, Bounded
  PROVE  TypeOK
<1>1. incoming \in [Ports -> Seq(Message \cup {Close})]
  BY TypesOfQueues
<1>2. \A t \in Threads : Cardinality(hand[t]) <= 1
  BY AtMostOneElement DEF Places, Owning, InOneCall
<1>3. \A p \in Ports :
        Cardinality(Holders(p)) = IF place[p] = "moving" THEN 1 ELSE 0
  BY HoldersCounted
<1> QED
  BY <1>1, <1>2, <1>3 DEF TypeOK, Places, Types, Siblings, Owning, OwnedLive

(* At every moment the data of a port has exactly one holder: the          *)
(* MessagePort of one thread, one message, one thread that is posting or   *)
(* destroying it; it is never shared, and never lost before its end, as    *)
(* the unique_ptr of the source promises.                                  *)
THEOREM TypeCorrect == Spec => []TypeOK
<1> DEFINE All == IInv /\ Sequenced /\ Held /\ Bounded
<1>1. Init => All
  BY InitIInv, InitOrder, InitBounded
<1>2. All /\ [Next]_vars => All'
  BY NextIInv, NextOrder, NextHeld, NextBounded DEF IInv
<1>3. All => TypeOK
  BY InvariantTypeOK DEF IInv
<1> QED
  BY <1>1, <1>2, <1>3, PTL DEF Spec
=============================================================================
