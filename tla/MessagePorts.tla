--------------------------- MODULE MessagePorts ---------------------------
(***************************************************************************)
(* Message ports of node_messaging.cc: two entangled MessagePortData, each *)
(* with a queue of incoming messages.  The MessagePort that owns a data is *)
(* a handle of the loop of one thread; the data may be detached from it,   *)
(* travel in a message and be adopted by a new MessagePort elsewhere,      *)
(* while its sibling goes on posting to it.                                *)
(*                                                                         *)
(* A port is known here by its data.  What belongs to the MessagePort that *)
(* owns it (receiving_messages_, the async handle, whether it is closing)  *)
(* is kept with the data; a MessagePort that has lost its data has nothing *)
(* left to do.  Locks: an action is a critical section of a queue's mutex_ *)
(* or of the sibling_mutex_ of two entangled data, or code that touches    *)
(* only what its thread owns.  Posting takes two steps, since serializing  *)
(* detaches the transferred port before the lock is taken; destructors     *)
(* disentangle one data after the other.                                   *)
(*                                                                         *)
(* Messages carry at most one port.  The n-th message posted to a queue is *)
(* n.  EndOfQueueFront, WokenByStartNever, RescheduledNever, UnlinkedHalf   *)
(* and SiblingToldNever are variants, with a bug, of what follows them.    *)
(***************************************************************************)
EXTENDS Naturals, Sequences, FiniteSets

CONSTANTS
  Threads,
  Ports,          \* the data of the ports
  Peer,           \* Peer[p] is what p was created entangled with
  Home,           \* Home[p] is the thread that p starts in
  Senders,        \* bound: the ports that the program posts through
  Receivers,      \* bound: the ports whose messages it handles or fetches
  MaxMessages     \* bound: messages posted

ASSUME PortsAssumption ==
  /\ Peer \in [Ports -> Ports]
  /\ \A p \in Ports : Peer[p] # p /\ Peer[Peer[p]] = p
  /\ Home \in [Ports -> Threads]
ASSUME RolesAssumption == Senders \cup Receivers \subseteq Ports
ASSUME PlacesAssumption ==
  /\ IsFiniteSet(Ports)
  /\ {"moving", "gone", "none", "detached"} \cap (Threads \cup Ports) = {}
  /\ MaxMessages \in Nat

VARIABLES
  sibling, incoming,
  place,          \* the thread of its owner_, "moving", or "gone"
  receiving,      \* the ports with receiving_messages_
  closing,        \* the ports whose handle is closing
  signalled,      \* the ports whose async handle has been sent
  hand,           \* per thread, what PostMessage has serialized, at most one
  running,        \* per thread, the port whose message handler runs
  dying,          \* per thread, the data it is destroying
  stopped,        \* threads whose environment is torn down
  posts,          \* history: calls of PostMessage, up to the bound
  sent,           \* history: per queue, the number of messages posted
  taken,          \* history: per queue, the messages taken from it
  failed          \* history: ports that could not deserialize a message

owned == <<receiving, closing, signalled>>
history == <<posts, sent, taken, failed>>
vars == <<sibling, incoming, place, owned, hand, running, dying, stopped,
          history>>

Message == [n : 1..MaxMessages, port : Ports \cup {"none"}]
Close == [n |-> 0, port |-> "none"]
Carried(messages) == {m.port : m \in messages} \ {"none"}
InQueue(p) == {incoming[p][i] : i \in DOMAIN incoming[p]}

Owned(t) == {p \in Ports : place[p] = t}
InCpp(t) == hand[t] # {} \/ dying[t] # {}
RunsProgram(t) == ~ InCpp(t) /\ t \notin stopped
InLoop(t) == ~ InCpp(t) /\ running[t] = "none"

Init ==
  /\ sibling = Peer
  /\ incoming = [p \in Ports |-> <<>>]
  /\ place = Home
  /\ receiving = {} /\ closing = {} /\ signalled = {}
  /\ hand = [t \in Threads |-> {}]
  /\ running = [t \in Threads |-> "none"]
  /\ dying = [t \in Threads |-> {}]
  /\ stopped = {}
  /\ posts = 0
  /\ sent = [p \in Ports |-> 0]
  /\ taken = [p \in Ports |-> <<>>]
  /\ failed = {}

(***************************************************************************)
(* AddToIncomingQueue and TriggerAsync: the owner is signalled, if there   *)
(* is one and its handle is not closing.                                   *)
(***************************************************************************)
EndOfQueueFront(q, m) == <<m>> \o q
EndOfQueue(q, m) == Append(q, m)

Woken(p) == IF place[p] \in Threads /\ p \notin closing THEN {p} ELSE {}

(***************************************************************************)
(* Detach: p leaves its MessagePort, whose loop ends when its handler      *)
(* returns.                                                                *)
(***************************************************************************)
LoopWithout(t, p) ==
  IF running[t] = p THEN [running EXCEPT ![t] = "detached"] ELSE running

(***************************************************************************)
(* PostMessage, before the lock: Serialize, which closes and detaches the  *)
(* port e to be transferred, "none" if there is none.                      *)
(***************************************************************************)
Serialize(t, p, e) ==
  /\ RunsProgram(t)
  /\ posts < MaxMessages
  /\ posts' = posts + 1
  /\ place[p] = t
  /\ e # "none" => e # p /\ place[e] = t /\ e \notin closing
  /\ hand' = [hand EXCEPT ![t] = {[from |-> p, port |-> e]}]
  /\ place' = [q \in Ports |-> IF q = e THEN "moving" ELSE place[q]]
  /\ receiving' = receiving \ {e}
  /\ signalled' = signalled \ {e}
  /\ running' = LoopWithout(t, e)
  /\ UNCHANGED <<sibling, incoming, closing, dying, stopped, sent, taken,
                 failed>>

(***************************************************************************)
(* PostMessage, under the sibling_mutex_.  Without a sibling, or when the  *)
(* sibling itself is transferred, the message is dropped, and its port     *)
(* with it.                                                                *)
(***************************************************************************)
Dropped(p, e) == sibling[p] = "none" \/ sibling[p] = e

PostMessage(t) ==
  /\ hand' = [hand EXCEPT ![t] = {}]
  /\ \E m \in hand[t] :
       LET p == m.from
           e == m.port
           s == sibling[p]
       IN
         \/ /\ Dropped(p, e)
            /\ dying' = [dying EXCEPT ![t] = {e} \ {"none"}]
            /\ UNCHANGED <<incoming, signalled, sent>>
         \/ /\ ~ Dropped(p, e)
            /\ sent' = [sent EXCEPT ![s] = @ + 1]
            /\ incoming' = [incoming EXCEPT ![s] =
                              EndOfQueue(@, [n |-> sent[s] + 1, port |-> e])]
            /\ signalled' = signalled \cup Woken(s)
            /\ UNCHANGED dying
  /\ UNCHANGED <<sibling, place, receiving, closing, running, stopped, posts,
                 taken, failed>>

(* A closed port, or one that has lost its data, serializes and drops. *)
PostThroughClosed(t, e) ==
  /\ RunsProgram(t)
  /\ \E p \in Ports : place[p] # t
  /\ place[e] = t /\ e \notin closing
  /\ place' = [place EXCEPT ![e] = "moving"]
  /\ receiving' = receiving \ {e}
  /\ signalled' = signalled \ {e}
  /\ running' = LoopWithout(t, e)
  /\ dying' = [dying EXCEPT ![t] = {e}]
  /\ UNCHANGED <<sibling, incoming, closing, hand, stopped, history>>

(* MoveToContext: another MessagePort of the same thread takes the data. *)
MoveToContext(t, p) ==
  /\ RunsProgram(t)
  /\ place[p] = t /\ p \notin closing
  /\ receiving' = receiving \ {p}
  /\ signalled' = signalled \cup {p}
  /\ running' = LoopWithout(t, p)
  /\ UNCHANGED <<sibling, incoming, place, closing, hand, dying, stopped,
                 history>>

(***************************************************************************)
(* Start and Stop.  Start signals the handle when messages are waiting.    *)
(***************************************************************************)
WokenByStartNever(p) == {}
WokenByStart(p) == IF incoming[p] # <<>> THEN Woken(p) ELSE {}

Start(t, p) ==
  /\ RunsProgram(t)
  /\ place[p] = t
  /\ receiving' = receiving \cup {p}
  /\ signalled' = signalled \cup WokenByStart(p)
  /\ UNCHANGED <<sibling, incoming, place, closing, hand, running, dying,
                 stopped, history>>

Stop(t, p) ==
  /\ RunsProgram(t)
  /\ place[p] = t
  /\ receiving' = receiving \ {p}
  /\ UNCHANGED <<sibling, incoming, place, closing, signalled, hand, running,
                 dying, stopped, history>>

(* MessagePort::Close and HandleWrap::Close *)
ClosePort(t, p) ==
  /\ RunsProgram(t)
  /\ place[p] = t
  /\ closing' = closing \cup {p}
  /\ signalled' = signalled \ {p}
  /\ UNCHANGED <<sibling, incoming, place, receiving, hand, running, dying,
                 stopped, history>>

(***************************************************************************)
(* ReceiveMessage for the thread t that owns p, when the front of the      *)
(* queue is wanted; signals is what is signalled before.                   *)
(***************************************************************************)
Wants(p) ==
  /\ incoming[p] # <<>>
  /\ p \in receiving \/ Head(incoming[p]) = Close

TakeClose(t, p, signals) ==
  /\ incoming[p] # <<>> /\ Head(incoming[p]) = Close
  /\ incoming' = [incoming EXCEPT ![p] = Tail(@)]
  /\ closing' = closing \cup {p}
  /\ signalled' = signals \ {p}
  /\ UNCHANGED <<sibling, place, receiving, hand, dying, stopped, history>>

Taken(p) ==
  /\ incoming[p] # <<>> /\ Head(incoming[p]) # Close
  /\ incoming' = [incoming EXCEPT ![p] = Tail(@)]
  /\ taken' = [taken EXCEPT ![p] = Append(@, Head(incoming[p]).n)]

(***************************************************************************)
(* Deserialize begins with making a MessagePort for the port that the      *)
(* message has.  It is signalled, for messages may have arrived meanwhile. *)
(***************************************************************************)
Adopt(t, p, signals) ==
  LET ports == Carried({Head(incoming[p])})
  IN  /\ place' = [q \in Ports |-> IF q \in ports THEN t ELSE place[q]]
      /\ signalled' = signals \cup ports
      /\ UNCHANGED dying

TakeMessage(t, p, signals) ==
  /\ Taken(p)
  /\ Adopt(t, p, signals)
  /\ UNCHANGED <<sibling, receiving, closing, hand, stopped, posts, sent,
                 failed>>

(***************************************************************************)
(* Deserialize fails.  The port that the message has is destroyed with the *)
(* message if no MessagePort could be made for it.  After that nothing     *)
(* takes it back: its MessagePort stays with t, and nobody closes it but   *)
(* the teardown, unless an async hook has shown it to the program.         *)
(***************************************************************************)
LoseMessage(t, p, signals) ==
  /\ Taken(p)
  /\ failed' = failed \cup {p}
  /\ \/ /\ dying' = [dying EXCEPT ![t] = Carried({Head(incoming[p])})]
        /\ signalled' = signals
        /\ UNCHANGED place
     \/ Adopt(t, p, signals)
  /\ UNCHANGED <<sibling, receiving, closing, hand, stopped, posts, sent>>

(* receiveMessageOnPort *)
ReceiveMessageOnPort(t, p) ==
  /\ RunsProgram(t)
  /\ place[p] = t
  /\ \/ TakeClose(t, p, signalled)
     \/ TakeMessage(t, p, signalled)
     \/ LoseMessage(t, p, signalled)
  /\ UNCHANGED running

(***************************************************************************)
(* OnMessage up to the call of the message handler.  Without a message the *)
(* loop ends; so it does when one cannot be deserialized, and then nothing *)
(* signals the handle again.                                               *)
(***************************************************************************)
Iterate(t, p, signals) ==
  \/ /\ ~ Wants(p)
     /\ running' = [running EXCEPT ![t] = "none"]
     /\ signalled' = signals
     /\ UNCHANGED <<sibling, incoming, place, receiving, closing, hand, dying,
                    stopped, history>>
  \/ /\ Wants(p)
     /\ \/ /\ TakeClose(t, p, signals)
           /\ running' = [running EXCEPT ![t] = "none"]
        \/ TakeMessage(t, p, signals) /\ running' = [running EXCEPT ![t] = p]
        \/ /\ LoseMessage(t, p, signals)
           /\ running' = [running EXCEPT ![t] = "none"]

OnMessage(t, p) ==
  /\ InLoop(t) /\ t \notin stopped
  /\ place[p] = t /\ p \in signalled
  /\ Iterate(t, p, signalled \ {p})

(* drainMessagePort *)
Drain(t, p) ==
  /\ RunsProgram(t) /\ running[t] = "none"
  /\ place[p] = t
  /\ Iterate(t, p, signalled)

HandlerReturns(t) ==
  /\ RunsProgram(t)
  /\ \/ \E p \in Ports : running[t] = p /\ Iterate(t, p, signalled)
     \/ /\ running[t] = "detached"
        /\ running' = [running EXCEPT ![t] = "none"]
        /\ UNCHANGED <<sibling, incoming, place, owned, hand, dying, stopped,
                       history>>

(* A handler that throws: OnMessage is scheduled again. *)
RescheduledNever(p) == {}
Rescheduled(p) == Woken(p)

HandlerThrows(t) ==
  /\ RunsProgram(t)
  /\ running[t] \in Ports \cup {"detached"}
  /\ running' = [running EXCEPT ![t] = "none"]
  /\ signalled' = signalled \cup
       (IF running[t] = "detached" THEN {} ELSE Rescheduled(running[t]))
  /\ UNCHANGED <<sibling, incoming, place, receiving, closing, hand, dying,
                 stopped, history>>

(***************************************************************************)
(* OnClose disentangles the data and destroys it; the destructor           *)
(* disentangles (once more) and destroys the messages in the queue, and    *)
(* with them the data of the ports that they carry.                        *)
(***************************************************************************)
OnClose(t, p) ==
  /\ InLoop(t)
  /\ place[p] = t /\ p \in closing
  /\ place' = [place EXCEPT ![p] = "moving"]
  /\ receiving' = receiving \ {p}
  /\ closing' = closing \ {p}
  /\ dying' = [dying EXCEPT ![t] = {p}]
  /\ UNCHANGED <<sibling, incoming, signalled, hand, running, stopped,
                 history>>

SiblingToldNever(p) == {}
SiblingTold(p) == {sibling[p]} \ {"none"}

UnlinkedHalf(p) == {p}
Unlinked(p) == {p, sibling[p]}

Disentangle(t, p) ==
  /\ p \in dying[t]
  /\ sibling' = [q \in Ports |->
                   IF q \in Unlinked(p) THEN "none" ELSE sibling[q]]
  /\ incoming' = [q \in Ports |-> CASE q = p -> <<>>
                                    [] q \in SiblingTold(p) ->
                                             EndOfQueue(incoming[q], Close)
                                    [] OTHER -> incoming[q]]
  /\ signalled' = signalled \cup UNION {Woken(q) : q \in SiblingTold(p)}
  /\ place' = [place EXCEPT ![p] = "gone"]
  /\ dying' = [dying EXCEPT ![t] = (@ \ {p}) \cup Carried(InQueue(p))]
  /\ UNCHANGED <<receiving, closing, hand, running, stopped, history>>

(***************************************************************************)
(* The environment of t is torn down, be it in the middle of a handler:    *)
(* its handles are closed and no JavaScript runs any more.                 *)
(***************************************************************************)
Teardown(t) ==
  /\ RunsProgram(t)
  /\ stopped' = stopped \cup {t}
  /\ closing' = closing \cup Owned(t)
  /\ signalled' = signalled \ Owned(t)
  /\ running' = [running EXCEPT ![t] = "none"]
  /\ UNCHANGED <<sibling, incoming, place, receiving, hand, dying, history>>

Program(t) ==
  \/ \E p \in Ports : ClosePort(t, p) \/ PostThroughClosed(t, p)
  \/ \E p \in Receivers : \/ Start(t, p) \/ Stop(t, p) \/ MoveToContext(t, p)
                          \/ ReceiveMessageOnPort(t, p) \/ Drain(t, p)
  \/ \E p \in Senders, e \in Ports \cup {"none"} : Serialize(t, p, e)
  \/ Teardown(t)

ThreadStep(t) ==
  \/ PostMessage(t)
  \/ \E p \in Ports : OnMessage(t, p) \/ OnClose(t, p) \/ Disentangle(t, p)
  \/ HandlerReturns(t)

Next == \E t \in Threads : Program(t) \/ ThreadStep(t) \/ HandlerThrows(t)

Spec == Init /\ [][Next]_vars

(***************************************************************************)
(* Loops run, also those of a torn down environment, until their handles   *)
(* are closed; handlers return or throw.                                   *)
(***************************************************************************)
Fairness ==
  /\ \A t \in Threads : WF_vars(PostMessage(t)) /\ WF_vars(HandlerReturns(t))
  /\ \A p \in Ports : /\ WF_vars(\E t \in Threads : OnMessage(t, p))
                     /\ WF_vars(\E t \in Threads : OnClose(t, p))
                     /\ WF_vars(\E t \in Threads : Disentangle(t, p))

FairSpec == Spec /\ Fairness
-----------------------------------------------------------------------------

(* Every data has one holder (unique_ptr): the port of one thread, one     *)
(* message, a thread that posts it or one that destroys it, or none any    *)
(* more; siblings are each other's.                                        *)
Holders(p) ==
  {<<"posted", t>> : t \in {u \in Threads : \E m \in hand[u] : m.port = p}}
    \cup {<<"destroyed", t>> : t \in {u \in Threads : p \in dying[u]}}
    \cup {h \in Ports \X (1..MaxMessages) :
            h[2] \in DOMAIN incoming[h[1]] /\ incoming[h[1]][h[2]].port = p}

TypeOK ==
  /\ sibling \in [Ports -> Ports \cup {"none"}]
  /\ \A p \in Ports : sibling[p] # "none" => sibling[sibling[p]] = p
  /\ incoming \in [Ports -> Seq(Message \cup {Close})]
  /\ place \in [Ports -> Threads \cup {"moving", "gone"}]
  /\ \A p \in Ports :
       Cardinality(Holders(p)) = IF place[p] = "moving" THEN 1 ELSE 0
  /\ receiving \subseteq Ports /\ closing \subseteq Ports
  /\ signalled \subseteq Ports
  /\ \A p \in receiving \cup closing \cup signalled : place[p] \in Threads
  /\ running \in [Threads -> Ports \cup {"none", "detached"}]
  /\ \A t \in Threads : Cardinality(hand[t]) <= 1

(* The messages of a queue are taken in the order in which they were       *)
(* posted, each once, whoever owns the port and however often it moved;    *)
(* those not taken wait at its front, in the same order.                   *)
InOrder ==
  \A p \in Ports :
    LET done == Len(taken[p])
        messages == {i \in DOMAIN incoming[p] : incoming[p][i] # Close}
    IN  /\ taken[p] = [n \in 1 .. done |-> n]
        /\ \A i \in messages : incoming[p][i].n = done + i
        /\ done <= sent[p]
        /\ place[p] # "gone" => messages = 1 .. (sent[p] - done)

(* A port that receives and has messages is about to run its loop, or is   *)
(* in it: whether they came before it was started, while it was            *)
(* transferred, or while a handler ran or threw.  Except after a message   *)
(* that could not be deserialized.                                         *)
NoLostWakeup ==
  \A p \in receiving \ (closing \cup failed) :
    incoming[p] # <<>> => p \in signalled \/ running[place[p]] = p

(* A port without a sibling has been told so, once, after everything else: *)
(* the close message is the last in its queue, or its handle closes.  It   *)
(* has none while it has a sibling, which then is not gone; a port that is *)
(* left behind by a message that could not be deserialized is one.         *)
PeerLearns ==
  \A p \in Ports :
    LET closes == {i \in DOMAIN incoming[p] : incoming[p][i] = Close}
    IN  IF sibling[p] = "none"
        THEN \/ p \in closing \/ place[p] = "gone"
             \/ \E t \in Threads : p \in dying[t]
             \/ closes = {Len(incoming[p])}
        ELSE closes = {} /\ place[sibling[p]] # "gone"

(* A port that goes on receiving gets all messages and in the end the      *)
(* close of its peer: it does not listen for ever to a port that is gone,  *)
(* nor to one that its thread, now stopped, has left behind, nor with      *)
(* messages in its queue.                                                  *)
Listening(p) == p \in receiving \ (closing \cup failed)
ListenersProgress ==
  \A p \in Receivers :
    /\ []<> ~ (Listening(p) /\ place[Peer[p]] \in stopped \cup {"gone"})
    /\ \A n \in 1..MaxMessages :
         []<> ~ (Listening(p) /\ sent[p] >= n /\ Len(taken[p]) < n)
=============================================================================
