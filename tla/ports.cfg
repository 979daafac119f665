SPECIFICATION FairSpec
CONSTANTS
  a1 = a1
  a2 = a2
  b1 = b1
  b2 = b2
  t1 = t1
  t2 = t2
  Threads = {t1, t2}
  Ports = {a1, a2, b1, b2}
  Peer <- MCPeer
  Home <- MCHome
  Senders = {a1, b1}
  Receivers = {a2, b2}
  MaxMessages = 2
INVARIANTS TypeOK InOrder NoLostWakeup PeerLearns
PROPERTIES ListenersProgress
CHECK_DEADLOCK FALSE
