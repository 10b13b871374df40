SPECIFICATION TalkSpec
CONSTANTS
  Pub = {h1, h2}
  MaxCalls = 2
  Message = {m1, m2}
  near = near
  far = far
  NoPeer = NoPeer
  None = None
  Peer <- Peers
  Incoming <- Kinds
SYMMETRY Interchangeable
CONSTRAINT OneCallsAgain
INVARIANTS TalkInv MessagesStayApart RouteIsKept OneOfferEach
PROPERTIES FastReplyIsCaught
\* a handler ends
CHECK_DEADLOCK FALSE
