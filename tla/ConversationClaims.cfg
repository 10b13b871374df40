\* One claim at a time: put another of the commented lines in the place of the
\* last but one to see that claim refuted.
SPECIFICATION TalkSpec
CONSTANTS
  Pub = {h1, h2}
  MaxCalls = 2
  Message = {m1, m2}
  near = near
  far = far
  NoPeer = NoPeer
  None = None
  Peer <- Peers
  Incoming <- Kinds
\* INVARIANT AnswersReachCaller
\* INVARIANT SubIdIsOriginal
\* PROPERTY ErrorIsSent
INVARIANT RoutesAreWhole
CHECK_DEADLOCK FALSE
