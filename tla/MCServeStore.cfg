CONSTANTS
  x1 = x1  x2 = x2  x3 = x3  s1 = s1  k1 = k1  k2 = k2
  N = 2
  Exchanges <- MCExchanges
  ListenerOf <- MCListenerOf
  UIEnabled = TRUE
  Sessions = {s1}
  TagKeys = {}
  Clients = {}
  NoSession = NoSession
  NoClient = NoClient
  IdOf <- MCIdOf
  SessionOf <- MCSessionOf
  StartOf <- MCOnes
  FinishOf <- MCOnes
  TokensOf <- MCOnes
  ClientOf <- MCClientOf
  TagsOf <- MCTagsOf
  Conns = {k1, k2}
  FirstConn = k1
  NoConn = NoConn
  NoOwner = NoOwner
SPECIFICATION FairServeSpec
INVARIANTS
  TypeOK
  ServeClosesEveryListener
  CleanExitCutsNothing
PROPERTIES
  StopIsBounded
  NoRecordingAfterTheReturn
