CONSTANTS
  e1 = e1  e2 = e2  e3 = e3  e4 = e4
  s1 = s1  t1 = t1  t2 = t2  c1 = c1  c2 = c2
  k1 = k1  k2 = k2  k3 = k3
  NoSession = NoSession
  NoClient = NoClient
  NoConn = NoConn
  NoOwner = NoOwner
  Events <- MCEvents
  Sessions = {s1}
  TagKeys = {t1, t2}
  Clients = {c1, c2}
  Conns = {k1, k2, k3}
  FirstConn = k1
  IdOf <- MCIdOf
  SessionOf <- MCSessionOf
  StartOf <- MCStartOf
  FinishOf <- MCFinishOf
  TokensOf <- MCTokensOf
  ClientOf <- MCClientOf
  TagsOf <- MCTagsOf
SPECIFICATION FairSpec
INVARIANTS
  TypeOK
  StoredExactlyWhenCommitted
  SessionsSummarise
PROPERTIES
  ImplementsLedger
  RecordingEnds
