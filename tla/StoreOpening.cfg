CONSTANTS
  NoProcess = NoProcess
  Processes = {p1, p2, p3}
  M = 2
  MaxStarts = 2
SPECIFICATION FairOpening
INVARIANTS
  OpenedIsCurrent
PROPERTIES
  LosesARaceOnce
  OpeningEnds
