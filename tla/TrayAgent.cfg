CONSTANTS
  MaxBackends = 2
  MaxPolls = 2
SPECIFICATION FairSpec
INVARIANTS
  NoStrayBackend
  OwnBackendIsKept
PROPERTIES
  ShellSettles
