CONSTANTS
  MaxStarts = 2
  MaxFetches = 1
SPECIFICATION FairSpec
INVARIANTS
  NoStrayBackend
PROPERTIES
  ReportsAreOfTheNewestStart
  StartsSettle
  PanelShowsOutage
