CONSTANTS
  e1 = e1  e2 = e2  e3 = e3  e4 = e4
  s1 = s1  s2 = s2  t1 = t1  t2 = t2  c1 = c1  c2 = c2  c3 = c3  l1 = l1  l2 = l2
  on = on
  NoSession = Blank
  NoClient = Blank
  Blank = Blank
  Fields <- MCFields
  Spellings <- MCSpellings
  Keys <- MCKeys
  Texts <- MCTexts
  KeyOf <- MCKeyOf
  DayStart = 3
  WeekStart = 2
  Now = 4
  Events <- MCEvents
  Sessions = {s1, s2}
  TagKeys = {t1, t2}
  Clients = {c1, c2, c3}
  Listeners = {l1, l2}
  IdOf <- MCIdOf
  SessionOf <- MCSessionOf
  StartOf <- MCStartOf
  FinishOf <- MCFinishOf
  TokensOf <- MCTokensOf
  ClientOf <- MCClientOf
  TagsOf <- MCTagsOf
  ListenerOf <- MCListenerOf
  Filters <- MCFilters
  BreakdownLimit = 2
  SessionsLimit = 1
  OverviewLimit = 2
  DetailLimit = 2
SPECIFICATION ReadsSpec
INVARIANTS
  ReadsTypeOK
  SessionTokensAddUp
  SummaryMissesNothing
  
  ListsAreWhole
