CONSTANTS
  Commands = {c1, c2}
  Names = {"default", "webui"}
  DefaultName = "default"
  Addrs = {"a", "b", "", "bad"}
  WellFormed = {"a", "b"}
  Blank = ""
  DefaultAddr = "a"
  DefaultUIAddr = "b"
  Tags = {"unknown", "desktop-app"}
  DefaultTags = "unknown"
  DesktopTags = "desktop-app"
  Headers = {"auth", "AUTH", "key"}
  Lower <- MCLower
  DefaultHeaders = {"auth"}
  Absent = Absent
  InitialFiles <- MCInitialFiles
SPECIFICATION Spec
INVARIANTS TypeOK EditsAreKept
PROPERTY WritesLoad
