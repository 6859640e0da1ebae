---------------------------- MODULE MCConfigEdit ----------------------------
(* Two commands over what users may have written: nothing yet, the default *)
(* file, one with a second listener and no sections but that, one with     *)
(* lists of their own, and one that names two listeners alike.             *)
EXTENDS ConfigEdit

MCLower == [h \in Headers |-> IF h = "AUTH" THEN "auth" ELSE h]

File(listeners, headers, enabled, uiAddr) ==
  [listeners |-> listeners, headers |-> headers, enabled |-> enabled,
   uiAddr |-> uiAddr]

At(name, addr) == [name |-> name, addr |-> addr, tag |-> Absent]

MCInitialFiles ==
  {Absent, DefaultDocument,
   File(<<At("default", "a"), At("webui", "b")>>, Absent, Absent, Absent),
   File(<<At("default", "a")>>, {"AUTH", "key"}, FALSE, ""),
   File(<<At("webui", "a"), At("webui", "b")>>, {"key"}, TRUE, "bad")}
=============================================================================
