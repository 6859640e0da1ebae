----------------------------- MODULE ConfigEdit -----------------------------
(***************************************************************************)
(* The config file and the commands that rewrite it: "config init" and the *)
(* mutations of "config listener", "config ui" and "config privacy"        *)
(* (internal/cli/config_commands.go, internal/configedit/editor.go), and   *)
(* the first start of a desktop shell (internal/desktop/runtime.go). Each  *)
(* is a process: it reads the file, edits its copy, validates it, writes a *)
(* temporary file and renames that over the config; nothing is locked.     *)
(*                                                                         *)
(* A document is what the file says; Config(d) is what the program makes   *)
(* of it (internal/config/config.go). The upstream URL, the database path  *)
(* and persist_bodies are set like a listener's address and the UI's; the  *)
(* redacted JSON fields are edited like the headers.                       *)
(***************************************************************************)
EXTENDS Integers, SequencesExt

CONSTANTS
  Commands,                   \* processes, each running one command
  Names, DefaultName,         \* listeners
  Addrs, WellFormed,          \* addresses, and those SplitHostPort takes
  Blank,                      \* the empty address
  DefaultAddr, DefaultUIAddr,
  Tags, DefaultTags, DesktopTags, \* values of a listener's default tag
  Headers, Lower,             \* header names, and each in lower case
  DefaultHeaders,
  Absent,                     \* a key, a flag or a file that is not there
  InitialFiles                \* what users may have written

ASSUME ConfigAssumption ==
  /\ DefaultName \in Names /\ {DefaultTags, DesktopTags} \subseteq Tags
  /\ WellFormed \subseteq Addrs /\ Blank \in Addrs \ WellFormed
  /\ {DefaultAddr, DefaultUIAddr} \subseteq WellFormed
  /\ Lower \in [Headers -> Headers] /\ DefaultHeaders \subseteq Headers
  /\ \A h \in Headers : Lower[Lower[h]] = Lower[h]
  /\ \A h \in DefaultHeaders : Lower[h] = h
  /\ Absent \notin Names /\ Absent \notin Addrs /\ Absent \notin Tags
  /\ Absent \notin BOOLEAN /\ \A S \in SUBSET Headers : S # Absent

Listener == [name : Names, addr : Addrs, tag : Tags \cup {Absent}]

Document == [listeners : Seq(Listener),
             headers : {Absent} \cup SUBSET Headers,
             enabled : BOOLEAN \cup {Absent},
             uiAddr : Addrs \cup {Absent}]

ASSUME FilesAssumption ==
  Absent \notin Document /\ InitialFiles \subseteq {Absent} \cup Document

VARIABLES
  file,      \* the config file
  temp,      \* the temporary file of each command
  pc, edit,  \* where a command is, and what it is asked for
  base,      \* the document it read
  read,      \* history: the renames before it read, or found no file
  renamed,   \* history: the number of its rename
  renames    \* history: the renames so far

history == <<read, renamed, renames>>
vars == <<file, temp, pc, edit, base, history>>

-----------------------------------------------------------------------------
(* From the document to the config *)

OrElse(value, default) == IF value = Absent THEN default ELSE value

Normalized(c) ==
  [c EXCEPT !.uiAddr = IF c.enabled /\ @ = Blank THEN DefaultUIAddr ELSE @,
            !.headers = {Lower[h] : h \in @}]

Config(d) ==
  Normalized([listeners |-> d.listeners,
              headers |-> OrElse(d.headers, DefaultHeaders),
              enabled |-> OrElse(d.enabled, TRUE),
              uiAddr |-> OrElse(d.uiAddr, DefaultUIAddr)])

Valid(c) ==
  /\ c.listeners # <<>>
  /\ \A i \in DOMAIN c.listeners : c.listeners[i].addr \in WellFormed
  /\ \A i, j \in DOMAIN c.listeners :
       i # j => /\ c.listeners[i].name # c.listeners[j].name
                /\ c.listeners[i].addr # c.listeners[j].addr
  /\ c.enabled => c.uiAddr \in WellFormed

Loads(d) == d # Absent /\ Valid(Config(d))

DefaultDocument ==
  [listeners |-> <<[name |-> DefaultName, addr |-> DefaultAddr,
                    tag |-> DefaultTags]>>,
   headers |-> DefaultHeaders, enabled |-> TRUE, uiAddr |-> DefaultUIAddr]

DesktopDocument == [DefaultDocument EXCEPT !.listeners[1].tag = DesktopTags]

-----------------------------------------------------------------------------
(* The edits *)

Adds == [op : {"add"}, name : Names, addr : Addrs \ {Blank},
         tag : Tags \cup {Absent}]
Updates == [op : {"update"}, name : Names, rename : Names \cup {Absent},
            addr : (Addrs \ {Blank}) \cup {Absent}]
Removes == [op : {"remove"}, name : Names]
TagEdits == [op : {"set-tag"}, name : Names, tag : Tags \cup {Absent}]
Switches == [op : {"enable"}, enabled : BOOLEAN]
AddrEdits == [op : {"set-listen-addr"}, addr : Addrs]
HeaderEdits == [op : {"add-redact-header", "remove-redact-header"},
                header : Headers]
Inits == [op : {"init"}, force : BOOLEAN]
FirstStart == [op |-> "runtime"]

Edits == Adds \cup Removes \cup TagEdits \cup Switches \cup AddrEdits
           \cup HeaderEdits \cup Inits \cup {FirstStart}
           \cup {u \in Updates : u.rename # Absent \/ u.addr # Absent}

(* findListener: the first of that name, or 0 *)
Index(d, name) ==
  SelectInSeq(d.listeners, LAMBDA l : l.name = name)

(* The editor's errors. *)
Refuses(d, e) ==
  \/ e.op = "add" /\ Index(d, e.name) # 0
  \/ e.op \in {"update", "remove", "set-tag"} /\ Index(d, e.name) = 0
  \/ e.op = "remove" /\ Len(d.listeners) <= 1
  \/ /\ e.op = "update" /\ e.rename \notin {Absent, e.name}
     /\ Index(d, e.rename) # 0

AddListener(d, e) ==
  [d EXCEPT !.listeners =
     Append(@, [name |-> e.name, addr |-> e.addr, tag |-> e.tag])]

(* Fault: a flag that is not given is written all the same *)
UpdateListenerBlindly(d, e) ==
  [d EXCEPT !.listeners[Index(d, e.name)] =
     [@ EXCEPT !.name = e.rename, !.addr = OrElse(e.addr, @)]]

UpdateListener(d, e) ==
  LET at == Index(d, e.name)
      l  == d.listeners[at] IN
  [d EXCEPT !.listeners[at] = [l EXCEPT !.name = OrElse(e.rename, l.name),
                                        !.addr = OrElse(e.addr, l.addr)]]

RemoveListener(d, e) ==
  [d EXCEPT !.listeners = RemoveAt(@, Index(d, e.name))]

SetTag(d, e) == [d EXCEPT !.listeners[Index(d, e.name)].tag = e.tag]

(* addSequenceValue: a list that is not there is started *)
AddHeader(d, e) ==
  [d EXCEPT !.headers = OrElse(@, {}) \cup {Lower[e.header]}]

(* removeSequenceValue: an emptied list is deleted with its key *)
RemoveHeader(d, e) ==
  LET left == OrElse(d.headers, {}) \ {Lower[e.header]} IN
  [d EXCEPT !.headers = IF left = {} THEN Absent ELSE left]

Edited(d, e) ==
  CASE e.op = "add" -> AddListener(d, e)
    [] e.op = "update" -> UpdateListener(d, e)
    [] e.op = "remove" -> RemoveListener(d, e)
    [] e.op = "set-tag" -> SetTag(d, e)
    [] e.op = "enable" -> [d EXCEPT !.enabled = e.enabled]
    [] e.op = "set-listen-addr" -> [d EXCEPT !.uiAddr = e.addr]
    [] e.op = "add-redact-header" -> AddHeader(d, e)
    [] e.op = "remove-redact-header" -> RemoveHeader(d, e)
    [] OTHER -> d

-----------------------------------------------------------------------------
(* The commands *)

Init ==
  /\ file \in InitialFiles
  /\ temp = [p \in Commands |-> Absent]
  /\ pc = [p \in Commands |-> "idle"]
  /\ edit = [p \in Commands |-> FirstStart]
  /\ base = [p \in Commands |-> DefaultDocument]
  /\ read = [p \in Commands |-> 0]
  /\ renamed = [p \in Commands |-> 0]
  /\ renames = 0

(* What the command will write. *)
Draft(p) == Edited(base[p], edit[p])

GoTo(p, label) == pc' = [pc EXCEPT ![p] = label]

Begin(p, e) ==
  /\ pc[p] = "idle"
  /\ edit' = [edit EXCEPT ![p] = e]
  /\ GoTo(p, IF e.op \in {"init", "add", "runtime"} THEN "stat" ELSE "load")
  /\ UNCHANGED <<file, temp, base, history>>

(* Fault: persistMutation does not validate *)
PrepareUnchecked(p, d) ==
  /\ base' = [base EXCEPT ![p] = d]
  /\ IF Refuses(d, edit[p])
     THEN GoTo(p, "failed")
     ELSE \/ GoTo(p, "write")
          \/ edit[p].op # "runtime" /\ GoTo(p, "previewed")

(* A copy is edited and validated; with --dry-run it is only printed. *)
Prepare(p, d) ==
  /\ base' = [base EXCEPT ![p] = d]
  /\ IF Refuses(d, edit[p]) \/ ~Valid(Config(Edited(d, edit[p])))
     THEN GoTo(p, "failed")
     ELSE \/ GoTo(p, "write")
          \/ edit[p].op # "runtime" /\ GoTo(p, "previewed")

(* fileExists, or the os.Stat of ensureManagedRuntime *)
Stat(p) ==
  /\ pc[p] = "stat"
  /\ read' = [read EXCEPT ![p] = renames]
  /\ \/ /\ edit[p].op = "init" /\ edit[p].force
        /\ Prepare(p, DefaultDocument)
     \/ /\ edit[p].op = "init" /\ ~edit[p].force /\ file # Absent
        /\ GoTo(p, "failed") /\ UNCHANGED base
     \/ /\ edit[p] \in Adds \/ (edit[p].op = "init" /\ ~edit[p].force)
        /\ file = Absent
        /\ Prepare(p, DefaultDocument)
     \/ /\ edit[p].op = "runtime" /\ file = Absent
        /\ Prepare(p, DesktopDocument)
     \/ /\ edit[p].op \in {"add", "runtime"} /\ file # Absent
        /\ GoTo(p, IF edit[p].op = "add" THEN "load" ELSE "open")
        /\ UNCHANGED base
  /\ UNCHANGED <<file, temp, edit, renamed, renames>>

(* configedit.Load *)
Load(p) ==
  /\ pc[p] = "load"
  /\ read' = [read EXCEPT ![p] = renames]
  /\ IF file = Absent THEN GoTo(p, "failed") /\ UNCHANGED base
                      ELSE Prepare(p, file)
  /\ UNCHANGED <<file, temp, edit, renamed, renames>>

(* Fault: the temporary file has a fixed name *)
WriteTempShared(p) ==
  /\ pc[p] = "write"
  /\ temp' = [q \in Commands |-> IF q = p \/ temp[q] # Absent
                                THEN Draft(p) ELSE Absent]
  /\ GoTo(p, "rename")
  /\ UNCHANGED <<file, edit, base, history>>

(* WriteAtomic up to the Close of its temporary file *)
WriteTemp(p) ==
  /\ pc[p] = "write"
  /\ temp' = [temp EXCEPT ![p] = Draft(p)]
  /\ GoTo(p, "rename")
  /\ UNCHANGED <<file, edit, base, history>>

(* WriteAtomic's os.Rename; a desktop shell then loads what it finds. *)
Rename(p) ==
  /\ pc[p] = "rename"
  /\ file' = temp[p]
  /\ temp' = [temp EXCEPT ![p] = Absent]
  /\ renames' = renames + 1
  /\ renamed' = [renamed EXCEPT ![p] = renames']
  /\ GoTo(p, IF edit[p].op = "runtime" THEN "open" ELSE "done")
  /\ UNCHANGED <<edit, base, read>>

(* A step of WriteAtomic fails: the temporary file is removed. *)
WriteFails(p) ==
  /\ pc[p] \in {"write", "rename"}
  /\ temp' = [temp EXCEPT ![p] = Absent]
  /\ GoTo(p, "failed")
  /\ UNCHANGED <<file, edit, base, history>>

(* runtimeForOS: config.Load *)
Open(p) ==
  /\ pc[p] = "open"
  /\ GoTo(p, IF Loads(file) THEN "opened" ELSE "failed")
  /\ UNCHANGED <<file, temp, edit, base, history>>

Ended == {"failed", "previewed", "done", "opened", "killed"}

(* The process ends between two steps. *)
Killed(p) ==
  /\ pc[p] \notin Ended \cup {"idle"}
  /\ GoTo(p, "killed")
  /\ UNCHANGED <<file, temp, edit, base, history>>

Done == (\A p \in Commands : pc[p] \in Ended) /\ UNCHANGED vars

Next ==
  \/ \E p \in Commands :
       \/ \E e \in Edits : Begin(p, e)
       \/ Stat(p) \/ Load(p) \/ WriteTemp(p) \/ Rename(p) \/ WriteFails(p)
       \/ Open(p) \/ Killed(p)
  \/ Done

Spec == Init /\ [][Next]_vars

-----------------------------------------------------------------------------
(* Properties *)

TypeOK ==
  /\ file \in {Absent} \cup Document
  /\ temp \in [Commands -> {Absent} \cup Document]
  /\ pc \in [Commands -> {"idle", "stat", "load", "write", "rename", "open"}
                           \cup Ended]
  /\ edit \in [Commands -> Edits]
  /\ base \in [Commands -> Document]
  /\ renames \in Nat
  /\ {read, renamed} \subseteq [Commands -> 0 .. renames]

(* Whatever the commands replace the file with, the service can load it:   *)
(* defaults, normalisation and validation included, also over a file that  *)
(* could not be loaded before (persistMutation, ensureManagedRuntime).     *)
WritesLoad == [][file' # file => Loads(file')]_file

Concern(e, f) ==
  LET Subjects(x) ==
        CASE x.op \in {"add", "remove", "set-tag"} -> {<<"listener", x.name>>}
          [] x.op = "update" -> {<<"listener", x.name>>,
                                 <<"listener", OrElse(x.rename, x.name)>>}
          [] x.op = "enable" -> {<<"enabled">>}
          [] x.op = "set-listen-addr" -> {<<"uiAddr">>}
          [] OTHER -> {<<"headers">>}
  IN \/ e.op = "init" \/ f.op = "init"
     \/ Subjects(e) \cap Subjects(f) # {}

Kept(e) ==
  LET l == file.listeners
      at == Index(file, IF e.op = "update" THEN OrElse(e.rename, e.name)
                                           ELSE e.name)
  IN CASE e.op = "add" -> at # 0 /\ l[at].addr = e.addr /\ l[at].tag = e.tag
       [] e.op = "update" -> at # 0 /\ l[at].addr = OrElse(e.addr, l[at].addr)
       [] e.op = "remove" -> at = 0
       [] e.op = "set-tag" -> at # 0 /\ l[at].tag = e.tag
       [] e.op = "enable" -> Config(file).enabled = e.enabled
       [] e.op = "set-listen-addr" -> file.uiAddr = e.addr
       [] e.op = "add-redact-header" ->
            Lower[e.header] \in Config(file).headers
       [] OTHER -> TRUE

(* An edit that was reported as done stays in the file, except for a later *)
(* edit of the same thing, and except for one that had read the file       *)
(* before it was written: nothing is locked, but nothing else is lost      *)
(* either, by an init or a first start that saw no file too. The removal   *)
(* of a header is excepted: the defaults may bring it back.                *)
EditsAreKept ==
  \A p \in Commands :
    (renamed[p] > 0 /\ Loads(base[p])) =>
      \/ Kept(edit[p])
      \/ \E q \in Commands :
           /\ renamed[q] > renamed[p]
           /\ read[q] < renamed[p] \/ Concern(edit[q], edit[p])
=============================================================================
