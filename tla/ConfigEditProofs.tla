-------------------------- MODULE ConfigEditProofs --------------------------
(* For any number of commands, names, addresses and tags, and whatever the *)
(* users wrote: the types of ConfigEdit, that every file a command puts in *)
(* place loads, and that what a command reported as done stays in it.      *)
EXTENDS ConfigEdit, TLAPS, WellFoundedInduction, SequenceTheorems

(* findListener returns a place in the list, or none. *)
LEMMA IndexIsAPlace ==
  ASSUME NEW d \in Document, NEW name
  PROVE  LET Places == {i \in 1 .. Len(d.listeners) :
                          d.listeners[i].name = name} IN
         /\ Index(d, name) \in 0 .. Len(d.listeners)
         /\ \/ Index(d, name) = 0 /\ Places = {}
            \/ Index(d, name) \in Places
<1> DEFINE Places == {i \in 1 .. Len(d.listeners) : d.listeners[i].name = name}
<1>1. Len(d.listeners) \in Nat
  BY DEF Document
<1>2. CASE Places = {}
  BY <1>1, <1>2 DEF Index, SelectInSeq
<1>3. CASE Places # {}
  <2>1. Places \subseteq Nat
    BY <1>1
  <2>2. PICK first \in Places :
          \A i \in Places : ~(<<i, first>> \in OpToRel(<, Nat))
    BY <1>3, <2>1, NatLessThanWellFounded, WFMin
  <2>3. \A i \in Places : first <= i
    <3> SUFFICES ASSUME NEW i \in Places, i < first
                 PROVE  FALSE
      BY <2>1
    <3>1. <<i, first>> \in Nat \X Nat /\ <<i, first>>[1] < <<i, first>>[2]
      BY <2>1
    <3>2. <<i, first>> \in OpToRel(<, Nat)
      BY <3>1 DEF OpToRel
    <3> QED
      BY <2>2, <3>2
  <2>4. Min(Places) \in Places
    BY <2>3 DEF Min
  <2> QED
    BY <1>1, <1>3, <2>4 DEF Index, SelectInSeq
<1> QED
  BY <1>2, <1>3

(* What is left of a list of a type is one. *)
LEMMA RemovingKeepsType ==
  ASSUME NEW S, NEW s \in Seq(S), NEW i \in 1 .. Len(s)
  PROVE  RemoveAt(s, i) \in Seq(S)
<1>1. SubSeq(s, 1, i - 1) \in Seq(S) /\ SubSeq(s, i + 1, Len(s)) \in Seq(S)
  OBVIOUS
<1> QED
  BY <1>1 DEF RemoveAt

(* What is left of a sequence when its i-th element is removed *)
LEMMA RemovedAt ==
  ASSUME NEW S, NEW s \in Seq(S), NEW i \in 1 .. Len(s)
  PROVE  LET t == RemoveAt(s, i) IN
         /\ Len(t) = Len(s) - 1
         /\ \A j \in 1 .. i - 1 : t[j] = s[j]
         /\ \A j \in i .. Len(s) - 1 : t[j] = s[j + 1]
<1> DEFINE u == SubSeq(s, 1, i - 1)
           v == SubSeq(s, i + 1, Len(s))
<1>1. /\ u \in Seq(S) /\ Len(u) = i - 1 /\ \A j \in 1 .. i - 1 : u[j] = s[j]
      /\ v \in Seq(S) /\ Len(v) = Len(s) - i
      /\ \A j \in 1 .. Len(s) - i : v[j] = s[i + j]
  OBVIOUS
<1>2. RemoveAt(s, i) = u \o v
  BY DEF RemoveAt
<1> HIDE DEF u, v
<1> DEFINE w == u \o v
<1>3. /\ Len(w) = Len(u) + Len(v)
      /\ \A j \in 1 .. Len(u) : w[j] = u[j]
      /\ \A j \in 1 .. Len(v) : w[Len(u) + j] = v[j]
  <2>1. u \in Seq(S) /\ v \in Seq(S) /\ Len(u) \in Nat /\ Len(v) \in Nat
    BY <1>1
  <2>2. /\ Len(w) = Len(u) + Len(v)
        /\ \A j \in 1 .. Len(u) + Len(v) :
             w[j] = IF j <= Len(u) THEN u[j] ELSE v[j - Len(u)]
    BY <2>1, ConcatProperties
  <2> HIDE DEF w
  <2>3. \A j \in 1 .. Len(u) : w[j] = u[j]
    BY <2>1, <2>2
  <2>4. \A j \in 1 .. Len(v) : w[Len(u) + j] = v[j]
    <3> SUFFICES ASSUME NEW j \in 1 .. Len(v)
                 PROVE  w[Len(u) + j] = v[j]
      OBVIOUS
    <3>1. /\ Len(u) + j \in 1 .. Len(u) + Len(v) /\ ~(Len(u) + j <= Len(u))
          /\ (Len(u) + j) - Len(u) = j
      BY <2>1
    <3> QED
      BY <2>2, <3>1
  <2> QED
    BY <2>2, <2>3, <2>4
<1>4. RemoveAt(s, i) = w
  BY <1>2
<1> HIDE DEF w
<1>5. \A j \in i .. Len(s) - 1 : w[j] = s[j + 1]
  <2> SUFFICES ASSUME NEW j \in i .. Len(s) - 1
               PROVE  w[j] = s[j + 1]
    OBVIOUS
  <2> DEFINE k == j - (i - 1)
  <2>1. k \in 1 .. Len(s) - i /\ Len(u) + k = j /\ i + k = j + 1
    BY <1>1
  <2>2. w[Len(u) + k] = v[k] /\ v[k] = s[i + k]
    BY <1>1, <1>3, <2>1
  <2> QED
    BY <2>1, <2>2
<1>6. Len(w) = Len(s) - 1 /\ \A j \in 1 .. i - 1 : w[j] = s[j]
  BY <1>1, <1>3
<1> QED
  BY <1>4, <1>5, <1>6

(* So is a list one element of which was replaced. *)
LEMMA ReplacingKeepsType ==
  ASSUME NEW S, NEW s \in Seq(S), NEW i \in 1 .. Len(s), NEW v \in S
  PROVE  [s EXCEPT ![i] = v] \in Seq(S)
  OBVIOUS

(* The editor turns a document into a document. *)
LEMMA EditedIsADocument ==
  ASSUME NEW d \in Document, NEW e \in Edits, ~Refuses(d, e)
  PROVE  Edited(d, e) \in Document
<1> USE ConfigAssumption
<1>1. Len(d.listeners) \in Nat /\ d.listeners \in Seq(Listener)
  BY DEF Document
<1>2. CASE e.op = "add"
  <2>1. e \in Adds
    BY <1>2 DEF Edits, Adds, Updates, Removes, TagEdits, Switches, AddrEdits,
                HeaderEdits, Inits, FirstStart
  <2>2. [name |-> e.name, addr |-> e.addr, tag |-> e.tag] \in Listener
    BY <2>1 DEF Adds, Listener
  <2>3. Append(d.listeners, [name |-> e.name, addr |-> e.addr, tag |-> e.tag])
          \in Seq(Listener)
    BY <1>1, <2>2
  <2>4. Edited(d, e) = AddListener(d, e)
    BY <1>2 DEF Edited
  <2> QED
    BY <2>3, <2>4 DEF AddListener, Document
<1>3. CASE e.op = "update"
  <2>1. e \in Updates
    BY <1>3 DEF Edits, Adds, Updates, Removes, TagEdits, Switches, AddrEdits,
                HeaderEdits, Inits, FirstStart
  <2>2. Index(d, e.name) \in 1 .. Len(d.listeners)
    BY <1>1, <1>3, IndexIsAPlace DEF Refuses
  <2> DEFINE l == d.listeners[Index(d, e.name)]
  <2>3. l \in Listener
    BY <1>1, <2>2
  <2>4. OrElse(e.rename, l.name) \in Names /\ OrElse(e.addr, l.addr) \in Addrs
    BY <2>1, <2>3 DEF Updates, OrElse, Listener
  <2> DEFINE new == [l EXCEPT !.name = OrElse(e.rename, l.name),
                              !.addr = OrElse(e.addr, l.addr)]
  <2>5. new \in Listener
    BY <2>3, <2>4 DEF Listener
  <2>6. [d.listeners EXCEPT ![Index(d, e.name)] = new] \in Seq(Listener)
    BY <1>1, <2>2, <2>5, ReplacingKeepsType
  <2>7. UpdateListener(d, e) =
          [d EXCEPT !.listeners =
             [d.listeners EXCEPT ![Index(d, e.name)] = new]]
    BY DEF UpdateListener
  <2> QED
    BY <1>3, <2>6, <2>7 DEF Edited, Document
<1>4. CASE e.op = "remove"
  <2>1. Index(d, e.name) \in 1 .. Len(d.listeners)
    BY <1>1, <1>4, IndexIsAPlace DEF Refuses
  <2>2. RemoveAt(d.listeners, Index(d, e.name)) \in Seq(Listener)
    BY <1>1, <2>1, RemovingKeepsType
  <2> QED
    BY <1>4, <2>2 DEF Edited, RemoveListener, Document
<1>5. CASE e.op = "set-tag"
  <2>1. e \in TagEdits
    BY <1>5 DEF Edits, Adds, Updates, Removes, TagEdits, Switches, AddrEdits,
                HeaderEdits, Inits, FirstStart
  <2>2. Index(d, e.name) \in 1 .. Len(d.listeners)
    BY <1>1, <1>5, IndexIsAPlace DEF Refuses
  <2> DEFINE l == d.listeners[Index(d, e.name)]
  <2>3. l \in Listener
    BY <1>1, <2>2
  <2>4. [l EXCEPT !.tag = e.tag] \in Listener
    BY <2>1, <2>3 DEF TagEdits, Listener
  <2>5. [d.listeners EXCEPT ![Index(d, e.name)].tag = e.tag] \in Seq(Listener)
    BY <1>1, <2>2, <2>4, ReplacingKeepsType
  <2> QED
    BY <1>5, <2>5 DEF Edited, SetTag, Document
<1>6. CASE e.op \in {"enable", "set-listen-addr"}
  <2>1. e \in Switches \cup AddrEdits
    BY <1>6 DEF Edits, Adds, Updates, Removes, TagEdits, Switches, AddrEdits,
                HeaderEdits, Inits, FirstStart
  <2> QED
    BY <1>6, <2>1 DEF Edited, Switches, AddrEdits, Document
<1>7. CASE e.op \in {"add-redact-header", "remove-redact-header"}
  <2>1. e \in HeaderEdits
    BY <1>7 DEF Edits, Adds, Updates, Removes, TagEdits, Switches, AddrEdits,
                HeaderEdits, Inits, FirstStart
  <2>2. Lower[e.header] \in Headers
    BY <2>1 DEF HeaderEdits
  <2>3. OrElse(d.headers, {}) \subseteq Headers
    BY DEF OrElse, Document
  <2> QED
    BY <1>7, <2>2, <2>3 DEF Edited, AddHeader, RemoveHeader, Document
<1>8. CASE e.op \notin {"add", "update", "remove", "set-tag", "enable",
                        "set-listen-addr", "add-redact-header",
                        "remove-redact-header"}
  BY <1>8 DEF Edited
<1> QED
  BY <1>2, <1>3, <1>4, <1>5, <1>6, <1>7, <1>8

(* init and a first start begin from documents. *)
LEMMA DefaultsAreDocuments ==
  {DefaultDocument, DesktopDocument} \subseteq Document
<1> USE ConfigAssumption
<1>1. \A t \in Tags : [name |-> DefaultName, addr |-> DefaultAddr, tag |-> t]
                        \in Listener
  BY DEF Listener
<1>2. DefaultDocument \in Document
  BY <1>1 DEF DefaultDocument, Document
<1>3. DesktopDocument.listeners =
        <<[name |-> DefaultName, addr |-> DefaultAddr, tag |-> DesktopTags]>>
  BY DEF DesktopDocument, DefaultDocument
<1>4. DesktopDocument = [DefaultDocument EXCEPT !.listeners =
                           DesktopDocument.listeners]
  BY DEF DesktopDocument, DefaultDocument
<1>5. DesktopDocument.listeners \in Seq(Listener)
  BY <1>1, <1>3
<1>6. DesktopDocument \in Document
  BY <1>2, <1>4, <1>5 DEF Document
<1> QED
  BY <1>2, <1>6

-----------------------------------------------------------------------------
(* What a command is about to put in place is a document that loads.       *)
DraftsLoad ==
  \A p \in Commands :
    pc[p] \in {"write", "rename"} =>
      Draft(p) \in Document /\ Loads(Draft(p))

TempsAreDrafts ==
  \A p \in Commands : pc[p] = "rename" => temp[p] = Draft(p)

Inv == TypeOK /\ DraftsLoad /\ TempsAreDrafts

(* The edit and the validation that every path to a write goes through.    *)
LEMMA PreparedDraftsLoad ==
  ASSUME Inv, NEW p \in Commands, NEW d \in Document, Prepare(p, d),
         edit' = edit, temp' = temp, pc[p] \in {"stat", "load"}
  PROVE  /\ base' \in [Commands -> Document]
         /\ pc' \in [Commands -> {"idle", "stat", "load", "write", "rename",
                                  "open"} \cup Ended]
         /\ DraftsLoad' /\ TempsAreDrafts'
<1>1. base' = [base EXCEPT ![p] = d] /\ base' \in [Commands -> Document]
  BY DEF Prepare, Inv, TypeOK
<1>2. \E label \in {"failed", "write", "previewed"} : GoTo(p, label)
  BY DEF Prepare
<1>3. /\ pc' \in [Commands -> {"idle", "stat", "load", "write", "rename",
                               "open"} \cup Ended]
      /\ \A q \in Commands \ {p} : pc'[q] = pc[q]
      /\ pc'[p] \in {"failed", "write", "previewed"}
  BY <1>2 DEF GoTo, Inv, TypeOK, Ended
<1>4. \A q \in Commands \ {p} : Draft(q)' = Draft(q)
  BY <1>1 DEF Draft, Inv, TypeOK
<1>5. Draft(p)' = Edited(d, edit[p])
  BY <1>1 DEF Draft, Inv, TypeOK
<1>6. ASSUME pc'[p] = "write"
      PROVE  Draft(p)' \in Document /\ Loads(Draft(p)')
  <2>1. ~GoTo(p, "failed")
    BY <1>6 DEF GoTo, Inv, TypeOK
  <2>2. ~Refuses(d, edit[p]) /\ Valid(Config(Edited(d, edit[p])))
    BY <2>1 DEF Prepare
  <2>3. edit[p] \in Edits
    BY DEF Inv, TypeOK
  <2>4. Edited(d, edit[p]) \in Document
    BY <2>2, <2>3, EditedIsADocument
  <2> QED
    BY <1>5, <2>2, <2>4, FilesAssumption DEF Loads
<1>7. DraftsLoad'
  BY <1>3, <1>4, <1>6 DEF DraftsLoad, Inv
<1>8. TempsAreDrafts'
  BY <1>3, <1>4 DEF TempsAreDrafts, Inv
<1> QED
  BY <1>1, <1>3, <1>7, <1>8

(* Nothing is being written at first. *)
LEMMA InitialInv == Init => Inv
<1> SUFFICES ASSUME Init
             PROVE  Inv
  OBVIOUS
<1>1. FirstStart \in Edits
  BY DEF Edits
<1>2. TypeOK
  BY <1>1, FilesAssumption, DefaultsAreDocuments DEF Init, TypeOK
<1> QED
  BY <1>2 DEF Init, Inv, DraftsLoad, TempsAreDrafts

(* A step that leaves drafts and temporary files alone, and takes no       *)
(* command to a write, keeps what is known of them.                        *)
LEMMA OtherStepsKeepDrafts ==
  ASSUME Inv, NEW p \in Commands, edit' = edit, base' = base,
         \A q \in Commands \ {p} : pc'[q] = pc[q] /\ temp'[q] = temp[q],
         pc'[p] \notin {"write", "rename"}
  PROVE  DraftsLoad' /\ TempsAreDrafts'
  BY DEF Inv, DraftsLoad, TempsAreDrafts, Draft

(* Drafts come from Prepare only, and a temporary file holds its draft     *)
(* until it is renamed or removed.                                         *)
LEMMA InvIsInductive == Inv /\ [Next]_vars => Inv'
<1> SUFFICES ASSUME Inv, [Next]_vars
             PROVE  Inv'
  OBVIOUS
<1> USE DEF Inv
<1>1. ASSUME NEW p \in Commands, NEW e \in Edits, Begin(p, e)
      PROVE  Inv'
  <2>1. TypeOK'
    BY <1>1 DEF Begin, GoTo, TypeOK, history
  <2>2. \A q \in Commands \ {p} : Draft(q)' = Draft(q) /\ pc'[q] = pc[q]
    BY <1>1 DEF Begin, GoTo, TypeOK, Draft
  <2>3. pc'[p] \in {"stat", "load"}
    BY <1>1 DEF Begin, GoTo, TypeOK
  <2> QED
    BY <1>1, <2>1, <2>2, <2>3 DEF Begin, DraftsLoad, TempsAreDrafts
<1>2. ASSUME NEW p \in Commands, Stat(p)
      PROVE  Inv'
  <2>1. /\ read' \in [Commands -> 0 .. renames'] /\ renamed' = renamed
        /\ renames' = renames /\ file' = file /\ temp' = temp /\ edit' = edit
    BY <1>2 DEF Stat, TypeOK
  <2>2. CASE Prepare(p, DefaultDocument) \/ Prepare(p, DesktopDocument)
    BY <1>2, <2>1, <2>2, PreparedDraftsLoad, DefaultsAreDocuments
       DEF Stat, TypeOK
  <2>3. CASE \E label \in {"failed", "load", "open"} :
               GoTo(p, label) /\ UNCHANGED base
    <3>1. /\ pc' \in [Commands -> {"idle", "stat", "load", "write", "rename",
                                   "open"} \cup Ended]
          /\ \A q \in Commands \ {p} : pc'[q] = pc[q]
          /\ pc'[p] \in {"failed", "load", "open"}
      BY <2>3 DEF GoTo, TypeOK, Ended
    <3>2. DraftsLoad' /\ TempsAreDrafts'
      BY <2>1, <2>3, <3>1, OtherStepsKeepDrafts
    <3> QED
      BY <2>1, <2>3, <3>1, <3>2 DEF TypeOK
  <2> QED
    BY <1>2, <2>2, <2>3 DEF Stat
<1>3. ASSUME NEW p \in Commands, Load(p)
      PROVE  Inv'
  <2>1. /\ read' \in [Commands -> 0 .. renames'] /\ renamed' = renamed
        /\ renames' = renames /\ file' = file /\ temp' = temp /\ edit' = edit
    BY <1>3 DEF Load, TypeOK
  <2>2. CASE file # Absent
    BY <1>3, <2>1, <2>2, PreparedDraftsLoad DEF Load, TypeOK
  <2>3. CASE file = Absent
    <3>1. /\ pc' \in [Commands -> {"idle", "stat", "load", "write", "rename",
                                   "open"} \cup Ended]
          /\ \A q \in Commands \ {p} : pc'[q] = pc[q]
          /\ pc'[p] = "failed" /\ base' = base
      BY <1>3, <2>3 DEF Load, GoTo, TypeOK, Ended
    <3>2. DraftsLoad' /\ TempsAreDrafts'
      BY <2>1, <3>1, OtherStepsKeepDrafts
    <3> QED
      BY <2>1, <3>1, <3>2 DEF TypeOK
  <2> QED
    BY <2>2, <2>3
<1>4. ASSUME NEW p \in Commands, WriteTemp(p)
      PROVE  Inv'
  <2>1. Draft(p) \in Document /\ Loads(Draft(p))
    BY <1>4 DEF WriteTemp, DraftsLoad
  <2>2. TypeOK'
    BY <1>4, <2>1 DEF WriteTemp, GoTo, TypeOK, history
  <2>3. /\ \A q \in Commands : Draft(q)' = Draft(q)
        /\ \A q \in Commands \ {p} : pc'[q] = pc[q] /\ temp'[q] = temp[q]
        /\ temp'[p] = Draft(p)
    BY <1>4 DEF WriteTemp, GoTo, TypeOK, Draft
  <2> QED
    BY <2>1, <2>2, <2>3 DEF DraftsLoad, TempsAreDrafts
<1>5. ASSUME NEW p \in Commands, Rename(p)
      PROVE  Inv'
  <2>1. temp[p] \in {Absent} \cup Document
    BY DEF TypeOK
  <2>2. TypeOK'
    BY <1>5, <2>1 DEF Rename, GoTo, TypeOK, Ended
  <2>3. DraftsLoad' /\ TempsAreDrafts'
    BY <1>5, OtherStepsKeepDrafts DEF Rename, GoTo, TypeOK
  <2> QED
    BY <2>2, <2>3
<1>6. ASSUME NEW p \in Commands, WriteFails(p) \/ Open(p) \/ Killed(p)
      PROVE  Inv'
  <2>1. TypeOK'
    BY <1>6 DEF WriteFails, Open, Killed, GoTo, TypeOK, Ended, history
  <2>2. DraftsLoad' /\ TempsAreDrafts'
    BY <1>6, OtherStepsKeepDrafts DEF WriteFails, Open, Killed, GoTo, TypeOK
  <2> QED
    BY <2>1, <2>2
<1>7. ASSUME UNCHANGED vars
      PROVE  Inv'
  BY <1>7 DEF vars, history, TypeOK, DraftsLoad, TempsAreDrafts, Draft
<1> QED
  BY <1>1, <1>2, <1>3, <1>4, <1>5, <1>6, <1>7 DEF Next, Done

(* The variables of ConfigEdit keep their types, for any commands and any  *)
(* files users write.                                                      *)
THEOREM ConfigTypeCorrect == Spec => []TypeOK
<1>1. Inv => TypeOK
  BY DEF Inv
<1> QED
  BY <1>1, InitialInv, InvIsInductive, PTL DEF Spec

(* Every file a command or a desktop shell puts in place loads, whatever   *)
(* it found there and whoever else writes (WriteAtomic after               *)
(* persistMutation's validation).                                          *)
THEOREM EveryWriteLoads == Spec => WritesLoad
<1>1. Inv /\ [Next]_vars => [file' # file => Loads(file')]_file
  <2> SUFFICES ASSUME Inv, [Next]_vars, file' # file
               PROVE  Loads(file')
    OBVIOUS
  <2>1. PICK p \in Commands : Rename(p)
    BY DEF Next, vars, Begin, Stat, Load, WriteTemp, WriteFails, Open, Killed,
           Done
  <2> QED
    BY <2>1 DEF Rename, Inv, DraftsLoad, TempsAreDrafts
<1> QED
  BY <1>1, InitialInv, InvIsInductive, PTL DEF Spec, WritesLoad
-----------------------------------------------------------------------------
(* The editor keeps what it does not edit.                                 *)

(* What Kept says, of any document *)
KeptIn(d, e) ==
  LET l == d.listeners
      at == Index(d, IF e.op = "update" THEN OrElse(e.rename, e.name)
                                        ELSE e.name)
  IN CASE e.op = "add" -> at # 0 /\ l[at].addr = e.addr /\ l[at].tag = e.tag
       [] e.op = "update" -> at # 0 /\ l[at].addr = OrElse(e.addr, l[at].addr)
       [] e.op = "remove" -> at = 0
       [] e.op = "set-tag" -> at # 0 /\ l[at].tag = e.tag
       [] e.op = "enable" -> Config(d).enabled = e.enabled
       [] e.op = "set-listen-addr" -> d.uiAddr = e.addr
       [] e.op = "add-redact-header" ->
            Lower[e.header] \in Config(d).headers
       [] OTHER -> TRUE

(* A later rename that EditsAreKept excepts *)
Overridden(p) ==
  \E q \in Commands :
    /\ renamed[q] > renamed[p]
    /\ read[q] < renamed[p] \/ Concern(edit[q], edit[p])

Settled(p) == renamed[p] > 0 /\ Loads(base[p])

Writing(p) == pc[p] \in {"write", "rename"}

(* The file loads once a command has put one in place, and one that has is *)
(* at its end.                                                             *)
RenamesEnd ==
  /\ renames > 0 => Loads(file)
  /\ \A p \in Commands : renamed[p] > 0 => pc[p] \in Ended \cup {"open"}

(* What is about to be written was edited from a file that loads, unless   *)
(* there was none or it is written over.                                   *)
BasesLoad ==
  \A p \in Commands : Writing(p) =>
    /\ ~Refuses(base[p], edit[p])
    /\ read[p] > 0 /\ edit[p].op # "init" => Loads(base[p])

KeptInFile ==
  \A p \in Commands : Settled(p) => KeptIn(file, edit[p]) \/ Overridden(p)

KeptInBases ==
  \A p, q \in Commands :
    Settled(p) /\ Writing(q) /\ read[q] >= renamed[p] /\ edit[q].op # "init"
      => KeptIn(base[q], edit[p]) \/ Overridden(p)

KeepInv == RenamesEnd /\ BasesLoad /\ KeptInFile /\ KeptInBases

(* The listeners of a name *)
Entries(d, name) ==
  {d.listeners[i] : i \in {j \in 1 .. Len(d.listeners) :
                             d.listeners[j].name = name}}

(* findListener returns the place of a listener of that name, if there is  *)
(* one.                                                                    *)
LEMMA IndexFinds ==
  ASSUME NEW d \in Document, NEW name
  PROVE  /\ Index(d, name) # 0 =>
              /\ Index(d, name) \in 1 .. Len(d.listeners)
              /\ d.listeners[Index(d, name)].name = name
              /\ d.listeners[Index(d, name)] \in Entries(d, name)
         /\ Index(d, name) = 0 <=> Entries(d, name) = {}
<1> DEFINE Places == {i \in 1 .. Len(d.listeners) : d.listeners[i].name = name}
<1>1. Len(d.listeners) \in Nat
  BY DEF Document
<1>2. \/ Index(d, name) = 0 /\ Places = {}
      \/ Index(d, name) \in Places
  BY IndexIsAPlace
<1>3. \A i \in Places : i # 0
  BY <1>1
<1>4. Entries(d, name) = {d.listeners[i] : i \in Places}
  BY DEF Entries
<1> QED
  BY <1>2, <1>3, <1>4

NamesDiffer(d) ==
  \A i, j \in 1 .. Len(d.listeners) :
    i # j => d.listeners[i].name # d.listeners[j].name

(* Validation leaves no name twice. *)
LEMMA LoadedNamesDiffer ==
  ASSUME NEW d \in Document, Valid(Config(d))
  PROVE  NamesDiffer(d)
<1>1. Config(d).listeners = d.listeners
  BY DEF Config, Normalized
<1>2. DOMAIN d.listeners = 1 .. Len(d.listeners)
  BY DEF Document
<1> QED
  BY <1>1, <1>2 DEF Valid, NamesDiffer

(* Where names differ, findListener finds the only listener of a name. *)
LEMMA OneEntry ==
  ASSUME NEW d \in Document, NamesDiffer(d),
         NEW i \in 1 .. Len(d.listeners)
  PROVE  /\ Index(d, d.listeners[i].name) = i
         /\ Entries(d, d.listeners[i].name) = {d.listeners[i]}
<1> DEFINE n == d.listeners[i].name
<1>1. Entries(d, n) = {d.listeners[i]}
  BY DEF Entries, NamesDiffer
<1>2. Index(d, n) # 0
  BY <1>1, IndexFinds
<1>3. Index(d, n) \in 1 .. Len(d.listeners) /\ d.listeners[Index(d, n)].name = n
  BY <1>2, IndexFinds
<1>4. Index(d, n) = i
  BY <1>3 DEF NamesDiffer
<1> QED
  BY <1>1, <1>4

(* What an edit is about *)
Named(e) == IF e.op = "update" THEN OrElse(e.rename, e.name) ELSE e.name

ListenerOps == {"add", "update", "remove", "set-tag"}

(* With the same listeners of that name, it is kept in one document as in  *)
(* the other.                                                              *)
LEMMA SameEntriesKeep ==
  ASSUME NEW d \in Document, NEW c \in Document, NamesDiffer(d), NamesDiffer(c),
         NEW e, e.op \in ListenerOps,
         Entries(c, Named(e)) = Entries(d, Named(e)), KeptIn(d, e)
  PROVE  KeptIn(c, e)
<1> DEFINE n == Named(e)
<1>1. CASE Index(d, n) = 0
  <2>1. Index(c, n) = 0
    BY <1>1, IndexFinds
  <2> QED
    BY <1>1, <2>1 DEF KeptIn, Named, ListenerOps
<1>2. CASE Index(d, n) # 0
  <2>1. /\ Index(d, n) \in 1 .. Len(d.listeners)
        /\ d.listeners[Index(d, n)].name = n
    BY <1>2, IndexFinds
  <2>2. Entries(d, n) = {d.listeners[Index(d, n)]}
    BY <2>1, OneEntry
  <2>3. Index(c, n) # 0 /\ c.listeners[Index(c, n)] \in Entries(c, n)
    BY <2>2, IndexFinds
  <2>4. c.listeners[Index(c, n)] = d.listeners[Index(d, n)]
    BY <2>2, <2>3
  <2> QED
    BY <1>2, <2>3, <2>4 DEF KeptIn, Named, ListenerOps
<1> QED
  BY <1>1, <1>2

(* An edit, by its kind *)
LEMMA EditKinds ==
  ASSUME NEW e \in Edits
  PROVE  /\ e.op = "add" => e \in Adds
         /\ e.op = "update" => e \in Updates
         /\ e.op = "remove" => e \in Removes
         /\ e.op = "set-tag" => e \in TagEdits
         /\ e.op = "enable" => e \in Switches
         /\ e.op = "set-listen-addr" => e \in AddrEdits
         /\ e.op \in {"add-redact-header", "remove-redact-header"} =>
              e \in HeaderEdits
BY DEF Edits, Adds, Updates, Removes, TagEdits, Switches, AddrEdits,
       HeaderEdits, Inits, FirstStart

(* An edit of a listener leaves those of other names. *)
LEMMA OtherEntriesStay ==
  ASSUME NEW d \in Document, NEW g \in Edits, ~Refuses(d, g),
         g.op \in ListenerOps, NEW m, g.name # m,
         g.op = "update" => OrElse(g.rename, g.name) # m
  PROVE  Entries(Edited(d, g), m) = Entries(d, m)
<1> USE ConfigAssumption
<1> DEFINE s == d.listeners
           n == Len(s)
           i == Index(d, g.name)
<1>1. s \in Seq(Listener) /\ n \in Nat
  BY DEF Document
<1>2. g.op # "add" => i \in 1 .. n /\ s[i].name = g.name
  BY IndexFinds DEF Refuses, ListenerOps
<1>3. CASE g.op = "add"
  <2> DEFINE l == [name |-> g.name, addr |-> g.addr, tag |-> g.tag]
             t == Append(s, l)
  <2>1. Edited(d, g).listeners = t
    BY <1>3 DEF Edited, AddListener, Document
  <2>2. l \in Listener /\ l.name = g.name
    BY <1>3, EditKinds DEF Adds, Listener
  <2> HIDE DEF l
  <2>3. Len(t) = n + 1 /\ t[n + 1] = l /\ \A j \in 1 .. n : t[j] = s[j]
    BY <1>1, <2>2
  <2> HIDE DEF t
  <2> QED
    BY <1>1, <2>1, <2>2, <2>3 DEF Entries
<1>4. CASE g.op \in {"update", "set-tag"}
  <2> DEFINE l == IF g.op = "update"
                  THEN [s[i] EXCEPT !.name = OrElse(g.rename, s[i].name),
                                    !.addr = OrElse(g.addr, s[i].addr)]
                  ELSE [s[i] EXCEPT !.tag = g.tag]
             t == [s EXCEPT ![i] = l]
  <2>1. Edited(d, g).listeners = t
    BY <1>4 DEF Edited, UpdateListener, SetTag, Document
  <2>2. l.name # m
    <3>1. s[i] \in Listener /\ s[i].name = g.name
      BY <1>1, <1>2, <1>4
    <3> QED
      BY <1>4, <3>1 DEF Listener
  <2>3. s[i].name # m
    BY <1>2, <1>4
  <2> HIDE DEF l
  <2>4. Len(t) = n /\ t[i] = l /\ \A j \in 1 .. n : j # i => t[j] = s[j]
    BY <1>1, <1>2, <1>4
  <2> HIDE DEF t, i
  <2>5. \A j \in 1 .. n : \/ t[j] = s[j]
                          \/ t[j].name # m /\ s[j].name # m
    BY <2>2, <2>3, <2>4
  <2> QED
    BY <2>1, <2>4, <2>5 DEF Entries
<1>5. CASE g.op = "remove"
  <2> DEFINE t == RemoveAt(s, i)
  <2>1. Edited(d, g).listeners = t
    BY <1>5 DEF Edited, RemoveListener, Document
  <2>2. i \in 1 .. n /\ s[i].name # m
    BY <1>2, <1>5
  <2> HIDE DEF i
  <2>3. /\ Len(t) = n - 1 /\ \A j \in 1 .. i - 1 : t[j] = s[j]
        /\ \A j \in i .. n - 1 : t[j] = s[j + 1]
    BY <1>1, <2>2, RemovedAt
  <2> HIDE DEF t
  <2>4. \A j \in 1 .. n - 1 : \E k \in 1 .. n : t[j] = s[k]
    <3> SUFFICES ASSUME NEW j \in 1 .. n - 1
                 PROVE  \E k \in 1 .. n : t[j] = s[k]
      OBVIOUS
    <3>1. CASE j \in 1 .. i - 1
      BY <1>1, <2>2, <2>3, <3>1
    <3>2. CASE j \in i .. n - 1
      BY <1>1, <2>2, <2>3, <3>2
    <3> QED
      BY <1>1, <2>2, <3>1, <3>2
  <2>5. \A k \in 1 .. n : k # i => \E j \in 1 .. n - 1 : t[j] = s[k]
    <3> SUFFICES ASSUME NEW k \in 1 .. n, k # i
                 PROVE  \E j \in 1 .. n - 1 : t[j] = s[k]
      OBVIOUS
    <3>1. CASE k < i
      <4>1. k \in 1 .. i - 1 /\ k \in 1 .. n - 1
        BY <1>1, <2>2, <3>1
      <4> QED
        BY <2>3, <4>1
    <3>2. CASE k > i
      <4>1. k - 1 \in i .. n - 1 /\ k - 1 \in 1 .. n - 1 /\ (k - 1) + 1 = k
        BY <1>1, <2>2, <3>2
      <4> QED
        BY <2>3, <4>1
    <3> QED
      BY <1>1, <2>2, <3>1, <3>2
  <2>6. /\ \A j \in 1 .. n - 1 : t[j].name = m =>
             \E k \in 1 .. n : s[k].name = m /\ s[k] = t[j]
        /\ \A k \in 1 .. n : s[k].name = m =>
             \E j \in 1 .. n - 1 : t[j].name = m /\ t[j] = s[k]
    <3>1. ASSUME NEW j \in 1 .. n - 1, t[j].name = m
          PROVE  \E k \in 1 .. n : s[k].name = m /\ s[k] = t[j]
      BY <2>4, <3>1
    <3>2. ASSUME NEW k \in 1 .. n, s[k].name = m
          PROVE  \E j \in 1 .. n - 1 : t[j].name = m /\ t[j] = s[k]
      <4>1. k # i
        BY <2>2, <3>2
      <4> QED
        BY <2>5, <3>2, <4>1
    <3> QED
      BY <3>1, <3>2
  <2> HIDE DEF s, n
  <2>7. /\ Entries(d, m) = {s[k] : k \in {h \in 1 .. n : s[h].name = m}}
        /\ Entries(Edited(d, g), m) =
             {t[j] : j \in {h \in 1 .. n - 1 : t[h].name = m}}
    BY <2>1, <2>3 DEF Entries, s, n
  <2> QED
    BY <2>6, <2>7
<1> QED
  BY <1>3, <1>4, <1>5 DEF ListenerOps

(* Edits that do not concern each other are of different things. *)
LEMMA UnconcernedEdits ==
  ASSUME NEW g \in Edits, NEW e \in Edits, ~Concern(g, e)
  PROVE  /\ g.op # "init"
         /\ g.op \in ListenerOps /\ e.op \in ListenerOps =>
              /\ g.name # Named(e)
              /\ g.op = "update" => OrElse(g.rename, g.name) # Named(e)
         /\ e.op = "enable" => g.op # "enable"
         /\ e.op = "set-listen-addr" => g.op # "set-listen-addr"
         /\ e.op = "add-redact-header" =>
              g.op \in ListenerOps \cup {"enable", "set-listen-addr"}
<1> DEFINE Subjects(x) ==
        CASE x.op \in {"add", "remove", "set-tag"} -> {<<"listener", x.name>>}
          [] x.op = "update" -> {<<"listener", x.name>>,
                                 <<"listener", OrElse(x.rename, x.name)>>}
          [] x.op = "enable" -> {<<"enabled">>}
          [] x.op = "set-listen-addr" -> {<<"uiAddr">>}
          [] OTHER -> {<<"headers">>}
<1>1. g.op # "init" /\ \A s : ~(s \in Subjects(g) /\ s \in Subjects(e))
  BY DEF Concern
<1>2. e.op \in ListenerOps => <<"listener", Named(e)>> \in Subjects(e)
  BY DEF ListenerOps, Named
<1>3. g.op \in ListenerOps => <<"listener", g.name>> \in Subjects(g)
  BY DEF ListenerOps
<1>4. g.op = "update" =>
        <<"listener", OrElse(g.rename, g.name)>> \in Subjects(g)
  OBVIOUS
<1>5. \A x : /\ x.op = "enable" => <<"enabled">> \in Subjects(x)
             /\ x.op = "set-listen-addr" => <<"uiAddr">> \in Subjects(x)
             /\ x.op \notin ListenerOps \cup {"enable", "set-listen-addr"} =>
                  <<"headers">> \in Subjects(x)
  BY DEF ListenerOps
<1>6. e.op = "add-redact-header" =>
        e.op \notin ListenerOps \cup {"enable", "set-listen-addr"}
  BY DEF ListenerOps
<1> HIDE DEF Subjects
<1>7. g.op \in ListenerOps /\ e.op \in ListenerOps => g.name # Named(e)
  BY <1>1, <1>2, <1>3
<1>8. e.op \in ListenerOps /\ g.op = "update" =>
        OrElse(g.rename, g.name) # Named(e)
  BY <1>1, <1>2, <1>4
<1>9. e.op = "add-redact-header" =>
        g.op \in ListenerOps \cup {"enable", "set-listen-addr"}
  BY <1>1, <1>5, <1>6
<1> QED
  BY <1>1, <1>5, <1>7, <1>8, <1>9

(* What each edit leaves of the other parts of a document *)
LEMMA OtherPartsStay ==
  ASSUME NEW d \in Document, NEW g \in Edits
  PROVE  /\ g.op \notin ListenerOps => Edited(d, g).listeners = d.listeners
         /\ g.op # "enable" => Edited(d, g).enabled = d.enabled
         /\ g.op # "set-listen-addr" => Edited(d, g).uiAddr = d.uiAddr
         /\ g.op \in ListenerOps \cup {"enable", "set-listen-addr"} =>
              Edited(d, g).headers = d.headers
<1> USE DEF Document
<1>1. CASE g.op = "add"
  BY <1>1 DEF Edited, AddListener, ListenerOps
<1>2. CASE g.op = "update"
  BY <1>2 DEF Edited, UpdateListener, ListenerOps
<1>3. CASE g.op = "remove"
  BY <1>3 DEF Edited, RemoveListener, ListenerOps
<1>4. CASE g.op = "set-tag"
  BY <1>4 DEF Edited, SetTag, ListenerOps
<1>5. CASE g.op \in {"enable", "set-listen-addr"}
  BY <1>5 DEF Edited, ListenerOps
<1>6. CASE g.op \in {"add-redact-header", "remove-redact-header"}
  BY <1>6 DEF Edited, AddHeader, RemoveHeader, ListenerOps
<1>7. CASE g.op \notin {"add", "update", "remove", "set-tag", "enable",
                        "set-listen-addr", "add-redact-header",
                        "remove-redact-header"}
  BY <1>7 DEF Edited, ListenerOps
<1> QED
  BY <1>1, <1>2, <1>3, <1>4, <1>5, <1>6, <1>7

(* The switch and the headers are read from their own keys. *)
LEMMA ConfigParts ==
  ASSUME NEW d \in Document
  PROVE  /\ Config(d).enabled = OrElse(d.enabled, TRUE)
         /\ Config(d).headers =
              {Lower[h] : h \in OrElse(d.headers, DefaultHeaders)}
BY DEF Config, Normalized

(* An edit that does not concern it keeps what another edit put in place. *)
LEMMA OtherEditsKeep ==
  ASSUME NEW d \in Document, NEW g \in Edits, NEW e \in Edits,
         ~Concern(g, e), ~Refuses(d, g), KeptIn(d, e),
         Valid(Config(d)), Valid(Config(Edited(d, g)))
  PROVE  KeptIn(Edited(d, g), e)
<1> DEFINE t == Edited(d, g)
<1>1. t \in Document
  BY EditedIsADocument
<1>2. NamesDiffer(d) /\ NamesDiffer(t)
  BY <1>1, LoadedNamesDiffer
<1>3. CASE e.op \in ListenerOps
  <2>1. Entries(t, Named(e)) = Entries(d, Named(e))
    <3>1. CASE g.op \in ListenerOps
      BY <1>3, <3>1, UnconcernedEdits, OtherEntriesStay
    <3>2. CASE g.op \notin ListenerOps
      BY <3>2, OtherPartsStay DEF Entries
    <3> QED
      BY <3>1, <3>2
  <2> HIDE DEF t
  <2> QED
    BY <1>1, <1>2, <1>3, <2>1, SameEntriesKeep DEF t
<1>4. CASE e.op = "enable"
  <2>1. t.enabled = d.enabled
    BY <1>4, UnconcernedEdits, OtherPartsStay
  <2> HIDE DEF t
  <2>2. Config(t).enabled = Config(d).enabled
    BY <1>1, <2>1, ConfigParts
  <2> QED
    BY <1>4, <2>2 DEF KeptIn, t
<1>5. CASE e.op = "set-listen-addr"
  <2>1. t.uiAddr = d.uiAddr
    BY <1>5, UnconcernedEdits, OtherPartsStay
  <2> HIDE DEF t
  <2> QED
    BY <1>5, <2>1 DEF KeptIn, t
<1>6. CASE e.op = "add-redact-header"
  <2>1. t.headers = d.headers
    BY <1>6, UnconcernedEdits, OtherPartsStay
  <2> HIDE DEF t
  <2>2. Config(t).headers = Config(d).headers
    BY <1>1, <2>1, ConfigParts
  <2> QED
    BY <1>6, <2>2 DEF KeptIn, t
<1>7. CASE e.op \notin ListenerOps \cup {"enable", "set-listen-addr",
                                         "add-redact-header"}
  BY <1>7 DEF KeptIn, ListenerOps
<1> QED
  BY <1>3, <1>4, <1>5, <1>6, <1>7

(* Removing a listener leaves only those of other places. *)
LEMMA OthersAreLeft ==
  ASSUME NEW s \in Seq(Listener), NEW i \in 1 .. Len(s)
  PROVE  /\ Len(RemoveAt(s, i)) = Len(s) - 1
         /\ \A j \in 1 .. Len(s) - 1 :
              \E k \in 1 .. Len(s) : k # i /\ RemoveAt(s, i)[j] = s[k]
<1> DEFINE t == RemoveAt(s, i)
<1>1. /\ Len(t) = Len(s) - 1 /\ \A j \in 1 .. i - 1 : t[j] = s[j]
      /\ \A j \in i .. Len(s) - 1 : t[j] = s[j + 1]
  BY RemovedAt
<1> HIDE DEF t
<1>2. ASSUME NEW j \in 1 .. Len(s) - 1
      PROVE  \E k \in 1 .. Len(s) : k # i /\ t[j] = s[k]
  <2>1. CASE j \in 1 .. i - 1
    BY <1>1, <2>1
  <2>2. CASE j \in i .. Len(s) - 1
    BY <1>1, <2>2
  <2> QED
    BY <2>1, <2>2
<1> QED
  BY <1>1, <1>2 DEF t

(* A document that an edit leaves loadable holds the edit. *)
LEMMA OwnEditIsKept ==
  ASSUME NEW d \in Document, NEW e \in Edits, ~Refuses(d, e),
         Valid(Config(d)), Valid(Config(Edited(d, e)))
  PROVE  KeptIn(Edited(d, e), e)
<1> USE ConfigAssumption
<1> DEFINE t == Edited(d, e)
           s == d.listeners
           n == Len(s)
           i == Index(d, e.name)
<1>1. t \in Document
  BY EditedIsADocument
<1>2. NamesDiffer(d) /\ NamesDiffer(t)
  BY <1>1, LoadedNamesDiffer
<1>3. s \in Seq(Listener) /\ n \in Nat
  BY DEF Document
<1>4. e.op \in {"update", "remove", "set-tag"} =>
        i \in 1 .. n /\ s[i].name = e.name
  BY IndexFinds DEF Refuses
<1>5. CASE e.op = "add"
  <2> DEFINE l == [name |-> e.name, addr |-> e.addr, tag |-> e.tag]
  <2>1. l \in Listener
    BY <1>5, EditKinds DEF Adds, Listener
  <2>2. t.listeners = Append(s, l)
    BY <1>5 DEF Edited, AddListener, Document
  <2>3. n + 1 \in 1 .. Len(t.listeners) /\ t.listeners[n + 1] = l
    BY <1>3, <2>1, <2>2
  <2> HIDE DEF t
  <2>4. Index(t, e.name) = n + 1 /\ n + 1 # 0
    BY <1>1, <1>2, <1>3, <2>3, OneEntry
  <2> QED
    BY <1>5, <2>3, <2>4 DEF KeptIn, t
<1>6. CASE e.op = "update"
  <2> DEFINE l == [s[i] EXCEPT !.name = OrElse(e.rename, s[i].name),
                               !.addr = OrElse(e.addr, s[i].addr)]
  <2>1. s[i] \in Listener /\ i \in 1 .. n /\ s[i].name = e.name
    BY <1>3, <1>4, <1>6
  <2>2. t.listeners = [s EXCEPT ![i] = l]
    BY <1>6 DEF Edited, UpdateListener, Document
  <2>3. i \in 1 .. Len(t.listeners) /\ t.listeners[i] = l
    BY <1>3, <2>1, <2>2
  <2>4. l.name = OrElse(e.rename, e.name) /\ l.addr = OrElse(e.addr, s[i].addr)
    BY <2>1 DEF Listener
  <2>5. l.addr = OrElse(e.addr, l.addr)
    BY <2>4 DEF OrElse
  <2> HIDE DEF t, l
  <2>6. Index(t, OrElse(e.rename, e.name)) = i /\ i # 0
    BY <1>1, <1>2, <1>3, <2>1, <2>3, <2>4, OneEntry
  <2> QED
    BY <1>6, <2>3, <2>5, <2>6 DEF KeptIn, t
<1>7. CASE e.op = "set-tag"
  <2> DEFINE l == [s[i] EXCEPT !.tag = e.tag]
  <2>1. s[i] \in Listener /\ i \in 1 .. n /\ s[i].name = e.name
    BY <1>3, <1>4, <1>7
  <2>2. t.listeners = [s EXCEPT ![i] = l]
    BY <1>7 DEF Edited, SetTag, Document
  <2>3. i \in 1 .. Len(t.listeners) /\ t.listeners[i] = l
    BY <1>3, <2>1, <2>2
  <2>4. l.name = e.name /\ l.tag = e.tag
    BY <2>1 DEF Listener
  <2> HIDE DEF t, l
  <2>5. Index(t, e.name) = i /\ i # 0
    BY <1>1, <1>2, <1>3, <2>1, <2>3, <2>4, OneEntry
  <2> QED
    BY <1>7, <2>3, <2>4, <2>5 DEF KeptIn, t
<1>8. CASE e.op = "remove"
  <2>1. i \in 1 .. n /\ s[i].name = e.name
    BY <1>4, <1>8
  <2>2. t.listeners = RemoveAt(s, i)
    BY <1>8 DEF Edited, RemoveListener, Document
  <2>3. \A k \in 1 .. n : k # i => s[k].name # e.name
    BY <1>2, <2>1 DEF NamesDiffer
  <2>4. Len(t.listeners) = n - 1
    BY <1>3, <2>1, <2>2, OthersAreLeft
  <2>5. \A j \in 1 .. n - 1 :
          \E k \in 1 .. n : k # i /\ t.listeners[j] = s[k]
    <3> HIDE DEF t, i, s
    <3>1. \A j \in 1 .. n - 1 :
            \E k \in 1 .. n : k # i /\ RemoveAt(s, i)[j] = s[k]
      BY <1>3, <2>1, OthersAreLeft
    <3> QED
      BY <2>2, <3>1
  <2> HIDE DEF t, i, n, s
  <2>6. \A j \in 1 .. Len(t.listeners) : t.listeners[j].name # e.name
    BY <2>3, <2>4, <2>5
  <2>7. Entries(t, e.name) = {}
    BY <2>6 DEF Entries
  <2>8. Index(t, e.name) = 0
    BY <1>1, <2>7, IndexFinds
  <2> QED
    BY <1>8, <2>8 DEF KeptIn, t
<1>9. CASE e.op = "enable"
  <2>1. e.enabled \in BOOLEAN /\ t.enabled = e.enabled
    BY <1>9, EditKinds DEF Switches, Edited, Document
  <2> HIDE DEF t
  <2>2. e.enabled # Absent
    BY <2>1
  <2>3. Config(t).enabled = e.enabled
    BY <1>1, <2>1, <2>2, ConfigParts DEF OrElse
  <2> QED
    BY <1>9, <2>3 DEF KeptIn, t
<1>10. CASE e.op = "set-listen-addr"
  <2>1. t.uiAddr = e.addr
    BY <1>10 DEF Edited, Document
  <2> HIDE DEF t
  <2> QED
    BY <1>10, <2>1 DEF KeptIn, t
<1>11. CASE e.op = "add-redact-header"
  <2>1. e.header \in Headers
    BY <1>11, EditKinds DEF HeaderEdits
  <2>2. t.headers = OrElse(d.headers, {}) \cup {Lower[e.header]}
    BY <1>11 DEF Edited, AddHeader, Document
  <2>3. t.headers \subseteq Headers /\ Lower[e.header] \in t.headers
    BY <2>1, <2>2 DEF OrElse, Document
  <2> HIDE DEF t
  <2>4. t.headers \in SUBSET Headers
    BY <2>3
  <2>5. t.headers # Absent
    BY <2>4
  <2>6. Lower[Lower[e.header]] \in Config(t).headers
    BY <1>1, <2>3, <2>5, ConfigParts DEF OrElse
  <2> QED
    BY <1>11, <2>1, <2>6 DEF KeptIn, t
<1>12. CASE e.op \notin ListenerOps \cup {"enable", "set-listen-addr",
                                         "add-redact-header"}
  BY <1>12 DEF KeptIn, ListenerOps
<1> QED
  BY <1>5, <1>6, <1>7, <1>8, <1>9, <1>10, <1>11, <1>12 DEF ListenerOps

(* A command that has renamed is at its end: what it read, what it was     *)
(* asked for and what it edited no longer change.                          *)
LEMMA RenamedAreFrozen ==
  ASSUME Inv, RenamesEnd, [Next]_vars, NEW p \in Commands, renamed[p] > 0
  PROVE  /\ base'[p] = base[p] /\ edit'[p] = edit[p] /\ read'[p] = read[p]
         /\ renamed'[p] = renamed[p]
         /\ pc'[p] \in Ended \cup {"open"}
<1> USE DEF Inv, TypeOK, Ended
<1>1. pc[p] \in Ended \cup {"open"}
  BY DEF RenamesEnd
<1>2. ASSUME NEW q \in Commands, NEW e \in Edits, Begin(q, e)
      PROVE  /\ base'[p] = base[p] /\ edit'[p] = edit[p]
             /\ read'[p] = read[p] /\ renamed'[p] = renamed[p]
             /\ pc'[p] = pc[p]
  BY <1>1, <1>2 DEF Begin, GoTo, history
<1>3. ASSUME NEW q \in Commands, Stat(q) \/ Load(q)
      PROVE  /\ base'[p] = base[p] /\ edit'[p] = edit[p]
             /\ read'[p] = read[p] /\ renamed'[p] = renamed[p]
             /\ pc'[p] = pc[p]
  <2>1. q # p
    BY <1>1, <1>3 DEF Stat, Load
  <2>2. /\ edit' = edit /\ renamed' = renamed
        /\ read' = [read EXCEPT ![q] = renames]
    BY <1>3 DEF Stat, Load
  <2>3. /\ base' = base \/ \E d : base' = [base EXCEPT ![q] = d]
        /\ \E label : GoTo(q, label)
    BY <1>3 DEF Stat, Load, Prepare
  <2> QED
    BY <2>1, <2>2, <2>3 DEF GoTo
<1>4. ASSUME NEW q \in Commands, WriteTemp(q) \/ WriteFails(q) \/ Killed(q)
      PROVE  /\ base'[p] = base[p] /\ edit'[p] = edit[p]
             /\ read'[p] = read[p] /\ renamed'[p] = renamed[p]
             /\ pc'[p] \in {pc[p], "killed"}
  BY <1>1, <1>4 DEF WriteTemp, WriteFails, Killed, GoTo, history
<1>5. ASSUME NEW q \in Commands, Rename(q)
      PROVE  /\ base'[p] = base[p] /\ edit'[p] = edit[p]
             /\ read'[p] = read[p] /\ renamed'[p] = renamed[p]
             /\ pc'[p] = pc[p]
  BY <1>1, <1>5 DEF Rename, GoTo
<1>6. ASSUME NEW q \in Commands, Open(q)
      PROVE  /\ base'[p] = base[p] /\ edit'[p] = edit[p]
             /\ read'[p] = read[p] /\ renamed'[p] = renamed[p]
             /\ pc'[p] \in {pc[p], "opened", "failed"}
  BY <1>1, <1>6 DEF Open, GoTo, history
<1>7. CASE UNCHANGED vars
  BY <1>1, <1>7 DEF vars, history
<1> QED
  BY <1>1, <1>2, <1>3, <1>4, <1>5, <1>6, <1>7 DEF Next, Done

(* A rename that EditsAreKept excepts stays one. *)
LEMMA StillOverridden ==
  ASSUME Inv, RenamesEnd, [Next]_vars, NEW p \in Commands, renamed[p] > 0,
         Overridden(p)
  PROVE  Overridden(p)'
<1>1. PICK q \in Commands :
        /\ renamed[q] > renamed[p]
        /\ read[q] < renamed[p] \/ Concern(edit[q], edit[p])
  BY DEF Overridden
<1>2. renamed[p] \in Nat /\ renamed[q] \in Nat
  BY DEF Inv, TypeOK
<1>3. renamed[q] > 0
  BY <1>1, <1>2
<1>4. /\ renamed'[p] = renamed[p] /\ edit'[p] = edit[p]
      /\ renamed'[q] = renamed[q] /\ edit'[q] = edit[q] /\ read'[q] = read[q]
  BY <1>3, RenamedAreFrozen
<1>5. /\ renamed'[q] > renamed'[p]
      /\ read'[q] < renamed'[p] \/ Concern(edit'[q], edit'[p])
  BY <1>1, <1>4
<1> QED
  BY <1>5 DEF Overridden, Concern

(* A step that leaves the file alone keeps the invariant, if the one       *)
(* command it takes to a write has read what it should.                    *)
LEMMA QuietSteps ==
  ASSUME Inv, KeepInv, [Next]_vars, UNCHANGED <<file, renamed, renames>>,
         NEW q \in Commands,
         \A r \in Commands \ {q} : /\ pc'[r] = pc[r]
                                   /\ base'[r] = base[r]
                                   /\ edit'[r] = edit[r] /\ read'[r] = read[r],
         Writing(q)' =>
           /\ ~Refuses(base'[q], edit'[q])
           /\ read'[q] > 0 /\ edit'[q].op # "init" => Loads(base'[q])
           /\ edit'[q].op # "init" =>
                \A p \in Commands :
                  Settled(p) /\ read'[q] >= renamed[p] =>
                    KeptIn(base'[q], edit[p]) \/ Overridden(p)
  PROVE  KeepInv'
<1> USE DEF KeepInv
<1>1. RenamesEnd'
  <2>1. ASSUME NEW p \in Commands, renamed'[p] > 0
        PROVE  pc'[p] \in Ended \cup {"open"}
    BY <2>1, RenamedAreFrozen
  <2>2. renames' > 0 => Loads(file')
    BY DEF RenamesEnd
  <2> QED
    BY <2>1, <2>2 DEF RenamesEnd, Loads
<1>2. BasesLoad'
  <2> SUFFICES ASSUME NEW r \in Commands, Writing(r)'
               PROVE  /\ ~Refuses(base'[r], edit'[r])
                      /\ read'[r] > 0 /\ edit'[r].op # "init" =>
                           Loads(base'[r])
    BY DEF BasesLoad
  <2>1. CASE r = q
    BY <2>1
  <2>2. CASE r # q
    <3>1. Writing(r)
      BY <2>2 DEF Writing
    <3>2. base'[r] = base[r] /\ edit'[r] = edit[r] /\ read'[r] = read[r]
      BY <2>2
    <3> QED
      BY <3>1, <3>2 DEF BasesLoad
  <2> QED
    BY <2>1, <2>2
<1>3. ASSUME NEW p \in Commands, Settled(p)'
      PROVE  /\ Settled(p) /\ edit'[p] = edit[p] /\ renamed'[p] = renamed[p]
             /\ Overridden(p) => Overridden(p)'
  <2>1. renamed[p] > 0
    BY <1>3 DEF Settled
  <2>2. base'[p] = base[p] /\ edit'[p] = edit[p] /\ renamed'[p] = renamed[p]
    BY <2>1, RenamedAreFrozen
  <2> QED
    BY <1>3, <2>1, <2>2, StillOverridden DEF Settled
<1>4. KeptInFile'
  <2> SUFFICES ASSUME NEW p \in Commands, Settled(p)'
               PROVE  KeptIn(file', edit'[p]) \/ Overridden(p)'
    BY DEF KeptInFile
  <2>1. /\ Settled(p) /\ edit'[p] = edit[p]
        /\ Overridden(p) => Overridden(p)'
    BY <1>3
  <2> QED
    BY <2>1 DEF KeptInFile
<1>5. KeptInBases'
  <2> SUFFICES ASSUME NEW p \in Commands, NEW r \in Commands,
                      Settled(p)', Writing(r)', read'[r] >= renamed'[p],
                      edit'[r].op # "init"
               PROVE  KeptIn(base'[r], edit'[p]) \/ Overridden(p)'
    BY DEF KeptInBases
  <2>1. /\ Settled(p) /\ edit'[p] = edit[p] /\ renamed'[p] = renamed[p]
        /\ Overridden(p) => Overridden(p)'
    BY <1>3
  <2>2. CASE r = q
    BY <2>1, <2>2
  <2>3. CASE r # q
    <3>1. Writing(r)
      BY <2>3 DEF Writing
    <3>2. base'[r] = base[r] /\ edit'[r] = edit[r] /\ read'[r] = read[r]
      BY <2>3
    <3> QED
      BY <2>1, <3>1, <3>2 DEF KeptInBases
  <2> QED
    BY <2>2, <2>3
<1> QED
  BY <1>1, <1>2, <1>4, <1>5

(* What a command prepares from a document it may be prepared from *)
LEMMA PreparingKeeps ==
  ASSUME Inv, KeepInv, [Next]_vars, NEW q \in Commands, NEW d \in Document,
         Stat(q) \/ Load(q), Prepare(q, d),
         renames > 0 /\ edit[q].op # "init" => d = file
  PROVE  KeepInv'
<1> USE DEF Inv, TypeOK
<1>1. /\ UNCHANGED <<file, renamed, renames>> /\ edit' = edit
      /\ read' = [read EXCEPT ![q] = renames]
      /\ base' = [base EXCEPT ![q] = d]
      /\ \E label : GoTo(q, label)
  BY DEF Stat, Load, Prepare
<1>2. /\ read'[q] = renames /\ base'[q] = d
      /\ \A r \in Commands \ {q} : /\ pc'[r] = pc[r] /\ base'[r] = base[r]
                                   /\ edit'[r] = edit[r] /\ read'[r] = read[r]
  BY <1>1 DEF GoTo
<1>3. Writing(q)' => ~Refuses(d, edit[q])
  <2> SUFFICES ASSUME Refuses(d, edit[q])
               PROVE  ~Writing(q)'
    OBVIOUS
  <2>1. pc'[q] = "failed"
    BY DEF Prepare, GoTo
  <2> QED
    BY <2>1 DEF Writing
<1>4. renames > 0 /\ edit[q].op # "init" => Loads(d)
  BY DEF KeepInv, RenamesEnd
<1>5. ASSUME NEW p \in Commands, Settled(p), edit[q].op # "init",
             renames >= renamed[p]
      PROVE  KeptIn(d, edit[p]) \/ Overridden(p)
  <2>1. renames > 0
    BY <1>5 DEF Settled
  <2>2. d = file
    BY <1>5, <2>1
  <2> QED
    BY <1>5, <2>2 DEF KeepInv, KeptInFile
<1> QED
  BY <1>1, <1>2, <1>3, <1>4, <1>5, QuietSteps

(* A rename puts in place an edit of what was read. *)
LEMMA RenamingKeeps ==
  ASSUME Inv, KeepInv, [Next]_vars, NEW q \in Commands, Rename(q)
  PROVE  KeepInv'
<1> USE DEF Inv, TypeOK
<1>1. /\ Writing(q) /\ renames' = renames + 1 /\ renames \in Nat
      /\ file' = Draft(q) /\ renamed' = [renamed EXCEPT ![q] = renames + 1]
      /\ base' = base /\ edit' = edit /\ read' = read
      /\ pc'[q] \in {"open", "done"}
      /\ \A r \in Commands \ {q} : pc'[r] = pc[r] /\ renamed'[r] = renamed[r]
      /\ renamed'[q] = renames + 1
  BY DEF Rename, GoTo, Writing, TempsAreDrafts
<1>2. Draft(q) = Edited(base[q], edit[q]) /\ Draft(q) \in Document
      /\ Loads(Draft(q)) /\ ~Refuses(base[q], edit[q])
  BY <1>1 DEF Draft, Writing, DraftsLoad, KeepInv, BasesLoad
<1>3. \A p \in Commands : renamed[p] \in Nat /\ renamed[p] <= renames
                          /\ read[p] \in Nat /\ read[p] <= renames
  OBVIOUS
<1>4. RenamesEnd'
  <2>1. ASSUME NEW p \in Commands, renamed'[p] > 0
        PROVE  pc'[p] \in Ended \cup {"open"}
    <3>1. CASE p = q
      BY <1>1, <3>1 DEF Ended
    <3>2. CASE p # q
      BY <1>1, <2>1, <3>2 DEF KeepInv, RenamesEnd
    <3> QED
      BY <3>1, <3>2
  <2>2. Loads(file')
    BY <1>1, <1>2
  <2> QED
    BY <2>1, <2>2 DEF RenamesEnd, Loads
<1>5. ASSUME NEW r \in Commands, Writing(r)'
      PROVE  /\ r # q /\ Writing(r) /\ base'[r] = base[r]
             /\ edit'[r] = edit[r] /\ read'[r] = read[r]
  BY <1>1, <1>5 DEF Writing
<1>6. BasesLoad'
  <2> SUFFICES ASSUME NEW r \in Commands, Writing(r)'
               PROVE  /\ ~Refuses(base'[r], edit'[r])
                      /\ read'[r] > 0 /\ edit'[r].op # "init" =>
                           Loads(base'[r])
    BY DEF BasesLoad
  <2> QED
    BY <1>5 DEF KeepInv, BasesLoad
<1>7. ASSUME NEW p \in Commands, p # q, Settled(p)'
      PROVE  /\ Settled(p) /\ renamed[p] > 0 /\ renamed'[p] = renamed[p]
             /\ Overridden(p) => Overridden(p)'
  <2>1. renamed[p] > 0 /\ renamed'[p] = renamed[p] /\ base'[p] = base[p]
    BY <1>1, <1>7 DEF Settled
  <2>2. Overridden(p) => Overridden(p)'
    BY <2>1, StillOverridden DEF KeepInv
  <2> QED
    BY <1>7, <2>1, <2>2 DEF Settled
<1>8. KeptInFile'
  <2> SUFFICES ASSUME NEW p \in Commands, Settled(p)'
               PROVE  KeptIn(file', edit[p]) \/ Overridden(p)'
    BY <1>1 DEF KeptInFile
  <2>1. CASE p = q
    <3>1. Loads(base[q])
      BY <1>1, <2>1 DEF Settled
    <3> QED
      BY <1>1, <1>2, <2>1, <3>1, OwnEditIsKept DEF Loads
  <2>2. CASE p # q
    <3>1. /\ Settled(p) /\ renamed[p] > 0 /\ renamed'[p] = renamed[p]
          /\ Overridden(p) => Overridden(p)'
      BY <1>7, <2>2
    <3>2. CASE read[q] < renamed[p] \/ Concern(edit[q], edit[p])
      <4>1. renamed'[q] > renamed'[p]
        BY <1>1, <1>3, <3>1
      <4>2. read'[q] < renamed'[p] \/ Concern(edit'[q], edit'[p])
        BY <1>1, <3>1, <3>2
      <4> QED
        BY <4>1, <4>2 DEF Overridden, Concern
    <3>3. CASE read[q] >= renamed[p] /\ ~Concern(edit[q], edit[p])
      <4>1. read[q] > 0 /\ edit[q].op # "init"
        BY <1>3, <3>1, <3>3 DEF Concern
      <4>2. Loads(base[q])
        BY <1>1, <4>1 DEF KeepInv, BasesLoad
      <4>3. KeptIn(base[q], edit[p]) \/ Overridden(p)
        BY <1>1, <3>1, <3>3, <4>1 DEF KeepInv, KeptInBases
      <4>4. KeptIn(base[q], edit[p]) => KeptIn(file', edit[p])
        BY <1>1, <1>2, <3>3, <4>2, OtherEditsKeep DEF Loads
      <4> QED
        BY <3>1, <4>3, <4>4
    <3> QED
      BY <1>3, <3>2, <3>3
  <2> QED
    BY <2>1, <2>2
<1>9. KeptInBases'
  <2> SUFFICES ASSUME NEW p \in Commands, NEW r \in Commands,
                      Settled(p)', Writing(r)', read'[r] >= renamed'[p],
                      edit'[r].op # "init"
               PROVE  KeptIn(base'[r], edit'[p]) \/ Overridden(p)'
    BY DEF KeptInBases
  <2>1. p # q
    BY <1>1, <1>3
  <2>2. /\ Settled(p) /\ renamed'[p] = renamed[p]
        /\ Overridden(p) => Overridden(p)'
    BY <1>7, <2>1
  <2> QED
    BY <1>1, <1>5, <2>2 DEF KeepInv, KeptInBases
<1> QED
  BY <1>4, <1>6, <1>8, <1>9 DEF KeepInv

(* Prepare is the only way to a write, and Rename the only step that       *)
(* changes the file.                                                       *)
LEMMA KeepIsInductive == Inv /\ KeepInv /\ [Next]_vars => KeepInv'
<1> SUFFICES ASSUME Inv, KeepInv, [Next]_vars
             PROVE  KeepInv'
  OBVIOUS
<1> USE DEF Inv, TypeOK
<1>1. ASSUME NEW p \in Commands, NEW e \in Edits, Begin(p, e)
      PROVE  KeepInv'
  <2>1. ~Writing(p)' /\ \A r \in Commands \ {p} : pc'[r] = pc[r]
    BY <1>1 DEF Begin, GoTo, Writing
  <2>2. /\ UNCHANGED <<file, renamed, renames>>
        /\ \A r \in Commands \ {p} : /\ base'[r] = base[r]
                                     /\ edit'[r] = edit[r] /\ read'[r] = read[r]
    BY <1>1 DEF Begin, history
  <2> QED
    BY <2>1, <2>2, QuietSteps
<1>2. ASSUME NEW p \in Commands, Stat(p)
      PROVE  KeepInv'
  <2>1. CASE Prepare(p, DefaultDocument) /\ edit[p].op = "init"
    BY <1>2, <2>1, PreparingKeeps, DefaultsAreDocuments
  <2>2. CASE /\ Prepare(p, DefaultDocument) \/ Prepare(p, DesktopDocument)
             /\ file = Absent
    <3>1. ~(renames > 0)
      BY <2>2 DEF KeepInv, RenamesEnd, Loads
    <3> QED
      BY <1>2, <2>2, <3>1, PreparingKeeps, DefaultsAreDocuments
  <2>3. CASE \E label \in {"failed", "load", "open"} :
               GoTo(p, label) /\ UNCHANGED base
    <3>1. ~Writing(p)' /\ \A r \in Commands \ {p} : pc'[r] = pc[r]
      BY <2>3 DEF GoTo, Writing
    <3>2. /\ UNCHANGED <<file, renamed, renames>>
          /\ \A r \in Commands \ {p} :
               base'[r] = base[r] /\ edit'[r] = edit[r] /\ read'[r] = read[r]
      BY <1>2, <2>3 DEF Stat
    <3> QED
      BY <3>1, <3>2, QuietSteps
  <2> QED
    BY <1>2, <2>1, <2>2, <2>3 DEF Stat
<1>3. ASSUME NEW p \in Commands, Load(p)
      PROVE  KeepInv'
  <2>1. CASE file # Absent
    BY <1>3, <2>1, PreparingKeeps DEF Load
  <2>2. CASE file = Absent
    <3>1. ~Writing(p)' /\ \A r \in Commands \ {p} : pc'[r] = pc[r]
      BY <1>3, <2>2 DEF Load, GoTo, Writing
    <3>2. /\ UNCHANGED <<file, renamed, renames>>
          /\ \A r \in Commands \ {p} :
               base'[r] = base[r] /\ edit'[r] = edit[r] /\ read'[r] = read[r]
      BY <1>3, <2>2 DEF Load
    <3> QED
      BY <3>1, <3>2, QuietSteps
  <2> QED
    BY <2>1, <2>2
<1>4. ASSUME NEW p \in Commands, WriteTemp(p) \/ WriteFails(p) \/ Open(p)
                                 \/ Killed(p)
      PROVE  KeepInv'
  <2>1. /\ UNCHANGED <<file, renamed, renames, base, edit, read>>
        /\ \A r \in Commands \ {p} : pc'[r] = pc[r]
        /\ Writing(p)' => Writing(p)
    BY <1>4 DEF WriteTemp, WriteFails, Open, Killed, GoTo, Writing, history
  <2>2. Writing(p) =>
          /\ ~Refuses(base[p], edit[p])
          /\ read[p] > 0 /\ edit[p].op # "init" => Loads(base[p])
    BY DEF KeepInv, BasesLoad
  <2>3. Writing(p) /\ edit[p].op # "init" =>
          \A r \in Commands : Settled(r) /\ read[p] >= renamed[r] =>
            KeptIn(base[p], edit[r]) \/ Overridden(r)
    BY DEF KeepInv, KeptInBases
  <2> QED
    BY <2>1, <2>2, <2>3, QuietSteps
<1>5. ASSUME NEW p \in Commands, Rename(p)
      PROVE  KeepInv'
  BY <1>5, RenamingKeeps
<1>6. CASE UNCHANGED vars
  <2>1. UNCHANGED <<file, pc, edit, base, read, renamed, renames>>
    BY <1>6 DEF vars, history
  <2>2. /\ (\A p \in Commands : Writing(p)' <=> Writing(p))
        /\ (\A p \in Commands : Settled(p)' <=> Settled(p))
    BY <2>1 DEF Writing, Settled
  <2>3. \A p \in Commands : Overridden(p) => Overridden(p)'
    BY <2>1 DEF Overridden, Concern
  <2>4. RenamesEnd' /\ BasesLoad'
    BY <2>1, <2>2 DEF KeepInv, RenamesEnd, BasesLoad
  <2>5. KeptInFile' /\ KeptInBases'
    BY <2>1, <2>2, <2>3 DEF KeepInv, KeptInFile, KeptInBases
  <2> QED
    BY <2>4, <2>5 DEF KeepInv
<1> QED
  BY <1>1, <1>2, <1>3, <1>4, <1>5, <1>6 DEF Next, Done

(* An edit that was reported as done stays in the file, except for a later *)
(* edit of the same thing and one that had read the file before, for any   *)
(* number of commands and whatever the users wrote (persistMutation,       *)
(* WriteAtomic, the editor's mutations).                                   *)
THEOREM EditsStay == Spec => []EditsAreKept
<1>1. Init => KeepInv
  <2> SUFFICES ASSUME Init
               PROVE  KeepInv
    OBVIOUS
  <2>1. /\ renames = 0
        /\ \A p \in Commands : renamed[p] = 0 /\ pc[p] = "idle"
    BY DEF Init
  <2> QED
    BY <2>1 DEF KeepInv, RenamesEnd, BasesLoad, KeptInFile, KeptInBases,
                Settled, Writing
<1>2. KeepInv => EditsAreKept
  <2>1. \A e : Kept(e) = KeptIn(file, e)
    BY DEF Kept, KeptIn
  <2> QED
    BY <2>1 DEF KeepInv, KeptInFile, EditsAreKept, Settled, Overridden
<1> QED
  BY <1>1, <1>2, InitialInv, InvIsInductive, KeepIsInductive, PTL DEF Spec
=============================================================================
