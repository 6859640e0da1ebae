------------------------------ MODULE Identity ------------------------------
(***************************************************************************)
(* Resolve of internal/identity/identity.go: who a request is from, given  *)
(* its headers and the default tags of its listener.                       *)
(*                                                                         *)
(* A text stands for itself trimmed; Blank is the empty one. The tags are  *)
(* a map over their keys as they are spelled, and Go ranges over a map in  *)
(* any order: of two spellings of one key either may be the last.          *)
(***************************************************************************)
EXTENDS SequencesExt

CONSTANTS
  Fields,     \* client_type, session_id, ...: the keys that have a header
  Spellings,  \* the keys as a configuration spells them
  Keys,       \* the keys that normalizeKey makes of them
  Texts, Blank,
  KeyOf       \* normalizeKey

ASSUME IdentityAssumption ==
  /\ Blank \in Texts /\ Fields \subseteq Keys \ {Blank}
  /\ KeyOf \in [Spellings -> Keys]

(* The loop over the defaults: blank values are skipped. *)
FromDefaults(tags, order) ==
  FoldLeft(LAMBDA known, k : IF tags[k] = Blank THEN known
                             ELSE [known EXCEPT ![KeyOf[k]] = tags[k]],
           [key \in Keys |-> Blank], order)

(* overrideFromHeader, for each of the fields *)
Overridden(known, headers) ==
  [key \in Keys |-> IF key \in Fields /\ headers[key] # Blank
                    THEN headers[key] ELSE known[key]]

Orders == SetToSeqs(Spellings)

(* What Resolve may return: a text for each field, and the extra tags *)
Resolve(headers, tags) ==
  {Overridden(FromDefaults(tags, order), headers) : order \in Orders}

(* The extra tags InsertRequest stores: a blank key is left out. *)
StoredTags(known) ==
  {key \in Keys \ (Fields \cup {Blank}) : known[key] # Blank}
=============================================================================
