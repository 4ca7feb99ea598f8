----------------------------- MODULE LedgerFile -----------------------------
(***************************************************************************)
(* ledger.toml as the two programs read and write it (load and save in     *)
(* arbiter-core/src/ledger.rs): a save opens and truncates ledger.tmp,     *)
(* writes it, and renames it to ledger.toml; every process may end at any  *)
(* point, and every call may fail.  A file opened under one name is still  *)
(* written when another process has renamed it.  A ledger fits in one      *)
(* write, and the file is normal: load then saves nothing of its own.      *)
(* Nothing keeps the saves of two processes apart; mixed and spoilt are    *)
(* history that tells the saves that overlapped, and what they touched.    *)
(***************************************************************************)
CONSTANTS
  Procs, Writers, Ledgers, Default, Edited, Nothing,   \* as in LedgerStore
  Torn,     \* the content of a file that is not a ledger
  Faults    \* the calls that may fail: a subset of {"read", "write", "rename"}

ASSUME FileOK ==
  /\ Writers \subseteq Procs
  /\ Default \in Ledgers /\ Nothing \notin Ledgers /\ Torn \notin Ledgers
  /\ Torn # Nothing
  /\ Edited \in [Ledgers -> SUBSET Ledgers]

VARIABLES
  file, tmp,   \* the contents of ledger.toml and ledger.tmp, Nothing: no file
  pc,          \* each process' next call: "idle", "write" or "rename"
  opened,      \* the file each process has open for writing
  held,        \* the ledger it has loaded, or saved last
  new,         \* the ledger it is saving
  mixed,       \* history: whose save under way has overlapped another's
  spoilt       \* history: the last change of ledger.toml was by such a save

vars == <<file, tmp, pc, opened, held, new, mixed, spoilt>>

Content == Ledgers \cup {Torn, Nothing}

TypeOK ==
  /\ file \in Content /\ tmp \in Content
  /\ pc \in [Procs -> {"idle", "write", "rename"}]
  /\ opened \in [Procs -> {"tmp", "file", "unlinked"}]
  /\ held \in [Procs -> Ledgers \cup {Nothing}]
  /\ new \in [Procs -> Ledgers]
  /\ mixed \subseteq Procs /\ spoilt \in BOOLEAN

\* ledger.tmp may be there from an earlier crash.
Init ==
  /\ file \in Ledgers \cup {Nothing} /\ tmp \in Content
  /\ pc = [p \in Procs |-> "idle"] /\ opened = [p \in Procs |-> "unlinked"]
  /\ held = [p \in Procs |-> Nothing] /\ new = [p \in Procs |-> Default]
  /\ mixed = {} /\ spoilt = FALSE

-----------------------------------------------------------------------------

\* load and its callers' unwrap_or_else: a missing ledger, one that cannot
\* be read and one that cannot be parsed are the default one.
Loaded ==
  {IF file \in Ledgers THEN file ELSE Default}
    \cup (IF "read" \in Faults THEN {Default} ELSE {})

Load(p) ==
  /\ pc[p] = "idle"
  /\ \E l \in Loaded : held' = [held EXCEPT ![p] = l]
  /\ UNCHANGED <<file, tmp, pc, opened, new, mixed, spoilt>>

\* The processes that are in a save.
Saving == {q \in Procs : pc[q] # "idle"}

\* fs::write opens ledger.tmp, which is empty from now on.
OpenTmp(p) ==
  /\ p \in Writers /\ pc[p] = "idle" /\ held[p] # Nothing
  /\ \E l \in Edited[held[p]] : new' = [new EXCEPT ![p] = l]
  /\ pc' = [pc EXCEPT ![p] = "write"]
  /\ tmp' = Torn /\ opened' = [opened EXCEPT ![p] = "tmp"]
  /\ mixed' = IF Saving = {} THEN mixed ELSE mixed \cup Saving \cup {p}
  /\ UNCHANGED <<file, held, spoilt>>

\* What a write leaves goes to the file that was opened, under any name.
Lands(p, inTmp, inFile) ==
  \/ opened[p] = "tmp" /\ tmp' \in inTmp /\ UNCHANGED <<file, spoilt>>
  \/ opened[p] = "file" /\ file' \in inFile /\ spoilt' = TRUE /\ UNCHANGED tmp
  \/ opened[p] = "unlinked" /\ UNCHANGED <<file, tmp, spoilt>>

\* The open file is written from its start: what another process has put
\* there meanwhile may stand out at the end.
Written(p, content) ==
  {new[p]} \cup (IF content = Torn THEN {} ELSE {Torn})

WriteTmp(p) ==
  /\ pc[p] = "write"
  /\ Lands(p, Written(p, tmp), Written(p, file))
  /\ pc' = [pc EXCEPT ![p] = "rename"]
  /\ opened' = [opened EXCEPT ![p] = "unlinked"]
  /\ UNCHANGED <<held, new, mixed>>

\* Mutant: a write that has failed is not noticed.
WriteFails_Unnoticed(p) ==
  /\ "write" \in Faults /\ pc[p] = "write"
  /\ Lands(p, {tmp, Torn}, {file, Torn})
  /\ pc' = [pc EXCEPT ![p] = "rename"]
  /\ opened' = [opened EXCEPT ![p] = "unlinked"]
  /\ UNCHANGED <<held, new, mixed>>

\* The disk is full: nothing or a part is written, and save returns before
\* the rename.
WriteFails(p) ==
  /\ "write" \in Faults /\ pc[p] = "write"
  /\ Lands(p, {tmp, Torn}, {file, Torn})
  /\ pc' = [pc EXCEPT ![p] = "idle"]
  /\ opened' = [opened EXCEPT ![p] = "unlinked"]
  /\ mixed' = mixed \ {p}
  /\ UNCHANGED <<held, new>>

\* Who has ledger.tmp open writes ledger.toml from now on, and who had that
\* open writes a file without a name.
RenameTmp(p) ==
  /\ pc[p] = "rename" /\ tmp # Nothing
  /\ file' = tmp /\ tmp' = Nothing
  /\ opened' = [q \in Procs |-> IF opened[q] = "tmp" THEN "file" ELSE "unlinked"]
  /\ pc' = [pc EXCEPT ![p] = "idle"]
  /\ held' = [held EXCEPT ![p] = new[p]]
  /\ spoilt' = (p \in mixed) /\ mixed' = mixed \ {p}
  /\ UNCHANGED new

RenameFails(p) ==
  /\ pc[p] = "rename" /\ ("rename" \in Faults \/ tmp = Nothing)
  /\ pc' = [pc EXCEPT ![p] = "idle"]
  /\ mixed' = mixed \ {p}
  /\ UNCHANGED <<file, tmp, opened, held, new, spoilt>>

\* The caller is done with its ledger; or the process ends, at any point.
Ends(p) ==
  /\ pc' = [pc EXCEPT ![p] = "idle"]
  /\ opened' = [opened EXCEPT ![p] = "unlinked"]
  /\ held' = [held EXCEPT ![p] = Nothing]
  /\ mixed' = mixed \ {p}
  /\ UNCHANGED <<file, tmp, new, spoilt>>

Next ==
  \E p \in Procs :
    \/ Load(p) \/ OpenTmp(p) \/ WriteTmp(p) \/ WriteFails(p) \/ RenameTmp(p)
    \/ RenameFails(p) \/ Ends(p)

Spec == Init /\ [][Next]_vars

-----------------------------------------------------------------------------

Store ==
  INSTANCE LedgerStore WITH
    stored  <- IF file = Nothing THEN Default ELSE file,
    MayFail <- "read" \in Faults

(***************************************************************************)
(* "Atomic write": whatever crashes or fails between the calls of a save,  *)
(* both processes load a ledger that was saved as a whole, and a save      *)
(* makes its edit to what its process had loaded, or nothing.  Only saves  *)
(* that overlap are excepted, from the moment one of them has changed      *)
(* ledger.toml until a save that overlaps no other is through.             *)
(***************************************************************************)
StoreIsAtomic == Store!Init /\ [][~spoilt' => Store!Next]_(Store!vars)

(***************************************************************************)
(* The same as the comment on save has it, "write to temp file then        *)
(* rename": ledger.toml itself is never empty nor half written.            *)
(* The code does not keep this; the README says how.                       *)
(***************************************************************************)
NeverTorn == file # Torn
=============================================================================
