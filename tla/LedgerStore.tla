---------------------------- MODULE LedgerStore ----------------------------
(***************************************************************************)
(* What ledger::load and ledger::save promise their callers: one ledger    *)
(* that is loaded whole and replaced whole ("Atomic write").  LedgerFile   *)
(* implements it except where the saves of two processes overlap.          *)
(***************************************************************************)
CONSTANTS
  Procs,     \* the processes
  Writers,   \* those that save
  Ledgers,   \* the ledgers there are
  Default,   \* the ledger in use where there is none
  Edited,    \* what a caller may make of a loaded ledger
  MayFail,   \* the operating system may fail to read the file
  Nothing    \* a process holds no ledger

VARIABLES
  stored,    \* the ledger
  held       \* the ledger each process has loaded, or saved last

vars == <<stored, held>>

Init == stored \in Ledgers /\ held = [p \in Procs |-> Nothing]

\* Callers take the default ledger for one that cannot be read.
Load(p) ==
  /\ \/ held' = [held EXCEPT ![p] = stored]
     \/ MayFail /\ held' = [held EXCEPT ![p] = Default]
  /\ UNCHANGED stored

Save(p) ==
  /\ p \in Writers /\ held[p] # Nothing
  /\ stored' \in Edited[held[p]]
  /\ held' = [held EXCEPT ![p] = stored']

\* The caller is done with it, or the process ends.
Forget(p) == held' = [held EXCEPT ![p] = Nothing] /\ UNCHANGED stored

Next == \E p \in Procs : Load(p) \/ Save(p) \/ Forget(p)

Spec == Init /\ [][Next]_vars
=============================================================================
