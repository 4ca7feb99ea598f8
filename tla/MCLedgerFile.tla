---------------------------- MODULE MCLedgerFile ----------------------------
(***************************************************************************)
(* Instances of LedgerFile for TLC: a ledger is a set of decrees, an edit  *)
(* adds or removes one, and both the Forge and Atlas save.                 *)
(***************************************************************************)
EXTENDS LedgerFile

Decrees == {"d1", "d2"}
MCLedgers == {{}, {"d1"}, {"d2"}, Decrees}
MCEdited ==
  [l \in MCLedgers |-> {l \cup {d} : d \in Decrees} \cup {l \ {d} : d \in Decrees}]
MCFaults == {"write", "rename"}
=============================================================================
