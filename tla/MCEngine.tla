------------------------------ MODULE MCEngine ------------------------------
(***************************************************************************)
(* Small instances of Engine: a decree that drives the mouse and one that  *)
(* handles files, summons that match exactly, by pattern, not at all or    *)
(* with too deep a path, and the commands each run lets in.                *)
(***************************************************************************)
EXTENDS Engine, TLC

CONSTANTS kHand, kFile, kOther

MCKeys    == {kHand, kFile}
MCScript  == (kHand :> <<"entry", "hand", "wait">>) @@ (kFile :> <<"entry", "inscribe", "wait">>)
MCIgnores == (kHand :> {"KeyboardInput"}) @@ (kFile :> {})

Exact(k)   == [key |-> k, near |-> {}, deep |-> FALSE]
Matching   == [key |-> kOther, near |-> {kHand, kFile}, deep |-> FALSE]
Unassigned == [key |-> kOther, near |-> {}, deep |-> FALSE]
TooDeep    == [key |-> kOther, near |-> {kFile}, deep |-> TRUE]

AnySummonses  == {Exact(kHand), Matching, Unassigned, TooDeep}
GoodSummonses == {Exact(kHand), Exact(kFile)}
OneDecree     == {Exact(kHand)}

Pause(p)     == [op |-> "SetPaused", paused |-> p]
Run(k, dry)  == [op |-> "ManualRun", key |-> k, dry |-> dry]
Save(k)      == [op |-> "SaveDecree", key |-> k]
Remove(k)    == [op |-> "RemoveDecree", key |-> k]
Bare(op)     == [op |-> op]

PauseCommands == {Pause(TRUE), Pause(FALSE), Run(kHand, FALSE), Run(kFile, TRUE)}
ConfigCommands == {Save(kFile), Remove(kHand), Bare("SaveWards"),
                   Bare("SaveSignet"), Bare("ReloadWards"), Bare("RenameDecree")}
NoCommands    == {}

Allow(s, c, p, r, q) ==
  [i \in Inputs |-> CASE i = "summons" -> s [] i = "command" -> c
                      [] i = "signal" -> p [] i = "reset" -> r
                      [] i = "shutdown" -> q]
RunsBudget   == Allow(3, 1, 1, 1, 0)
FaultBudget  == Allow(2, 1, 1, 0, 1)
OrphanBudget == Allow(2, 0, 0, 1, 0)
=============================================================================
