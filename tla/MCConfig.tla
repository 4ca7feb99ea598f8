------------------------------ MODULE MCConfig ------------------------------
(***************************************************************************)
(* Instances of Config for TLC: decrees d1 and d2, a ward path, two        *)
(* hotkeys and a process.                                                  *)
(***************************************************************************)
EXTENDS Config

File(recursive) == [kind |-> "file", at |-> "ward", pattern |-> "glob",
                    recursive |-> recursive]
Hotkey(combo) == [kind |-> "hotkey", at |-> combo, pattern |-> "none",
                  recursive |-> TRUE]
Process == [kind |-> "watch", at |-> "proc", pattern |-> "none", recursive |-> TRUE]

MCDefs == {File(TRUE), File(FALSE), Hotkey("k1"), Hotkey("k2"), Process}

Body0(d) == [summons |-> d, body |-> 0]
Both == [decrees |-> [i \in {"d1", "d2"} |->
                        Body0(IF i = "d1" THEN Hotkey("k1") ELSE Process)],
         wards |-> <<>>]
Filed == [decrees |-> [i \in {"d1", "d2"} |->
                         Body0(IF i = "d1" THEN File(TRUE) ELSE Hotkey("k2"))],
          wards |-> [p \in {"ward"} |-> TRUE]]

UserBoots == {Both, Filed}
AllBoots == UserBoots \cup {Default}

\* d1 moves between a ward and a hotkey, d2 keeps to a process: their keys
\* never meet.
Saves == {[op |-> "save", id |-> "d1", summons |-> d] :
             d \in {File(TRUE), File(FALSE), Hotkey("k1")}}
           \cup {[op |-> "save", id |-> "d2", summons |-> Process]}
Removes == {[op |-> "remove", id |-> i] : i \in {"d1", "d2"}}
Renames == {[op |-> "rename", id |-> "d1"]}
Wards == {[op |-> "wards", wards |-> <<>>],
          [op |-> "wards", wards |-> [p \in {"ward"} |-> TRUE]]}
Simulates == {[op |-> "simulate", id |-> "d1", summons |-> Hotkey("k1")]}
Rehotkeys == {[op |-> "save", id |-> "d1", summons |-> Hotkey(k)] : k \in {"k1", "k2"}}

OrderedEdits == Saves \cup Removes \cup Renames \cup Wards
\* How a ward is watched does not matter here: one way will do.
RestartEdits ==
  {e \in OrderedEdits \cup Simulates \cup Rehotkeys :
     /\ e.op = "save" => e.summons # File(FALSE)
     /\ e.op = "wards" => e.wards = <<>>}
=============================================================================
