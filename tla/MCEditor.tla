----------------------------- MODULE MCEditor ------------------------------
(***************************************************************************)
(* Instances of Editor for TLC.                                            *)
(***************************************************************************)
EXTENDS Editor

\* One decree the editor could have made, one it cannot show.
PlainDecree ==
  [label |-> 91, presence |-> TRUE,
   summons |-> [type |-> "file", value |-> "p", recursive |-> FALSE],
   nodes |-> <<[id |-> 101, action |-> "Copy", text |-> "1000", plain |-> TRUE]>>]

OddDecree ==
  [label |-> 92, presence |-> FALSE,
   summons |-> [type |-> "clipboard", value |-> "", recursive |-> FALSE],
   nodes |-> <<[id |-> 102, action |-> "Shell", text |-> "spaced", plain |-> TRUE]>>]

TwoShipped == Slug(91) :> PlainDecree @@ Slug(92) :> OddDecree
NoneShipped == <<>>
=============================================================================
