------------------------------ MODULE MCBridge ------------------------------
(***************************************************************************)
(* Instance of Bridge for TLC: a typed text, a double click, combinations  *)
(* of one and two modifiers, one that names its modifier twice, and one    *)
(* without a key; a move, a copy or a deletion; a shell command.           *)
(***************************************************************************)
EXTENDS Bridge

MCActions ==
  {[mods |-> <<>>, clicks |-> 2],
   [mods |-> <<"ctrl">>, clicks |-> 1],
   [mods |-> <<"ctrl", "shift">>, clicks |-> 1],
   [mods |-> <<"shift", "shift">>, clicks |-> 1],
   [mods |-> <<"shift">>, clicks |-> 0]}

AllKinds == {"move", "copy", "delete"}
Deletes == {"delete"}
Writes == {"write"}
=============================================================================
