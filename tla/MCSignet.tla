----------------------------- MODULE MCSignet -----------------------------
(***************************************************************************)
(* Instances of Signet for TLC: the default path, the path of a ward and   *)
(* one more; a watcher's thread and the relay's.                           *)
(***************************************************************************)
EXTENDS Signet

TwoPaths == {"dl", "ward"}
ThreePaths == TwoPaths \cup {"other"}
DefaultPath == {"dl"}
Threads == {"watcher", "relay"}
=============================================================================
