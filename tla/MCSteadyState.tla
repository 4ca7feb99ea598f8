-------------------------- MODULE MCSteadyState ---------------------------
(***************************************************************************)
(* Instances of SteadyState for TLC: a tick is about 200 ms, a check two   *)
(* of them; the expiry is scaled down from 3 s to just over one check.     *)
(* The engine writes a file of the same name as the user's, in a folder    *)
(* below: what a decree that copies a new file into a subfolder does.      *)
(***************************************************************************)
EXTENDS SteadyState, TLC

ThreeFiles == {"a", "sub/a", "tmp"}
TwoNames == {"a", "tmp"}
NameOf == ("a" :> "a") @@ ("sub/a" :> "a") @@ ("tmp" :> "tmp")
EngineWritten == {"sub/a"}
Temporary == {"tmp"}
InPlace == {"a"}
=============================================================================
