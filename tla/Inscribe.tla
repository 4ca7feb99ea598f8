------------------------------ MODULE Inscribe ------------------------------
(***************************************************************************)
(* Inscribe (arbiter-bridge/src/inscribe.rs): move_file, copy_file and     *)
(* delete_file over one source and one destination, each of whose system   *)
(* calls may fail, and which are retried as a whole.  A rename is atomic;  *)
(* a copy is not, and leaves a part behind when it fails.  The user may    *)
(* delete the source, or write it anew, between any two calls.             *)
(***************************************************************************)
EXTENDS Naturals

CONSTANTS
  Kinds,         \* the operations: a subset of {"move", "copy", "delete"}
  UserMay,       \* what the user does: a subset of {"delete", "write"}
  MaxAttempts,   \* 5 in retry_with_backoff
  MaxUserSteps   \* bound on what the user does meanwhile

ASSUME InscribeConstantsOK ==
  /\ Kinds \subseteq {"move", "copy", "delete"} /\ Kinds # {}
  /\ UserMay \subseteq {"delete", "write"}
  /\ MaxAttempts \in Nat \ {0} /\ MaxUserSteps \in Nat

\* The content of a file: nothing (no file), a part of a copy, the old file
\* at the destination, or a version of the source.
None == 0
Part == 1
Old == 2
First == 3
Versions == First .. First + MaxUserSteps

VARIABLES
  src, dst,    \* the contents of the two files
  kind,        \* the operation
  pc,          \* the system call it makes next, or "returned"
  reading,     \* the version a copy under way has begun with
  attempts,    \* failures so far
  result,      \* "ok", "error", or "none" while it runs
  users,       \* history: what the user has done so far
  wanted       \* history: the version the user has written last, if any

userVars == <<users, wanted>>
inscribeVars == <<src, dst, kind, pc, reading, attempts, result, userVars>>

Calls == {"exists", "rename", "copy", "remove", "wait"}

InscribeTypeOK ==
  /\ src \in {None} \cup Versions /\ dst \in {None, Part, Old} \cup Versions
  /\ kind \in Kinds /\ pc \in Calls \cup {"copying", "returned"}
  /\ reading \in {None} \cup Versions
  /\ attempts \in 0 .. MaxAttempts /\ result \in {"none", "ok", "error"}
  /\ users \in 0 .. MaxUserSteps /\ wanted \in {{}} \cup {{v} : v \in Versions}

InscribeInit ==
  /\ src = First /\ dst \in {None, Old} /\ kind \in Kinds
  /\ pc = "exists" /\ reading = None /\ attempts = 0 /\ result = "none"
  /\ users = 0 /\ wanted = {First}

-----------------------------------------------------------------------------
(* The closure of each operation *)

FirstCall == CASE kind = "move" -> "rename"
               [] kind = "copy" -> "copy"
               [] kind = "delete" -> "remove"

Returns(r) == pc' = "returned" /\ result' = r

\* The source is missing, the path is not trusted or the folder cannot be
\* created: an error at once.
Exists ==
  /\ pc = "exists"
  /\ \/ Returns("error")
     \/ src # None /\ pc' = FirstCall /\ UNCHANGED result
  /\ UNCHANGED <<src, dst, kind, reading, attempts, userVars>>

\* An attempt fails: the error is returned, or the next attempt waits.
Fails ==
  /\ attempts' = attempts + 1
  /\ \/ attempts' >= MaxAttempts /\ Returns("error")
     \/ attempts' < MaxAttempts /\ pc' = "wait" /\ UNCHANGED result

\* Mutant: every attempt starts the count anew.
Retry_Resets ==
  /\ pc = "wait" /\ pc' = FirstCall /\ attempts' = 0
  /\ UNCHANGED <<src, dst, kind, reading, result, userVars>>

\* Mutant: a retry of a move goes on with the removal.
Retry_Removes ==
  /\ pc = "wait" /\ pc' = IF kind = "copy" THEN "copy" ELSE "remove"
  /\ UNCHANGED <<src, dst, kind, reading, attempts, result, userVars>>

\* The wait of retry_with_backoff is over: the whole closure again.
Retry ==
  /\ pc = "wait" /\ pc' = FirstCall
  /\ UNCHANGED <<src, dst, kind, reading, attempts, result, userVars>>

Rename ==
  /\ pc = "rename"
  /\ \/ src # None /\ dst' = src /\ src' = None /\ Returns("ok")
     \/ pc' = "copy" /\ UNCHANGED <<src, dst, result>>
  /\ UNCHANGED <<kind, reading, attempts, userVars>>

\* A copy opens both files; a missing source leaves the destination alone.
CopyBegins ==
  /\ pc = "copy"
  /\ \/ /\ src # None /\ pc' = "copying"
        /\ reading' = src /\ dst' = Part
        /\ UNCHANGED <<attempts, result>>
     \/ Fails /\ UNCHANGED <<reading, dst>>
  /\ UNCHANGED <<src, kind, userVars>>

\* It ends with the version it began with, for it keeps the source from
\* being written or deleted, or it fails with a part of it.
CopyEnds ==
  /\ pc = "copying" /\ reading' = None
  /\ \/ /\ dst' = reading
        /\ \/ kind = "move" /\ pc' = "remove" /\ UNCHANGED result
           \/ kind = "copy" /\ Returns("ok")
        /\ UNCHANGED attempts
     \/ Fails /\ dst' \in {Part, None}
  /\ UNCHANGED <<src, kind, userVars>>

\* Mutant: a file that cannot be removed is left and the move is done.
RemoveSource_Ignored ==
  /\ pc = "remove"
  /\ Returns("ok") /\ UNCHANGED attempts /\ src' \in {src, None}
  /\ UNCHANGED <<dst, kind, reading, userVars>>

RemoveSource ==
  /\ pc = "remove"
  /\ \/ src # None /\ src' = None /\ Returns("ok") /\ UNCHANGED attempts
     \/ Fails /\ UNCHANGED src
  /\ UNCHANGED <<dst, kind, reading, userVars>>

-----------------------------------------------------------------------------

\* The user deletes the source or writes a new version of it, but not while
\* a copy has it open.
User ==
  /\ pc # "copying" /\ users < MaxUserSteps /\ users' = users + 1
  /\ \/ "delete" \in UserMay /\ src # None /\ src' = None /\ wanted' = {}
     \/ "write" \in UserMay /\ src' = First + users' /\ wanted' = {src'}
  /\ UNCHANGED <<dst, kind, pc, reading, attempts, result>>

Operation ==
  Exists \/ Retry \/ Rename \/ CopyBegins \/ CopyEnds \/ RemoveSource

InscribeSpec == InscribeInit /\ [][Operation \/ User]_inscribeVars

-----------------------------------------------------------------------------

(***************************************************************************)
(* A file that is moved or copied is not lost: whatever fails, also while  *)
(* the operation runs, the user's file is whole in one of the two places;  *)
(* and an operation that reports an error has not taken the source away.   *)
(***************************************************************************)
NotLost ==
  /\ kind # "delete" => wanted \subseteq {src, dst}
  /\ result = "error" => wanted \subseteq {src}

(***************************************************************************)
(* An operation that reports success has done it all: nothing is left of a *)
(* moved or deleted source but what the user has put there since, and no   *)
(* part of a copy is taken for the file.                                   *)
(***************************************************************************)
OkIsDone ==
  [][result = "none" /\ result' = "ok" =>
       /\ kind # "copy" => src' = None
       /\ kind # "delete" => dst' \in Versions]_inscribeVars
=============================================================================
