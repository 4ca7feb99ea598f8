------------------------------- MODULE Bridge -------------------------------
(***************************************************************************)
(* What the runner's actions do outside the engine: the match over the     *)
(* action types in arbiter-bridge/src/runner.rs, which awaits Hand,        *)
(* Inscribe or a shell command, one at a time, and polls no abort          *)
(* meanwhile.  The bridge lives on from one action to the next.            *)
(***************************************************************************)
EXTENDS Hand, Inscribe

CONSTANT MaxShells   \* bound on the shell commands

VARIABLES
  doing,    \* the program the runner awaits, "none" between two actions
  failed,   \* the last action has returned an error
  shells    \* history: number of shell commands so far

bridgeVars == <<doing, failed, shells>>
vars == <<handVars, inscribeVars, bridgeVars>>

TypeOK ==
  /\ HandTypeOK /\ InscribeTypeOK
  /\ doing \in {"none", "hand", "inscribe", "child"}
  /\ failed \in BOOLEAN /\ shells \in 0 .. MaxShells

Init ==
  /\ HandInit /\ InscribeInit
  /\ doing = "none" /\ failed = FALSE /\ shells = 0

-----------------------------------------------------------------------------

\* The action is awaited until it has an outcome.
Awaits(program, ended, error) ==
  /\ doing' = IF ended THEN "none" ELSE program
  /\ failed' = (ended /\ error)
  /\ UNCHANGED shells

HandBegins ==
  /\ doing = "none" /\ Execute
  /\ Awaits("hand", outcome' # "none", outcome' = "failed")
  /\ UNCHANGED inscribeVars

HandGoesOn ==
  /\ doing = "hand" /\ HandStep
  /\ Awaits("hand", outcome' # "none", outcome' = "failed")
  /\ UNCHANGED inscribeVars

InscribeBegins ==
  /\ doing = "none" /\ Exists
  /\ Awaits("inscribe", pc' = "returned", result' = "error")
  /\ UNCHANGED handVars

InscribeGoesOn ==
  /\ doing = "inscribe" /\ Operation
  /\ Awaits("inscribe", pc' = "returned", result' = "error")
  /\ UNCHANGED handVars

\* shell::run waits for its child, spawn_detached does not; a command that
\* the Baton does not name, or that cannot be spawned, is an error.
ShellBegins ==
  /\ doing = "none" /\ shells < MaxShells /\ shells' = shells + 1
  /\ \/ doing' = "child" /\ failed' = FALSE
     \/ doing' = "none" /\ failed' \in BOOLEAN
  /\ UNCHANGED <<handVars, inscribeVars>>

\* The child exits, with success or not.
ChildExits ==
  /\ doing = "child" /\ doing' = "none" /\ failed' \in BOOLEAN
  /\ UNCHANGED <<handVars, inscribeVars, shells>>

\* The user owes the runner nothing and does not wait for it.
UserChanges == User /\ UNCHANGED <<handVars, bridgeVars>>

\* The runner's task ends or panics, and drops the bridge.
BridgeDrops ==
  /\ Drop /\ doing' = "none"
  /\ UNCHANGED <<inscribeVars, failed, shells>>

Rest == doing = "none" /\ UNCHANGED vars

RunnerSteps == HandBegins \/ HandGoesOn \/ InscribeBegins \/ InscribeGoesOn \/ ShellBegins
Next == (alive /\ RunnerSteps) \/ ChildExits \/ UserChanges \/ BridgeDrops \/ Rest

Spec == Init /\ [][Next]_vars

\* Every system call and every wait of an action returns; a child need not.
FairSpec == Spec /\ WF_vars(alive /\ (HandGoesOn \/ InscribeGoesOn))

-----------------------------------------------------------------------------

(***************************************************************************)
(* The runner gets out of every action, however often its calls fail and   *)
(* are retried, unless it waits for a child: shell::run has no time limit. *)
(***************************************************************************)
ActionsEnd == (doing \in {"hand", "inscribe"}) ~> (doing = "none")
=============================================================================
