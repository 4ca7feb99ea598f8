-------------------------------- MODULE Hand --------------------------------
(***************************************************************************)
(* The Hand (HardwareBridge in arbiter-bridge/src/hand.rs): the key and    *)
(* button events of the synthetic actions.  Every event may fail, and a    *)
(* failure ends the action where it is.  The bridge lives as long as the   *)
(* runner's task, and so do the modifier keys it has pressed.              *)
(***************************************************************************)
EXTENDS Naturals, Sequences, SequencesExt, Functions

CONSTANTS
  Modifiers,   \* Control, Alt, Shift, Meta
  Actions,     \* an action: its modifiers in order, and how often it clicks
  MaxActions   \* bound on the actions executed

ASSUME HandConstantsOK ==
  /\ Actions \subseteq [mods : Seq(Modifiers), clicks : Nat]
  /\ MaxActions \in Nat

VARIABLES
  down,     \* the modifiers the bridge holds down
  action,   \* the action execute was called with last
  todo,     \* the events it has still to send
  outcome,  \* what execute returned: "ok", "failed", or "none" while it runs
  alive,    \* the bridge has not been dropped
  left,     \* history: the modifiers that were down when it was called
  count     \* history: number of actions so far

handVars == <<down, action, todo, outcome, alive, left, count>>

Press(m) == [op |-> "press", mod |-> {m}]
Release(m) == [op |-> "release", mod |-> {m}]
Click == [op |-> "click", mod |-> {}]

Event == [op : {"press", "release"}, mod : {{m} : m \in Modifiers}] \cup {Click}

HandTypeOK ==
  /\ down \subseteq Modifiers /\ left \subseteq Modifiers
  /\ action \in Actions /\ todo \in Seq(Event)
  /\ outcome \in {"ok", "failed", "none"} /\ alive \in BOOLEAN
  /\ count \in 0 .. MaxActions

HandInit ==
  /\ down = {} /\ action \in Actions /\ todo = <<>> /\ outcome = "ok"
  /\ alive = TRUE /\ left = {} /\ count = 0

-----------------------------------------------------------------------------

Clicks(n) == [i \in 1 .. n |-> Click]

\* Mutant: the target key goes first.
Events_ClickFirst(a) ==
  Clicks(a.clicks) \o [i \in DOMAIN a.mods |-> Press(a.mods[i])]
    \o Reverse([i \in DOMAIN a.mods |-> Release(a.mods[i])])

\* Mutant: the loop over the releases stops one too early.
Events_KeepsFirst(a) ==
  [i \in DOMAIN a.mods |-> Press(a.mods[i])] \o Clicks(a.clicks)
    \o Reverse(SelectSeq([i \in DOMAIN a.mods |-> Release(a.mods[i])],
                         LAMBDA e : e.mod # {Head(a.mods)}))

\* Navigate presses the modifiers, clicks the key if there is one, and
\* releases in reverse; the others have no modifiers and click zero (an
\* empty text), one, two (a double click) or more times (a text).
Events(a) ==
  [i \in DOMAIN a.mods |-> Press(a.mods[i])] \o Clicks(a.clicks)
    \o Reverse([i \in DOMAIN a.mods |-> Release(a.mods[i])])

\* execute: a coordinate off the screen or a mouse that does not move is an
\* error before any key is touched.
Execute ==
  /\ alive /\ outcome # "none" /\ count < MaxActions /\ count' = count + 1
  /\ left' = down
  /\ \E a \in Actions :
       /\ action' = a
       /\ \/ outcome' = "failed" /\ todo' = <<>>
          \/ outcome' = "none" /\ todo' = Events(a)
  /\ UNCHANGED <<down, alive>>

Sent(e) ==
  down' = CASE e.op = "press" -> down \cup e.mod
            [] e.op = "release" -> down \ e.mod
            [] e.op = "click" -> down

\* One event: it is sent, or it fails and execute returns.
Step ==
  /\ alive /\ outcome = "none" /\ todo # <<>>
  /\ \/ Sent(Head(todo)) /\ todo' = Tail(todo) /\ UNCHANGED outcome
     \/ outcome' = "failed" /\ todo' = <<>> /\ UNCHANGED down
  /\ UNCHANGED <<action, alive, left, count>>

Return ==
  /\ alive /\ outcome = "none" /\ todo = <<>> /\ outcome' = "ok"
  /\ UNCHANGED <<down, action, todo, alive, left, count>>

\* The task ends or panics: each modifier is released, if that succeeds.
Drop ==
  /\ alive /\ alive' = FALSE
  /\ down' \in SUBSET down
  /\ UNCHANGED <<action, todo, outcome, left, count>>

HandStep == Step \/ Return

-----------------------------------------------------------------------------

(***************************************************************************)
(* Every click happens with all the modifiers of its action down and no    *)
(* other, but for those an earlier failure has left.                       *)
(***************************************************************************)
ClicksWithItsModifiers ==
  alive /\ todo # <<>> /\ Head(todo) = Click
    => down = left \cup Range(action.mods)

(***************************************************************************)
(* An action that succeeds has released all its modifiers, also when a     *)
(* combination names one twice or an earlier action has left it down.      *)
(***************************************************************************)
OkReleases == alive /\ outcome = "ok" => down = left \ Range(action.mods)

(***************************************************************************)
(* "Release all possible modifiers to avoid leaving the user's keyboard in *)
(* a stuck state": between two actions no modifier is down.                *)
(* The code does not keep this; the README says how.                       *)
(***************************************************************************)
NotStuck == alive /\ outcome # "none" => down = {}
=============================================================================
