------------------------------- MODULE Pipes -------------------------------
(***************************************************************************)
(* How commands reach Atlas: the Forge's tasks, which open the command     *)
(* pipe anew for every command (arbiter-forge/src/ipc.rs), the pipe server *)
(* in arbiter-app/src/main.rs, which serves one connection at a time and   *)
(* sleeps after each, the bounded forge_cmd channel, and the tray's pause  *)
(* item, which writes to the same channel without waiting.                 *)
(***************************************************************************)
EXTENDS Naturals, Sequences

CONSTANTS
  Tasks,       \* the Forge's tasks (tokio::spawn), one per user action
  Kinds,       \* what users do: a subset of {"save", "simulate", "probe"}
  QueueCap,    \* capacity of forge_cmd (10 in the code)
  MaxToggles   \* bound on the clicks on the tray's pause item

ASSUME PipesConstantsOK ==
  /\ Kinds \subseteq {"save", "simulate", "probe"} /\ Kinds # {}
  /\ QueueCap \in Nat \ {0} /\ MaxToggles \in Nat

VARIABLES
  task,        \* task -> its step and the commands it has still to send
  server,      \* the pipe server: "listening", "serving" or "asleep"
  pipe,        \* the connection: the client's end is open; bytes in it
  inHand,      \* the command the server has read and not yet forwarded
  queue,       \* forge_cmd
  paused,      \* Atlas.paused
  trayPaused,  \* the tray's own idea of it
  fate,        \* history: command -> what has become of it
  toggles,     \* history: number of clicks on pause
  dropped      \* history: a click found the channel full

serverVars == <<server, pipe, inHand>>
trayVars   == <<trayPaused, toggles, dropped>>
vars == <<task, serverVars, queue, paused, trayVars, fate>>

Command == {[task |-> t, name |-> n] : t \in Tasks, n \in {"save", "run"}}
Pause == [paused : BOOLEAN]
Fates == {"none", "failed", "written", "taken"}

TypeOK ==
  /\ task \in [Tasks -> [pc : {"new", "open", "write", "close", "done"},
                         left : Seq(Command)]]
  /\ server \in {"listening", "serving", "asleep"}
  /\ pipe \in [open : BOOLEAN, data : Seq(Command)]
  /\ inHand \in {<<>>} \cup {<<c>> : c \in Command}
  /\ queue \in Seq(Command \cup Pause) /\ Len(queue) <= QueueCap
  /\ paused \in BOOLEAN /\ trayPaused \in BOOLEAN
  /\ fate \in [Command -> Fates]
  /\ toggles \in 0 .. MaxToggles /\ dropped \in BOOLEAN

Init ==
  /\ task = [t \in Tasks |-> [pc |-> "new", left |-> <<>>]]
  /\ server = "asleep" /\ pipe = [open |-> FALSE, data |-> <<>>]
  /\ inHand = <<>> /\ queue = <<>>
  /\ paused = FALSE /\ trayPaused = FALSE
  /\ fate = [c \in Command |-> "none"] /\ toggles = 0 /\ dropped = FALSE

-----------------------------------------------------------------------------
(* The Forge's tasks *)

\* Mutant: the simulation is asked for before the decree is sent.
Job_RunFirst(t, kind) ==
  CASE kind = "save" -> <<[task |-> t, name |-> "save"]>>
    [] kind = "simulate" -> <<[task |-> t, name |-> "run"],
                              [task |-> t, name |-> "save"]>>
    [] kind = "probe" -> <<>>

\* on_save_decree and the like send one command, on_simulate_decree two, and
\* app_is_available opens the pipe and closes it again.
Job(t, kind) ==
  CASE kind = "save" -> <<[task |-> t, name |-> "save"]>>
    [] kind = "simulate" -> <<[task |-> t, name |-> "save"],
                              [task |-> t, name |-> "run"]>>
    [] kind = "probe" -> <<>>

Starts ==
  \E t \in Tasks, kind \in Kinds :
    /\ task[t].pc = "new"
    /\ task' = [task EXCEPT ![t] = [pc |-> "open", left |-> Job(t, kind)]]
    /\ UNCHANGED <<serverVars, queue, paused, trayVars, fate>>

\* The task goes on to its next command, which opens the pipe anew.
Rest(t) == [pc |-> IF Len(task[t].left) > 1 THEN "open" ELSE "done",
            left |-> IF task[t].left = <<>> THEN <<>> ELSE Tail(task[t].left)]

Opens ==
  \E t \in Tasks :
    /\ task[t].pc = "open" /\ server = "listening"
    /\ server' = "serving" /\ pipe' = [open |-> TRUE, data |-> <<>>]
    /\ task' = [task EXCEPT
         ![t].pc = IF task[t].left = <<>> THEN "close" ELSE "write"]
    /\ UNCHANGED <<inHand, queue, paused, trayVars, fate>>

\* No instance of the pipe is free: the command is given up.
OpenFails ==
  \E t \in Tasks :
    /\ task[t].pc = "open" /\ server # "listening"
    /\ task' = [task EXCEPT ![t] = Rest(t)]
    /\ fate' = [c \in Command |->
         IF task[t].left # <<>> /\ c = Head(task[t].left)
           THEN "failed" ELSE fate[c]]
    /\ UNCHANGED <<serverVars, queue, paused, trayVars>>

Writes ==
  \E t \in Tasks :
    /\ task[t].pc = "write" /\ task' = [task EXCEPT ![t].pc = "close"]
    /\ pipe' = [pipe EXCEPT !.data = Append(@, Head(task[t].left))]
    /\ fate' = [fate EXCEPT ![Head(task[t].left)] = "written"]
    /\ UNCHANGED <<server, inHand, queue, paused, trayVars>>

Closes ==
  \E t \in Tasks :
    /\ task[t].pc = "close" /\ task' = [task EXCEPT ![t] = Rest(t)]
    /\ pipe' = [pipe EXCEPT !.open = FALSE]
    /\ UNCHANGED <<server, inHand, queue, paused, trayVars, fate>>

-----------------------------------------------------------------------------
(* The server *)

Wakes ==
  /\ server = "asleep" /\ server' = "listening"
  /\ UNCHANGED <<task, pipe, inHand, queue, paused, trayVars, fate>>

Reads ==
  /\ server = "serving" /\ inHand = <<>> /\ pipe.data # <<>>
  /\ inHand' = <<Head(pipe.data)>>
  /\ pipe' = [pipe EXCEPT !.data = Tail(@)]
  /\ UNCHANGED <<task, server, queue, paused, trayVars, fate>>

\* Mutant: forwarded without waiting for room.
Forwards_NoWait ==
  /\ inHand # <<>> /\ inHand' = <<>>
  /\ queue' = queue \o inHand
  /\ UNCHANGED <<task, server, pipe, paused, trayVars, fate>>

\* Mutant: given up when there is no room.
Forwards_Tries ==
  /\ inHand # <<>> /\ inHand' = <<>>
  /\ queue' = IF Len(queue) < QueueCap THEN queue \o inHand ELSE queue
  /\ UNCHANGED <<task, server, pipe, paused, trayVars, fate>>

\* cmd_tx.send(cmd).await
Forwards ==
  /\ inHand # <<>> /\ Len(queue) < QueueCap
  /\ inHand' = <<>> /\ queue' = queue \o inHand
  /\ UNCHANGED <<task, server, pipe, paused, trayVars, fate>>

\* The client's end is closed and all it wrote has been forwarded.
Ends ==
  /\ server = "serving" /\ ~pipe.open /\ pipe.data = <<>> /\ inHand = <<>>
  /\ server' = "asleep"
  /\ UNCHANGED <<task, pipe, inHand, queue, paused, trayVars, fate>>

-----------------------------------------------------------------------------
(* The channel's other ends *)

TrayTogglesPause ==
  /\ toggles < MaxToggles /\ toggles' = toggles + 1
  /\ trayPaused' = ~trayPaused
  /\ \/ /\ Len(queue) < QueueCap
        /\ queue' = Append(queue, [paused |-> trayPaused'])
        /\ UNCHANGED dropped
     \/ Len(queue) >= QueueCap /\ dropped' = TRUE /\ UNCHANGED queue
  /\ UNCHANGED <<task, serverVars, paused, fate>>

\* Mutant: a command that resets the engine resumes it, too.
AtlasTakes_Resumes ==
  /\ queue # <<>> /\ queue' = Tail(queue)
  /\ \/ /\ Head(queue) \in Command
        /\ fate' = [fate EXCEPT ![Head(queue)] = "taken"]
        /\ paused' = FALSE
     \/ /\ Head(queue) \in Pause
        /\ paused' = Head(queue).paused /\ UNCHANGED fate
  /\ UNCHANGED <<task, serverVars, trayVars>>

AtlasTakes ==
  /\ queue # <<>> /\ queue' = Tail(queue)
  /\ \/ /\ Head(queue) \in Command
        /\ fate' = [fate EXCEPT ![Head(queue)] = "taken"]
        /\ UNCHANGED paused
     \/ /\ Head(queue) \in Pause
        /\ paused' = Head(queue).paused /\ UNCHANGED fate
  /\ UNCHANGED <<task, serverVars, trayVars>>

Done == /\ \A t \in Tasks : task[t].pc = "done"
        /\ server = "listening" /\ queue = <<>> /\ UNCHANGED vars

Next == Starts \/ Opens \/ OpenFails \/ Writes \/ Closes
          \/ Wakes \/ Reads \/ Forwards \/ Ends
          \/ TrayTogglesPause \/ AtlasTakes \/ Done

Spec == Init /\ [][Next]_vars

\* The runtimes run their tasks and Atlas returns to its loop.
FairSpec ==
  Spec /\ WF_vars(Writes) /\ WF_vars(Closes) /\ WF_vars(Wakes)
       /\ WF_vars(Reads) /\ WF_vars(Forwards) /\ WF_vars(Ends)
       /\ WF_vars(AtlasTakes)

-----------------------------------------------------------------------------

(***************************************************************************)
(* "Command committed to engine successfully": a command the Forge could   *)
(* write reaches Atlas, though the channel may be full, the client closes  *)
(* its end at once and other tasks find the pipe busy.                     *)
(***************************************************************************)
WrittenIsTaken ==
  \A c \in Command : fate[c] = "written" ~> fate[c] = "taken"

(***************************************************************************)
(* A simulation runs no older version of its decree unless the Forge was   *)
(* told that the save failed: the run is never taken before its save.      *)
(***************************************************************************)
SaveBeforeRun ==
  \A t \in Tasks : fate[[task |-> t, name |-> "run"]] = "taken"
    => fate[[task |-> t, name |-> "save"]] \in {"taken", "failed"}

(***************************************************************************)
(* Once the channel is empty Atlas is paused exactly if the tray says so,  *)
(* when no click found the channel full.                                   *)
(***************************************************************************)
PauseAgrees == queue = <<>> /\ ~dropped => paused = trayPaused

(***************************************************************************)
(* "SIMULATE DECREE": when the decree has been sent, so is the run.        *)
(* The code does not keep this; the README says how.                       *)
(***************************************************************************)
SimulationSent ==
  \A t \in Tasks : fate[[task |-> t, name |-> "save"]] \in {"written", "taken"}
    => fate[[task |-> t, name |-> "run"]] # "failed"
=============================================================================
