------------------------------ MODULE Channels ------------------------------
(***************************************************************************)
(* The channels that connect the tasks of arbiter-app, as wired up in      *)
(* arbiter-app/src/main.rs: bounded tokio mpsc queues (a sender waits for  *)
(* room), one oneshot abort channel per dispatched run, and the liveness   *)
(* of the receiving ends.  Atlas, Runner and Engine extend this module.    *)
(***************************************************************************)
EXTENDS Naturals, Sequences

CONSTANTS
  Keys,       \* summons keys a decree can be registered under
  NoKey,      \* active_decree_id = None
  Script,     \* the node kinds of the decree of each key, in order
  Ignores,    \* the presence signals each decree's presence_config ignores
  Summonses,  \* the summons the watchers can raise
  Commands,   \* the commands that can arrive over the command pipe
  ExecCap,    \* capacity of exec_cmd and of atlas_exec (100 in the code)
  EventCap,   \* capacity of run_event (100 in the code)
  InputCap    \* capacity of vigil, presence and forge_cmd (100, 100, 10)

NodeKinds == {"entry", "wait", "hand", "inscribe", "shell"}
Signals   == {"MouseInput", "KeyboardInput"}
EventKinds == {"Log", "Progress", "Panic", "Done"}

(***************************************************************************)
(* A summons: its exact registry key (in Keys or not), the keys of its     *)
(* watch path whose glob matches its file name, and whether its path has   *)
(* more than 20 components.                                                *)
(***************************************************************************)
IsSummons(s) == /\ DOMAIN s = {"key", "near", "deep"}
                /\ s.near \subseteq Keys /\ s.deep \in BOOLEAN

Command ==
       [op : {"SetPaused"}, paused : BOOLEAN]
  \cup [op : {"SaveDecree", "RemoveDecree"}, key : Keys]
  \cup [op : {"SaveWards", "SaveSignet", "ReloadWards", "RenameDecree"}]
  \cup [op : {"ManualRun"}, key : Keys, dry : BOOLEAN]

ASSUME ConstantsOK ==
  /\ NoKey \notin Keys
  /\ Script \in [Keys -> Seq(NodeKinds)]
  /\ Ignores \in [Keys -> SUBSET Signals]
  /\ \A s \in Summonses : IsSummons(s)
  /\ Commands \subseteq Command
  /\ ExecCap \in Nat \ {0} /\ EventCap \in Nat \ {0} /\ InputCap \in Nat \ {0}

(***************************************************************************)
(* ExecData, and the ExecCmd::Run the relay makes of it.  "run" numbers    *)
(* the dispatches: it stands for the oneshot channel a job owns.  The      *)
(* code's events carry no such number; the "run" of an event is history    *)
(* that only properties read.                                              *)
(***************************************************************************)
Job == [run : Nat \ {0}, key : Keys, dry : BOOLEAN]
RunEvent == [kind : EventKinds, run : Nat \ {0}]
NoRun == 0

VARIABLES
  vigilQ,     \* watchers -> Atlas
  forgeQ,     \* command pipe and tray -> Atlas
  resetQ,     \* the one-slot tray reset channel holds a message
  shutdownQ,  \* the shutdown oneshot has been sent
  presenceQ,  \* presence monitor -> Atlas
  execQ,      \* Atlas -> relay task
  runEvents,  \* runner -> Atlas
  aborted,    \* the runs whose abort channel has been sent to
  atlasUp,    \* the Atlas loop runs, its receivers are open
  relayUp     \* the relay task runs

inputQs  == <<vigilQ, forgeQ, resetQ, shutdownQ, presenceQ>>
chanVars == <<vigilQ, forgeQ, resetQ, shutdownQ, presenceQ, execQ, runEvents,
              aborted, atlasUp, relayUp>>

ChannelsInit ==
  /\ vigilQ = <<>> /\ forgeQ = <<>> /\ presenceQ = <<>>
  /\ execQ = <<>> /\ runEvents = <<>>
  /\ resetQ = FALSE /\ shutdownQ = FALSE
  /\ aborted = {}
  /\ atlasUp = TRUE /\ relayUp = TRUE

ChannelsTypeOK ==
  /\ vigilQ \in Seq(Summonses) /\ forgeQ \in Seq(Commands)
  /\ presenceQ \in Seq(Signals)
  /\ execQ \in Seq(Job) /\ runEvents \in Seq(RunEvent)
  /\ resetQ \in BOOLEAN /\ shutdownQ \in BOOLEAN
  /\ atlasUp \in BOOLEAN /\ relayUp \in BOOLEAN
  /\ aborted \subseteq Nat

\* event_tx.send(..).await: waits for room; fails at once when Atlas is gone.
Emit(run, kind) ==
  \/ /\ atlasUp /\ Len(runEvents) < EventCap
     /\ runEvents' = Append(runEvents, [kind |-> kind, run |-> run])
  \/ ~atlasUp /\ UNCHANGED runEvents

\* Sending on an abort oneshot; sending on an already taken sender is a no-op.
SendAbort(run) == aborted' = IF run = NoRun THEN aborted ELSE aborted \cup {run}
=============================================================================
