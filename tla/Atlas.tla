-------------------------------- MODULE Atlas --------------------------------
(***************************************************************************)
(* The engine's state machine (arbiter-core/src/atlas.rs): one action per  *)
(* branch of the select! in Atlas::run and per ForgeCommand.  A branch     *)
(* runs to its end before the next is selected, except that dispatching    *)
(* waits for room in atlas_exec: the job then sits in outbox, and the loop *)
(* selects nothing until AtlasSend has taken it.                           *)
(*                                                                         *)
(* What the configuration commands write outside the engine (ledger,       *)
(* watchers, hotkeys, Signet vault) is not state of this module: of them   *)
(* it keeps the reset and the effect on the registry.                      *)
(***************************************************************************)
EXTENDS Channels

CONSTANT BootKeys   \* the keys ledger::apply registers at start-up

VARIABLES
  state,            \* EngineState
  activeDecreeId,
  activeAbort,      \* the run whose abort sender Atlas holds
  inGrace,          \* less than 1500 ms since last_start
  presenceConfig,   \* active_presence_config: the signals to ignore
  paused,
  pendingSummons,
  registry,         \* the registered keys
  outbox,           \* the job a dispatch is sending
  lastRun,          \* history: number of the last dispatched run
  resets            \* history: reset_state calls that left a non-Idle state

runVars   == <<state, activeDecreeId, activeAbort, inGrace, presenceConfig,
               outbox, lastRun>>
atlasVars == <<runVars, paused, pendingSummons, registry, resets>>

AtlasInit ==
  /\ state = "Idle" /\ activeDecreeId = NoKey /\ activeAbort = NoRun
  /\ inGrace = FALSE /\ presenceConfig = {}
  /\ paused = FALSE /\ pendingSummons = <<>>
  /\ registry = BootKeys
  /\ outbox = <<>> /\ lastRun = 0 /\ resets = 0

RunTypeOK ==
  /\ state \in {"Idle", "Executing", "Yielded", "Faulted"}
  /\ activeDecreeId \in Keys \cup {NoKey}
  /\ activeAbort \in Nat /\ lastRun \in Nat
  /\ inGrace \in BOOLEAN
  /\ presenceConfig \subseteq Signals
  /\ outbox \in Seq(Job) /\ Len(outbox) <= 1

AtlasTypeOK ==
  /\ RunTypeOK
  /\ paused \in BOOLEAN
  /\ pendingSummons \in Seq(Summonses)
  /\ registry \subseteq Keys
  /\ resets \in Nat

\* The loop is at its select!, not inside a dispatch and not shut down.
Selecting == atlasUp /\ outbox = <<>>

-----------------------------------------------------------------------------
(* Dispatching *)

\* dispatch_decree up to its send; a path too deep ends where it began.
DispatchDecree(key, dry, deep) ==
  /\ inGrace' = TRUE
  /\ presenceConfig' = Ignores[key]
  /\ \/ /\ deep
        /\ state' = "Idle" /\ activeDecreeId' = NoKey /\ activeAbort' = NoRun
        /\ UNCHANGED <<outbox, lastRun>>
     \/ /\ ~deep
        /\ state' = "Executing" /\ activeDecreeId' = key
        /\ lastRun' = lastRun + 1
        /\ activeAbort' = lastRun + 1
        /\ outbox' = <<[run |-> lastRun + 1, key |-> key, dry |-> dry]>>

DispatchSent ==
  /\ atlasUp /\ outbox # <<>> /\ relayUp /\ Len(execQ) < ExecCap
  /\ execQ' = Append(execQ, Head(outbox)) /\ outbox' = <<>>
  /\ UNCHANGED <<state, activeDecreeId, activeAbort>>

DispatchFails ==
  /\ atlasUp /\ outbox # <<>> /\ ~relayUp
  /\ outbox' = <<>>
  /\ state' = "Faulted" /\ activeDecreeId' = NoKey

\* run_tx.send(..).await in dispatch_decree, and its failure.
AtlasSend ==
  /\ DispatchSent \/ (DispatchFails /\ activeAbort' = NoRun /\ UNCHANGED execQ)
  /\ UNCHANGED <<inGrace, presenceConfig, lastRun, paused, pendingSummons, registry,
                 resets, inputQs, runEvents, aborted, atlasUp, relayUp>>

\* The decrees a summons can start: the exact key, else any key of the same
\* watch path whose glob matches (the first in HashMap order).
Matches(s) == IF s.key \in registry THEN {s.key} ELSE s.near \cap registry

\* handle_summons; "ignored" is what the caller leaves when nothing matches.
HandleSummons(s, ignored) ==
  \/ \E key \in Matches(s) : DispatchDecree(key, FALSE, s.deep)
  \/ Matches(s) = {} /\ ignored

-----------------------------------------------------------------------------
(* Events of the running sequence *)

\* handle_run_event; whichever run the event is from.
HandleRunEvent(kind) ==
  /\ \/ /\ kind \in {"Log", "Progress"}
        /\ UNCHANGED <<state, activeDecreeId, activeAbort>>
     \/ /\ kind = "Panic"
        /\ state' = "Faulted" /\ activeAbort' = NoRun
        /\ UNCHANGED activeDecreeId
     \/ /\ kind = "Done"
        /\ state' = "Idle" /\ activeDecreeId' = NoKey /\ activeAbort' = NoRun
  /\ UNCHANGED <<inGrace, presenceConfig, outbox, lastRun>>

\* The state is Idle once the event has been applied.
LeavesIdle(kind) == kind = "Done" \/ (kind # "Panic" /\ state = "Idle")

\* Mutants: the pop ignores the pause; it tests the state of before the event;
\* it follows every event that is not a fault.
Pops_Paused(kind) == LeavesIdle(kind) /\ pendingSummons # <<>>
Pops_OldState(kind) ==
  state = "Idle" /\ LeavesIdle(kind) /\ ~paused /\ pendingSummons # <<>>
Pops_Busy(kind) == kind # "Panic" /\ ~paused /\ pendingSummons # <<>>

Pops(kind) == LeavesIdle(kind) /\ ~paused /\ pendingSummons # <<>>

\* The run-event branch: the event, then at most one pending summons.
OnRunEvent ==
  /\ Selecting /\ runEvents # <<>>
  /\ runEvents' = Tail(runEvents)
  /\ LET kind == Head(runEvents).kind
     IN \/ /\ Pops(kind)
           /\ pendingSummons' = Tail(pendingSummons)
           /\ HandleSummons(Head(pendingSummons), HandleRunEvent(kind))
        \/ /\ ~Pops(kind)
           /\ HandleRunEvent(kind) /\ UNCHANGED pendingSummons
  /\ UNCHANGED <<paused, registry, resets, inputQs, execQ, aborted, atlasUp, relayUp>>

-----------------------------------------------------------------------------
(* Triggers and presence *)

\* Mutant: a summons is dispatched whatever the engine is doing.
OnSummons_Busy ==
  /\ Selecting /\ vigilQ # <<>>
  /\ vigilQ' = Tail(vigilQ)
  /\ \/ paused /\ UNCHANGED runVars
     \/ ~paused /\ HandleSummons(Head(vigilQ), UNCHANGED runVars)
  /\ UNCHANGED <<pendingSummons, paused, registry, resets, forgeQ, resetQ, shutdownQ,
                 presenceQ, execQ, runEvents, aborted, atlasUp, relayUp>>

\* The Vigil branch: drop while paused, dispatch when Idle, queue otherwise.
OnSummons ==
  /\ Selecting /\ vigilQ # <<>>
  /\ vigilQ' = Tail(vigilQ)
  /\ \/ paused /\ UNCHANGED <<runVars, pendingSummons>>
     \/ /\ ~paused /\ state = "Idle"
        /\ HandleSummons(Head(vigilQ), UNCHANGED runVars)
        /\ UNCHANGED pendingSummons
     \/ /\ ~paused /\ state # "Idle"
        /\ pendingSummons' = Append(pendingSummons, Head(vigilQ))
        /\ UNCHANGED runVars
  /\ UNCHANGED <<paused, registry, resets, forgeQ, resetQ, shutdownQ, presenceQ,
                 execQ, runEvents, aborted, atlasUp, relayUp>>

YieldsTo(signal) ==
  state = "Executing" /\ signal \notin presenceConfig /\ ~inGrace

\* Mutant: the abort sender is dropped, which the runner does not read as abort.
YieldToPresence_Drops ==
  activeAbort' = NoRun /\ state' = "Yielded" /\ UNCHANGED aborted

\* yield_to_presence
YieldToPresence ==
  /\ SendAbort(activeAbort)
  /\ activeAbort' = NoRun /\ state' = "Yielded"

OnPresence ==
  /\ Selecting /\ presenceQ # <<>>
  /\ presenceQ' = Tail(presenceQ)
  /\ \/ YieldsTo(Head(presenceQ)) /\ YieldToPresence
     \/ ~YieldsTo(Head(presenceQ)) /\ UNCHANGED <<aborted, activeAbort, state>>
  /\ UNCHANGED <<activeDecreeId, inGrace, presenceConfig, outbox, lastRun, paused,
                 pendingSummons, registry, resets, vigilQ, forgeQ, resetQ,
                 shutdownQ, execQ, runEvents, atlasUp, relayUp>>

\* start.elapsed() reaches 1500 ms.
GraceElapses ==
  /\ inGrace /\ inGrace' = FALSE
  /\ UNCHANGED <<state, activeDecreeId, activeAbort, presenceConfig, outbox, lastRun,
                 paused, pendingSummons, registry, resets, chanVars>>

-----------------------------------------------------------------------------
(* Reset, shutdown and commands *)

\* Mutant: only the busy states are cleared of their run.
ResetState_KeepsHandle ==
  /\ state' = "Idle" /\ activeDecreeId' = NoKey
  /\ SendAbort(activeAbort) /\ UNCHANGED activeAbort
  /\ resets' = IF state = "Idle" THEN resets ELSE resets + 1

\* reset_state: nothing when Idle, else abort the run and go Idle.
ResetState ==
  \/ /\ state = "Idle"
     /\ UNCHANGED <<state, activeDecreeId, activeAbort, aborted, resets>>
  \/ /\ state # "Idle"
     /\ SendAbort(activeAbort)
     /\ state' = "Idle" /\ activeDecreeId' = NoKey /\ activeAbort' = NoRun
     /\ resets' = resets + 1

\* The reset branch.
OnReset ==
  /\ Selecting /\ resetQ
  /\ resetQ' = FALSE
  /\ ResetState
  /\ UNCHANGED <<inGrace, presenceConfig, outbox, lastRun, paused, pendingSummons,
                 registry, vigilQ, forgeQ, shutdownQ, presenceQ, execQ, runEvents,
                 atlasUp, relayUp>>

\* The shutdown branch: abort the active run and leave the loop.
OnShutdown ==
  /\ Selecting /\ shutdownQ
  /\ SendAbort(activeAbort)
  /\ activeAbort' = NoRun
  /\ atlasUp' = FALSE
  /\ UNCHANGED <<state, activeDecreeId, inGrace, presenceConfig, outbox, lastRun,
                 paused, pendingSummons, registry, resets, inputQs, execQ,
                 runEvents, relayUp>>

\* The forge_cmd branch receives a command of kind op.
Receives(op) ==
  /\ Selecting /\ forgeQ # <<>> /\ Head(forgeQ).op = op
  /\ forgeQ' = Tail(forgeQ)
  /\ UNCHANGED <<pendingSummons, vigilQ, resetQ, shutdownQ, presenceQ, execQ,
                 runEvents, atlasUp, relayUp>>

SetPaused ==
  /\ Receives("SetPaused")
  /\ paused' = Head(forgeQ).paused
  /\ UNCHANGED <<runVars, registry, resets, aborted>>

\* Registers the key, unless the decree names no ward (an empty path).
SaveDecree ==
  /\ Receives("SaveDecree")
  /\ ResetState
  /\ \/ registry' = registry \cup {Head(forgeQ).key}
     \/ UNCHANGED registry
  /\ UNCHANGED <<inGrace, presenceConfig, outbox, lastRun, paused>>

\* Unregisters the key, unless the ledger no longer holds the decree.
RemoveDecree ==
  /\ Receives("RemoveDecree")
  /\ ResetState
  /\ \/ registry' = registry \ {Head(forgeQ).key}
     \/ UNCHANGED registry
  /\ UNCHANGED <<inGrace, presenceConfig, outbox, lastRun, paused>>

\* SaveWards and SaveSignet: only their reset_state touches the engine.
SaveSettings ==
  /\ Receives("SaveWards") \/ Receives("SaveSignet")
  /\ ResetState
  /\ UNCHANGED <<inGrace, presenceConfig, outbox, lastRun, paused, registry>>

\* Neither touches the engine: one reloads the vault, the other saves a label.
ReloadWards ==
  Receives("ReloadWards") /\ UNCHANGED <<runVars, paused, registry, resets, aborted>>

RenameDecree ==
  Receives("RenameDecree") /\ UNCHANGED <<runVars, paused, registry, resets, aborted>>

Housekeeping == ReloadWards \/ RenameDecree

ManualRun ==
  /\ Receives("ManualRun")
  /\ LET cmd == Head(forgeQ)
         runs == (~paused \/ cmd.dry) /\ state = "Idle" /\ cmd.key \in registry
     IN \/ runs /\ DispatchDecree(cmd.key, cmd.dry, FALSE)
        \/ ~runs /\ UNCHANGED runVars
  /\ UNCHANGED <<paused, registry, resets, aborted>>

AtlasStep ==
  \/ AtlasSend \/ OnRunEvent \/ OnSummons \/ OnPresence \/ OnReset \/ OnShutdown
  \/ SetPaused \/ SaveDecree \/ RemoveDecree \/ SaveSettings \/ Housekeeping
  \/ ManualRun
=============================================================================
