------------------------------- MODULE Engine -------------------------------
(***************************************************************************)
(* The engine: Atlas, the relay and the runner over their channels, with   *)
(* the watchers, the user, the tray and the command pipe around them.      *)
(***************************************************************************)
EXTENDS Atlas, Runner, FiniteSets

CONSTANTS
  Budget,   \* how many inputs of each kind the environment may produce
  Faults    \* the tasks that may fail: a subset of {"relay", "runner"}

Inputs == {"summons", "command", "signal", "reset", "shutdown"}

ASSUME EngineConstantsOK ==
  /\ BootKeys \subseteq Keys
  /\ Budget \in [Inputs -> Nat]
  /\ Faults \subseteq {"relay", "runner"}

VARIABLE used   \* the inputs produced so far, bounded by Budget

vars == <<chanVars, atlasVars, runnerVars, used>>

TypeOK ==
  /\ ChannelsTypeOK /\ AtlasTypeOK /\ RunnerTypeOK
  /\ used \in [Inputs -> Nat]

Init ==
  /\ ChannelsInit /\ AtlasInit /\ RunnerInit
  /\ used = [i \in Inputs |-> 0]

-----------------------------------------------------------------------------
(* The environment *)

Spends(input) ==
  /\ used[input] < Budget[input]
  /\ used' = [used EXCEPT ![input] = @ + 1]
  /\ UNCHANGED <<execQ, runEvents, aborted, atlasUp, relayUp, atlasVars, runnerVars>>

\* A watcher's blocking_send.
VigilSends ==
  /\ Spends("summons") /\ Len(vigilQ) < InputCap
  /\ \E s \in Summonses : vigilQ' = Append(vigilQ, s)
  /\ UNCHANGED <<forgeQ, resetQ, shutdownQ, presenceQ>>

\* A command from the pipe, or the tray's try_send of SetPaused.
CommandArrives ==
  /\ Spends("command") /\ Len(forgeQ) < InputCap
  /\ \E c \in Commands : forgeQ' = Append(forgeQ, c)
  /\ UNCHANGED <<vigilQ, resetQ, shutdownQ, presenceQ>>

\* The presence monitor's callback: nothing while inhibited, else a send.
UserInput ==
  /\ Spends("signal") /\ ~inhibited /\ Len(presenceQ) < InputCap
  /\ \E s \in Signals : presenceQ' = Append(presenceQ, s)
  /\ UNCHANGED <<vigilQ, forgeQ, resetQ, shutdownQ>>

\* The tray's try_send: a second reset is dropped while one is pending.
TrayReset ==
  /\ Spends("reset") /\ ~resetQ
  /\ resetQ' = TRUE
  /\ UNCHANGED <<vigilQ, forgeQ, shutdownQ, presenceQ>>

TrayQuit ==
  /\ Spends("shutdown") /\ ~shutdownQ
  /\ shutdownQ' = TRUE
  /\ UNCHANGED <<vigilQ, forgeQ, resetQ, presenceQ>>

Environment == VigilSends \/ CommandArrives \/ UserInput \/ TrayReset \/ TrayQuit

-----------------------------------------------------------------------------

AtlasSteps  == (AtlasStep \/ GraceElapses) /\ UNCHANGED <<runnerVars, used>>
RelaySteps  == RelayStep /\ UNCHANGED <<atlasVars, used>>
RunnerSteps == RunnerStep /\ UNCHANGED <<atlasVars, used>>
TaskFails   == /\ \/ "runner" \in Faults /\ RunnerDies
                  \/ "relay" \in Faults /\ RelayDies
               /\ UNCHANGED <<atlasVars, used>>

\* Nothing is left to do: the only state in which the engine may rest.
AtRest ==
  /\ \/ ~atlasUp
     \/ /\ outbox = <<>> /\ vigilQ = <<>> /\ forgeQ = <<>> /\ presenceQ = <<>>
        /\ runEvents = <<>> /\ ~resetQ /\ ~shutdownQ
  /\ pc \in {"receiving", "dead"} /\ cmdQ = <<>>
  /\ relayUp => relay = <<>> /\ execQ = <<>>
Rest == AtRest /\ UNCHANGED vars

Next == AtlasSteps \/ RelaySteps \/ RunnerSteps \/ TaskFails \/ Environment \/ Rest

Spec == Init /\ [][Next]_vars

(***************************************************************************)
(* Fairness: select! picks among its ready branches at random, so none     *)
(* that stays ready is passed over for ever; tokio keeps polling the other *)
(* two tasks; actions of the runner end.  The environment owes nothing.    *)
(***************************************************************************)
Commanded == SetPaused \/ SaveDecree \/ RemoveDecree \/ SaveSettings
               \/ Housekeeping \/ ManualRun
Fairness ==
  /\ WF_vars(AtlasSend /\ UNCHANGED <<runnerVars, used>>)
  /\ WF_vars(OnRunEvent /\ UNCHANGED <<runnerVars, used>>)
  /\ WF_vars(OnSummons /\ UNCHANGED <<runnerVars, used>>)
  /\ WF_vars(OnPresence /\ UNCHANGED <<runnerVars, used>>)
  /\ WF_vars(OnReset /\ UNCHANGED <<runnerVars, used>>)
  /\ WF_vars(Commanded /\ UNCHANGED <<runnerVars, used>>)
  /\ WF_vars(RelayRecv /\ UNCHANGED <<atlasVars, used>>)
  /\ WF_vars(RelaySend /\ UNCHANGED <<atlasVars, used>>)
  /\ WF_vars(RunnerSteps)

FairSpec == Spec /\ Fairness

-----------------------------------------------------------------------------
(* What the engine promises *)

\* Every dispatched job that has not signalled Done, oldest first.
Pipeline == running \o cmdQ \o relay \o execQ \o outbox

\* The sequences dispatched and not yet known by Atlas to be Done.
InFlight ==
  Len(Pipeline) + Cardinality({i \in DOMAIN runEvents : runEvents[i].kind = "Done"})

(***************************************************************************)
(* Atlas holds an abort sender exactly while it is Executing; it is the    *)
(* sender of the last run it dispatched and has not been used, and the     *)
(* active decree id is set and cleared with the state.  Late events of     *)
(* earlier runs, resets and failed dispatches all have to keep it so.      *)
(***************************************************************************)
AbortHandle ==
  /\ atlasUp => (state = "Executing" <=> activeAbort # NoRun)
  /\ activeAbort # NoRun => activeAbort = lastRun /\ activeAbort \notin aborted
  /\ state \in {"Executing", "Yielded"} => activeDecreeId # NoKey
  /\ state = "Idle" => activeDecreeId = NoKey

(***************************************************************************)
(* Once the abort of a run is sent, by a yield, a reset or a shutdown, the *)
(* runner begins at most one more of its actions: the one whose delay it   *)
(* was in when the abort came.                                             *)
(***************************************************************************)
AbortStopsRun == late <= 1

(***************************************************************************)
(* Between the executor queues and the run events there is never more than *)
(* one sequence for each reset of a busy engine, plus the one Atlas is     *)
(* busy with: without resets the engine runs one decree at a time, and a   *)
(* dispatch has room in atlas_exec while fewer resets than its capacity    *)
(* have left sequences behind.                                             *)
(***************************************************************************)
OverlapBound == InFlight <= resets + (IF state = "Idle" THEN 0 ELSE 1)

(***************************************************************************)
(* A run that can still begin an action, and has not been told to stop, is *)
(* the one Atlas is Executing and can abort: presence, reset and shutdown  *)
(* reach every sequence there is.                                          *)
(***************************************************************************)
Winding == pc \in {"panicking", "finishing"}
LiveRunIsHeld ==
  \A i \in DOMAIN Pipeline :
    \/ Pipeline[i].run \in aborted
    \/ i = 1 /\ Winding
    \/ atlasUp /\ state = "Executing" /\ activeAbort = Pipeline[i].run

(***************************************************************************)
(* The queues between Atlas and the runner neither lose, repeat nor        *)
(* reorder jobs, and the events that come back are those of earlier runs   *)
(* or of the running one, in the order of dispatch.                        *)
(***************************************************************************)
RunsInOrder ==
  /\ \A i \in DOMAIN Pipeline : Pipeline[i].run = lastRun - Len(Pipeline) + i
  /\ \A i, j \in DOMAIN runEvents : i <= j => runEvents[i].run <= runEvents[j].run
  /\ \A i \in DOMAIN runEvents :
       runEvents[i].run <= lastRun - Len(Pipeline) + Len(running)

(***************************************************************************)
(* While the engine is paused no live run is dispatched, whichever branch  *)
(* of the loop would start it: only a dry ManualRun is.                    *)
(***************************************************************************)
PausedRunsNothing ==
  [][paused /\ lastRun' > lastRun => Head(outbox').dry]_vars

(***************************************************************************)
(* A fault lasts until it is cleared: "A non-recoverable fault - engine    *)
(* halted" (RunEvent::Panic).  Only a reset leaves the Faulted state.      *)
(* The code does not keep this; the README says how.                       *)
(***************************************************************************)
FaultHolds == [][state = "Faulted" /\ state' # "Faulted" => resets' > resets]_vars

(***************************************************************************)
(* A yield lasts while there is sign of the user: the engine leaves the    *)
(* Yielded state, other than by a reset, only when no presence signal is   *)
(* waiting to be read.                                                     *)
(* The code does not keep this; the README says how.                       *)
(***************************************************************************)
YieldHolds ==
  [][state = "Yielded" /\ state' \in {"Idle", "Executing"}
       => presenceQ = <<>> \/ resets' > resets]_vars

(***************************************************************************)
(* Whatever a run meets (an abort, a failing action, a stale job), Atlas   *)
(* is Idle again in the end.                                               *)
(***************************************************************************)
BusyEndsIdle == (state # "Idle") ~> (state = "Idle")

(***************************************************************************)
(* The engine does not stay Yielded: the runner always signals Done.       *)
(* The code does not keep this; the README says how.                       *)
(***************************************************************************)
YieldEnds == (state = "Yielded") ~> (state # "Yielded")

(***************************************************************************)
(* A summons queued behind a busy engine is eventually taken up, unless a  *)
(* decree has been removed in the meantime.                                *)
(***************************************************************************)
PendingServed ==
  pendingSummons # <<>> ~> (pendingSummons = <<>> \/ ~(Keys \subseteq registry))

(***************************************************************************)
(* When everything has come to rest in an engine that was never paused and *)
(* still knows every decree, each summons has been run exactly once: none  *)
(* is lost or repeated on its way through the vigil and pending queues.    *)
(***************************************************************************)
SummonsRunOnce ==
  AtRest /\ atlasUp /\ Keys \subseteq registry => lastRun = used["summons"]

-----------------------------------------------------------------------------
(* Refinement *)

\* The run in progress is the oldest one that has not signalled Done.
Serial ==
  INSTANCE SerialRuns WITH
    count   <- lastRun,
    current <- IF Pipeline = <<>> THEN NoRun ELSE Head(Pipeline).run,
    dry     <- Pipeline # <<>> /\ Head(Pipeline).dry,
    told    <- Pipeline # <<>> /\ Head(Pipeline).run \in aborted,
    acting  <- pc = "acting",
    spent   <- late > 0

(***************************************************************************)
(* Without resets, and whichever of the relay and the runner fails, the    *)
(* engine implements SerialRuns: runs never overlap, no live one begins    *)
(* in a paused engine, a run told to stop begins at most one more action,  *)
(* and each is over in the end, so that Atlas never stays in a dispatch.   *)
(***************************************************************************)
RunsAreSerial == Serial!Spec
=============================================================================
