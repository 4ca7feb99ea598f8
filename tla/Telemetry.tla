----------------------------- MODULE Telemetry -----------------------------
(***************************************************************************)
(* The log entries of the engine on their way out: the broadcast channel,  *)
(* the telemetry pipe with its heartbeat (arbiter-app/src/main.rs), the    *)
(* Forge's listener with its watchdog (arbiter-forge/src/ipc.rs), and the  *)
(* tray's status.  Time passes in ticks of half a second.  A task that is  *)
(* due runs before the next tick, but for those of an engine that hangs.   *)
(* Forges are the processes that may be open at once.                      *)
(***************************************************************************)
EXTENDS Naturals, Sequences

CONSTANTS
  HeartbeatTicks,   \* the interval of the heartbeat: 1 s
  WatchdogTicks,    \* the Forge's watchdog_duration: 2 s
  RetryTicks,       \* its wait after a failed open: 1 s
  ReconnectTicks,   \* its wait after a closed pipe: 500 ms
  Capacity,         \* of the broadcast channel: 1024
  CommandCap,       \* of the channel of commands to Atlas: 10
  Forges,           \* Forges that may be open at once
  Events,           \* what happens in the engine: a subset of EventKinds
  MaxEvents,        \* bound on these
  MaxFaults         \* bound on hangs and ends of the engine or the Forge

EventKinds == {"run", "yield", "reset", "pause", "tooDeep", "command"}

ASSUME TelemetryConstantsOK ==
  /\ {HeartbeatTicks, WatchdogTicks, RetryTicks, ReconnectTicks, Capacity, CommandCap}
       \subseteq Nat \ {0}
  /\ HeartbeatTicks < WatchdogTicks
  /\ Events \subseteq EventKinds
  /\ Forges \cap {"free", "stale"} = {}
  /\ MaxEvents \in Nat /\ MaxFaults \in Nat

VARIABLES
  engine,    \* the process: "up", "hung" (its tasks stand still), or "down"
  beat,      \* ticks since the last heartbeat
  server,    \* the pipe server: "asleep", "listening" or "serving"
  slept,     \* it has slept for a tick
  unsent,    \* entries its receiver holds
  inPipe,    \* entries each Forge has not read
  forge,     \* each "off", "opening", "waiting", "reading", or "closed" by itself
  wait,      \* ticks it still waits
  silence,   \* ticks since it connected or received an entry
  pipe       \* the server's end: "free" (no client), the Forge it is linked to,
             \* or "stale" (its client is gone)

VARIABLES
  state,     \* Atlas: "Idle", "Executing", "Yielded"
  running,   \* runs whose Done is to come
  paused,    \* Atlas' flag
  commands,  \* to Atlas: "pause", "resume", or "other" from a Forge
  asked,     \* the reset channel holds a request
  menuPaused,\* the flag behind the menu's item
  child,     \* the tray's list of children is not empty
  kids,      \* Forges on that list that have not ended
  listening, \* the tray's log listener has been started
  trayRx,    \* entries it has not read
  label      \* the status in the tray's tooltip

VARIABLES
  stood,     \* history: ticks the engine has stood still of those in silence
  misled,    \* history: what last changed the status was a run that ended in a
             \* pause, a summons given up after it was logged as matched, or a
             \* click whose command was dropped
  events,    \* history: what has happened so far
  faults     \* history: hangs and ends so far

serverVars == <<beat, server, slept, unsent>>
forgeVars == <<inPipe, forge, wait, silence, stood>>
atlasVars == <<state, running, paused, commands, asked>>
trayVars == <<menuPaused, child, kids, listening, label>>
engineVars == <<engine, serverVars, atlasVars, trayVars, trayRx, misled>>
vars == <<engineVars, forgeVars, pipe, events, faults>>

Labels == {"Standing By", "Executing", "Yielded", "Paused"}
Commands == {"pause", "resume", "other"}
ForgeStates == {"off", "opening", "waiting", "reading", "closed"}
Entries == {"matched", "complete", "presence", "paused", "resumed", "other"}

TypeOK ==
  /\ engine \in {"up", "hung", "down"}
  /\ beat \in 0 .. HeartbeatTicks
  /\ server \in {"asleep", "listening", "serving"} /\ slept \in BOOLEAN
  /\ unsent \in 0 .. Capacity /\ inPipe \in [Forges -> Nat]
  /\ forge \in [Forges -> ForgeStates]
  /\ wait \in [Forges -> 0 .. RetryTicks + ReconnectTicks]
  /\ silence \in [Forges -> 0 .. WatchdogTicks]
  /\ stood \in [Forges -> Nat] /\ \A f \in Forges : stood[f] <= silence[f]
  /\ pipe \in {"free", "stale"} \cup Forges
  /\ state \in {"Idle", "Executing", "Yielded"} /\ running \in 0 .. MaxEvents
  /\ paused \in BOOLEAN /\ commands \in Seq(Commands) /\ Len(commands) <= CommandCap
  /\ asked \in BOOLEAN /\ menuPaused \in BOOLEAN /\ child \in BOOLEAN
  /\ kids \subseteq Forges /\ listening \in BOOLEAN
  /\ trayRx \in Seq(Entries) /\ label \in Labels
  /\ misled \in BOOLEAN /\ events \in 0 .. MaxEvents /\ faults \in 0 .. MaxFaults

Init ==
  /\ engine = "up" /\ pipe = "free"
  /\ beat = HeartbeatTicks /\ server = "listening" /\ slept = FALSE /\ unsent = 0
  /\ state = "Idle" /\ running = 0 /\ paused = FALSE /\ commands = <<>> /\ asked = FALSE
  /\ menuPaused = FALSE /\ child = FALSE /\ kids = {} /\ listening = FALSE
  /\ label = "Standing By" /\ trayRx = <<>>
  /\ forge = [f \in Forges |-> "off"] /\ inPipe = [f \in Forges |-> 0]
  /\ wait = inPipe /\ silence = inPipe /\ stood = inPipe
  /\ misled = FALSE /\ events = 0 /\ faults = 0

-----------------------------------------------------------------------------
(* The broadcast channel and the telemetry server *)

\* Mutant: the channel grows instead of losing its oldest entry.
Publish_Grows(entry) ==
  /\ unsent' = IF server = "serving" THEN unsent + 1 ELSE unsent
  /\ trayRx' = IF listening /\ entry # "other" THEN Append(trayRx, entry) ELSE trayRx

\* A send reaches the receivers there are; a full one loses its oldest entry.
\* The tray's listener has no use for an entry "other".
Publish(entry) ==
  /\ unsent' = IF server = "serving" /\ unsent < Capacity THEN unsent + 1 ELSE unsent
  /\ trayRx' = IF listening /\ entry # "other" THEN Append(trayRx, entry) ELSE trayRx

Heartbeat ==
  /\ engine = "up" /\ beat = HeartbeatTicks /\ beat' = 0
  /\ Publish("other")
  /\ UNCHANGED <<misled, engine, server, slept, atlasVars, trayVars, forgeVars, pipe, events, faults>>

\* connect().await returns, and only now the server subscribes.
Accept ==
  /\ engine = "up" /\ server = "listening" /\ pipe # "free"
  /\ server' = "serving" /\ unsent' = 0
  /\ UNCHANGED <<misled, engine, beat, slept, atlasVars, trayVars, trayRx, forgeVars, pipe,
                 events, faults>>

\* Mutant: the result of a send is ignored.
ServerSends_Ignores ==
  /\ engine = "up" /\ server = "serving" /\ unsent > 0 /\ unsent' = unsent - 1
  /\ inPipe' = [f \in Forges |-> IF f = pipe THEN inPipe[f] + 1 ELSE inPipe[f]]
  /\ UNCHANGED <<misled, engine, beat, server, slept, atlasVars, trayVars, trayRx, forge,
                 wait, silence, stood, pipe, events, faults>>

\* The server learns only from a failed send that its client is gone.
ServerSends ==
  /\ engine = "up" /\ server = "serving" /\ unsent > 0
  /\ \/ /\ pipe \in Forges /\ unsent' = unsent - 1
        /\ inPipe' = [inPipe EXCEPT ![pipe] = @ + 1]
        /\ UNCHANGED <<server, slept, pipe>>
     \/ /\ pipe = "stale" /\ pipe' = "free" /\ server' = "asleep" /\ slept' = FALSE
        /\ unsent' = 0 /\ UNCHANGED inPipe
  /\ UNCHANGED <<misled, engine, beat, atlasVars, trayVars, trayRx, forge, wait, silence, stood,
                 events, faults>>

\* The sleep of 200 ms, less than a tick, is over: a new pipe.
ServerWakes ==
  /\ engine = "up" /\ server = "asleep" /\ server' = "listening" /\ slept' = FALSE
  /\ UNCHANGED <<misled, engine, beat, unsent, atlasVars, trayVars, trayRx, forgeVars, pipe,
                 events, faults>>

-----------------------------------------------------------------------------
(* A Forge's listener *)

\* f is in a new state, in which it waits for n ticks and counts its silence anew.
Enters(f, new, n) ==
  /\ forge' = [forge EXCEPT ![f] = new] /\ wait' = [wait EXCEPT ![f] = n]
  /\ silence' = [silence EXCEPT ![f] = 0] /\ stood' = [stood EXCEPT ![f] = 0]

PipeIsOpen == engine # "down" /\ server = "listening" /\ pipe = "free"

\* The server listens with one end of the pipe: whoever comes first gets it.
Open(f) ==
  /\ forge[f] = "opening"
  /\ \/ PipeIsOpen /\ Enters(f, "reading", 0) /\ pipe' = f
        /\ inPipe' = [inPipe EXCEPT ![f] = 0]
     \/ ~PipeIsOpen /\ Enters(f, "waiting", RetryTicks) /\ UNCHANGED <<pipe, inPipe>>
  /\ UNCHANGED <<engineVars, events, faults>>

Waited(f) ==
  /\ forge[f] = "waiting" /\ wait[f] = 0 /\ Enters(f, "opening", 0)
  /\ UNCHANGED <<engineVars, inPipe, pipe, events, faults>>

\* Mutant: one deadline for the whole connection.
ForgeReads_OneDeadline(f) ==
  /\ forge[f] = "reading" /\ inPipe[f] > 0 /\ inPipe' = [inPipe EXCEPT ![f] = @ - 1]
  /\ UNCHANGED <<engineVars, forge, wait, silence, stood, pipe, events, faults>>

ForgeReads(f) ==
  /\ forge[f] = "reading" /\ inPipe[f] > 0 /\ inPipe' = [inPipe EXCEPT ![f] = @ - 1]
  /\ Enters(f, "reading", 0)
  /\ UNCHANGED <<engineVars, pipe, events, faults>>

\* framed.next() returns None or an error: the engine's end is gone.
PipeClosed(f) ==
  /\ forge[f] = "reading" /\ inPipe[f] = 0 /\ pipe # f
  /\ Enters(f, "waiting", ReconnectTicks)
  /\ UNCHANGED <<engineVars, inPipe, pipe, events, faults>>

Silent(f) ==
  forge[f] = "reading" /\ inPipe[f] = 0 /\ pipe = f /\ silence[f] = WatchdogTicks

\* Mutant: the listener goes on after the timeout.
Watchdog_GoesOn(f) ==
  /\ Silent(f) /\ Enters(f, "reading", 0)
  /\ UNCHANGED <<engineVars, pipe, inPipe, events, faults>>

\* Two seconds of silence: request_close, and the listener ends.
Watchdog(f) ==
  /\ Silent(f) /\ Enters(f, "closed", 0) /\ pipe' = "stale" /\ kids' = kids \ {f}
  /\ UNCHANGED <<engine, serverVars, atlasVars, menuPaused, child, listening, label, trayRx,
                 misled, inPipe, events, faults>>

-----------------------------------------------------------------------------
(* What Atlas does, as far as the log tells *)

Occurs(kind) ==
  /\ engine = "up" /\ kind \in Events /\ events < MaxEvents /\ events' = events + 1
  /\ UNCHANGED <<engine, beat, server, slept, forgeVars, pipe, faults>>

Dispatch ==
  /\ Occurs("run") /\ state = "Idle" /\ ~paused
  /\ state' = "Executing" /\ running' = running + 1 /\ Publish("matched")
  /\ UNCHANGED <<paused, commands, asked, trayVars, misled>>

\* A summons with too long a path is logged as matched before it is given up.
DispatchTooDeep ==
  /\ Occurs("tooDeep") /\ state = "Idle" /\ ~paused
  /\ Publish("matched") /\ misled' = TRUE
  /\ UNCHANGED <<atlasVars, trayVars>>

Yield ==
  /\ Occurs("yield") /\ state = "Executing" /\ state' = "Yielded"
  /\ Publish("presence")
  /\ UNCHANGED <<running, paused, commands, asked, trayVars, misled>>

\* The Done of any run, also of one that a reset has aborted.
Done ==
  /\ engine = "up" /\ running > 0 /\ running' = running - 1 /\ state' = "Idle"
  /\ Publish("complete") /\ misled' = paused
  /\ UNCHANGED <<engine, beat, server, slept, paused, commands, asked, trayVars, forgeVars,
                 pipe, events, faults>>

\* A command of a Forge, which waits for a place in the channel.
OtherCommand ==
  /\ Occurs("command") /\ Len(commands) < CommandCap
  /\ commands' = Append(commands, "other")
  /\ UNCHANGED <<unsent, trayRx, state, running, paused, asked, trayVars, misled>>

\* Atlas takes a command; those of a Forge leave the status alone.
TakesCommand ==
  /\ engine = "up" /\ commands # <<>> /\ commands' = Tail(commands)
  /\ \/ /\ Head(commands) # "other" /\ paused' = (Head(commands) = "pause")
        /\ Publish(IF paused' THEN "paused" ELSE "resumed") /\ misled' = FALSE
     \/ Head(commands) = "other" /\ UNCHANGED <<paused, unsent, trayRx, misled>>
  /\ UNCHANGED <<engine, beat, server, slept, state, running, asked, trayVars, forgeVars,
                 pipe, events, faults>>

Reset ==
  /\ engine = "up" /\ asked /\ asked' = FALSE
  /\ \/ state # "Idle" /\ state' = "Idle" /\ Publish("other")
     \/ state = "Idle" /\ UNCHANGED <<state, unsent, trayRx>>
  /\ UNCHANGED <<misled, engine, beat, server, slept, running, paused, commands, trayVars, forgeVars,
                 pipe, events, faults>>

-----------------------------------------------------------------------------
(* The tray *)

Live == {f \in Forges : forge[f] \notin {"off", "closed"}}

\* Nothing is left of what these processes had read and waited for.
Quiet(gone) ==
  /\ inPipe' = [f \in Forges |-> IF f \in gone THEN 0 ELSE inPipe[f]]
  /\ wait' = [f \in Forges |-> IF f \in gone THEN 0 ELSE wait[f]]
  /\ silence' = [f \in Forges |-> IF f \in gone THEN 0 ELSE silence[f]]
  /\ stood' = [f \in Forges |-> IF f \in gone THEN 0 ELSE stood[f]]

\* These processes end, whatever they are doing.
ForgesGone(gone) ==
  /\ forge' = [f \in Forges |-> IF f \in gone THEN "off" ELSE forge[f]]
  /\ Quiet(gone)

\* These processes end, and another one is started.
Restarted(gone, new) ==
  /\ forge' = [f \in Forges |-> IF f = new THEN "opening"
                               ELSE IF f \in gone THEN "off" ELSE forge[f]]
  /\ Quiet(gone)

\* The server is not told.
LeavePipe(gone) == pipe' = IF pipe \in gone THEN "stale" ELSE pipe

\* The status while no entry is read; the first click starts the listener.
\* try_send drops the command if the channel is full, and the status is set
\* all the same.
PauseClick ==
  /\ Occurs("pause")
  /\ menuPaused' = ~menuPaused /\ listening' = TRUE
  /\ \/ /\ Len(commands) < CommandCap /\ UNCHANGED misled
        /\ commands' = Append(commands, IF menuPaused' THEN "pause" ELSE "resume")
     \/ Len(commands) >= CommandCap /\ misled' = TRUE /\ UNCHANGED commands
  /\ label' = IF menuPaused' THEN "Paused" ELSE "Standing By"
  /\ UNCHANGED <<unsent, trayRx, state, running, paused, asked, child, kids>>

\* A reset kills the Forges the tray has started, and starts one if it has
\* started any, be it still there or not.
ResetClick ==
  /\ engine = "up" /\ "reset" \in Events /\ events < MaxEvents /\ events' = events + 1
  /\ asked' = TRUE /\ listening' = TRUE
  /\ \/ /\ child /\ LeavePipe(kids)
        /\ \E f \in (Forges \ Live) \cup kids : kids' = {f} /\ Restarted(kids, f)
     \/ ~child /\ UNCHANGED <<forgeVars, pipe, kids>>
  /\ UNCHANGED <<misled, engine, serverVars, state, running, paused, commands, trayRx,
                 menuPaused, child, label, faults>>

\* Mutant: the end of a run is not told from its start.
TrayReads_NoComplete ==
  /\ engine = "up" /\ trayRx # <<>> /\ trayRx' = Tail(trayRx)
  /\ label' = CASE Head(trayRx) = "paused" -> "Paused"
                [] Head(trayRx) = "presence" -> "Yielded"
                [] Head(trayRx) = "resumed" -> "Standing By"
                [] Head(trayRx) \in {"matched", "complete"} -> "Executing"
  /\ UNCHANGED <<misled, engine, serverVars, atlasVars, menuPaused, child, kids, listening, forgeVars,
                 pipe, events, faults>>

TrayReads ==
  /\ engine = "up" /\ trayRx # <<>> /\ trayRx' = Tail(trayRx)
  /\ label' = CASE Head(trayRx) = "paused" -> "Paused"
                [] Head(trayRx) = "matched" -> "Executing"
                [] Head(trayRx) = "presence" -> "Yielded"
                [] Head(trayRx) \in {"resumed", "complete"} -> "Standing By"
  /\ UNCHANGED <<misled, engine, serverVars, atlasVars, menuPaused, child, kids, listening, forgeVars,
                 pipe, events, faults>>

\* By the tray, at every click, or by the user; app_is_available needs the
\* engine.  Nobody asks whether a Forge is open.
OpenForge(f) ==
  /\ engine = "up" /\ f \notin Live /\ forge' = [forge EXCEPT ![f] = "opening"]
  /\ \/ child' = TRUE /\ kids' = kids \cup {f}
     \/ UNCHANGED <<child, kids>>
  /\ UNCHANGED <<misled, engine, serverVars, atlasVars, menuPaused, listening, label, trayRx,
                 inPipe, wait, silence, stood, pipe, events, faults>>

-----------------------------------------------------------------------------
(* Faults, and time *)

Fault == faults < MaxFaults /\ faults' = faults + 1 /\ UNCHANGED events

EngineHangs ==
  /\ Fault /\ engine = "up" /\ engine' = "hung"
  /\ UNCHANGED <<misled, serverVars, atlasVars, trayVars, trayRx, forgeVars, pipe>>

EngineGoesOn ==
  /\ engine = "hung" /\ engine' = "up"
  /\ UNCHANGED <<misled, serverVars, atlasVars, trayVars, trayRx, forgeVars, pipe, events, faults>>

\* The process and its pipe are gone; the next one starts like the first.
EngineGone ==
  /\ engine' = "down"
  /\ beat' = HeartbeatTicks /\ server' = "listening" /\ slept' = FALSE /\ unsent' = 0
  /\ state' = "Idle" /\ running' = 0 /\ paused' = FALSE /\ commands' = <<>> /\ asked' = FALSE
  /\ menuPaused' = FALSE /\ child' = FALSE /\ kids' = {} /\ listening' = FALSE
  /\ label' = "Standing By" /\ trayRx' = <<>> /\ misled' = FALSE

EngineEnds == Fault /\ engine # "down" /\ EngineGone /\ pipe' = "free" /\ UNCHANGED forgeVars

\* Quit in the tray's menu: the Forges it has started go as well.
Quit ==
  /\ Fault /\ engine = "up" /\ EngineGone /\ pipe' = "free" /\ ForgesGone(kids)

EngineStarts ==
  /\ engine = "down" /\ engine' = "up"
  /\ UNCHANGED <<misled, serverVars, atlasVars, trayVars, trayRx, forgeVars, pipe, events, faults>>

ForgeEnds(f) ==
  /\ Fault /\ f \in Live /\ ForgesGone({f}) /\ LeavePipe({f})
  /\ kids' = kids \ {f}
  /\ UNCHANGED <<engine, serverVars, atlasVars, menuPaused, child, listening, label, trayRx, misled>>

\* What is due is done before time passes; what stands still is not waited for.
EngineIdle ==
  /\ beat < HeartbeatTicks /\ ~(server = "listening" /\ pipe # "free")
  /\ ~(server = "serving" /\ unsent > 0) /\ ~(server = "asleep" /\ slept)
  /\ commands = <<>> /\ ~asked /\ trayRx = <<>>

ForgeIdle(f) ==
  /\ forge[f] # "opening" /\ ~(forge[f] = "waiting" /\ wait[f] = 0)
  /\ forge[f] = "reading" => inPipe[f] = 0 /\ pipe = f /\ silence[f] < WatchdogTicks

Tick ==
  /\ (engine = "up" => EngineIdle) /\ \A f \in Forges : ForgeIdle(f)
  /\ beat' = IF beat < HeartbeatTicks THEN beat + 1 ELSE beat
  /\ slept' = (slept \/ server = "asleep")
  /\ wait' = [f \in Forges |-> IF wait[f] > 0 THEN wait[f] - 1 ELSE 0]
  /\ silence' = [f \in Forges |-> IF forge[f] = "reading" THEN silence[f] + 1 ELSE 0]
  /\ stood' = [f \in Forges |-> IF forge[f] = "reading" /\ engine = "hung" THEN stood[f] + 1
                                ELSE stood[f]]
  /\ UNCHANGED <<misled, engine, server, unsent, atlasVars, trayVars, trayRx, inPipe, forge, pipe,
                 events, faults>>

ForgeDue(f) == Open(f) \/ Waited(f) \/ ForgeReads(f) \/ PipeClosed(f) \/ Watchdog(f)

Due ==
  \/ Heartbeat \/ Accept \/ ServerSends \/ ServerWakes \/ TakesCommand \/ Reset \/ TrayReads
  \/ \E f \in Forges : ForgeDue(f)

Happens ==
  \/ Dispatch \/ DispatchTooDeep \/ Yield \/ OtherCommand \/ PauseClick \/ ResetClick
  \/ \E f \in Forges : OpenForge(f)

Fails ==
  \/ EngineHangs \/ EngineGoesOn \/ EngineEnds \/ Quit \/ EngineStarts
  \/ \E f \in Forges : ForgeEnds(f)

Next == Due \/ Done \/ Happens \/ Fails \/ Tick

Spec == Init /\ [][Next]_vars

\* Time passes, and what is due is done; nothing is asked of the users, and
\* an engine that hangs need not go on.
FairSpec == Spec /\ WF_vars(Due) /\ WF_vars(Tick)

-----------------------------------------------------------------------------

(***************************************************************************)
(* A Forge takes silence for the end of the engine only if the engine has  *)
(* stood still: a heartbeat that is late by less than a second, a          *)
(* connection made between two of them and a server that was asleep are    *)
(* not enough.                                                             *)
(***************************************************************************)
NoFalseAlarm ==
  [][\A f \in Forges : forge[f] = "reading" /\ forge'[f] = "closed"
       => stood[f] >= WatchdogTicks - HeartbeatTicks]_vars

(***************************************************************************)
(* "Watchdog expired (2s silence). Engine likely terminated. Requesting    *)
(* graceful exit."  No Forge stays connected to an engine that hangs.      *)
(***************************************************************************)
Connected == {f \in Forges : forge[f] = "reading"}

HangClosesForge ==
  (engine = "hung" /\ Connected # {}) ~> (engine # "hung" \/ Connected = {})

(***************************************************************************)
(* The same text for an engine that has ended.  The code does not keep     *)
(* this: the pipe is closed then, and the Forge tries to open it for ever. *)
(***************************************************************************)
EndClosesForge ==
  \A f \in Forges :
    (engine = "down" /\ forge[f] = "reading")
      ~> (engine # "down" \/ forge[f] \in {"off", "closed"})

(***************************************************************************)
(* Forges that look for the pipe find it, one of them, even if the server  *)
(* still serves a Forge that has been killed or has closed; the others     *)
(* have to wait until that one is gone.                                    *)
(***************************************************************************)
Looking == {f \in Forges : forge[f] \in {"opening", "waiting"}}

ForgeConnects ==
  Looking # {} ~> Looking = {} \/ pipe \in Forges \/ engine # "up"

(***************************************************************************)
(* Every Forge finds the pipe.  The code does not keep this: the server    *)
(* serves one Forge until that one is gone, and the tray starts another at *)
(* every click.                                                            *)
(***************************************************************************)
EveryForgeConnects == \A f \in Forges : f \in Looking ~> f \notin Looking \/ engine # "up"

(***************************************************************************)
(* When all is quiet the tray shows what the engine does, whatever was     *)
(* aborted, paused or overtaken before.  The code keeps this unless what   *)
(* last changed the status was a run that ended during a pause, a summons  *)
(* that was given up after it was logged as matched, or a click whose      *)
(* command found the channel full.                                         *)
(***************************************************************************)
AtRest == listening /\ trayRx = <<>> /\ commands = <<>> /\ running = 0 /\ state = "Idle"

ShowsEngine == label = IF paused THEN "Paused" ELSE "Standing By"

TrayAtRest == engine = "up" /\ AtRest /\ ~misled => ShowsEngine

TrayNeverMisleads == engine = "up" /\ AtRest => ShowsEngine

(***************************************************************************)
(* "Reset restarting Forge instance": a reset opens a Forge only if one    *)
(* was open.  The code does not keep this: children that have ended stay   *)
(* in the tray's list.                                                     *)
(***************************************************************************)
ResetKeepsClosed == [][ResetClick => (Live = {} => Live' = {})]_vars

(***************************************************************************)
(* The tray shows that a run is executing once it has read all entries.    *)
(* The code does not keep this before the first click in its menu.         *)
(***************************************************************************)
TrayShowsRun ==
  engine = "up" /\ state = "Executing" /\ trayRx = <<>> /\ commands = <<>> /\ running = 1
    => label = "Executing"

=============================================================================
