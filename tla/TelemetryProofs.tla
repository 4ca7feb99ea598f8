-------------------------- MODULE TelemetryProofs --------------------------
(***************************************************************************)
(* Theorems about Telemetry for every value of its constants: whatever the *)
(* times, the capacity of the channel and the number of faults, the Forge  *)
(* raises no false alarm, and a tray at rest shows what the engine does.   *)
(***************************************************************************)
EXTENDS Telemetry, SequenceTheorems, TLAPS

-----------------------------------------------------------------------------
(* Types: of the engine's process and its pipe server, of the Forge, of    *)
(* Atlas, and of the tray                                                  *)

ProcessTypes ==
  /\ engine \in {"up", "hung", "down"} /\ beat \in 0 .. HeartbeatTicks
  /\ server \in {"asleep", "listening", "serving"} /\ slept \in BOOLEAN
  /\ unsent \in 0 .. Capacity

\* Silence is counted only while a Forge reads.
Clocks ==
  /\ forge \in [Forges -> ForgeStates] /\ wait \in [Forges -> 0 .. RetryTicks + ReconnectTicks]
  /\ silence \in [Forges -> 0 .. WatchdogTicks] /\ stood \in [Forges -> Nat]
  /\ \A f \in Forges : /\ stood[f] <= silence[f]
                       /\ forge[f] # "reading" => silence[f] = 0 /\ stood[f] = 0

ForgeTypes ==
  Clocks /\ pipe \in {"free", "stale"} \cup Forges /\ inPipe \in [Forges -> Nat]

\* Each run that is not over was an event.
AtlasTypes ==
  /\ state \in {"Idle", "Executing", "Yielded"} /\ paused \in BOOLEAN
  /\ commands \in Seq(Commands) /\ Len(commands) <= CommandCap /\ asked \in BOOLEAN
  /\ events \in 0 .. MaxEvents /\ faults \in 0 .. MaxFaults /\ running \in 0 .. events

\* The tray's listener takes no entry it could not show.
Shown == Entries \ {"other"}

TrayTypes ==
  /\ menuPaused \in BOOLEAN /\ child \in BOOLEAN /\ kids \subseteq Forges
  /\ listening \in BOOLEAN /\ misled \in BOOLEAN /\ trayRx \in Seq(Shown) /\ label \in Labels

Types == ProcessTypes /\ ForgeTypes /\ AtlasTypes /\ TrayTypes

LEMMA Bounds ==
  /\ HeartbeatTicks \in Nat \ {0} /\ WatchdogTicks \in Nat \ {0}
  /\ RetryTicks \in Nat \ {0} /\ ReconnectTicks \in Nat \ {0} /\ Capacity \in Nat \ {0}
  /\ CommandCap \in Nat \ {0} /\ {"free", "stale"} \cap Forges = {}
  /\ HeartbeatTicks < WatchdogTicks /\ MaxEvents \in Nat /\ MaxFaults \in Nat
BY TelemetryConstantsOK

\* What a publication may do to the two receivers.
LEMMA PublishTypes ==
  ASSUME ProcessTypes, TrayTypes, NEW entry \in Entries, Publish(entry)
  PROVE  unsent' \in 0 .. Capacity /\ trayRx' \in Seq(Shown)
<1>1. unsent \in 0 .. Capacity /\ Capacity \in Nat
  BY Bounds DEF ProcessTypes
<1>2. unsent' = unsent \/ (unsent < Capacity /\ unsent' = unsent + 1)
  BY DEF Publish
<1>3. unsent' \in 0 .. Capacity
  BY <1>1, <1>2
<1>4. CASE trayRx' = Append(trayRx, entry) /\ entry # "other"
  BY <1>3, <1>4, AppendProperties DEF TrayTypes, Shown
<1>5. CASE trayRx' = trayRx
  BY <1>3, <1>5 DEF TrayTypes
<1>. QED BY <1>3, <1>4, <1>5 DEF Publish

\* A Forge that enters a state has its clocks in order.
LEMMA EntersTypes ==
  ASSUME Clocks, NEW f \in Forges, NEW new \in ForgeStates,
         NEW n \in 0 .. RetryTicks + ReconnectTicks, Enters(f, new, n)
  PROVE  Clocks'
<1>1. /\ forge' = [forge EXCEPT ![f] = new] /\ wait' = [wait EXCEPT ![f] = n]
      /\ silence' = [silence EXCEPT ![f] = 0] /\ stood' = [stood EXCEPT ![f] = 0]
  BY DEF Enters
<1>2. 0 \in 0 .. WatchdogTicks /\ 0 \in Nat
  BY Bounds
<1>3. forge' \in [Forges -> ForgeStates] /\ wait' \in [Forges -> 0 .. RetryTicks + ReconnectTicks]
  BY <1>1 DEF Clocks
<1>4. silence' \in [Forges -> 0 .. WatchdogTicks] /\ stood' \in [Forges -> Nat]
  BY <1>1, <1>2 DEF Clocks
<1>5. ASSUME NEW g \in Forges
      PROVE  stood'[g] <= silence'[g] /\ (forge'[g] # "reading" => silence'[g] = 0 /\ stood'[g] = 0)
  <2>1. CASE g = f
    BY <1>1, <2>1 DEF Clocks
  <2>2. CASE g # f
    BY <1>1, <2>2 DEF Clocks
  <2>. QED BY <2>1, <2>2
<1>. QED BY <1>3, <1>4, <1>5 DEF Clocks

\* So have those whose processes end, and the others.
LEMMA QuietTypes ==
  ASSUME Clocks, inPipe \in [Forges -> Nat], NEW gone, Quiet(gone),
         forge' \in [Forges -> ForgeStates],
         \A f \in Forges : f \notin gone /\ forge'[f] # "reading" => forge[f] # "reading"
  PROVE  Clocks' /\ inPipe' \in [Forges -> Nat]
<1>1. /\ inPipe' = [f \in Forges |-> IF f \in gone THEN 0 ELSE inPipe[f]]
      /\ wait' = [f \in Forges |-> IF f \in gone THEN 0 ELSE wait[f]]
      /\ silence' = [f \in Forges |-> IF f \in gone THEN 0 ELSE silence[f]]
      /\ stood' = [f \in Forges |-> IF f \in gone THEN 0 ELSE stood[f]]
  BY DEF Quiet
<1>2. 0 \in 0 .. WatchdogTicks /\ 0 \in Nat /\ 0 \in 0 .. RetryTicks + ReconnectTicks
  BY Bounds
<1>3. inPipe' \in [Forges -> Nat] /\ wait' \in [Forges -> 0 .. RetryTicks + ReconnectTicks]
  BY <1>1, <1>2 DEF Clocks
<1>4. silence' \in [Forges -> 0 .. WatchdogTicks] /\ stood' \in [Forges -> Nat]
  BY <1>1, <1>2 DEF Clocks
<1>5. ASSUME NEW g \in Forges
      PROVE  stood'[g] <= silence'[g] /\ (forge'[g] # "reading" => silence'[g] = 0 /\ stood'[g] = 0)
  <2>1. CASE g \in gone
    BY <1>1, <2>1
  <2>2. CASE g \notin gone
    BY <1>1, <2>2 DEF Clocks
  <2>. QED BY <2>1, <2>2
<1>. QED BY <1>3, <1>4, <1>5 DEF Clocks

LEMMA ForgeTyped ==
  ASSUME Types, [Next]_vars
  PROVE  ForgeTypes'
<1>0. Clocks /\ pipe \in {"free", "stale"} \cup Forges /\ inPipe \in [Forges -> Nat]
      /\ kids \subseteq Forges
  BY DEF Types, ForgeTypes, TrayTypes
<1>a. 0 \in 0 .. RetryTicks + ReconnectTicks /\ RetryTicks \in 0 .. RetryTicks + ReconnectTicks
      /\ ReconnectTicks \in 0 .. RetryTicks + ReconnectTicks
  BY Bounds
<1>1. CASE UNCHANGED <<forgeVars, pipe>>
  BY <1>0, <1>1 DEF ForgeTypes, Clocks, forgeVars
<1>2. ASSUME NEW f \in Forges, Open(f)
      PROVE  ForgeTypes'
  <2>1. CASE Enters(f, "reading", 0) /\ pipe' = f /\ inPipe' = [inPipe EXCEPT ![f] = 0]
    <3>1. Clocks'
      BY <1>0, <1>a, <2>1, EntersTypes DEF ForgeStates
    <3>. QED BY <1>0, <2>1, <3>1 DEF ForgeTypes
  <2>2. CASE Enters(f, "waiting", RetryTicks) /\ UNCHANGED <<pipe, inPipe>>
    <3>1. Clocks'
      BY <1>0, <1>a, <2>2, EntersTypes DEF ForgeStates
    <3>. QED BY <1>0, <2>2, <3>1 DEF ForgeTypes
  <2>. QED BY <1>2, <2>1, <2>2 DEF Open
<1>3. ASSUME NEW f \in Forges, Waited(f) \/ PipeClosed(f)
      PROVE  ForgeTypes'
  <2>1. Enters(f, "opening", 0) \/ Enters(f, "waiting", ReconnectTicks)
    BY <1>3 DEF Waited, PipeClosed
  <2>2. Clocks'
    BY <1>0, <1>a, <2>1, EntersTypes DEF ForgeStates
  <2>. QED BY <1>0, <1>3, <2>2 DEF ForgeTypes, Waited, PipeClosed
<1>4. ASSUME NEW f \in Forges, ForgeReads(f)
      PROVE  ForgeTypes'
  <2>1. Clocks'
    BY <1>0, <1>a, <1>4, EntersTypes DEF ForgeReads, ForgeStates
  <2>2. inPipe[f] > 0 /\ inPipe' = [inPipe EXCEPT ![f] = inPipe[f] - 1] /\ pipe' = pipe
    BY <1>4 DEF ForgeReads
  <2>3. inPipe' \in [Forges -> Nat]
    <3>1. inPipe[f] - 1 \in Nat
      BY <1>0, <2>2
    <3>. QED BY <1>0, <2>2, <3>1
  <2>. QED BY <1>0, <2>1, <2>2, <2>3 DEF ForgeTypes
<1>5. ASSUME NEW f \in Forges, Watchdog(f)
      PROVE  ForgeTypes'
  <2>1. Clocks'
    BY <1>0, <1>a, <1>5, EntersTypes DEF Watchdog, ForgeStates
  <2>. QED BY <1>0, <1>5, <2>1 DEF ForgeTypes, Watchdog
<1>6. CASE ServerSends
  <2>1. CASE pipe \in Forges /\ inPipe' = [inPipe EXCEPT ![pipe] = inPipe[pipe] + 1] /\ pipe' = pipe
    <3>1. inPipe' \in [Forges -> Nat]
      <4>1. inPipe[pipe] + 1 \in Nat
        BY <1>0, <2>1
      <4>. QED BY <1>0, <2>1, <4>1
    <3>. QED BY <1>0, <1>6, <2>1, <3>1 DEF ForgeTypes, Clocks, ServerSends
  <2>2. CASE pipe' = "free" /\ UNCHANGED inPipe
    BY <1>0, <1>6, <2>2 DEF ForgeTypes, Clocks, ServerSends
  <2>. QED BY <1>6, <2>1, <2>2 DEF ServerSends
<1>7. ASSUME NEW gone, gone \subseteq Forges, ForgesGone(gone), pipe' = "free" \/ LeavePipe(gone)
      PROVE  ForgeTypes'
  <2>1. forge' = [f \in Forges |-> IF f \in gone THEN "off" ELSE forge[f]] /\ Quiet(gone)
    BY <1>7 DEF ForgesGone
  <2>2. forge' \in [Forges -> ForgeStates]
    BY <1>0, <2>1 DEF Clocks, ForgeStates
  <2>3. \A f \in Forges : f \notin gone /\ forge'[f] # "reading" => forge[f] # "reading"
    BY <2>1
  <2>4. Clocks' /\ inPipe' \in [Forges -> Nat]
    BY <1>0, <2>1, <2>2, <2>3, QuietTypes
  <2>. QED BY <1>0, <1>7, <2>4 DEF ForgeTypes, LeavePipe
<1>8. CASE ResetClick
  <2>1. ASSUME NEW g \in (Forges \ Live) \cup kids, Restarted(kids, g), LeavePipe(kids)
        PROVE  ForgeTypes'
    <3>1. /\ forge' = [f \in Forges |-> IF f = g THEN "opening"
                                       ELSE IF f \in kids THEN "off" ELSE forge[f]]
          /\ Quiet(kids)
      BY <2>1 DEF Restarted
    <3>2. forge' \in [Forges -> ForgeStates]
      BY <1>0, <3>1 DEF Clocks, ForgeStates
    <3>3. g \in kids \/ forge[g] # "reading"
      BY <2>1 DEF Live
    <3>4. \A f \in Forges : f \notin kids /\ forge'[f] # "reading" => forge[f] # "reading"
      BY <3>1, <3>3
    <3>5. Clocks' /\ inPipe' \in [Forges -> Nat]
      BY <1>0, <3>1, <3>2, <3>4, QuietTypes
    <3>. QED BY <1>0, <2>1, <3>5 DEF ForgeTypes, LeavePipe
  <2>. QED BY <1>1, <1>8, <2>1 DEF ResetClick
<1>9. ASSUME NEW f \in Forges, OpenForge(f)
      PROVE  ForgeTypes'
  <2>1. /\ forge' = [forge EXCEPT ![f] = "opening"] /\ forge[f] \in {"off", "closed"}
        /\ UNCHANGED <<wait, silence, stood, inPipe, pipe>>
    BY <1>9 DEF OpenForge, Live
  <2>2. Clocks'
    BY <1>0, <2>1 DEF Clocks, ForgeStates
  <2>. QED BY <1>0, <2>1, <2>2 DEF ForgeTypes
<1>10. CASE EngineEnds
  BY <1>0, <1>10 DEF EngineEnds, ForgeTypes, Clocks, forgeVars
<1>11. CASE Quit
  BY <1>0, <1>7, <1>11 DEF Quit
<1>12. ASSUME NEW f \in Forges, ForgeEnds(f)
       PROVE  ForgeTypes'
  BY <1>7, <1>12 DEF ForgeEnds
<1>13. CASE Tick
  <2>1. /\ UNCHANGED <<forge, inPipe, pipe>>
        /\ wait' = [f \in Forges |-> IF wait[f] > 0 THEN wait[f] - 1 ELSE 0]
        /\ silence' = [f \in Forges |-> IF forge[f] = "reading" THEN silence[f] + 1 ELSE 0]
        /\ stood' = [f \in Forges |-> IF forge[f] = "reading" /\ engine = "hung" THEN stood[f] + 1
                                      ELSE stood[f]]
        /\ \A f \in Forges : forge[f] = "reading" => silence[f] < WatchdogTicks
    BY <1>13 DEF Tick, ForgeIdle
  <2>2. ASSUME NEW f \in Forges
        PROVE  /\ (IF wait[f] > 0 THEN wait[f] - 1 ELSE 0) \in 0 .. RetryTicks + ReconnectTicks
               /\ (IF forge[f] = "reading" THEN silence[f] + 1 ELSE 0) \in 0 .. WatchdogTicks
               /\ stood[f] \in Nat /\ stood[f] + 1 \in Nat
    BY <1>0, <2>1, Bounds DEF Clocks
  <2>3. /\ wait' \in [Forges -> 0 .. RetryTicks + ReconnectTicks]
        /\ silence' \in [Forges -> 0 .. WatchdogTicks] /\ stood' \in [Forges -> Nat]
    BY <2>1, <2>2
  <2>4. ASSUME NEW f \in Forges
        PROVE  stood'[f] <= silence'[f] /\ (forge'[f] # "reading" => silence'[f] = 0 /\ stood'[f] = 0)
    BY <1>0, <2>1 DEF Clocks
  <2>. QED BY <1>0, <2>1, <2>3, <2>4 DEF ForgeTypes, Clocks
<1>14. \/ UNCHANGED <<forgeVars, pipe>> \/ ServerSends \/ ResetClick \/ EngineEnds \/ Quit \/ Tick
       \/ \E f \in Forges : \/ Open(f) \/ Waited(f) \/ PipeClosed(f) \/ ForgeReads(f) \/ Watchdog(f)
                           \/ OpenForge(f) \/ ForgeEnds(f)
  BY DEF Next, Due, ForgeDue, Happens, Fails, vars, Heartbeat, Accept, ServerWakes, TakesCommand,
         Reset, TrayReads, Dispatch, DispatchTooDeep, Yield, OtherCommand, Done, PauseClick, Occurs,
         EngineHangs, EngineGoesOn, EngineStarts
<1>. QED BY <1>1, <1>2, <1>3, <1>4, <1>5, <1>6, <1>8, <1>9, <1>10, <1>11, <1>12, <1>13, <1>14

LEMMA ProcessTyped ==
  ASSUME Types, [Next]_vars
  PROVE  ProcessTypes'
<1>0. /\ ProcessTypes /\ TrayTypes
      /\ beat \in 0 .. HeartbeatTicks /\ unsent \in 0 .. Capacity
  BY DEF Types, ProcessTypes
<1>a. 0 \in 0 .. HeartbeatTicks /\ HeartbeatTicks \in 0 .. HeartbeatTicks /\ 0 \in 0 .. Capacity
  BY Bounds
<1>1. CASE UNCHANGED <<engine, serverVars>>
  BY <1>0, <1>1 DEF ProcessTypes, serverVars
<1>2. ASSUME NEW entry \in Entries, Publish(entry), beat' \in {0, beat},
             UNCHANGED <<engine, server, slept>>
      PROVE  ProcessTypes'
  <2>1. unsent' \in 0 .. Capacity
    BY <1>0, <1>2, PublishTypes
  <2>. QED BY <1>0, <1>a, <1>2, <2>1 DEF ProcessTypes
<1>3. CASE Heartbeat
  BY <1>2, <1>3 DEF Heartbeat, Entries
<1>4. CASE Dispatch \/ DispatchTooDeep \/ Yield
  BY <1>2, <1>4 DEF Dispatch, DispatchTooDeep, Yield, Occurs, Entries
<1>5. CASE Done
  BY <1>2, <1>5 DEF Done, Entries
<1>5a. CASE TakesCommand
  <2>1. CASE UNCHANGED unsent
    BY <1>0, <1>5a, <2>1 DEF TakesCommand, ProcessTypes
  <2>2. CASE Publish(IF paused' THEN "paused" ELSE "resumed")
    <3>1. (IF paused' THEN "paused" ELSE "resumed") \in Entries
      BY DEF Entries
    <3>. QED BY <1>2, <1>5a, <2>2, <3>1 DEF TakesCommand
  <2>. QED BY <1>5a, <2>1, <2>2 DEF TakesCommand
<1>6. CASE Reset
  BY <1>0, <1>2, <1>6 DEF Reset, Entries, ProcessTypes
<1>7. CASE Accept \/ ServerWakes \/ EngineHangs \/ EngineGoesOn \/ EngineStarts
  BY <1>0, <1>a, <1>7 DEF Accept, ServerWakes, EngineHangs, EngineGoesOn, EngineStarts, Fault,
                          ProcessTypes, serverVars
<1>8. CASE ServerSends
  <2>1. unsent' \in {0, unsent - 1} /\ unsent > 0
    BY <1>8 DEF ServerSends
  <2>2. unsent' \in 0 .. Capacity
    BY <1>0, <1>a, <2>1, Bounds
  <2>3. UNCHANGED <<engine, beat>> /\ server' \in {"asleep", server} /\ slept' \in {slept, FALSE}
    BY <1>8 DEF ServerSends
  <2>. QED BY <1>0, <2>2, <2>3 DEF ProcessTypes
<1>9. CASE EngineEnds \/ Quit
  BY <1>0, <1>a, <1>9 DEF EngineEnds, Quit, EngineGone, ProcessTypes
<1>10. CASE Tick
  <2>1. /\ beat' = IF beat < HeartbeatTicks THEN beat + 1 ELSE beat
        /\ slept' = (slept \/ server = "asleep") /\ UNCHANGED <<engine, server, unsent>>
    BY <1>10 DEF Tick
  <2>2. beat' \in 0 .. HeartbeatTicks
    BY <1>0, <2>1, Bounds
  <2>. QED BY <1>0, <2>1, <2>2 DEF ProcessTypes
<1>11. \/ UNCHANGED <<engine, serverVars>>
       \/ Heartbeat \/ Dispatch \/ DispatchTooDeep \/ Yield \/ Done \/ TakesCommand \/ Reset \/ Accept
       \/ ServerWakes \/ EngineHangs \/ EngineGoesOn \/ EngineStarts \/ ServerSends \/ EngineEnds
       \/ Quit \/ Tick
  BY DEF Next, Due, ForgeDue, Happens, Fails, vars, engineVars, serverVars, Open, Waited, ForgeReads,
         PipeClosed, Watchdog, TrayReads, OtherCommand, PauseClick, ResetClick, OpenForge, Occurs,
         ForgeEnds
<1>. QED BY <1>1, <1>3, <1>4, <1>5, <1>5a, <1>6, <1>7, <1>8, <1>9, <1>10, <1>11

LEMMA AtlasTyped ==
  ASSUME Types, [Next]_vars
  PROVE  AtlasTypes'
<1>0. /\ AtlasTypes /\ running \in Nat /\ events \in Nat /\ running <= events
      /\ events <= MaxEvents /\ faults \in 0 .. MaxFaults
  BY Bounds DEF Types, AtlasTypes
<1>a. ASSUME events < MaxEvents, events' = events + 1, running' \in {running, running + 1}
      PROVE  events' \in 0 .. MaxEvents /\ running' \in 0 .. events'
  BY <1>0, <1>a, Bounds
<1>b. ASSUME faults < MaxFaults, faults' = faults + 1
      PROVE  faults' \in 0 .. MaxFaults
  BY <1>0, <1>b, Bounds
<1>1. CASE UNCHANGED <<atlasVars, events, faults>>
  BY <1>0, <1>1 DEF AtlasTypes, atlasVars
<1>2. CASE Dispatch \/ DispatchTooDeep \/ Yield
  <2>1. /\ events < MaxEvents /\ events' = events + 1 /\ running' \in {running, running + 1}
        /\ state' \in {"Executing", "Yielded", state}
        /\ UNCHANGED <<paused, commands, asked, faults>>
    BY <1>2 DEF Dispatch, DispatchTooDeep, Yield, Occurs, atlasVars
  <2>2. events' \in 0 .. MaxEvents /\ running' \in 0 .. events'
    BY <1>a, <2>1
  <2>. QED BY <1>0, <2>1, <2>2 DEF AtlasTypes
<1>c. ASSUME Len(commands) < CommandCap, NEW c \in Commands, commands' = Append(commands, c)
      PROVE  commands' \in Seq(Commands) /\ Len(commands') <= CommandCap
  <2>1. commands' \in Seq(Commands) /\ Len(commands') = Len(commands) + 1 /\ Len(commands) \in Nat
    BY <1>0, <1>c, AppendProperties DEF AtlasTypes
  <2>. QED BY <1>c, <2>1, Bounds
<1>3. CASE PauseClick \/ OtherCommand
  <2>1. /\ events < MaxEvents /\ events' = events + 1
        /\ UNCHANGED <<state, running, paused, asked, faults>>
    BY <1>3 DEF PauseClick, OtherCommand, Occurs
  <2>2. events' \in 0 .. MaxEvents /\ running' \in 0 .. events'
    BY <1>a, <2>1
  <2>3. \/ UNCHANGED commands
        \/ /\ Len(commands) < CommandCap
           /\ \E c \in Commands : commands' = Append(commands, c)
    BY <1>3 DEF PauseClick, OtherCommand, Commands
  <2>4. commands' \in Seq(Commands) /\ Len(commands') <= CommandCap
    BY <1>0, <1>c, <2>3 DEF AtlasTypes
  <2>. QED BY <1>0, <2>1, <2>2, <2>4 DEF AtlasTypes
<1>4. CASE ResetClick
  <2>1. /\ events < MaxEvents /\ events' = events + 1 /\ asked' = TRUE
        /\ UNCHANGED <<state, running, paused, commands, faults>>
    BY <1>4 DEF ResetClick
  <2>2. events' \in 0 .. MaxEvents /\ running' \in 0 .. events'
    BY <1>a, <2>1
  <2>. QED BY <1>0, <2>1, <2>2 DEF AtlasTypes
<1>5. CASE Done
  <2>1. /\ running > 0 /\ running' = running - 1 /\ state' = "Idle"
        /\ UNCHANGED <<paused, commands, asked, events, faults>>
    BY <1>5 DEF Done
  <2>2. running' \in 0 .. events
    BY <1>0, <2>1
  <2>. QED BY <1>0, <2>1, <2>2 DEF AtlasTypes
<1>6. CASE TakesCommand
  <2>1. /\ commands # <<>> /\ commands' = Tail(commands)
        /\ paused' \in {paused, Head(commands) = "pause"}
        /\ UNCHANGED <<state, running, asked, events, faults>>
    BY <1>6 DEF TakesCommand
  <2>2. commands \in Seq(Commands) /\ Len(commands) <= CommandCap
    BY <1>0 DEF AtlasTypes
  <2>3. commands' \in Seq(Commands) /\ Len(commands') = Len(commands) - 1 /\ Len(commands) \in Nat
    BY <2>1, <2>2, HeadTailProperties, EmptySeq
  <2>4. Len(commands') <= CommandCap
    BY <2>2, <2>3, Bounds
  <2>5. paused' \in BOOLEAN
    BY <1>0, <2>1 DEF AtlasTypes
  <2>. QED BY <1>0, <2>1, <2>3, <2>4, <2>5 DEF AtlasTypes
<1>7. CASE Reset
  BY <1>0, <1>7 DEF Reset, AtlasTypes
<1>8. CASE EngineEnds \/ Quit
  <2>1. /\ state' = "Idle" /\ running' = 0 /\ paused' = FALSE /\ commands' = <<>> /\ asked' = FALSE
        /\ UNCHANGED events /\ faults < MaxFaults /\ faults' = faults + 1
    BY <1>8 DEF EngineEnds, Quit, EngineGone, Fault
  <2>2. faults' \in 0 .. MaxFaults /\ commands' \in Seq(Commands) /\ 0 \in 0 .. events
    BY <1>0, <1>b, <2>1, EmptySeq
  <2>3. Len(commands') <= CommandCap
    BY <2>1, EmptySeq, Bounds
  <2>. QED BY <1>0, <2>1, <2>2, <2>3 DEF AtlasTypes
<1>9. CASE EngineHangs \/ \E f \in Forges : ForgeEnds(f)
  <2>1. /\ UNCHANGED <<state, running, paused, commands, asked, events>>
        /\ faults < MaxFaults /\ faults' = faults + 1
    BY <1>9 DEF EngineHangs, ForgeEnds, Fault, engineVars, atlasVars
  <2>. QED BY <1>0, <1>b, <2>1 DEF AtlasTypes
<1>10. \/ UNCHANGED <<atlasVars, events, faults>>
       \/ Dispatch \/ DispatchTooDeep \/ Yield \/ OtherCommand \/ PauseClick \/ ResetClick
       \/ Done \/ TakesCommand \/ Reset \/ EngineEnds \/ Quit \/ EngineHangs
       \/ \E f \in Forges : ForgeEnds(f)
  BY DEF Next, Due, ForgeDue, Happens, Fails, vars, engineVars, Heartbeat, Accept, ServerSends, ServerWakes,
         TrayReads, Open, Waited, ForgeReads, PipeClosed, Watchdog, OpenForge, EngineGoesOn,
         EngineStarts, Tick
<1>. QED BY <1>1, <1>2, <1>3, <1>4, <1>5, <1>6, <1>7, <1>8, <1>9, <1>10

LEMMA TrayTyped ==
  ASSUME Types, [Next]_vars
  PROVE  TrayTypes'
<1>0. ProcessTypes /\ TrayTypes /\ paused \in BOOLEAN
  BY DEF Types, AtlasTypes
<1>1. CASE UNCHANGED <<trayVars, trayRx, misled>>
  BY <1>0, <1>1 DEF TrayTypes, trayVars
<1>2. ASSUME NEW entry \in Entries, Publish(entry), UNCHANGED trayVars, misled' \in BOOLEAN
      PROVE  TrayTypes'
  <2>1. trayRx' \in Seq(Shown)
    BY <1>0, <1>2, PublishTypes
  <2>. QED BY <1>0, <1>2, <2>1 DEF TrayTypes, trayVars
<1>3. CASE Heartbeat
  BY <1>0, <1>2, <1>3 DEF Heartbeat, Entries, TrayTypes
<1>4. CASE Dispatch \/ DispatchTooDeep \/ Yield
  BY <1>0, <1>2, <1>4 DEF Dispatch, DispatchTooDeep, Yield, Entries, TrayTypes
<1>5. CASE Done
  <2>1. misled' \in BOOLEAN
    BY <1>0, <1>5 DEF Done
  <2>. QED BY <1>2, <1>5, <2>1 DEF Done, Entries
<1>5a. CASE TakesCommand
  <2>1. CASE UNCHANGED <<trayRx, misled>>
    BY <1>0, <1>5a, <2>1 DEF TakesCommand, TrayTypes, trayVars
  <2>2. CASE Publish(IF paused' THEN "paused" ELSE "resumed") /\ misled' = FALSE
    <3>1. (IF paused' THEN "paused" ELSE "resumed") \in Entries
      BY DEF Entries
    <3>. QED BY <1>2, <1>5a, <2>2, <3>1 DEF TakesCommand
  <2>. QED BY <1>5a, <2>1, <2>2 DEF TakesCommand
<1>6. CASE Reset
  BY <1>0, <1>2, <1>6 DEF Reset, Entries, TrayTypes, trayVars
<1>7. CASE PauseClick
  BY <1>0, <1>7 DEF PauseClick, TrayTypes, Labels
<1>7a. CASE ResetClick
  <2>1. kids' \subseteq Forges
    BY <1>0, <1>7a DEF ResetClick, TrayTypes
  <2>. QED BY <1>0, <1>7a, <2>1 DEF ResetClick, TrayTypes
<1>7b. ASSUME NEW f \in Forges, OpenForge(f)
       PROVE  TrayTypes'
  BY <1>0, <1>7b DEF OpenForge, TrayTypes
<1>7c. ASSUME NEW f \in Forges, Watchdog(f) \/ ForgeEnds(f)
       PROVE  TrayTypes'
  BY <1>0, <1>7c DEF Watchdog, ForgeEnds, TrayTypes
<1>8. CASE TrayReads
  <2>1. trayRx \in Seq(Shown) /\ trayRx # <<>>
    BY <1>0, <1>8 DEF TrayTypes, TrayReads
  <2>2. Head(trayRx) \in Shown /\ Tail(trayRx) \in Seq(Shown)
    BY <2>1, HeadTailProperties, EmptySeq
  <2>3. label' \in Labels
    BY <1>8, <2>2 DEF TrayReads, Shown, Entries, Labels
  <2>. QED BY <1>0, <1>8, <2>2, <2>3 DEF TrayReads, TrayTypes
<1>9. CASE EngineEnds \/ Quit
  <2>1. <<>> \in Seq(Shown)
    BY EmptySeq
  <2>. QED BY <1>9, <2>1 DEF EngineEnds, Quit, EngineGone, TrayTypes, Labels
<1>10. \/ UNCHANGED <<trayVars, trayRx, misled>>
       \/ Heartbeat \/ Dispatch \/ DispatchTooDeep \/ Yield \/ Done \/ TakesCommand \/ Reset
       \/ PauseClick \/ ResetClick \/ TrayReads \/ EngineEnds \/ Quit
       \/ \E f \in Forges : OpenForge(f) \/ Watchdog(f) \/ ForgeEnds(f)
  BY DEF Next, Due, ForgeDue, Happens, Fails, vars, engineVars, Accept, ServerSends, ServerWakes,
         Open, Waited, ForgeReads, PipeClosed, OtherCommand, EngineHangs, EngineGoesOn, EngineStarts,
         Tick
<1>. QED BY <1>1, <1>3, <1>4, <1>5, <1>5a, <1>6, <1>7, <1>7a, <1>7b, <1>7c, <1>8, <1>9, <1>10

LEMMA Typed == Spec => []Types
<1>1. Init => Types
  <2>. HAVE Init
  <2>0. /\ HeartbeatTicks \in 0 .. HeartbeatTicks /\ 0 \in 0 .. Capacity
        /\ 0 \in 0 .. RetryTicks + ReconnectTicks /\ 0 \in 0 .. WatchdogTicks
        /\ 0 \in 0 .. MaxEvents /\ 0 \in 0 .. MaxFaults /\ 0 \in 0 .. 0 /\ 0 \in Nat
    BY Bounds
  <2>1. ProcessTypes
    BY <2>0 DEF Init, ProcessTypes
  <2>2. ForgeTypes
    <3>1. \A f \in Forges : /\ forge[f] = "off" /\ wait[f] = 0 /\ silence[f] = 0
                            /\ stood[f] = 0 /\ inPipe[f] = 0
      BY DEF Init
    <3>2. /\ forge \in [Forges -> ForgeStates] /\ silence \in [Forges -> 0 .. WatchdogTicks]
          /\ wait \in [Forges -> 0 .. RetryTicks + ReconnectTicks] /\ stood \in [Forges -> Nat]
      BY <2>0 DEF Init, ForgeStates
    <3>3. Clocks
      BY <3>1, <3>2 DEF Clocks
    <3>. QED BY <2>0, <3>3 DEF Init, ForgeTypes
  <2>3. AtlasTypes
    <3>1. commands \in Seq(Commands) /\ Len(commands) <= CommandCap
      <4>1. commands = <<>>
        BY DEF Init
      <4>2. 0 <= CommandCap
        BY Bounds
      <4>3. Len(commands) = 0 /\ commands \in Seq(Commands)
        BY <4>1, EmptySeq
      <4>. QED BY <4>2, <4>3
    <3>. QED BY <2>0, <3>1 DEF Init, AtlasTypes
  <2>4. TrayTypes
    BY EmptySeq DEF Init, TrayTypes, Labels
  <2>. QED BY <2>1, <2>2, <2>3, <2>4 DEF Types
<1>2. Types /\ [Next]_vars => Types'
  BY ForgeTyped, ProcessTyped, AtlasTyped, TrayTyped DEF Types
<1>. QED BY <1>1, <1>2, PTL DEF Spec

(***************************************************************************)
(* Every variable always has its type: in particular the tray reads no     *)
(* entry it cannot show, and the silence never passes the watchdog's time. *)
(***************************************************************************)
THEOREM TypeOKHolds == Spec => []TypeOK
<1>1. Types => TypeOK
  <2>. HAVE Types
  <2>1. running \in 0 .. MaxEvents
    BY Bounds DEF Types, AtlasTypes
  <2>2. trayRx \in Seq(Entries)
    BY DEF Types, TrayTypes, Shown
  <2>. QED BY <2>1, <2>2 DEF Types, ProcessTypes, ForgeTypes, Clocks, AtlasTypes, TrayTypes, TypeOK
<1>. QED BY <1>1, Typed, PTL

-----------------------------------------------------------------------------
(* The watchdog *)

\* Of a Forge's ticks without an entry those in which the engine ran.
Ran(f) == silence[f] - stood[f]

(***************************************************************************)
(* While a Forge is linked the engine has run for no longer than since     *)
(* its last heartbeat, unless that one is still on its way; and before the *)
(* server has accepted the Forge it has not run at all.                    *)
(***************************************************************************)
Heard(f) ==
  /\ server \in {"listening", "serving"}
  /\ Ran(f) <= HeartbeatTicks
  /\ server = "listening" => Ran(f) = 0
  /\ inPipe[f] = 0 /\ (server = "serving" => unsent = 0) => Ran(f) <= beat

WatchInv ==
  \A f \in Forges : forge[f] = "reading" /\ pipe = f => engine # "down" /\ Heard(f)

LEMMA Counters ==
  ASSUME Types, NEW f \in Forges
  PROVE  /\ silence[f] \in Nat /\ stood[f] \in Nat /\ stood[f] <= silence[f] /\ Ran(f) \in Nat
         /\ silence[f] = stood[f] => Ran(f) = 0
         /\ beat \in Nat /\ beat <= HeartbeatTicks
         /\ unsent \in Nat /\ inPipe[f] \in Nat /\ HeartbeatTicks \in Nat
BY Bounds DEF Types, ForgeTypes, Clocks, ProcessTypes, Ran

\* A Forge that enters a state leaves the others alone.
LEMMA EntersOne ==
  ASSUME Types, NEW f \in Forges, NEW g \in Forges, NEW new, NEW n, Enters(g, new, n)
  PROVE  /\ g = f => forge'[f] = new /\ silence'[f] = 0 /\ stood'[f] = 0
         /\ g # f => UNCHANGED <<forge[f], silence[f], stood[f]>>
<1>1. /\ forge' = [forge EXCEPT ![g] = new]
      /\ silence' = [silence EXCEPT ![g] = 0] /\ stood' = [stood EXCEPT ![g] = 0]
  BY DEF Enters
<1>. QED BY <1>1 DEF Types, ForgeTypes, Clocks

LEMMA WatchStays ==
  ASSUME Types, WatchInv, [Next]_vars
  PROVE  WatchInv'
<1>. SUFFICES ASSUME NEW f \in Forges, forge'[f] = "reading", pipe' = f
              PROVE  engine' # "down" /\ Heard(f)'
  BY DEF WatchInv
<1>0. /\ silence[f] \in Nat /\ stood[f] \in Nat /\ stood[f] <= silence[f] /\ Ran(f) \in Nat
      /\ beat \in Nat /\ beat <= HeartbeatTicks
      /\ unsent \in Nat /\ inPipe[f] \in Nat /\ HeartbeatTicks \in Nat
  BY Counters
<1>a. f # "free" /\ f # "stale" /\ inPipe \in [Forges -> Nat]
  BY Bounds DEF Types, ForgeTypes
<1>b. forge[f] = "reading" /\ pipe = f => engine # "down" /\ Heard(f)
  BY DEF WatchInv
<1>1. CASE /\ UNCHANGED <<forge[f], pipe, silence[f], stood[f], inPipe[f], beat, server, unsent>>
           /\ (engine # "down" => engine' # "down")
  BY <1>1, <1>b DEF Heard, Ran
<1>c. CASE UNCHANGED <<forge, pipe, silence, stood, inPipe, beat, server, unsent>>
             /\ (engine # "down" => engine' # "down")
  BY <1>1, <1>c
<1>2. ASSUME NEW g \in Forges, Open(g)
      PROVE  engine' # "down" /\ Heard(f)'
  <2>1. CASE PipeIsOpen /\ Enters(g, "reading", 0) /\ pipe' = g
    <3>1. g = f /\ silence'[f] = 0 /\ stood'[f] = 0
      BY <2>1, EntersOne
    <3>2. engine # "down" /\ server = "listening" /\ UNCHANGED <<engine, server, beat>>
      BY <1>2, <2>1 DEF Open, PipeIsOpen, engineVars, serverVars
    <3>3. Ran(f)' = 0
      BY <3>1 DEF Ran
    <3>. QED BY <1>0, <3>2, <3>3 DEF Heard
  <2>2. CASE Enters(g, "waiting", RetryTicks) /\ UNCHANGED <<pipe, inPipe>>
    <3>1. UNCHANGED <<forge[f], silence[f], stood[f]>>
      BY <2>2, EntersOne
    <3>. QED BY <1>1, <1>2, <2>2, <3>1 DEF Open, engineVars, serverVars
  <2>. QED BY <1>2, <2>1, <2>2 DEF Open
<1>3. ASSUME NEW g \in Forges, ForgeReads(g)
      PROVE  engine' # "down" /\ Heard(f)'
  <2>1. /\ inPipe' = [inPipe EXCEPT ![g] = inPipe[g] - 1] /\ Enters(g, "reading", 0)
        /\ forge[g] = "reading" /\ UNCHANGED <<engine, server, beat, unsent, pipe>>
    BY <1>3 DEF ForgeReads, engineVars, serverVars
  <2>2. CASE g # f
    <3>1. UNCHANGED <<forge[f], silence[f], stood[f], inPipe[f]>>
      BY <1>a, <2>1, <2>2, EntersOne
    <3>. QED BY <1>1, <2>1, <3>1
  <2>3. CASE g = f
    <3>1. silence'[f] = 0 /\ stood'[f] = 0
      BY <2>1, <2>3, EntersOne
    <3>2. Ran(f)' = 0
      BY <3>1 DEF Ran
    <3>3. engine # "down" /\ server \in {"listening", "serving"}
      BY <1>b, <2>1, <2>3 DEF Heard
    <3>. QED BY <1>0, <2>1, <3>2, <3>3 DEF Heard
  <2>. QED BY <2>2, <2>3
<1>4. ASSUME NEW entry, Publish(entry), beat' \in {0, beat},
             UNCHANGED <<engine, server, forge, pipe, silence, stood, inPipe>>,
             beat' = beat \/ engine = "up"
      PROVE  engine' # "down" /\ Heard(f)'
  <2>1. engine # "down" /\ Heard(f) /\ Ran(f)' = Ran(f)
    BY <1>4, <1>b DEF Ran
  <2>2. CASE server = "listening"
    <3>1. Ran(f)' = 0 /\ beat' \in Nat
      BY <1>0, <1>4, <2>1, <2>2 DEF Heard
    <3>. QED BY <1>0, <1>4, <2>1, <2>2, <3>1 DEF Heard
  <2>3. CASE server = "serving"
    <3>1. Capacity \in Nat \ {0} /\ unsent' = IF unsent < Capacity THEN unsent + 1 ELSE unsent
      BY <1>4, <2>3, Bounds DEF Publish
    <3>2. unsent' # 0
      BY <1>0, <3>1
    <3>. QED BY <1>4, <2>1, <2>3, <3>2 DEF Heard
  <2>. QED BY <2>1, <2>2, <2>3 DEF Heard
<1>5. CASE Heartbeat \/ Dispatch \/ DispatchTooDeep \/ Yield \/ Done
  <2>1. \E entry : Publish(entry)
    BY <1>5 DEF Heartbeat, Dispatch, DispatchTooDeep, Yield, Done
  <2>2. /\ beat' \in {0, beat} /\ (beat' = beat \/ engine = "up")
        /\ UNCHANGED <<engine, server, forge, pipe, silence, stood, inPipe>>
    BY <1>5 DEF Heartbeat, Dispatch, DispatchTooDeep, Yield, Done, Occurs, forgeVars
  <2>. QED BY <1>4, <2>1, <2>2
<1>6. CASE Reset \/ TakesCommand
  <2>1. UNCHANGED <<engine, beat, server, forge, pipe, silence, stood, inPipe>>
    BY <1>6 DEF Reset, TakesCommand, forgeVars
  <2>2. CASE \E entry : Publish(entry)
    BY <1>4, <2>1, <2>2
  <2>3. CASE UNCHANGED unsent
    BY <1>c, <2>1, <2>3
  <2>. QED BY <1>6, <2>2, <2>3 DEF Reset, TakesCommand
<1>7. CASE Accept
  <2>1. /\ server = "listening" /\ server' = "serving" /\ unsent' = 0
        /\ UNCHANGED <<engine, beat, forge, pipe, silence, stood, inPipe>>
    BY <1>7 DEF Accept, forgeVars
  <2>2. engine # "down" /\ Ran(f) = 0 /\ Ran(f)' = Ran(f)
    BY <2>1, <1>b DEF Heard, Ran
  <2>. QED BY <1>0, <2>1, <2>2 DEF Heard
<1>8. CASE ServerSends
  <2>1. /\ server = "serving" /\ unsent > 0 /\ pipe = f
        /\ inPipe' = [inPipe EXCEPT ![f] = inPipe[f] + 1]
        /\ UNCHANGED <<engine, beat, server, forge, silence, stood>>
    BY <1>8, <1>a DEF ServerSends
  <2>2. engine # "down" /\ Heard(f) /\ Ran(f)' = Ran(f)
    BY <1>b, <2>1 DEF Ran
  <2>3. inPipe'[f] # 0
    BY <1>0, <1>a, <2>1
  <2>. QED BY <2>1, <2>2, <2>3 DEF Heard
<1>9. CASE Tick
  <2>1. /\ UNCHANGED <<engine, server, unsent, inPipe, forge, pipe>>
        /\ beat' = IF beat < HeartbeatTicks THEN beat + 1 ELSE beat
        /\ inPipe[f] = 0 /\ (engine = "up" => EngineIdle)
    BY <1>9 DEF Tick, ForgeIdle
  <2>2. silence'[f] = silence[f] + 1 /\ stood'[f] = IF engine = "hung" THEN stood[f] + 1 ELSE stood[f]
    BY <1>9, <2>1 DEF Tick
  <2>3. engine \in {"up", "hung"} /\ Heard(f)
    BY <1>b, <2>1 DEF Types, ProcessTypes
  <2>4. CASE engine = "hung"
    <3>1. Ran(f)' = Ran(f) /\ beat <= beat' /\ beat' \in Nat
      BY <1>0, <2>1, <2>2, <2>4 DEF Ran
    <3>. QED BY <1>0, <2>1, <2>3, <2>4, <3>1 DEF Heard
  <2>5. CASE engine = "up"
    <3>1. beat < HeartbeatTicks /\ server = "serving" /\ ~(unsent > 0)
      BY <1>a, <2>1, <2>3, <2>5 DEF EngineIdle, Heard
    <3>2. Ran(f) <= beat
      BY <1>0, <2>1, <2>3, <3>1 DEF Heard
    <3>3. Ran(f)' = Ran(f) + 1 /\ beat' = beat + 1
      BY <1>0, <2>1, <2>2, <2>5, <3>1 DEF Ran
    <3>4. Ran(f)' <= beat' /\ Ran(f)' <= HeartbeatTicks
      BY <1>0, <3>1, <3>2, <3>3
    <3>. QED BY <2>1, <2>5, <3>1, <3>4 DEF Heard
  <2>. QED BY <2>3, <2>4, <2>5
<1>10. ASSUME NEW g \in Forges, Waited(g) \/ PipeClosed(g)
       PROVE  engine' # "down" /\ Heard(f)'
  <2>1. Enters(g, "opening", 0) \/ Enters(g, "waiting", ReconnectTicks)
    BY <1>10 DEF Waited, PipeClosed
  <2>2. UNCHANGED <<forge[f], silence[f], stood[f]>>
    BY <2>1, EntersOne
  <2>3. UNCHANGED <<engine, serverVars, pipe, inPipe>>
    BY <1>10 DEF Waited, PipeClosed, engineVars
  <2>. QED BY <1>1, <2>2, <2>3 DEF serverVars
<1>11. ~EngineEnds /\ ~Quit /\ \A g \in Forges : ~Watchdog(g)
  BY <1>a DEF EngineEnds, Quit, Watchdog
<1>12. CASE ServerWakes
  BY <1>12, <1>b DEF ServerWakes, forgeVars, Heard
<1>13. ASSUME NEW gone, Quiet(gone), LeavePipe(gone), f \notin gone => UNCHANGED forge[f],
              UNCHANGED <<engine, serverVars>>
       PROVE  engine' # "down" /\ Heard(f)'
  <2>1. pipe = f /\ f \notin gone
    BY <1>13, <1>a DEF LeavePipe
  <2>2. UNCHANGED <<inPipe[f], silence[f], stood[f]>>
    BY <1>13, <2>1 DEF Quiet
  <2>. QED BY <1>1, <1>13, <2>1, <2>2 DEF serverVars
<1>14. CASE ResetClick
  <2>1. UNCHANGED <<engine, serverVars>>
    BY <1>14 DEF ResetClick
  <2>2. ASSUME NEW g, Restarted(kids, g), LeavePipe(kids)
        PROVE  engine' # "down" /\ Heard(f)'
    <3>1. Quiet(kids) /\ (f \notin kids => UNCHANGED forge[f])
      BY <2>2 DEF Restarted
    <3>. QED BY <1>13, <2>1, <2>2, <3>1
  <2>3. CASE UNCHANGED <<forgeVars, pipe>>
    BY <1>c, <2>1, <2>3 DEF forgeVars, serverVars
  <2>. QED BY <1>14, <2>2, <2>3 DEF ResetClick
<1>15. ASSUME NEW g \in Forges, ForgeEnds(g)
       PROVE  engine' # "down" /\ Heard(f)'
  <2>1. Quiet({g}) /\ LeavePipe({g}) /\ (f \notin {g} => UNCHANGED forge[f])
    BY <1>15 DEF ForgeEnds, ForgesGone
  <2>2. UNCHANGED <<engine, serverVars>>
    BY <1>15 DEF ForgeEnds
  <2>. QED BY <1>13, <2>1, <2>2
<1>16. ASSUME NEW g \in Forges, OpenForge(g)
       PROVE  engine' # "down" /\ Heard(f)'
  <2>1. /\ forge' = [forge EXCEPT ![g] = "opening"] /\ forge \in [Forges -> ForgeStates]
        /\ UNCHANGED <<engine, serverVars, pipe, silence, stood, inPipe>>
    BY <1>16 DEF OpenForge, Types, ForgeTypes, Clocks
  <2>2. UNCHANGED forge[f]
    BY <2>1
  <2>. QED BY <1>1, <2>1, <2>2 DEF serverVars
<1>17. CASE \/ TrayReads \/ PauseClick \/ OtherCommand \/ EngineHangs \/ EngineGoesOn
            \/ EngineStarts \/ UNCHANGED vars
  BY <1>c, <1>17 DEF TrayReads, PauseClick, OtherCommand, Occurs, EngineHangs, EngineGoesOn,
                     EngineStarts, Fault, vars, engineVars, forgeVars, serverVars
<1>. QED BY <1>2, <1>3, <1>5, <1>6, <1>7, <1>8, <1>9, <1>10, <1>11, <1>12, <1>14, <1>15, <1>16, <1>17
       DEF Next, Due, ForgeDue, Happens, Fails

(***************************************************************************)
(* Whatever the interval of the heartbeat and the watchdog's time, however *)
(* small the channel: a Forge closes by itself only if the engine has      *)
(* stood still for as long as one is longer than the other.                *)
(***************************************************************************)
THEOREM NoFalseAlarmHolds == Spec => NoFalseAlarm
<1>1. Init => WatchInv
  BY DEF Init, WatchInv
<1>2. Types /\ WatchInv /\ [Next]_vars => WatchInv'
  BY WatchStays
<1>3. Types /\ WatchInv /\ [Next]_vars
        => [\A f \in Forges : forge[f] = "reading" /\ forge'[f] = "closed"
              => stood[f] >= WatchdogTicks - HeartbeatTicks]_vars
  <2>. SUFFICES ASSUME Types, WatchInv, Next, NEW f \in Forges,
                       forge[f] = "reading", forge'[f] = "closed"
                PROVE  stood[f] >= WatchdogTicks - HeartbeatTicks
    OBVIOUS
  <2>1. ASSUME NEW g \in Forges, NEW new, NEW n, Enters(g, new, n)
        PROVE  g = f /\ new = "closed"
    BY <2>1, EntersOne
  <2>2. ~ForgesGone(kids) /\ \A g \in Forges : ~ForgesGone({g}) /\ ~Restarted(kids, g)
    BY DEF ForgesGone, Restarted
  <2>3. ~ResetClick /\ ~Quit /\ \A g \in Forges : ~ForgeEnds(g)
    BY <2>2 DEF ResetClick, Quit, ForgeEnds, Types, TrayTypes, forgeVars
  <2>4. ASSUME NEW g \in Forges
        PROVE  ~OpenForge(g)
    BY DEF OpenForge, Types, ForgeTypes, Clocks
  <2>5. ASSUME NEW g \in Forges, ForgeDue(g)
        PROVE  Watchdog(f)
    BY <2>1, <2>5 DEF ForgeDue, Open, Waited, ForgeReads, PipeClosed, Watchdog
  <2>6. Watchdog(f)
    BY <2>3, <2>4, <2>5
       DEF Next, Due, Happens, Fails, Heartbeat, Accept, ServerSends, ServerWakes, TakesCommand,
           Reset, TrayReads, Done, Dispatch, DispatchTooDeep, Yield, PauseClick, OtherCommand, Occurs,
           EngineHangs, EngineGoesOn, EngineEnds, EngineStarts, Tick, forgeVars
  <2>7. silence[f] = WatchdogTicks /\ Ran(f) <= HeartbeatTicks
    BY <2>6 DEF Watchdog, Silent, WatchInv, Heard
  <2>. QED BY <2>7, Counters, Bounds DEF Ran
<1>. QED BY <1>1, <1>2, <1>3, Typed, PTL DEF Spec, NoFalseAlarm

-----------------------------------------------------------------------------
(* The tray at rest *)

LabelOf(entry) ==
  CASE entry = "paused" -> "Paused"
    [] entry = "matched" -> "Executing"
    [] entry = "presence" -> "Yielded"
    [] entry \in {"resumed", "complete"} -> "Standing By"

\* What the tray will show once it has read all that it holds.
InTheEnd == IF trayRx = <<>> THEN label ELSE LabelOf(trayRx[Len(trayRx)])

Expected == IF paused THEN "Paused" ELSE "Standing By"

\* No click is on its way.
NoClicks == commands \in Seq({"other"})

(***************************************************************************)
(* Once its listener has been started, and no run or click is still to     *)
(* come, what the tray holds ends in what Atlas does; before, it shows     *)
(* what it showed at the start, and there has been no pause.               *)
(***************************************************************************)
TrayInv ==
  /\ state # "Idle" => running > 0
  /\ ~listening => label = "Standing By" /\ ~paused /\ NoClicks /\ trayRx = <<>>
  /\ listening /\ ~misled /\ NoClicks /\ running = 0 => InTheEnd = Expected

LEMMA CommandsLeft ==
  ASSUME commands \in Seq(Commands), commands # <<>>, commands' = Tail(commands)
  PROVE  /\ NoClicks => Head(commands) = "other"
         /\ Head(commands) = "other" => (NoClicks' <=> NoClicks)
<1>1. NoClicks => Head(commands) = "other" /\ NoClicks'
  BY HeadTailProperties, EmptySeq DEF NoClicks
<1>2. ASSUME Head(commands) = "other", NoClicks'
      PROVE  NoClicks
  <2>1. /\ Len(commands) \in Nat \ {0} /\ Head(commands) = commands[1]
        /\ Len(commands') = Len(commands) - 1
        /\ \A i \in 1 .. Len(commands) - 1 : commands'[i] = commands[i + 1]
    BY HeadTailProperties, EmptySeq
  <2>2. ASSUME NEW i \in 1 .. Len(commands)
        PROVE  commands[i] \in {"other"}
    <3>1. CASE i = 1
      BY <1>2, <2>1, <3>1
    <3>2. CASE i # 1
      <4>1. i - 1 \in 1 .. Len(commands) - 1 /\ (i - 1) + 1 = i
        BY <2>1, <3>2
      <4>2. commands'[i - 1] = commands[i]
        BY <2>1, <4>1
      <4>3. commands'[i - 1] \in {"other"}
        BY <1>2, <2>1, <4>1, ElementOfSeq DEF NoClicks
      <4>. QED BY <4>2, <4>3
    <3>. QED BY <3>1, <3>2
  <2>3. commands = [i \in 1 .. Len(commands) |-> commands[i]]
    BY SeqDef
  <2>. QED BY <2>1, <2>2, <2>3, IsASeq DEF NoClicks
<1>. QED BY <1>1, <1>2

LEMMA CommandAdded ==
  ASSUME commands \in Seq(Commands), NEW c \in Commands, commands' = Append(commands, c)
  PROVE  /\ c # "other" => ~NoClicks'
         /\ c = "other" => (NoClicks' <=> NoClicks)
<1>1. /\ Len(commands') = Len(commands) + 1 /\ Len(commands) \in Nat
      /\ commands'[Len(commands) + 1] = c
      /\ \A i \in 1 .. Len(commands) : commands'[i] = commands[i]
  BY AppendProperties
<1>2. NoClicks' => c = "other"
  <2>. HAVE NoClicks'
  <2>1. Len(commands) + 1 \in 1 .. Len(commands')
    BY <1>1
  <2>2. commands'[Len(commands) + 1] \in {"other"}
    BY <2>1, ElementOfSeq DEF NoClicks
  <2>. QED BY <1>1, <2>2
<1>3. ASSUME c = "other", NoClicks
      PROVE  NoClicks'
  BY <1>3, AppendProperties DEF NoClicks
<1>4. ASSUME NoClicks'
      PROVE  NoClicks
  <2>1. ASSUME NEW i \in 1 .. Len(commands)
        PROVE  commands[i] \in {"other"}
    <3>1. i \in 1 .. Len(commands')
      BY <1>1
    <3>2. commands'[i] \in {"other"}
      BY <1>4, <3>1, ElementOfSeq DEF NoClicks
    <3>. QED BY <1>1, <3>2
  <2>2. commands = [i \in 1 .. Len(commands) |-> commands[i]]
    BY SeqDef
  <2>. QED BY <1>1, <2>1, <2>2, IsASeq DEF NoClicks
<1>. QED BY <1>2, <1>3, <1>4

\* An entry that the tray's listener takes decides what it will show.
LEMMA PublishDecides ==
  ASSUME Types, NEW entry, Publish(entry)
  PROVE  /\ listening /\ entry \in Shown
              => trayRx' # <<>> /\ trayRx'[Len(trayRx')] = entry
         /\ ~listening \/ entry = "other" => trayRx' = trayRx
<1>1. CASE listening /\ entry \in Shown
  <2>1. trayRx' = Append(trayRx, entry) /\ trayRx \in Seq(Shown) /\ entry # "other"
    BY <1>1 DEF Publish, Types, TrayTypes, Shown
  <2>2. /\ Len(Append(trayRx, entry)) = Len(trayRx) + 1 /\ Len(trayRx) \in Nat
        /\ Append(trayRx, entry)[Len(trayRx) + 1] = entry
    BY <1>1, <2>1, AppendProperties
  <2>3. trayRx' # <<>>
    BY <2>1, <2>2
  <2>. QED BY <1>1, <2>1, <2>2, <2>3
<1>2. CASE ~listening \/ entry = "other"
  BY <1>2 DEF Publish, Shown
<1>3. CASE listening /\ entry \notin Shown /\ entry # "other"
  BY <1>3
<1>. QED BY <1>1, <1>2, <1>3

LEMMA TrayStays ==
  ASSUME Types, TrayInv, [Next]_vars
  PROVE  TrayInv'
<1>0. running \in Nat /\ paused \in BOOLEAN /\ trayRx \in Seq(Shown) /\ commands \in Seq(Commands)
  BY Bounds DEF Types, AtlasTypes, TrayTypes
<1>1. CASE UNCHANGED <<state, running, paused, commands, listening, misled, label, trayRx>>
  BY <1>1 DEF TrayInv, InTheEnd, Expected, NoClicks
<1>2. CASE Heartbeat
  <2>1. Publish("other") /\ UNCHANGED <<state, running, paused, commands, listening, misled, label>>
    BY <1>2 DEF Heartbeat, atlasVars, trayVars
  <2>2. trayRx' = trayRx
    BY <2>1, PublishDecides
  <2>. QED BY <1>1, <2>1, <2>2
<1>3. CASE Dispatch
  <2>1. /\ Publish("matched") /\ running' = running + 1
        /\ UNCHANGED <<paused, commands, listening, label>>
    BY <1>3 DEF Dispatch, trayVars
  <2>2. running' > 0 /\ running' # 0
    BY <1>0, <2>1
  <2>3. ~listening => trayRx' = trayRx
    BY <2>1, PublishDecides
  <2>. QED BY <2>1, <2>2, <2>3 DEF TrayInv, NoClicks
<1>4. CASE DispatchTooDeep
  <2>1. /\ Publish("matched") /\ misled' = TRUE
        /\ UNCHANGED <<state, running, paused, commands, listening, label>>
    BY <1>4 DEF DispatchTooDeep, atlasVars, trayVars
  <2>2. ~listening => trayRx' = trayRx
    BY <2>1, PublishDecides
  <2>. QED BY <2>1, <2>2 DEF TrayInv, NoClicks
<1>5. CASE Yield
  <2>1. /\ Publish("presence") /\ state = "Executing"
        /\ UNCHANGED <<running, paused, commands, listening, label>>
    BY <1>5 DEF Yield, trayVars
  <2>2. state # "Idle"
    BY <2>1
  <2>3. running > 0
    BY <2>2 DEF TrayInv
  <2>4. running # 0
    BY <1>0, <2>3
  <2>5. ~listening => trayRx' = trayRx
    BY <2>1, PublishDecides
  <2>. QED BY <2>1, <2>3, <2>4, <2>5 DEF TrayInv, NoClicks
<1>6. CASE Done
  <2>1. /\ Publish("complete") /\ state' = "Idle" /\ misled' = paused
        /\ UNCHANGED <<paused, commands, listening, label>>
    BY <1>6 DEF Done, trayVars
  <2>2. /\ listening => trayRx' # <<>> /\ trayRx'[Len(trayRx')] = "complete"
        /\ ~listening => trayRx' = trayRx
    BY <2>1, PublishDecides DEF Shown, Entries
  <2>3. listening /\ ~misled' => InTheEnd' = Expected'
    <3>1. LabelOf("complete") = "Standing By"
      BY DEF LabelOf
    <3>. QED BY <2>1, <2>2, <3>1 DEF InTheEnd, Expected
  <2>. QED BY <2>1, <2>2, <2>3 DEF TrayInv, NoClicks
<1>7. CASE TakesCommand
  <2>1. commands # <<>> /\ commands' = Tail(commands) /\ UNCHANGED <<state, running, listening, label>>
    BY <1>7 DEF TakesCommand, trayVars
  <2>2. /\ NoClicks => Head(commands) = "other"
        /\ Head(commands) = "other" => (NoClicks' <=> NoClicks)
    BY <1>0, <2>1, CommandsLeft
  <2>3. CASE Head(commands) = "other" /\ UNCHANGED <<paused, trayRx, misled>>
    BY <2>1, <2>2, <2>3 DEF TrayInv, InTheEnd, Expected
  <2>4. CASE /\ Head(commands) # "other" /\ Publish(IF paused' THEN "paused" ELSE "resumed")
             /\ paused' = (Head(commands) = "pause") /\ misled' = FALSE
    <3>1. listening
      BY <2>2, <2>4 DEF TrayInv
    <3>2. trayRx' # <<>> /\ trayRx'[Len(trayRx')] = IF paused' THEN "paused" ELSE "resumed"
      BY <2>4, <3>1, PublishDecides DEF Shown, Entries
    <3>3. InTheEnd' = Expected'
      <4>1. LabelOf("paused") = "Paused" /\ LabelOf("resumed") = "Standing By"
        BY DEF LabelOf
      <4>. QED BY <3>2, <4>1 DEF InTheEnd, Expected
    <3>. QED BY <2>1, <3>1, <3>3 DEF TrayInv
  <2>. QED BY <1>7, <2>3, <2>4 DEF TakesCommand
<1>8. CASE Reset
  <2>1. UNCHANGED <<running, paused, commands, listening, misled, label>> /\ state' \in {"Idle", state}
    BY <1>8 DEF Reset, trayVars
  <2>2. trayRx' = trayRx
    BY <1>8, PublishDecides DEF Reset
  <2>. QED BY <2>1, <2>2 DEF TrayInv, InTheEnd, Expected, NoClicks
<1>9. CASE PauseClick
  <2>1. listening' = TRUE /\ UNCHANGED <<state, running>>
    BY <1>9 DEF PauseClick
  <2>2. CASE misled' = TRUE
    BY <2>1, <2>2 DEF TrayInv
  <2>3. CASE commands' = Append(commands, IF menuPaused' THEN "pause" ELSE "resume")
    <3>1. (IF menuPaused' THEN "pause" ELSE "resume") \in Commands \ {"other"}
      BY DEF Commands
    <3>2. ~NoClicks'
      BY <1>0, <2>3, <3>1, CommandAdded
    <3>. QED BY <2>1, <3>2 DEF TrayInv
  <2>. QED BY <1>9, <2>2, <2>3 DEF PauseClick
<1>9a. CASE OtherCommand
  <2>1. /\ commands' = Append(commands, "other")
        /\ UNCHANGED <<state, running, paused, listening, misled, label, trayRx>>
    BY <1>9a DEF OtherCommand, trayVars
  <2>2. NoClicks' <=> NoClicks
    BY <1>0, <2>1, CommandAdded DEF Commands
  <2>. QED BY <2>1, <2>2 DEF TrayInv, InTheEnd, Expected
<1>10. CASE ResetClick
  <2>1. listening' = TRUE /\ UNCHANGED <<state, running, paused, commands, misled, label, trayRx>>
    BY <1>10 DEF ResetClick
  <2>. QED BY <2>1 DEF TrayInv, InTheEnd, Expected, NoClicks
<1>11. CASE TrayReads
  <2>1. /\ trayRx # <<>> /\ trayRx' = Tail(trayRx) /\ label' = LabelOf(Head(trayRx))
        /\ UNCHANGED <<state, running, paused, commands, listening, misled>>
    BY <1>11 DEF TrayReads, LabelOf, atlasVars
  <2>2. /\ Len(trayRx) \in Nat \ {0} /\ Len(trayRx') = Len(trayRx) - 1 /\ Head(trayRx) = trayRx[1]
        /\ trayRx' \in Seq(Shown) /\ \A i \in 1 .. Len(trayRx) - 1 : trayRx'[i] = trayRx[i + 1]
    BY <1>0, <2>1, HeadTailProperties, EmptySeq
  <2>3. CASE Len(trayRx) = 1
    <3>1. trayRx' = <<>>
      BY <2>2, <2>3, EmptySeq
    <3>2. InTheEnd' = InTheEnd
      BY <2>1, <2>2, <2>3, <3>1 DEF InTheEnd
    <3>. QED BY <2>1, <3>1, <3>2 DEF TrayInv, Expected, NoClicks
  <2>4. CASE Len(trayRx) # 1
    <3>1. Len(trayRx') # 0 /\ trayRx'[Len(trayRx')] = trayRx[Len(trayRx)]
      BY <2>2, <2>4
    <3>2. trayRx' # <<>>
      BY <3>1
    <3>3. InTheEnd' = InTheEnd
      BY <2>1, <3>1, <3>2 DEF InTheEnd
    <3>. QED BY <2>1, <3>3 DEF TrayInv, Expected, NoClicks
  <2>. QED BY <2>3, <2>4
<1>12. CASE EngineEnds \/ Quit
  <2>1. EngineGone
    BY <1>12 DEF EngineEnds, Quit
  <2>. QED BY <2>1, EmptySeq DEF EngineGone, TrayInv, NoClicks
<1>13. \/ UNCHANGED <<state, running, paused, commands, listening, misled, label, trayRx>>
       \/ Heartbeat \/ Dispatch \/ DispatchTooDeep \/ Yield \/ Done \/ TakesCommand \/ Reset
       \/ PauseClick \/ OtherCommand \/ ResetClick \/ TrayReads \/ EngineEnds \/ Quit
  BY DEF Next, Due, ForgeDue, Happens, Fails, vars, engineVars, atlasVars, trayVars, Accept, ServerSends,
         ServerWakes, Open, Waited, ForgeReads, PipeClosed, Watchdog, OpenForge, EngineHangs,
         EngineGoesOn, EngineStarts, ForgeEnds, Tick
<1>. QED BY <1>1, <1>2, <1>3, <1>4, <1>5, <1>6, <1>7, <1>8, <1>9, <1>9a, <1>10, <1>11, <1>12, <1>13

(***************************************************************************)
(* However resets, pauses, commands and runs cross: when all is quiet the  *)
(* tray shows what the engine does, unless what last changed its status    *)
(* was a run that ended in a pause, a summons given up after its match, or *)
(* a click whose command found the channel full.                           *)
(***************************************************************************)
THEOREM TrayAtRestHolds == Spec => []TrayAtRest
<1>1. Init => TrayInv
  BY EmptySeq DEF Init, TrayInv, NoClicks
<1>2. Types /\ TrayInv /\ [Next]_vars => TrayInv'
  BY TrayStays
<1>3. TrayInv => TrayAtRest
  BY EmptySeq DEF TrayInv, NoClicks, TrayAtRest, AtRest, ShowsEngine, InTheEnd, Expected
<1>. QED BY <1>1, <1>2, <1>3, Typed, PTL DEF Spec
=============================================================================
