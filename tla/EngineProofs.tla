---------------------------- MODULE EngineProofs ----------------------------
(***************************************************************************)
(* Theorems about Engine for every value of its constants: the types, the  *)
(* abort channel (Atlas holds the sender of the last run exactly while it  *)
(* is Executing, an aborted run begins at most one more action), that a    *)
(* paused engine starts no live run; the queues between Atlas and the      *)
(* runner: how many sequences are in flight, and in which order; and, until*)
(* a busy engine is reset, one run at a time: Atlas can stop every run     *)
(* that is not already stopped or over, each step of the engine is a step  *)
(* of SerialRuns or is not seen there, and each summons is run once.       *)
(***************************************************************************)
EXTENDS Engine, SequenceTheorems, FiniteSetTheorems, TLAPS

-----------------------------------------------------------------------------
(* Sequences *)

\* The empty queue, and a queue that has lost its head.
LEMMA EmptyQueue ==
  ASSUME NEW S, NEW q, q = <<>>
  PROVE  q \in Seq(S) /\ Len(q) = 0
OBVIOUS

LEMMA TailSeq ==
  ASSUME NEW S, NEW q \in Seq(S), q # <<>>
  PROVE  Head(q) \in S /\ Tail(q) \in Seq(S) /\ Len(Tail(q)) = Len(q) - 1
OBVIOUS

\* A queue of one element.
LEMMA Singleton ==
  ASSUME NEW S, NEW e \in S
  PROVE  <<e>> \in Seq(S) /\ Len(<<e>>) = 1
OBVIOUS

-----------------------------------------------------------------------------
(* Types *)

\* A dispatch leaves the run variables well typed.
LEMMA DispatchTypes ==
  ASSUME RunTypeOK, NEW key \in Keys, NEW dry \in BOOLEAN, NEW deep \in BOOLEAN,
         DispatchDecree(key, dry, deep)
  PROVE  RunTypeOK'
<1>. USE ConstantsOK DEF RunTypeOK, DispatchDecree, NoRun
<1>1. CASE deep
  BY <1>1
<1>2. CASE ~deep
  <2>1. [run |-> lastRun + 1, key |-> key, dry |-> dry] \in Job
    BY DEF Job
  <2>2. outbox' = <<[run |-> lastRun + 1, key |-> key, dry |-> dry]>>
    BY <1>2
  <2>3. outbox' \in Seq(Job) /\ Len(outbox') = 1
    BY ONLY <2>1, <2>2, Singleton
  <2>. QED BY <1>2, <2>3
<1>. QED BY <1>1, <1>2

\* A summons handled with "ignored" as its other outcome.
LEMMA HandleSummonsTypes ==
  ASSUME RunTypeOK, registry \subseteq Keys, NEW s \in Summonses,
         NEW ACTION ignored, ignored => RunTypeOK',
         HandleSummons(s, ignored)
  PROVE  RunTypeOK'
<1>1. s.deep \in BOOLEAN /\ Matches(s) \subseteq Keys
  BY ConstantsOK DEF IsSummons, Matches
<1>2. ASSUME NEW key \in Matches(s), DispatchDecree(key, FALSE, s.deep)
      PROVE  RunTypeOK'
  BY <1>1, <1>2, DispatchTypes
<1>. QED BY <1>2 DEF HandleSummons

\* Every step of the Atlas loop keeps the channels and Atlas well typed.
LEMMA AtlasTypes ==
  ASSUME ChannelsTypeOK, AtlasTypeOK, AtlasStep
  PROVE  ChannelsTypeOK' /\ AtlasTypeOK'
<1>. USE DEF ChannelsTypeOK, inputQs
<1>1. CASE AtlasSend
  <2>1. Head(outbox) \in Job
    BY <1>1 DEF AtlasSend, DispatchSent, DispatchFails, AtlasTypeOK, RunTypeOK
  <2>2. ChannelsTypeOK'
    <3>1. execQ' \in Seq(Job)
      <4>1. CASE execQ' = Append(execQ, Head(outbox))
        BY <2>1, <4>1
      <4>2. CASE UNCHANGED execQ
        BY <4>2
      <4>. QED BY <1>1, <4>1, <4>2 DEF AtlasSend, DispatchSent
    <3>. QED BY <1>1, <3>1 DEF AtlasSend
  <2>3. outbox' = <<>>
    BY <1>1 DEF AtlasSend, DispatchSent, DispatchFails
  <2>4. outbox' \in Seq(Job) /\ Len(outbox') = 0
    BY ONLY <2>3, EmptyQueue
  <2>. QED
    BY <1>1, <2>2, <2>4 DEF AtlasSend, DispatchSent, DispatchFails,
                            AtlasTypeOK, RunTypeOK, NoRun
<1>2. CASE OnRunEvent
  <2>1. runEvents' \in Seq(RunEvent)
    BY <1>2 DEF OnRunEvent
  <2>2. ASSUME HandleRunEvent(Head(runEvents).kind)
        PROVE  RunTypeOK'
    BY <2>2 DEF HandleRunEvent, AtlasTypeOK, RunTypeOK, NoRun
  <2>3. ASSUME pendingSummons # <<>>
        PROVE  Head(pendingSummons) \in Summonses /\ Tail(pendingSummons) \in Seq(Summonses)
    BY <2>3 DEF AtlasTypeOK
  <2>4. RunTypeOK' /\ pendingSummons' \in Seq(Summonses)
    <3>1. CASE /\ Pops(Head(runEvents).kind)
               /\ pendingSummons' = Tail(pendingSummons)
               /\ HandleSummons(Head(pendingSummons), HandleRunEvent(Head(runEvents).kind))
      BY <3>1, <2>2, <2>3, HandleSummonsTypes DEF Pops, AtlasTypeOK
    <3>2. CASE HandleRunEvent(Head(runEvents).kind) /\ UNCHANGED pendingSummons
      BY <3>2, <2>2 DEF AtlasTypeOK
    <3>. QED BY <1>2, <3>1, <3>2 DEF OnRunEvent
  <2>. QED BY <1>2, <2>1, <2>4 DEF OnRunEvent, AtlasTypeOK
<1>3. CASE OnSummons
  <2>1. Head(vigilQ) \in Summonses /\ vigilQ' \in Seq(Summonses)
    BY <1>3 DEF OnSummons
  <2>2. RunTypeOK' /\ pendingSummons' \in Seq(Summonses)
    <3>1. ASSUME UNCHANGED runVars
          PROVE  RunTypeOK'
      BY <3>1 DEF runVars, RunTypeOK, AtlasTypeOK
    <3>2. CASE HandleSummons(Head(vigilQ), UNCHANGED runVars) /\ UNCHANGED pendingSummons
      BY <3>1, <3>2, <2>1, HandleSummonsTypes DEF AtlasTypeOK
    <3>3. CASE UNCHANGED <<runVars, pendingSummons>>
      BY <3>1, <3>3 DEF AtlasTypeOK
    <3>4. CASE pendingSummons' = Append(pendingSummons, Head(vigilQ)) /\ UNCHANGED runVars
      BY <2>1, <3>1, <3>4 DEF AtlasTypeOK
    <3>. QED BY <1>3, <3>2, <3>3, <3>4 DEF OnSummons
  <2>. QED BY <1>3, <2>1, <2>2 DEF OnSummons, AtlasTypeOK
<1>4. CASE OnPresence
  <2>1. presenceQ' \in Seq(Signals)
    BY <1>4 DEF OnPresence
  <2>2. aborted' \subseteq Nat
    BY <1>4 DEF OnPresence, YieldToPresence, SendAbort, AtlasTypeOK, RunTypeOK
  <2>3. ChannelsTypeOK'
    BY <1>4, <2>1, <2>2 DEF OnPresence
  <2>. QED
    BY <1>4, <2>3 DEF OnPresence, YieldToPresence, AtlasTypeOK, RunTypeOK, NoRun
<1>5. ASSUME ResetState
      PROVE  /\ state' \in {"Idle", "Executing", "Yielded", "Faulted"}
             /\ activeDecreeId' \in Keys \cup {NoKey} /\ activeAbort' \in Nat
             /\ aborted' \subseteq Nat /\ resets' \in Nat
  <2>1. aborted' \subseteq Nat
    BY <1>5 DEF ResetState, SendAbort, AtlasTypeOK, RunTypeOK
  <2>. QED BY <1>5, <2>1 DEF ResetState, AtlasTypeOK, RunTypeOK, NoRun
<1>6. CASE OnReset
  BY <1>5, <1>6 DEF OnReset, AtlasTypeOK, RunTypeOK
<1>7. CASE OnShutdown
  BY <1>7 DEF OnShutdown, SendAbort, AtlasTypeOK, RunTypeOK, NoRun
<1>8. ASSUME NEW op, Receives(op)
      PROVE  Head(forgeQ) \in Command /\ forgeQ' \in Seq(Commands)
  <2>1. Head(forgeQ) \in Commands /\ forgeQ' \in Seq(Commands)
    BY <1>8 DEF Receives
  <2>. QED BY <2>1, ConstantsOK
<1>9. CASE SetPaused
  <2>1. Head(forgeQ).paused \in BOOLEAN
    BY <1>8, <1>9 DEF SetPaused, Receives, Command
  <2>. QED BY <1>8, <1>9, <2>1 DEF SetPaused, Receives, AtlasTypeOK, RunTypeOK, runVars
<1>10. CASE SaveDecree
  <2>1. Head(forgeQ).key \in Keys
    BY <1>8, <1>10 DEF SaveDecree, Receives, Command
  <2>. QED BY <1>5, <1>8, <1>10, <2>1 DEF SaveDecree, Receives, AtlasTypeOK, RunTypeOK
<1>11. CASE RemoveDecree
  BY <1>5, <1>8, <1>11 DEF RemoveDecree, Receives, AtlasTypeOK, RunTypeOK
<1>12. CASE SaveSettings
  BY <1>5, <1>8, <1>12 DEF SaveSettings, Receives, AtlasTypeOK, RunTypeOK
<1>13. CASE Housekeeping
  BY <1>8, <1>13 DEF Housekeeping,
     ReloadWards, RenameDecree, Receives, AtlasTypeOK, RunTypeOK, runVars
<1>14. CASE ManualRun
  <2>1. Head(forgeQ).key \in Keys /\ Head(forgeQ).dry \in BOOLEAN
    BY <1>8, <1>14 DEF ManualRun, Receives, Command
  <2>2. RunTypeOK'
    <3>1. CASE DispatchDecree(Head(forgeQ).key, Head(forgeQ).dry, FALSE)
      BY <2>1, <3>1, DispatchTypes DEF AtlasTypeOK
    <3>2. CASE UNCHANGED runVars
      BY <3>2 DEF AtlasTypeOK, RunTypeOK, runVars
    <3>. QED BY <1>14, <3>1, <3>2 DEF ManualRun
  <2>. QED BY <1>8, <1>14, <2>2 DEF ManualRun, Receives, AtlasTypeOK
<1>. QED
  BY <1>1, <1>2, <1>3, <1>4, <1>6, <1>7, <1>9, <1>10, <1>11, <1>12, <1>13, <1>14
  DEF AtlasStep

\* Every step of the relay and the runner keeps the channels and them well typed.
LEMMA RunnerTypes ==
  ASSUME ChannelsTypeOK, RunnerTypeOK, RelayStep \/ RunnerStep \/ RunnerDies \/ RelayDies
  PROVE  ChannelsTypeOK' /\ RunnerTypeOK'
<1>. USE DEF ChannelsTypeOK, RunnerTypeOK, RunnerPCs, inputQs, chanVars
<1>1. ASSUME NEW kind \in EventKinds, NEW from, NEW to,
             from \in RunnerPCs \ {"starting", "receiving", "dead"},
             Sends(from, kind, to)
      PROVE  runEvents' \in Seq(RunEvent)
  <2>1. job \in Job
    <3>1. running \in Seq(Job) /\ Len(running) = 1
      BY <1>1 DEF Sends
    <3>. QED BY ONLY <3>1 DEF job
  <2>2. [kind |-> kind, run |-> job.run] \in RunEvent
    BY <1>1, <2>1 DEF Job, RunEvent
  <2>. QED
    <3>1. CASE runEvents' = Append(runEvents, [kind |-> kind, run |-> job.run])
      BY <2>2, <3>1
    <3>2. CASE UNCHANGED runEvents
      BY <3>2
    <3>. QED BY <1>1, <3>1, <3>2 DEF Sends, Emit
<1>2. CASE RelayRecv
  <2>1. Head(execQ) \in Job /\ execQ' \in Seq(Job)
    BY <1>2 DEF RelayRecv
  <2>2. relay' \in Seq(Job) /\ Len(relay') = 1
    BY <1>2, <2>1, Singleton DEF RelayRecv
  <2>. QED BY <1>2, <2>1, <2>2 DEF RelayRecv
<1>3. CASE RelaySend
  <2>1. Head(relay) \in Job
    BY <1>3 DEF RelaySend
  <2>2. relay' \in Seq(Job) /\ Len(relay') = 0
    BY <1>3, EmptyQueue DEF RelaySend
  <2>3. cmdQ' \in Seq(Job)
    <3>1. CASE cmdQ' = Append(cmdQ, Head(relay))
      BY <2>1, <3>1
    <3>2. CASE UNCHANGED cmdQ
      BY <3>2
    <3>. QED BY <1>3, <3>1, <3>2 DEF RelaySend
  <2>. QED BY <1>3, <2>2, <2>3 DEF RelaySend
<1>4. CASE RunnerStart
  BY <1>4 DEF RunnerStart, Goes
<1>5. CASE RunnerRecv
  <2>1. Head(cmdQ) \in Job /\ cmdQ' \in Seq(Job)
    BY <1>5 DEF RunnerRecv
  <2>2. running' \in Seq(Job) /\ Len(running') = 1
    BY <1>5, <2>1, Singleton DEF RunnerRecv
  <2>. QED BY <1>5, <2>1, <2>2 DEF RunnerRecv
<1>6. CASE RunnerLog
  BY <1>1, <1>6 DEF RunnerLog, Sends, EventKinds
<1>7. CASE RunnerCheck
  <2>1. UNCHANGED <<relay, cmdQ, running, inhibited, late, chanVars>>
    BY <1>7 DEF RunnerCheck, Goes
  <2>2. ChannelsTypeOK'
    BY <2>1
  <2>. QED BY <1>7, <2>1, <2>2 DEF RunnerCheck, Goes
<1>8. CASE RunnerBegin
  BY <1>8 DEF RunnerBegin, Goes
<1>9. CASE RunnerEnd
  BY <1>9 DEF RunnerEnd, Goes
<1>10. CASE RunnerProgress
  BY <1>1, <1>10 DEF RunnerProgress, Sends, EventKinds
<1>11. CASE RunnerPanic
  BY <1>1, <1>11 DEF RunnerPanic, Sends, EventKinds
<1>12. CASE RunnerDone
  BY <1>1, <1>12 DEF RunnerDone, Sends, EventKinds
<1>13. CASE RunnerDies
  BY <1>13 DEF RunnerDies
<1>14. CASE RelayDies
  <2>1. relay' \in Seq(Job) /\ Len(relay') = 0 /\ execQ' \in Seq(Job)
    BY <1>14, EmptyQueue DEF RelayDies
  <2>2. ChannelsTypeOK'
    BY <1>14, <2>1 DEF RelayDies
  <2>. QED BY <1>14, <2>1, <2>2 DEF RelayDies
<1>. QED
  BY <1>2, <1>3, <1>4, <1>5, <1>6, <1>7, <1>8, <1>9, <1>10, <1>11, <1>12, <1>13, <1>14
  DEF RelayStep, RunnerStep

\* An input of the environment keeps the channels and its own count well typed.
LEMMA EnvironmentTypes ==
  ASSUME ChannelsTypeOK, used \in [Inputs -> Nat], Environment
  PROVE  ChannelsTypeOK' /\ used' \in [Inputs -> Nat]
<1>. USE DEF ChannelsTypeOK, Inputs
<1>1. ASSUME NEW i \in Inputs, Spends(i)
      PROVE  used' \in [Inputs -> Nat] /\ UNCHANGED <<execQ, runEvents, aborted, atlasUp, relayUp>>
  BY <1>1 DEF Spends
<1>2. CASE VigilSends
  <2>1. vigilQ' \in Seq(Summonses)
    BY <1>2 DEF VigilSends
  <2>. QED BY <1>1, <1>2, <2>1 DEF VigilSends
<1>3. CASE CommandArrives
  <2>1. forgeQ' \in Seq(Commands)
    BY <1>3 DEF CommandArrives
  <2>. QED BY <1>1, <1>3, <2>1 DEF CommandArrives
<1>4. CASE UserInput
  <2>1. presenceQ' \in Seq(Signals)
    BY <1>4 DEF UserInput
  <2>. QED BY <1>1, <1>4, <2>1 DEF UserInput
<1>5. CASE TrayReset
  BY <1>1, <1>5 DEF TrayReset
<1>6. CASE TrayQuit
  BY <1>1, <1>6 DEF TrayQuit
<1>. QED BY <1>2, <1>3, <1>4, <1>5, <1>6 DEF Environment

\* Each variable of the engine always holds a value of its type: what the code
\* declares in Atlas, in ExecData and in the channels of main.
THEOREM TypeCorrect == Spec => []TypeOK
<1>1. Init => TypeOK
  <2>. SUFFICES ASSUME Init PROVE TypeOK
    OBVIOUS
  <2>1. /\ vigilQ \in Seq(Summonses) /\ forgeQ \in Seq(Commands)
        /\ presenceQ \in Seq(Signals) /\ pendingSummons \in Seq(Summonses)
        /\ runEvents \in Seq(RunEvent) /\ execQ \in Seq(Job)
    BY EmptyQueue DEF Init, ChannelsInit, AtlasInit
  <2>2. /\ outbox \in Seq(Job) /\ relay \in Seq(Job) /\ cmdQ \in Seq(Job)
        /\ running \in Seq(Job)
        /\ Len(outbox) = 0 /\ Len(relay) = 0 /\ Len(running) = 0
    BY EmptyQueue DEF Init, AtlasInit, RunnerInit
  <2>3. ChannelsTypeOK
    BY <2>1, <2>2 DEF Init, ChannelsInit, ChannelsTypeOK
  <2>4. RunTypeOK
    <3>1. /\ state = "Idle" /\ activeDecreeId = NoKey /\ activeAbort = 0 /\ lastRun = 0
          /\ inGrace = FALSE /\ presenceConfig = {}
      BY DEF Init, AtlasInit, NoRun
    <3>2. Len(outbox) <= 1
      BY ONLY <2>2
    <3>3. presenceConfig \subseteq Signals
      BY ONLY <3>1
    <3>4. activeAbort \in Nat /\ lastRun \in Nat /\ activeDecreeId \in Keys \cup {NoKey}
      BY ONLY <3>1
    <3>. QED BY ONLY <2>2, <3>1, <3>2, <3>3, <3>4 DEF RunTypeOK
  <2>5. AtlasTypeOK
    BY EngineConstantsOK, <2>1, <2>4 DEF Init, AtlasInit, AtlasTypeOK
  <2>6. RunnerTypeOK
    <3>1. pc = "starting" /\ idx = 1 /\ inhibited = FALSE /\ late = 0
      BY DEF Init, RunnerInit
    <3>2. Len(relay) <= 1
      BY ONLY <2>2
    <3>3. pc \in RunnerPCs /\ (Len(running) = IF pc \in {"starting", "receiving", "dead"} THEN 0 ELSE 1)
      BY ONLY <2>2, <3>1 DEF RunnerPCs
    <3>4. idx \in Nat \ {0} /\ late \in Nat
      BY ONLY <3>1
    <3>5. inhibited \in BOOLEAN
      BY ONLY <3>1
    <3>. QED BY ONLY <2>2, <3>2, <3>3, <3>4, <3>5 DEF RunnerTypeOK
  <2>7. used \in [Inputs -> Nat]
    BY DEF Init
  <2>. QED BY <2>3, <2>5, <2>6, <2>7 DEF TypeOK
<1>2. TypeOK /\ [Next]_vars => TypeOK'
  <2>. SUFFICES ASSUME TypeOK, [Next]_vars
                PROVE  TypeOK'
    OBVIOUS
  <2>. USE DEF TypeOK
  <2>1. CASE AtlasSteps
    <3>1. CASE AtlasStep
      BY <2>1, <3>1, AtlasTypes DEF AtlasSteps, runnerVars, RunnerTypeOK
    <3>2. CASE GraceElapses
      BY <2>1, <3>2 DEF AtlasSteps, GraceElapses, chanVars, runnerVars, ChannelsTypeOK,
                        AtlasTypeOK, RunTypeOK, RunnerTypeOK
    <3>. QED BY <2>1, <3>1, <3>2 DEF AtlasSteps
  <2>2. CASE RelaySteps \/ RunnerSteps \/ TaskFails
    <3>1. ChannelsTypeOK' /\ RunnerTypeOK'
      BY <2>2, RunnerTypes DEF RelaySteps, RunnerSteps, TaskFails
    <3>. QED
      BY <2>2, <3>1 DEF RelaySteps, RunnerSteps, TaskFails, atlasVars, runVars,
                        AtlasTypeOK, RunTypeOK
  <2>3. CASE Environment
    <3>1. ChannelsTypeOK' /\ used' \in [Inputs -> Nat]
      BY <2>3, EnvironmentTypes
    <3>. QED
      BY <2>3, <3>1 DEF Environment, VigilSends, CommandArrives, UserInput, TrayReset,
         TrayQuit, Spends, atlasVars, runVars, runnerVars, AtlasTypeOK, RunTypeOK,
         RunnerTypeOK
  <2>4. CASE UNCHANGED vars
    BY <2>4 DEF vars, chanVars, atlasVars, runVars, runnerVars, ChannelsTypeOK,
       AtlasTypeOK, RunTypeOK, RunnerTypeOK
  <2>. QED BY <2>1, <2>2, <2>3, <2>4 DEF Next, Rest
<1>. QED BY <1>1, <1>2, PTL DEF Spec

-----------------------------------------------------------------------------
(* Atlas holds the abort sender of the run it is Executing *)

\* AbortHandle is not inductive alone: that a fresh run number has never been
\* aborted needs the aborted runs to be runs that were dispatched.
AbortInv == AbortHandle /\ aborted \subseteq 1..lastRun

\* What the proofs need of the types.
AbortTypes == activeAbort \in Nat /\ lastRun \in Nat

\* A dispatch begins a run that has never been aborted.
LEMMA DispatchAbort ==
  ASSUME AbortInv, AbortTypes, NEW key \in Keys, NEW dry, NEW deep,
         DispatchDecree(key, dry, deep), UNCHANGED <<aborted, atlasUp>>
  PROVE  AbortInv'
BY ConstantsOK DEF AbortInv, AbortTypes, AbortHandle, DispatchDecree, NoRun

\* A step that touches none of the variables the invariant reads.
abortVars == <<state, activeDecreeId, activeAbort, lastRun, aborted, atlasUp>>
LEMMA StutterAbort ==
  ASSUME AbortInv, UNCHANGED abortVars
  PROVE  AbortInv'
BY DEF AbortInv, AbortHandle, abortVars

\* Every step of the Atlas loop keeps the abort sender and the state together.
LEMMA AtlasAbort ==
  ASSUME TypeOK, AbortInv, AtlasStep
  PROVE  AbortInv'
<1>0. AbortTypes /\ pendingSummons \in Seq(Summonses) /\ vigilQ \in Seq(Summonses)
      /\ forgeQ \in Seq(Commands) /\ registry \subseteq Keys
  BY DEF TypeOK, AtlasTypeOK, RunTypeOK, ChannelsTypeOK, AbortTypes
<1>1. ASSUME NEW s \in Summonses, NEW ACTION ignored, ignored => AbortInv',
             HandleSummons(s, ignored), UNCHANGED <<aborted, atlasUp>>
      PROVE  AbortInv'
  <2>1. Matches(s) \subseteq Keys
    BY <1>0, ConstantsOK DEF IsSummons, Matches
  <2>2. ASSUME NEW key \in Matches(s), DispatchDecree(key, FALSE, s.deep)
        PROVE  AbortInv'
    BY <1>0, <1>1, <2>1, <2>2, DispatchAbort
  <2>. QED BY <1>1, <2>2 DEF HandleSummons
<1>2. CASE AtlasSend
  <2>1. CASE DispatchSent
    BY <1>2, <2>1, StutterAbort DEF AtlasSend, DispatchSent, abortVars
  <2>2. CASE DispatchFails /\ activeAbort' = NoRun
    BY <1>2, <2>2 DEF AtlasSend, DispatchFails, AbortInv, AbortHandle
  <2>. QED BY <1>2, <2>1, <2>2 DEF AtlasSend
<1>3. CASE OnRunEvent
  <2>0. UNCHANGED <<aborted, atlasUp>> /\ atlasUp
    BY <1>3 DEF OnRunEvent, Selecting
  <2>1. ASSUME HandleRunEvent(Head(runEvents).kind)
        PROVE  AbortInv'
    BY <2>0, <2>1 DEF HandleRunEvent, AbortInv, AbortHandle
  <2>2. ASSUME pendingSummons # <<>>
        PROVE  Head(pendingSummons) \in Summonses
    BY <1>0, <2>2
  <2>3. CASE /\ Pops(Head(runEvents).kind)
             /\ HandleSummons(Head(pendingSummons), HandleRunEvent(Head(runEvents).kind))
    BY <1>1, <2>0, <2>1, <2>2, <2>3 DEF Pops
  <2>. QED BY <1>3, <2>1, <2>3 DEF OnRunEvent
<1>4. CASE OnSummons
  <2>0. UNCHANGED <<aborted, atlasUp>> /\ Head(vigilQ) \in Summonses
    BY <1>0, <1>4 DEF OnSummons
  <2>1. ASSUME UNCHANGED runVars
        PROVE  AbortInv'
    BY <2>0, <2>1, StutterAbort DEF runVars, abortVars
  <2>. QED BY <1>1, <1>4, <2>0, <2>1 DEF OnSummons
<1>5. CASE OnPresence
  <2>1. CASE YieldsTo(Head(presenceQ)) /\ YieldToPresence
    BY <1>0, <1>5, <2>1 DEF OnPresence, Selecting, YieldsTo, YieldToPresence, SendAbort, AbortInv,
                     AbortHandle, AbortTypes, NoRun
  <2>2. CASE UNCHANGED <<aborted, activeAbort, state>>
    BY <1>5, <2>2, StutterAbort DEF OnPresence, abortVars
  <2>. QED BY <1>5, <2>1, <2>2 DEF OnPresence
<1>6. ASSUME ResetState, UNCHANGED <<lastRun, atlasUp>>
      PROVE  AbortInv'
  <2>1. CASE state = "Idle" /\ UNCHANGED <<state, activeDecreeId, activeAbort, aborted>>
    BY <1>6, <2>1, StutterAbort DEF abortVars
  <2>2. CASE state' = "Idle" /\ activeDecreeId' = NoKey /\ activeAbort' = NoRun
             /\ SendAbort(activeAbort)
    BY <1>0, <1>6, <2>2 DEF SendAbort, AbortInv, AbortHandle, AbortTypes, NoRun
  <2>. QED BY <1>6, <2>1, <2>2 DEF ResetState
<1>7. CASE OnReset
  BY <1>6, <1>7 DEF OnReset
<1>8. CASE OnShutdown
  BY <1>0, <1>8 DEF OnShutdown, SendAbort, AbortInv, AbortHandle, AbortTypes, NoRun
<1>9. CASE SaveDecree \/ RemoveDecree \/ SaveSettings
  BY <1>6, <1>9 DEF SaveDecree, RemoveDecree, SaveSettings, Receives
<1>10. CASE SetPaused \/ Housekeeping
  BY <1>10, StutterAbort DEF SetPaused, Housekeeping,
     ReloadWards, RenameDecree, Receives, runVars, abortVars
<1>11. CASE ManualRun
  <2>0. UNCHANGED <<aborted, atlasUp>>
    BY <1>11 DEF ManualRun, Receives
  <2>1. CASE DispatchDecree(Head(forgeQ).key, Head(forgeQ).dry, FALSE)
             /\ Head(forgeQ).key \in registry
    BY <1>0, <2>0, <2>1, DispatchAbort
  <2>2. CASE UNCHANGED runVars
    BY <2>0, <2>2, StutterAbort DEF runVars, abortVars
  <2>. QED BY <1>11, <2>1, <2>2 DEF ManualRun
<1>. QED
  BY <1>2, <1>3, <1>4, <1>5, <1>7, <1>8, <1>9, <1>10, <1>11 DEF AtlasStep

\* Every reachable state keeps it.
LEMMA AbortInvariant == Spec => []AbortInv
<1>1. Init => AbortInv
  BY DEF Init, ChannelsInit, AtlasInit, AbortInv, AbortHandle, NoRun
<1>2. TypeOK /\ AbortInv /\ [Next]_vars => AbortInv'
  <2>. SUFFICES ASSUME TypeOK, AbortInv, [Next]_vars
                PROVE  AbortInv'
    OBVIOUS
  <2>1. CASE AtlasSteps
    <3>1. CASE AtlasStep
      BY <3>1, AtlasAbort
    <3>2. CASE GraceElapses
      BY <3>2, StutterAbort DEF GraceElapses, chanVars, abortVars
    <3>. QED BY <2>1, <3>1, <3>2 DEF AtlasSteps
  <2>2. CASE RelaySteps
    BY <2>2, StutterAbort DEF RelaySteps, RelayStep, RelayRecv, RelaySend, atlasVars,
       runVars, chanVars, abortVars
  <2>3. CASE RunnerSteps
    BY <2>3, StutterAbort DEF RunnerSteps, RunnerStep, RunnerStart, RunnerRecv, RunnerLog,
       RunnerCheck, RunnerBegin, RunnerEnd, RunnerProgress, RunnerPanic, RunnerDone,
       Goes, Sends, atlasVars, runVars, chanVars, abortVars
  <2>4. CASE TaskFails
    BY <2>4, StutterAbort DEF TaskFails, RunnerDies, RelayDies, atlasVars, runVars,
       chanVars, abortVars
  <2>5. CASE Environment
    BY <2>5, StutterAbort DEF Environment, VigilSends, CommandArrives, UserInput,
       TrayReset, TrayQuit, Spends, atlasVars, runVars, abortVars
  <2>6. CASE UNCHANGED vars
    BY <2>6, StutterAbort DEF vars, chanVars, atlasVars, runVars, abortVars
  <2>. QED BY <2>1, <2>2, <2>3, <2>4, <2>5, <2>6 DEF Next, Rest
<1>. QED BY TypeCorrect, <1>1, <1>2, PTL DEF Spec

\* Atlas holds an abort sender exactly while it is Executing, and it is that of
\* the last run: reset_state, yield_to_presence, handle_run_event and
\* dispatch_decree keep active_abort, active_decree_id and state together.
THEOREM AbortHandleHolds == Spec => []AbortHandle
<1>1. AbortInv => AbortHandle
  BY DEF AbortInv
<1>. QED BY AbortInvariant, <1>1, PTL

-----------------------------------------------------------------------------
(* An aborted run begins at most one more action *)

\* Why one and not two: after an action begun late the runner is on its way to
\* the check at the top of its loop, with a run that stays aborted.
LateInv ==
  /\ late \in {0, 1}
  /\ late = 1 => /\ job.run \in aborted
                 /\ pc \in {"acting", "reporting", "panicking", "checking", "finishing"}

\* A step that leaves the runner at its node and takes back no abort.
LEMMA StutterLate ==
  ASSUME LateInv, UNCHANGED <<late, running, pc>>, aborted \subseteq aborted'
  PROVE  LateInv'
BY DEF LateInv, job

\* The steps of the Atlas loop only add to the aborted runs.
LEMMA AtlasAborts ==
  ASSUME AtlasStep \/ GraceElapses
  PROVE  aborted \subseteq aborted'
BY DEF AtlasStep, AtlasSend, OnRunEvent, OnSummons, OnPresence,
       YieldToPresence, OnReset, OnShutdown, SetPaused, SaveDecree, RemoveDecree,
       SaveSettings, Housekeeping,
       ReloadWards, RenameDecree, ManualRun, ResetState, SendAbort, GraceElapses, chanVars

\* Every step of the runner keeps its count of late actions at one or none.
LEMMA RunnerLate ==
  ASSUME LateInv, RunnerStep
  PROVE  LateInv'
<1>. USE DEF LateInv, job, chanVars
<1>1. CASE RunnerStart
  BY <1>1 DEF RunnerStart, Goes
<1>2. CASE RunnerRecv
  BY <1>2 DEF RunnerRecv
<1>3. CASE RunnerLog
  BY <1>3 DEF RunnerLog, Sends
<1>4. CASE RunnerCheck
  BY <1>4 DEF RunnerCheck, Goes
<1>5. CASE RunnerBegin
  BY <1>5 DEF RunnerBegin, Goes
<1>6. CASE RunnerEnd
  BY <1>6 DEF RunnerEnd, Goes
<1>7. CASE RunnerProgress
  BY <1>7 DEF RunnerProgress, Sends
<1>8. CASE RunnerPanic
  BY <1>8 DEF RunnerPanic, Sends
<1>9. CASE RunnerDone
  BY <1>9 DEF RunnerDone, Sends
<1>. QED
  BY <1>1, <1>2, <1>3, <1>4, <1>5, <1>6, <1>7, <1>8, <1>9 DEF RunnerStep

\* Every reachable state keeps it.
LEMMA LateInvariant == Spec => []LateInv
<1>1. Init => LateInv
  BY DEF Init, RunnerInit, LateInv
<1>2. LateInv /\ [Next]_vars => LateInv'
  <2>. SUFFICES ASSUME LateInv, [Next]_vars
                PROVE  LateInv'
    OBVIOUS
  <2>1. CASE AtlasSteps
    BY <2>1, AtlasAborts, StutterLate DEF AtlasSteps, runnerVars
  <2>2. CASE RelaySteps
    BY <2>2, StutterLate DEF RelaySteps, RelayStep, RelayRecv, RelaySend, chanVars
  <2>3. CASE RunnerSteps
    BY <2>3, RunnerLate DEF RunnerSteps
  <2>4. CASE TaskFails
    BY <2>4 DEF TaskFails, RunnerDies, RelayDies, LateInv, job, chanVars
  <2>5. CASE Environment
    BY <2>5, StutterLate DEF Environment, VigilSends, CommandArrives, UserInput,
       TrayReset, TrayQuit, Spends, runnerVars
  <2>6. CASE UNCHANGED vars
    BY <2>6, StutterLate DEF vars, chanVars, runnerVars
  <2>. QED BY <2>1, <2>2, <2>3, <2>4, <2>5, <2>6 DEF Next, Rest
<1>. QED BY <1>1, <1>2, PTL DEF Spec

\* The runner polls the abort channel at the top of each node: once a yield, a
\* reset or a shutdown has sent the abort, at most the action whose delay it
\* was in is begun.
THEOREM AbortStopsRunHolds == Spec => []AbortStopsRun
<1>1. LateInv => AbortStopsRun
  BY DEF LateInv, AbortStopsRun
<1>. QED BY LateInvariant, <1>1, PTL

-----------------------------------------------------------------------------
(* A paused engine starts no live run *)

\* The Vigil branch drops the summons, the pop after an event waits for the
\* resume, and ManualRun lets only a dry run through.
LEMMA AtlasPaused ==
  ASSUME TypeOK, AtlasStep, paused, lastRun' > lastRun
  PROVE  Head(outbox').dry
<1>0. lastRun \in Nat
  BY DEF TypeOK, AtlasTypeOK, RunTypeOK
<1>1. lastRun' # lastRun
  BY <1>0
<1>2. CASE ManualRun
  <2>1. CASE /\ ~paused \/ Head(forgeQ).dry
             /\ DispatchDecree(Head(forgeQ).key, Head(forgeQ).dry, FALSE)
    BY <1>1, <2>1 DEF DispatchDecree
  <2>. QED BY <1>1, <1>2, <2>1 DEF ManualRun, runVars
<1>3. ~OnRunEvent
  BY <1>1 DEF OnRunEvent, Pops, HandleRunEvent
<1>4. ~OnSummons
  BY <1>1 DEF OnSummons, runVars
<1>. QED
  BY <1>1, <1>2, <1>3, <1>4 DEF AtlasStep, AtlasSend, OnPresence, OnReset,
     OnShutdown, SetPaused, SaveDecree, RemoveDecree, SaveSettings, Housekeeping,
     ReloadWards, RenameDecree, runVars

\* While the engine is paused no branch of the Atlas loop dispatches a live run.
THEOREM PausedRunsNothingHolds == Spec => PausedRunsNothing
<1>1. TypeOK /\ [Next]_vars => [paused /\ lastRun' > lastRun => Head(outbox').dry]_vars
  <2>. SUFFICES ASSUME TypeOK, Next, paused, lastRun' > lastRun
                PROVE  Head(outbox').dry
    OBVIOUS
  <2>0. lastRun' # lastRun
    BY DEF TypeOK, AtlasTypeOK, RunTypeOK
  <2>1. CASE AtlasStep
    BY <2>1, AtlasPaused
  <2>. QED
    BY <2>0, <2>1 DEF Next, AtlasSteps, GraceElapses, RelaySteps, RunnerSteps, TaskFails,
       Environment, VigilSends, CommandArrives, UserInput, TrayReset, TrayQuit, Spends,
       Rest, vars, atlasVars, runVars
<1>. QED BY TypeCorrect, <1>1, PTL DEF Spec, PausedRunsNothing

-----------------------------------------------------------------------------
(* A job moves from one queue to the next *)

\* Moving the head of b to the end of a leaves the two joined as they were.
LEMMA HeadMoves ==
  ASSUME NEW S, NEW a \in Seq(S), NEW b \in Seq(S), b # <<>>
  PROVE  /\ (a \o <<Head(b)>>) \o Tail(b) = (a \o <<>>) \o b
         /\ Append(a, Head(b)) \in Seq(S)
<1>1. Head(b) \in S /\ Tail(b) \in Seq(S) /\ <<Head(b)>> \in Seq(S)
  BY HeadTailProperties
<1>2. <<Head(b)>> \o Tail(b) = b
  <2>1. <<Head(b)>> \o Tail(b) \in Seq(S) /\ Len(<<Head(b)>> \o Tail(b)) = Len(b)
    BY <1>1, ConcatProperties, HeadTailProperties, LenProperties
  <2>2. \A i \in 1 .. Len(b) : (<<Head(b)>> \o Tail(b))[i] = b[i]
    <3>. TAKE i \in 1 .. Len(b)
    <3>1. CASE i = 1
      BY <1>1, <3>1, ConcatProperties, HeadTailProperties, LenProperties
    <3>2. CASE i # 1
      <4>1. i - 1 \in 1 .. Len(Tail(b)) /\ Len(<<Head(b)>>) = 1
        BY <3>2, HeadTailProperties, LenProperties
      <4>2. (<<Head(b)>> \o Tail(b))[i] = Tail(b)[i - 1]
        BY <1>1, <4>1, ConcatProperties, HeadTailProperties, LenProperties
      <4>3. Tail(b)[i - 1] = b[(i - 1) + 1]
        BY <4>1, HeadTailProperties
      <4>. QED BY <4>2, <4>3, LenProperties
    <3>. QED BY <3>1, <3>2
  <2>. QED BY <2>1, <2>2, SeqEqual
<1>3. (a \o <<Head(b)>>) \o Tail(b) = a \o (<<Head(b)>> \o Tail(b))
  BY <1>1, ConcatAssociative
<1>4. a \o <<>> = a
  BY ConcatEmptySeq
<1>. QED BY <1>1, <1>2, <1>3, <1>4, AppendProperties

\* A queue of at most one element is its head.
LEMMA OnlyHead ==
  ASSUME NEW S, NEW q \in Seq(S), Len(q) <= 1, q # <<>>
  PROVE  Len(q) = 1 /\ Head(q) \in S /\ q = <<Head(q)>>
<1>1. Len(q) \in Nat \ {0}
  BY EmptySeq
<1>2. Len(q) = 1 /\ Head(q) \in S /\ Head(q) = q[1]
  BY <1>1
<1>3. <<Head(q)>> \in Seq(S) /\ Len(<<Head(q)>>) = 1 /\ <<Head(q)>>[1] = Head(q)
  BY <1>2
<1>. QED BY <1>2, <1>3, SeqEqual

-----------------------------------------------------------------------------
(* What a step does to the pipeline *)

QueueTypes ==
  /\ running \in Seq(Job) /\ cmdQ \in Seq(Job) /\ relay \in Seq(Job)
  /\ execQ \in Seq(Job) /\ outbox \in Seq(Job)
  /\ Len(relay) <= 1 /\ Len(outbox) <= 1

\* The five queues are part of the type invariant.
LEMMA QueuesTyped ==
  ASSUME TypeOK, TypeOK'
  PROVE  QueueTypes /\ QueueTypes'
BY DEF TypeOK, ChannelsTypeOK, AtlasTypeOK, RunTypeOK, RunnerTypeOK, QueueTypes

\* The length of the joined queues is the sum of their lengths.
LEMMA FiveQueues ==
  ASSUME NEW S, NEW a \in Seq(S), NEW b \in Seq(S), NEW c \in Seq(S), NEW d \in Seq(S),
         NEW e \in Seq(S)
  PROVE  /\ a \o b \o c \o d \o e \in Seq(S)
         /\ Len(a \o b \o c \o d \o e) = Len(a) + Len(b) + Len(c) + Len(d) + Len(e)
<1>1. a \o b \in Seq(S) /\ Len(a \o b) = Len(a) + Len(b)
  BY ConcatProperties
<1>2. a \o b \o c \in Seq(S) /\ Len(a \o b \o c) = Len(a) + Len(b) + Len(c)
  BY <1>1, ConcatProperties
<1>3. /\ a \o b \o c \o d \in Seq(S)
      /\ Len(a \o b \o c \o d) = Len(a) + Len(b) + Len(c) + Len(d)
  BY <1>2, ConcatProperties
<1>. QED BY <1>3, ConcatProperties

\* So is that of the pipeline.
LEMMA PipelineTyped ==
  ASSUME QueueTypes, QueueTypes'
  PROVE  /\ Pipeline \in Seq(Job) /\ Pipeline' \in Seq(Job)
         /\ Len(Pipeline) = Len(running) + Len(cmdQ) + Len(relay) + Len(execQ) + Len(outbox)
         /\ Len(Pipeline') = Len(running') + Len(cmdQ') + Len(relay') + Len(execQ')
                               + Len(outbox')
BY FiveQueues DEF QueueTypes, Pipeline

\* The relay and the runner's recv pass a job on and keep the order.
LEMMA PassesOn ==
  ASSUME TypeOK, QueueTypes, outbox' = outbox,
         RelayRecv \/ (RelaySend /\ pc # "dead") \/ RunnerRecv
  PROVE  Pipeline' = Pipeline
<1>. USE DEF QueueTypes
<1>1. running \o cmdQ \in Seq(Job) /\ running \o <<>> = running
  BY ConcatProperties, ConcatEmptySeq
<1>2. CASE RelayRecv
  <2>1. relay = <<>> /\ execQ # <<>> /\ relay' = <<Head(execQ)>> /\ execQ' = Tail(execQ)
        /\ running' = running /\ cmdQ' = cmdQ
    BY <1>2 DEF RelayRecv
  <2>2. ((running \o cmdQ) \o <<Head(execQ)>>) \o Tail(execQ)
          = ((running \o cmdQ) \o <<>>) \o execQ
    BY <1>1, <2>1, HeadMoves
  <2>. QED BY <2>1, <2>2 DEF Pipeline
<1>3. CASE RelaySend /\ pc # "dead"
  <2>1. relay # <<>> /\ relay' = <<>> /\ cmdQ' = Append(cmdQ, Head(relay))
        /\ running' = running /\ execQ' = execQ
    BY <1>3 DEF RelaySend, chanVars
  <2>2. relay = <<Head(relay)>> /\ Head(relay) \in Job
    BY <2>1, OnlyHead
  <2>3. cmdQ' = cmdQ \o relay
    BY <2>1, <2>2, AppendIsConcat
  <2>4. running \o (cmdQ \o relay) = (running \o cmdQ) \o relay
    <3>1. running \in Seq(Job) /\ cmdQ \in Seq(Job) /\ relay \in Seq(Job)
      OBVIOUS
    <3>. QED BY ONLY <3>1, ConcatAssociative
  <2>5. (running \o (cmdQ \o relay)) \o <<>> = running \o (cmdQ \o relay)
    BY ConcatProperties, ConcatEmptySeq
  <2>. QED BY <2>1, <2>3, <2>4, <2>5 DEF Pipeline
<1>4. CASE RunnerRecv
  <2>1. cmdQ # <<>> /\ pc = "receiving" /\ running' = <<Head(cmdQ)>> /\ cmdQ' = Tail(cmdQ)
        /\ relay' = relay /\ execQ' = execQ
    BY <1>4 DEF RunnerRecv, chanVars
  <2>2. running = <<>>
    BY <2>1 DEF TypeOK, RunnerTypeOK
  <2>3. (<<>> \o <<Head(cmdQ)>>) \o Tail(cmdQ) = (<<>> \o <<>>) \o cmdQ
    BY <2>1, <2>2, HeadMoves
  <2>4. <<>> \o <<Head(cmdQ)>> = <<Head(cmdQ)>> /\ <<>> \o <<>> = running
    BY <2>1, <2>2, HeadTailProperties, ConcatEmptySeq
  <2>. QED BY <2>1, <2>2, <2>3, <2>4 DEF Pipeline
<1>. QED BY <1>2, <1>3, <1>4

-----------------------------------------------------------------------------
(* How many sequences are in flight *)

Dones(q) == {i \in DOMAIN q : q[i].kind = "Done"}

\* The Done events of a queue can be counted.
LEMMA DonesFinite ==
  ASSUME NEW q \in Seq(RunEvent)
  PROVE  IsFiniteSet(Dones(q)) /\ Cardinality(Dones(q)) \in Nat
<1>1. Len(q) \in Nat /\ Dones(q) \in SUBSET (1 .. Len(q))
  BY DEF Dones
<1>2. IsFiniteSet(1 .. Len(q))
  BY <1>1, FS_Interval
<1>3. IsFiniteSet(Dones(q))
  BY <1>1, <1>2, FS_Subset
<1>. QED BY <1>3, FS_CardinalityType

\* A Done that is sent counts one more.
LEMMA DonesAppend ==
  ASSUME NEW q \in Seq(RunEvent), NEW e \in RunEvent
  PROVE  Cardinality(Dones(Append(q, e)))
           = Cardinality(Dones(q)) + IF e.kind = "Done" THEN 1 ELSE 0
<1>. DEFINE n == Len(q) + 1
<1>1. n \notin Dones(q)
  BY LenProperties DEF Dones
<1>2. /\ DOMAIN Append(q, e) = 1 .. n /\ DOMAIN q = 1 .. Len(q)
      /\ \A i \in 1 .. Len(q) : Append(q, e)[i] = q[i]
      /\ Append(q, e)[n] = e
  BY AppendProperties, LenProperties
<1>3. Dones(Append(q, e)) = Dones(q) \cup (IF e.kind = "Done" THEN {n} ELSE {})
  BY <1>2, LenProperties DEF Dones
<1>. HIDE DEF n
<1>4. CASE e.kind = "Done"
  BY <1>1, <1>3, <1>4, DonesFinite, FS_AddElement
<1>5. CASE e.kind # "Done"
  <2>1. Dones(Append(q, e)) = Dones(q)
    BY <1>3, <1>5
  <2>. QED BY <1>5, <2>1, DonesFinite
<1>. QED BY <1>4, <1>5

\* A Done that is read counts one less.
LEMMA DonesTail ==
  ASSUME NEW q \in Seq(RunEvent), q # <<>>
  PROVE  Cardinality(Dones(Tail(q)))
           = Cardinality(Dones(q)) - IF Head(q).kind = "Done" THEN 1 ELSE 0
<1>1. /\ Tail(q) \in Seq(RunEvent) /\ Len(Tail(q)) = Len(q) - 1 /\ Len(q) \in Nat \ {0}
      /\ \A i \in 1 .. Len(q) - 1 : Tail(q)[i] = q[i + 1]
      /\ DOMAIN Tail(q) = 1 .. Len(q) - 1 /\ DOMAIN q = 1 .. Len(q) /\ Head(q) = q[1]
  BY HeadTailProperties, LenProperties, EmptySeq
<1>2. ExistsBijection(Dones(Tail(q)), Dones(q) \ {1})
  <2>. DEFINE f == [i \in Dones(Tail(q)) |-> i + 1]
  <2>1. \A i \in Dones(Tail(q)) : i \in Int /\ i + 1 \in Dones(q) \ {1}
    BY <1>1 DEF Dones
  <2>2. \A j \in Dones(q) \ {1} : j \in Int /\ j - 1 \in Dones(Tail(q)) /\ (j - 1) + 1 = j
    BY <1>1 DEF Dones
  <2>3. f \in Injection(Dones(Tail(q)), Dones(q) \ {1})
    BY <2>1 DEF Injection, IsInjective
  <2>4. f \in Surjection(Dones(Tail(q)), Dones(q) \ {1})
    BY <2>1, <2>2 DEF Surjection
  <2>. QED BY <2>3, <2>4 DEF ExistsBijection, Bijection
<1>3. Cardinality(Dones(Tail(q))) = Cardinality(Dones(q) \ {1})
  BY <1>1, <1>2, DonesFinite, FS_Bijection
<1>4. 1 \in Dones(q) <=> Head(q).kind = "Done"
  BY <1>1 DEF Dones
<1>5. Cardinality(Dones(q) \ {1})
        = IF 1 \in Dones(q) THEN Cardinality(Dones(q)) - 1 ELSE Cardinality(Dones(q))
  BY DonesFinite, FS_RemoveElement
<1>. QED BY <1>3, <1>4, <1>5, DonesFinite

\* The sequences on Atlas' side of the queues, and those on the runner's.
Before == Len(execQ) + Len(outbox) + Cardinality(Dones(runEvents))
After == Len(running) + Len(cmdQ) + Len(relay)
Room == resets + (IF state = "Idle" THEN 0 ELSE 1)

\* OverlapBound in terms of both sides and of the room there is.
LEMMA FlightCounted ==
  ASSUME TypeOK, TypeOK'
  PROVE  /\ Before \in Nat /\ After \in Nat /\ Room \in Nat
         /\ Before' \in Nat /\ After' \in Nat /\ Room' \in Nat
         /\ OverlapBound <=> Before + After <= Room
         /\ OverlapBound' <=> Before' + After' <= Room'
<1>1. /\ Cardinality(Dones(runEvents)) \in Nat /\ Cardinality(Dones(runEvents')) \in Nat
      /\ resets \in Nat /\ resets' \in Nat
  BY DonesFinite DEF TypeOK, ChannelsTypeOK, AtlasTypeOK
<1>2. QueueTypes /\ QueueTypes'
  BY QueuesTyped
<1>3. /\ Len(Pipeline) \in Nat /\ Len(Pipeline') \in Nat
      /\ Len(execQ) \in Nat /\ Len(execQ') \in Nat
      /\ Len(outbox) \in Nat /\ Len(outbox') \in Nat
      /\ After \in Nat /\ After' \in Nat
      /\ Len(Pipeline) = After + (Len(execQ) + Len(outbox))
      /\ Len(Pipeline') = After' + (Len(execQ') + Len(outbox'))
  BY <1>2, PipelineTyped DEF QueueTypes, After
<1>4. /\ InFlight = Len(Pipeline) + Cardinality(Dones(runEvents))
      /\ InFlight' = Len(Pipeline') + Cardinality(Dones(runEvents'))
  BY DEF InFlight, Dones
<1>5. Before \in Nat /\ Before' \in Nat /\ Room \in Nat /\ Room' \in Nat
  <2>1. \A r \in Nat : \A q : r + (IF q = "Idle" THEN 0 ELSE 1) \in Nat
    OBVIOUS
  <2>2. \A k, m, n \in Nat : k + m + n \in Nat
    OBVIOUS
  <2>. QED BY <1>1, <1>3, <2>1, <2>2 DEF Before, Room
<1>6. InFlight = Before + After /\ InFlight' = Before' + After'
  <2>1. \A a, e, o, n \in Nat : (a + (e + o)) + n = (e + o + n) + a
    OBVIOUS
  <2>2. InFlight = (After + (Len(execQ) + Len(outbox))) + Cardinality(Dones(runEvents))
    BY <1>3, <1>4
  <2>3. InFlight' = (After' + (Len(execQ') + Len(outbox'))) + Cardinality(Dones(runEvents'))
    BY <1>3, <1>4
  <2>4. (After + (Len(execQ) + Len(outbox))) + Cardinality(Dones(runEvents)) = Before + After
    BY ONLY <1>1, <1>3, <2>1 DEF Before
  <2>5. (After' + (Len(execQ') + Len(outbox'))) + Cardinality(Dones(runEvents'))
          = Before' + After'
    BY ONLY <1>1, <1>3, <2>1 DEF Before
  <2>. QED BY <2>2, <2>3, <2>4, <2>5
<1>7. (OverlapBound <=> InFlight <= Room) /\ (OverlapBound' <=> InFlight' <= Room')
  BY DEF OverlapBound, Room
<1>. QED BY <1>3, <1>5, <1>6, <1>7

\* A dispatch from Idle takes up the room that leaving Idle makes.
LEMMA DispatchCounted ==
  ASSUME NEW key, NEW dry, NEW deep, DispatchDecree(key, dry, deep),
         outbox = <<>>
  PROVE  /\ Len(outbox) = 0
         /\ \/ Len(outbox') = 0 /\ state' = "Idle"
            \/ Len(outbox') = 1 /\ state' # "Idle"
BY DEF DispatchDecree

\* A step of Atlas adds no more sequences than room.
LEMMA AtlasCounted ==
  ASSUME TypeOK, TypeOK', AtlasStep
  PROVE  Before' + Room <= Before + Room'
<1>. DEFINE d == Cardinality(Dones(runEvents))
<1>0. /\ d \in Nat /\ d' \in Nat /\ Len(execQ) \in Nat /\ Len(execQ') \in Nat
      /\ Len(outbox) \in Nat /\ Len(outbox') \in Nat /\ resets \in Nat /\ resets' \in Nat
  <2>1. d \in Nat /\ d' \in Nat
    BY DonesFinite DEF TypeOK, ChannelsTypeOK
  <2>2. /\ execQ \in Seq(Job) /\ execQ' \in Seq(Job)
        /\ outbox \in Seq(Job) /\ outbox' \in Seq(Job)
    BY QueuesTyped DEF QueueTypes
  <2>3. resets \in Nat /\ resets' \in Nat
    BY DEF TypeOK, AtlasTypeOK
  <2>. QED BY <2>1, <2>2, <2>3, LenProperties
<1>. HIDE DEF d
<1>1. Before = Len(execQ) + Len(outbox) + d /\ Before' = Len(execQ') + Len(outbox') + d'
  BY DEF Before, d
<1>. USE DEF Room
<1>2. CASE AtlasSend
  <2>1. d' = d /\ resets' = resets /\ outbox # <<>> /\ outbox' = <<>> /\ Len(outbox) <= 1
    BY <1>2 DEF AtlasSend, DispatchSent, DispatchFails, d, TypeOK, AtlasTypeOK, RunTypeOK
  <2>2. Len(outbox) = 1 /\ Len(outbox') = 0 /\ Head(outbox) \in Job
    BY <2>1, OnlyHead DEF TypeOK, AtlasTypeOK, RunTypeOK
  <2>3. CASE DispatchSent
    <3>1. Len(execQ') = Len(execQ) + 1
      BY <2>2, <2>3, AppendProperties DEF DispatchSent, TypeOK, ChannelsTypeOK
    <3>. QED BY <1>0, <1>1, <2>1, <2>2, <2>3, <3>1 DEF DispatchSent
  <2>4. CASE DispatchFails /\ UNCHANGED execQ
    BY <1>0, <1>1, <2>1, <2>2, <2>4 DEF DispatchFails
  <2>. QED BY <1>2, <2>3, <2>4 DEF AtlasSend
<1>3. CASE OnRunEvent
  <2>. DEFINE kind == Head(runEvents).kind
  <2>1. d' = d - IF kind = "Done" THEN 1 ELSE 0
    BY <1>3, DonesTail DEF OnRunEvent, d, TypeOK, ChannelsTypeOK
  <2>2. outbox = <<>> /\ Len(execQ') = Len(execQ) /\ UNCHANGED <<execQ, resets>>
    BY <1>3 DEF OnRunEvent, Selecting
  <2>. HIDE DEF kind
  <2>3. CASE HandleRunEvent(kind)
    BY <1>0, <1>1, <2>1, <2>2, <2>3 DEF HandleRunEvent
  <2>4. ASSUME NEW key, NEW deep, DispatchDecree(key, FALSE, deep), LeavesIdle(kind)
        PROVE  Before' + Room <= Before + Room'
    <3>1. kind = "Done" \/ state = "Idle"
      BY <2>4 DEF LeavesIdle
    <3>2. /\ Len(outbox) = 0
          /\ (Len(outbox') = 0 /\ state' = "Idle") \/ (Len(outbox') = 1 /\ state' # "Idle")
      BY <2>2, <2>4, DispatchCounted
    <3>3. CASE Len(outbox') = 0 /\ state' = "Idle"
      BY <1>0, <1>1, <2>1, <2>2, <3>1, <3>2, <3>3
    <3>4. CASE Len(outbox') = 1 /\ state' # "Idle"
      BY <1>0, <1>1, <2>1, <2>2, <3>1, <3>2, <3>4
    <3>. QED BY <3>2, <3>3, <3>4
  <2>. QED BY <1>3, <2>3, <2>4 DEF OnRunEvent, HandleSummons, Pops, kind
<1>4. CASE OnSummons
  <2>1. d' = d /\ outbox = <<>> /\ UNCHANGED <<execQ, resets>>
    BY <1>4 DEF OnSummons, Selecting, d
  <2>2. CASE UNCHANGED runVars
    BY <1>0, <1>1, <2>1, <2>2 DEF runVars
  <2>3. ASSUME NEW key, NEW deep, DispatchDecree(key, FALSE, deep), state = "Idle"
        PROVE  Before' + Room <= Before + Room'
    <3>1. /\ Len(outbox) = 0
          /\ (Len(outbox') = 0 /\ state' = "Idle") \/ (Len(outbox') = 1 /\ state' # "Idle")
      BY <2>1, <2>3, DispatchCounted
    <3>2. CASE Len(outbox') = 0 /\ state' = "Idle"
      BY <1>0, <1>1, <2>1, <2>3, <3>1, <3>2
    <3>3. CASE Len(outbox') = 1 /\ state' # "Idle"
      BY <1>0, <1>1, <2>1, <2>3, <3>1, <3>3
    <3>. QED BY <3>1, <3>2, <3>3
  <2>. QED BY <1>4, <2>2, <2>3 DEF OnSummons, HandleSummons
<1>5. CASE OnPresence
  BY <1>0, <1>1, <1>5 DEF OnPresence, YieldsTo, YieldToPresence, d
<1>6. ASSUME ResetState, UNCHANGED <<execQ, outbox, runEvents>>
      PROVE  Before' + Room <= Before + Room'
  BY <1>0, <1>1, <1>6 DEF ResetState, d
<1>7. CASE OnReset \/ SaveDecree \/ RemoveDecree \/ SaveSettings
  BY <1>6, <1>7 DEF OnReset, SaveDecree, RemoveDecree, SaveSettings, Receives
<1>8. CASE OnShutdown \/ SetPaused \/ Housekeeping
  <2>1. UNCHANGED <<execQ, outbox, runEvents, state, resets>>
    BY <1>8 DEF OnShutdown, SetPaused, Housekeeping, ReloadWards, RenameDecree, Receives, runVars
  <2>2. d' = d /\ Room' = Room
    BY <2>1 DEF d
  <2>3. Before' = Before /\ Before \in Int /\ Room \in Int
    BY <1>0, <1>1, <2>1, <2>2
  <2>. QED BY <2>2, <2>3
<1>9. CASE ManualRun
  <2>1. d' = d /\ outbox = <<>> /\ UNCHANGED <<execQ, resets>>
    BY <1>9 DEF ManualRun, Receives, Selecting, d
  <2>2. CASE UNCHANGED runVars
    BY <1>0, <1>1, <2>1, <2>2 DEF runVars
  <2>3. CASE state = "Idle" /\ DispatchDecree(Head(forgeQ).key, Head(forgeQ).dry, FALSE)
    <3>1. /\ Len(outbox) = 0
          /\ (Len(outbox') = 0 /\ state' = "Idle") \/ (Len(outbox') = 1 /\ state' # "Idle")
      BY <2>1, <2>3, DispatchCounted
    <3>2. CASE Len(outbox') = 0 /\ state' = "Idle"
      BY <1>0, <1>1, <2>1, <2>3, <3>1, <3>2
    <3>3. CASE Len(outbox') = 1 /\ state' # "Idle"
      BY <1>0, <1>1, <2>1, <2>3, <3>1, <3>3
    <3>. QED BY <3>1, <3>2, <3>3
  <2>. QED BY <1>9, <2>2, <2>3 DEF ManualRun
<1>. QED
  BY <1>2, <1>3, <1>4, <1>5, <1>7, <1>8, <1>9 DEF AtlasStep

\* The runner's Done leaves the pipeline when it enters the events; no other
\* step of the relay and the runner adds a sequence.
LEMMA RunnerCounted ==
  ASSUME TypeOK, TypeOK', RelayStep \/ RunnerStep \/ RunnerDies \/ RelayDies, outbox' = outbox
  PROVE  Before' + After' <= Before + After
<1>. DEFINE d == Cardinality(Dones(runEvents))
<1>0. /\ d \in Nat /\ d' \in Nat
      /\ {Len(running), Len(cmdQ), Len(relay), Len(execQ), Len(outbox)} \subseteq Nat
      /\ {Len(running'), Len(cmdQ'), Len(relay'), Len(execQ'), Len(outbox')} \subseteq Nat
  <2>1. d \in Nat /\ d' \in Nat
    BY DonesFinite DEF TypeOK, ChannelsTypeOK
  <2>2. QueueTypes /\ QueueTypes'
    BY QueuesTyped
  <2>. QED BY <2>1, <2>2 DEF QueueTypes
<1>1. ASSUME NEW kind \in EventKinds, NEW from, NEW to,
             from \in RunnerPCs \ {"starting", "receiving", "dead"}, Sends(from, kind, to)
      PROVE  d' <= d + IF kind = "Done" THEN 1 ELSE 0
  <2>1. running \in Seq(Job) /\ Len(running) = 1 /\ runEvents \in Seq(RunEvent)
    BY <1>1 DEF Sends, TypeOK, RunnerTypeOK, ChannelsTypeOK
  <2>2. [kind |-> kind, run |-> job.run] \in RunEvent
    <3>1. job \in Job
      BY ONLY <2>1 DEF job
    <3>. QED BY <1>1, <3>1 DEF Job, RunEvent
  <2>3. CASE runEvents' = Append(runEvents, [kind |-> kind, run |-> job.run])
    BY <1>0, <2>1, <2>2, <2>3, DonesAppend
  <2>4. CASE UNCHANGED runEvents
    BY <1>0, <2>4
  <2>. QED BY <1>1, <2>3, <2>4 DEF Sends, Emit
<1>2. (UNCHANGED runEvents => d' = d) /\ UNCHANGED outbox
  OBVIOUS
<1>. HIDE DEF d
<1>3. /\ Before = Len(execQ) + Len(outbox) + d /\ Before' = Len(execQ') + Len(outbox') + d'
      /\ After = Len(running) + Len(cmdQ) + Len(relay)
      /\ After' = Len(running') + Len(cmdQ') + Len(relay')
  BY DEF Before, After, d
<1>4. ASSUME d' <= d, Len(running') + Len(cmdQ') + Len(relay') + Len(execQ')
                        <= Len(running) + Len(cmdQ) + Len(relay) + Len(execQ)
      PROVE  Before' + After' <= Before + After
  <2>1. \A r, c, l, e, o, a, b, f, g, x, y \in Nat :
          x <= y /\ a + b + f + g <= r + c + l + e
            => (g + o + x) + (a + b + f) <= (e + o + y) + (r + c + l)
    OBVIOUS
  <2>2. Len(outbox') = Len(outbox)
    BY <1>2
  <2>3. /\ d \in Nat /\ Len(running) \in Nat /\ Len(cmdQ) \in Nat /\ Len(relay) \in Nat
        /\ Len(execQ) \in Nat /\ Len(outbox) \in Nat
        /\ d' \in Nat /\ Len(running') \in Nat /\ Len(cmdQ') \in Nat /\ Len(relay') \in Nat
        /\ Len(execQ') \in Nat
    BY <1>0
  <2>. QED BY <1>3, <1>4, <2>1, <2>2, <2>3
<1>5. CASE RelayRecv \/ (RelaySend /\ pc # "dead") \/ RunnerRecv
  <2>1. Pipeline' = Pipeline /\ d' = d
    BY <1>2, <1>5, QueuesTyped, PassesOn DEF RelayRecv, RelaySend, RunnerRecv, chanVars
  <2>2. /\ Len(Pipeline) = Len(running) + Len(cmdQ) + Len(relay) + Len(execQ) + Len(outbox)
        /\ Len(Pipeline') = Len(running') + Len(cmdQ') + Len(relay') + Len(execQ')
                              + Len(outbox')
    BY QueuesTyped, PipelineTyped
  <2>3. Len(running') + Len(cmdQ') + Len(relay') + Len(execQ')
          <= Len(running) + Len(cmdQ) + Len(relay) + Len(execQ)
    BY <1>0, <1>2, <2>1, <2>2
  <2>. QED BY <1>0, <1>4, <2>1, <2>3
<1>6. CASE RelaySend /\ pc = "dead"
  <2>1. UNCHANGED <<running, cmdQ, execQ, runEvents>> /\ relay' = <<>>
    BY <1>6 DEF RelaySend, chanVars
  <2>2. Len(relay') = 0
    BY <2>1
  <2>. QED BY <1>0, <1>2, <1>4, <2>1, <2>2
<1>7. CASE RunnerStart \/ RunnerCheck \/ RunnerBegin \/ RunnerEnd
  <2>1. UNCHANGED <<running, cmdQ, relay, execQ, runEvents>>
    BY <1>7 DEF RunnerStart, RunnerCheck, RunnerBegin, RunnerEnd, Goes, chanVars
  <2>. QED BY <1>0, <1>2, <1>4, <2>1
<1>8. CASE RunnerLog \/ RunnerProgress \/ RunnerPanic
  <2>1. UNCHANGED <<running, cmdQ, relay, execQ>>
    BY <1>8 DEF RunnerLog, RunnerProgress, RunnerPanic, Sends
  <2>2. d' <= d + 0
    BY <1>1, <1>8 DEF RunnerLog, RunnerProgress, RunnerPanic, EventKinds, RunnerPCs
  <2>. QED BY <1>0, <1>4, <2>1, <2>2
<1>9. CASE RunnerDone
  <2>1. UNCHANGED <<cmdQ, relay, execQ>> /\ running' = <<>> /\ Len(running) = 1
    BY <1>9 DEF RunnerDone, Sends, TypeOK, RunnerTypeOK
  <2>2. d' <= d + 1
    BY <1>1, <1>9 DEF RunnerDone, EventKinds, RunnerPCs
  <2>3. Len(running') = 0
    BY <2>1
  <2>. QED BY <1>0, <1>2, <1>3, <2>1, <2>2, <2>3
<1>10. CASE RunnerDies
  <2>1. UNCHANGED <<running, relay, execQ, runEvents>> /\ cmdQ' = <<>>
    BY <1>10 DEF RunnerDies, chanVars
  <2>2. Len(cmdQ') = 0
    BY <2>1
  <2>. QED BY <1>0, <1>2, <1>4, <2>1, <2>2
<1>11. CASE RelayDies
  <2>1. UNCHANGED <<running, cmdQ, runEvents>> /\ relay' = <<>> /\ execQ' = <<>>
    BY <1>11 DEF RelayDies
  <2>2. Len(relay') = 0 /\ Len(execQ') = 0
    BY <2>1
  <2>. QED BY <1>0, <1>2, <1>4, <2>1, <2>2
<1>. QED
  BY <1>5, <1>6, <1>7, <1>8, <1>9, <1>10, <1>11 DEF RelayStep, RunnerStep

\* Between the executor queues and the run events there is at most one sequence
\* for each reset of a busy engine, and the one Atlas is busy with, whatever
\* fails or is removed meanwhile: every dispatch starts from Idle, and Idle is
\* reached only with a Done or by a reset.
THEOREM OverlapBoundHolds == Spec => []OverlapBound
<1>1. Init => OverlapBound
  <2>. SUFFICES ASSUME Init PROVE OverlapBound
    OBVIOUS
  <2>1. /\ running = <<>> /\ cmdQ = <<>> /\ relay = <<>> /\ execQ = <<>> /\ outbox = <<>>
        /\ runEvents = <<>> /\ resets = 0 /\ state = "Idle"
    BY DEF Init, ChannelsInit, AtlasInit, RunnerInit
  <2>2. Len(Pipeline) = 0
    BY <2>1 DEF Pipeline
  <2>3. {i \in DOMAIN runEvents : runEvents[i].kind = "Done"} = {}
    BY <2>1
  <2>. QED BY <2>1, <2>2, <2>3, FS_EmptySet DEF OverlapBound, InFlight
<1>2. TypeOK /\ TypeOK' /\ OverlapBound /\ [Next]_vars => OverlapBound'
  <2>. SUFFICES ASSUME TypeOK, TypeOK', OverlapBound, [Next]_vars
                PROVE  OverlapBound'
    OBVIOUS
  <2>0. /\ Before \in Nat /\ After \in Nat /\ Room \in Nat
        /\ Before' \in Nat /\ After' \in Nat /\ Room' \in Nat
        /\ Before + After <= Room
        /\ Before' + After' <= Room' => OverlapBound'
    BY FlightCounted
  <2>1. CASE AtlasStep /\ UNCHANGED runnerVars
    <3>1. After' = After
      BY <2>1 DEF After, runnerVars
    <3>2. Before' + Room <= Before + Room'
      BY <2>1, AtlasCounted
    <3>3. \A b, a, r, c, s \in Nat : b + a <= r /\ c + r <= b + s => c + a <= s
      OBVIOUS
    <3>. QED BY <2>0, <3>1, <3>2, <3>3
  <2>2. CASE (RelayStep \/ RunnerStep \/ RunnerDies \/ RelayDies) /\ UNCHANGED atlasVars
    <3>1. Room' = Room /\ outbox' = outbox
      BY <2>2 DEF Room, atlasVars, runVars
    <3>2. Before' + After' <= Before + After
      BY <2>2, <3>1, RunnerCounted
    <3>3. \A b, a, r, c, e \in Nat : b + a <= r /\ c + e <= b + a => c + e <= r
      OBVIOUS
    <3>. QED BY <2>0, <3>1, <3>2, <3>3
  <2>3. CASE UNCHANGED <<running, cmdQ, relay, execQ, outbox, runEvents, resets, state>>
    <3>1. Before' = Before /\ After' = After /\ Room' = Room
      BY <2>3 DEF Before, After, Room
    <3>. QED BY <2>0, <3>1
  <2>4. CASE GraceElapses /\ UNCHANGED runnerVars
    BY <2>3, <2>4 DEF GraceElapses, runnerVars, chanVars
  <2>5. CASE Environment
    BY <2>3, <2>5 DEF Environment, VigilSends, CommandArrives, UserInput,
       TrayReset, TrayQuit, Spends, runnerVars, atlasVars, runVars
  <2>6. CASE UNCHANGED vars
    BY <2>3, <2>6 DEF vars, runnerVars, chanVars, atlasVars, runVars
  <2>. QED
    BY <2>1, <2>2, <2>4, <2>5, <2>6
    DEF Next, Rest, AtlasSteps, RelaySteps, RunnerSteps, TaskFails
<1>. QED BY TypeCorrect, <1>1, <1>2, PTL DEF Spec

-----------------------------------------------------------------------------
(* In which order *)

\* The runs of p are the last Len(p) of the first n, in order.
Ordered(p, n) == \A i \in DOMAIN p : p[i].run = n - Len(p) + i

\* The runs of the events q do not decrease and are at most m.
Follow(q, m) ==
  /\ \A i, j \in DOMAIN q : i <= j => q[i].run <= q[j].run
  /\ \A i \in DOMAIN q : q[i].run <= m

Waiting == cmdQ \o relay \o execQ \o outbox

OrderInv ==
  /\ RunsInOrder
  /\ relayUp
  /\ pc = "dead" => cmdQ = <<>>

\* What leaves at the front leaves the others in order.
LEMMA OrderedSuffix ==
  ASSUME NEW a \in Seq(Job), NEW b \in Seq(Job), NEW n \in Nat, Ordered(a \o b, n)
  PROVE  Ordered(b, n)
<1>. SUFFICES ASSUME NEW i \in DOMAIN b
              PROVE  b[i].run = n - Len(b) + i
  BY DEF Ordered
<1>1. /\ i \in Nat \ {0} /\ i <= Len(b) /\ Len(a) \in Nat /\ Len(b) \in Nat
      /\ Len(a \o b) = Len(a) + Len(b) /\ DOMAIN (a \o b) = 1 .. Len(a) + Len(b)
      /\ (a \o b)[Len(a) + i] = b[i]
  <2>1. i \in 1 .. Len(b)
    BY LenProperties
  <2>2. /\ a \o b \in Seq(Job) /\ Len(a \o b) = Len(a) + Len(b)
        /\ \A k \in 1 .. Len(a) + Len(b) :
             (a \o b)[k] = IF k <= Len(a) THEN a[k] ELSE b[k - Len(a)]
    BY ConcatProperties
  <2>3. /\ Len(a) + i \in 1 .. Len(a) + Len(b) /\ ~(Len(a) + i <= Len(a))
        /\ (Len(a) + i) - Len(a) = i
    BY <2>1, LenProperties
  <2>. QED BY <2>1, <2>2, <2>3, LenProperties
<1>2. Len(a) + i \in DOMAIN (a \o b)
  BY <1>1
<1>3. (a \o b)[Len(a) + i].run = n - Len(a \o b) + (Len(a) + i)
  BY <1>2 DEF Ordered
<1>4. \A x, y, k \in Nat : k - (x + y) + (x + i) = k - y + i
  BY <1>1
<1>. QED BY <1>1, <1>3, <1>4

\* So does the next run that is added behind.
LEMMA OrderedAppend ==
  ASSUME NEW p \in Seq(Job), NEW e \in Job, NEW n \in Nat, Ordered(p, n), e.run = n + 1
  PROVE  Ordered(Append(p, e), n + 1)
<1>. SUFFICES ASSUME NEW i \in DOMAIN Append(p, e)
              PROVE  Append(p, e)[i].run = (n + 1) - Len(Append(p, e)) + i
  BY DEF Ordered
<1>1. /\ Len(p) \in Nat /\ Len(Append(p, e)) = Len(p) + 1 /\ i \in 1 .. Len(p) + 1
      /\ \A k \in 1 .. Len(p) : Append(p, e)[k] = p[k]
      /\ Append(p, e)[Len(p) + 1] = e /\ DOMAIN p = 1 .. Len(p)
  BY AppendProperties, LenProperties
<1>2. CASE i \in 1 .. Len(p)
  <2>1. p[i].run = n - Len(p) + i
    BY <1>1, <1>2 DEF Ordered
  <2>. QED BY <1>1, <1>2, <2>1
<1>3. CASE i = Len(p) + 1
  BY <1>1, <1>3
<1>. QED BY <1>1, <1>2, <1>3

\* An event of the last run that may have one follows the others.
LEMMA FollowAppend ==
  ASSUME NEW q \in Seq(RunEvent), NEW e \in RunEvent, NEW m \in Int, Follow(q, m), e.run = m
  PROVE  Follow(Append(q, e), m)
<1>1. /\ Len(q) \in Nat /\ DOMAIN q = 1 .. Len(q)
      /\ DOMAIN Append(q, e) = 1 .. Len(q) + 1
      /\ \A k \in 1 .. Len(q) : Append(q, e)[k] = q[k]
      /\ Append(q, e)[Len(q) + 1] = e
  BY AppendProperties, LenProperties
<1>2. \A i \in 1 .. Len(q) + 1 : i \in 1 .. Len(q) \/ i = Len(q) + 1
  BY <1>1
<1>3. \A i \in DOMAIN Append(q, e) : Append(q, e)[i].run <= m
  BY <1>1, <1>2 DEF Follow
<1>4. ASSUME NEW i \in DOMAIN Append(q, e), NEW j \in DOMAIN Append(q, e), i <= j
      PROVE  Append(q, e)[i].run <= Append(q, e)[j].run
  <2>1. CASE j \in 1 .. Len(q)
    <3>1. i \in 1 .. Len(q)
      BY <1>1, <1>4, <2>1
    <3>. QED BY <1>1, <1>4, <2>1, <3>1 DEF Follow
  <2>2. CASE j = Len(q) + 1
    BY <1>1, <1>3, <2>2
  <2>. QED BY <1>1, <1>2, <2>1, <2>2
<1>. QED BY <1>3, <1>4 DEF Follow

\* Reading an event keeps the others in order.
LEMMA FollowTail ==
  ASSUME NEW q \in Seq(RunEvent), q # <<>>, NEW m, Follow(q, m)
  PROVE  Follow(Tail(q), m)
<1>1. /\ Len(q) \in Nat \ {0} /\ DOMAIN q = 1 .. Len(q) /\ DOMAIN Tail(q) = 1 .. Len(q) - 1
      /\ \A i \in 1 .. Len(q) - 1 : Tail(q)[i] = q[i + 1]
  BY HeadTailProperties, LenProperties, EmptySeq
<1>2. \A i \in 1 .. Len(q) - 1 : i + 1 \in 1 .. Len(q)
  BY <1>1
<1>3. \A i, j \in 1 .. Len(q) - 1 : i <= j => i + 1 <= j + 1
  BY <1>1
<1>. QED BY <1>1, <1>2, <1>3 DEF Follow

\* The pipeline is the running job and those that wait.
LEMMA WaitingBehind ==
  QueueTypes => Waiting \in Seq(Job) /\ Pipeline = running \o Waiting
<1>. SUFFICES ASSUME QueueTypes
              PROVE  Waiting \in Seq(Job) /\ Pipeline = running \o Waiting
  OBVIOUS
<1>. DEFINE a == cmdQ \o relay  b == a \o execQ
<1>0. /\ running \in Seq(Job) /\ cmdQ \in Seq(Job) /\ relay \in Seq(Job)
      /\ execQ \in Seq(Job) /\ outbox \in Seq(Job)
  BY DEF QueueTypes
<1>1. a \in Seq(Job)
  BY <1>0, ConcatProperties
<1>2. (running \o cmdQ) \o relay = running \o a
  <2>1. running \in Seq(Job) /\ cmdQ \in Seq(Job) /\ relay \in Seq(Job)
    BY <1>0
  <2>. QED BY ONLY <2>1, ConcatAssociative DEF a
<1>. HIDE DEF a
<1>3. b \in Seq(Job)
  BY <1>0, <1>1, ConcatProperties
<1>4. (running \o a) \o execQ = running \o b
  <2>1. running \in Seq(Job) /\ execQ \in Seq(Job)
    BY <1>0
  <2>. QED BY ONLY <1>1, <2>1, ConcatAssociative DEF b
<1>. HIDE DEF b
<1>5. b \o outbox \in Seq(Job)
  BY <1>0, <1>3, ConcatProperties
<1>6. (running \o b) \o outbox = running \o (b \o outbox)
  <2>1. running \in Seq(Job) /\ outbox \in Seq(Job)
    BY <1>0
  <2>. QED BY ONLY <1>3, <2>1, ConcatAssociative
<1>. QED BY <1>2, <1>4, <1>5, <1>6 DEF Pipeline, Waiting, a, b

\* A job at the head of the pipeline is its first.
LEMMA HeadAhead ==
  ASSUME NEW S, NEW a \in Seq(S), NEW b \in Seq(S), Len(a) = 1
  PROVE  /\ Len(b) \in Nat /\ Len(a \o b) = 1 + Len(b)
         /\ 1 \in DOMAIN (a \o b) /\ (a \o b)[1] = a[1]
         /\ Head(a) = a[1] /\ Head(a) \in S
<1>1. Len(b) \in Nat /\ a # <<>> /\ Head(a) = a[1] /\ Head(a) \in S
  BY LenProperties, HeadTailProperties
<1>2. a \o b \in Seq(S) /\ Len(a \o b) = 1 + Len(b) /\ (a \o b)[1] = a[1]
  BY <1>1, ConcatProperties
<1>. QED BY <1>1, <1>2, LenProperties

\* RunsInOrder in terms of the jobs that wait behind the running one.
LEMMA OrderRead ==
  ASSUME TypeOK, TypeOK'
  PROVE  /\ Waiting \in Seq(Job) /\ Waiting' \in Seq(Job)
         /\ Len(Waiting) \in Nat /\ Len(Waiting') \in Nat
         /\ lastRun - Len(Waiting) \in Int /\ lastRun' - Len(Waiting') \in Int
         /\ Pipeline = running \o Waiting /\ Pipeline' = running' \o Waiting'
         /\ RunsInOrder <=> /\ Ordered(Pipeline, lastRun)
                            /\ Follow(runEvents, lastRun - Len(Waiting))
         /\ RunsInOrder' <=> /\ Ordered(Pipeline', lastRun')
                             /\ Follow(runEvents', lastRun' - Len(Waiting'))
<1>1. QueueTypes /\ QueueTypes' /\ lastRun \in Nat /\ lastRun' \in Nat
  BY QueuesTyped DEF TypeOK, AtlasTypeOK, RunTypeOK
<1>2. /\ Waiting \in Seq(Job) /\ Waiting' \in Seq(Job)
      /\ Pipeline = running \o Waiting /\ Pipeline' = running' \o Waiting'
  <2>1. (QueueTypes => Waiting \in Seq(Job) /\ Pipeline = running \o Waiting)'
    BY WaitingBehind, PTL
  <2>. QED BY <1>1, <2>1, WaitingBehind
<1>3. running \in Seq(Job) /\ running' \in Seq(Job)
  BY <1>1 DEF QueueTypes
<1>4. /\ Len(Pipeline) = Len(running) + Len(Waiting) /\ Len(Waiting) \in Nat
      /\ Len(Pipeline') = Len(running') + Len(Waiting') /\ Len(Waiting') \in Nat
      /\ Len(running) \in Nat /\ Len(running') \in Nat
  BY <1>2, <1>3, ConcatProperties, LenProperties
<1>5. \A n, r, w \in Nat : n - (r + w) + r = n - w /\ n - w \in Int
  OBVIOUS
<1>6. /\ lastRun - Len(Pipeline) + Len(running) = lastRun - Len(Waiting)
      /\ lastRun' - Len(Pipeline') + Len(running') = lastRun' - Len(Waiting')
      /\ lastRun - Len(Waiting) \in Int /\ lastRun' - Len(Waiting') \in Int
  BY <1>1, <1>4, <1>5
<1>7. /\ RunsInOrder <=> /\ Ordered(Pipeline, lastRun)
                         /\ Follow(runEvents, lastRun - Len(Waiting))
      /\ RunsInOrder' <=> /\ Ordered(Pipeline', lastRun')
                          /\ Follow(runEvents', lastRun' - Len(Waiting'))
  BY <1>6 DEF RunsInOrder, Ordered, Follow
<1>. QED BY <1>2, <1>4, <1>6, <1>7

\* Jobs that leave at the front, or start to run, leave the rest in order.
LEMMA FrontLeaves ==
  ASSUME TypeOK, TypeOK', RunsInOrder, UNCHANGED <<lastRun, runEvents>>,
         NEW front \in Seq(Job), Pipeline = front \o Pipeline', Len(Waiting') <= Len(Waiting)
  PROVE  RunsInOrder'
<1>1. Pipeline' \in Seq(Job) /\ lastRun \in Nat
  BY QueuesTyped, PipelineTyped DEF TypeOK, AtlasTypeOK, RunTypeOK
<1>2. Ordered(Pipeline', lastRun')
  BY <1>1, OrderRead, OrderedSuffix
<1>3. \A n, w, v \in Nat : v <= w => n - w <= n - v
  OBVIOUS
<1>4. lastRun - Len(Waiting) <= lastRun' - Len(Waiting')
  <2>1. Len(Waiting) \in Nat /\ Len(Waiting') \in Nat
    BY OrderRead
  <2>. QED BY <1>1, <1>3, <2>1
<1>5. \A i \in DOMAIN runEvents : runEvents[i].run \in Int
  <2>1. runEvents \in Seq(RunEvent) /\ \A e \in RunEvent : e.run \in Int
    BY DEF TypeOK, ChannelsTypeOK, RunEvent
  <2>. QED BY <2>1, ElementOfSeq
<1>6. Follow(runEvents', lastRun' - Len(Waiting'))
  BY <1>4, <1>5, OrderRead DEF Follow
<1>. QED BY <1>2, <1>6, OrderRead

\* An event of the running sequence follows those before it.
LEMMA EventFollows ==
  ASSUME TypeOK, TypeOK', RunsInOrder, NEW kind \in EventKinds, NEW from, NEW to,
         from \in RunnerPCs \ {"starting", "receiving", "dead"}, Sends(from, kind, to)
  PROVE  Follow(runEvents', lastRun - Len(Waiting))
<1>1. running \in Seq(Job) /\ Len(running) = 1 /\ runEvents \in Seq(RunEvent)
      /\ lastRun \in Nat
  BY DEF Sends, TypeOK, RunnerTypeOK, ChannelsTypeOK, AtlasTypeOK, RunTypeOK
<1>2. job \in Job /\ job = running[1]
  BY <1>1, HeadAhead DEF job
<1>3. [kind |-> kind, run |-> job.run] \in RunEvent
  BY <1>2 DEF Job, RunEvent
<1>4. Pipeline[1] = job /\ 1 \in DOMAIN Pipeline /\ Len(Pipeline) = 1 + Len(Waiting)
  <2>1. Pipeline = running \o Waiting /\ Waiting \in Seq(Job) /\ Len(Waiting) \in Nat
    BY OrderRead
  <2>2. /\ Len(running \o Waiting) = 1 + Len(Waiting)
        /\ 1 \in DOMAIN (running \o Waiting) /\ (running \o Waiting)[1] = running[1]
    BY <1>1, <2>1, HeadAhead
  <2>. QED BY <1>2, <2>1, <2>2
<1>5. job.run = lastRun - Len(Waiting)
  <2>1. job.run = lastRun - Len(Pipeline) + 1
    BY <1>4 DEF RunsInOrder
  <2>2. \A n, w \in Nat : n - (1 + w) + 1 = n - w
    OBVIOUS
  <2>3. Len(Waiting) \in Nat
    BY OrderRead
  <2>. QED BY <1>1, <1>4, <2>1, <2>2, <2>3
<1>6. Follow(Append(runEvents, [kind |-> kind, run |-> job.run]), lastRun - Len(Waiting))
  BY <1>1, <1>3, <1>5, OrderRead, FollowAppend
<1>7. Follow(runEvents, lastRun - Len(Waiting))
  BY OrderRead
<1>. QED BY <1>6, <1>7 DEF Sends, Emit

\* A dispatch adds the next run behind all others.
LEMMA DispatchFollows ==
  ASSUME TypeOK, TypeOK', RunsInOrder, UNCHANGED <<running, cmdQ, relay, execQ>>,
         outbox = <<>>, NEW key, NEW dry, NEW deep, DispatchDecree(key, dry, deep)
  PROVE  /\ Ordered(Pipeline', lastRun')
         /\ lastRun' - Len(Waiting') = lastRun - Len(Waiting)
<1>. DEFINE e == [run |-> lastRun + 1, key |-> key, dry |-> dry]
            front == running \o cmdQ \o relay \o execQ
            held == cmdQ \o relay \o execQ
<1>1. CASE UNCHANGED <<outbox, lastRun>>
  <2>1. Pipeline' = Pipeline /\ Waiting' = Waiting /\ Ordered(Pipeline, lastRun)
    BY <1>1, OrderRead DEF Pipeline, Waiting
  <2>. QED BY <1>1, <2>1
<1>2. CASE lastRun' = lastRun + 1 /\ outbox' = <<e>>
  <2>1. e \in Job /\ lastRun \in Nat
    <3>1. outbox' \in Seq(Job) /\ Len(outbox') = 1 /\ outbox'[1] = e
      BY <1>2 DEF TypeOK, AtlasTypeOK, RunTypeOK
    <3>2. outbox'[1] \in Job
      BY ONLY <3>1
    <3>. QED BY <3>1, <3>2 DEF TypeOK, AtlasTypeOK, RunTypeOK
  <2>2. front \in Seq(Job) /\ held \in Seq(Job)
    <3>1. running \in Seq(Job) /\ cmdQ \in Seq(Job) /\ relay \in Seq(Job) /\ execQ \in Seq(Job)
      BY QueuesTyped DEF QueueTypes
    <3>2. running \o cmdQ \in Seq(Job) /\ cmdQ \o relay \in Seq(Job)
      BY <3>1, ConcatProperties
    <3>3. running \o cmdQ \o relay \in Seq(Job)
      BY <3>1, <3>2, ConcatProperties
    <3>. QED BY <3>1, <3>2, <3>3, ConcatProperties
  <2>3. /\ Pipeline = front \o <<>> /\ Pipeline' = front \o <<e>>
        /\ Waiting = held \o <<>> /\ Waiting' = held \o <<e>>
    BY <1>2 DEF Pipeline, Waiting
  <2>. HIDE DEF front, held, e
  <2>4. Pipeline = front /\ Pipeline' = Append(front, e)
    BY <2>1, <2>2, <2>3, ConcatEmptySeq, AppendIsConcat
  <2>5. Waiting = held /\ Waiting' = Append(held, e)
    BY <2>1, <2>2, <2>3, ConcatEmptySeq, AppendIsConcat
  <2>6. Len(Waiting') = Len(Waiting) + 1 /\ Len(Waiting) \in Nat
    BY <2>1, <2>2, <2>5, AppendProperties, LenProperties
  <2>7. e.run = lastRun + 1 /\ Ordered(front, lastRun)
    BY <2>4, OrderRead DEF e
  <2>8. Ordered(Append(front, e), lastRun + 1)
    BY <2>1, <2>2, <2>7, OrderedAppend
  <2>9. \A n, w \in Nat : (n + 1) - (w + 1) = n - w
    OBVIOUS
  <2>. QED BY <1>2, <2>1, <2>4, <2>6, <2>8, <2>9
<1>. QED BY <1>1, <1>2 DEF DispatchDecree

\* At its select, Atlas reads at most one event and dispatches at most one run.
LEMMA SelectKeepsOrder ==
  ASSUME TypeOK, TypeOK', RunsInOrder, UNCHANGED <<running, cmdQ, relay, execQ>>,
         runEvents' = runEvents \/ (runEvents # <<>> /\ runEvents' = Tail(runEvents)),
         outbox = <<>>,
         \/ UNCHANGED <<outbox, lastRun>>
         \/ \E key, dry, deep : DispatchDecree(key, dry, deep)
  PROVE  RunsInOrder'
<1>1. Ordered(Pipeline', lastRun') /\ lastRun' - Len(Waiting') = lastRun - Len(Waiting)
  <2>1. CASE UNCHANGED <<outbox, lastRun>>
    <3>1. Pipeline' = Pipeline /\ Waiting' = Waiting /\ Ordered(Pipeline, lastRun)
      BY <2>1, OrderRead DEF Pipeline, Waiting
    <3>. QED BY <2>1, <3>1
  <2>2. ASSUME NEW key, NEW dry, NEW deep, DispatchDecree(key, dry, deep)
        PROVE  Ordered(Pipeline', lastRun') /\ lastRun' - Len(Waiting') = lastRun - Len(Waiting)
    BY <2>2, DispatchFollows
  <2>. QED BY <2>1, <2>2
<1>2. Follow(runEvents, lastRun - Len(Waiting)) /\ runEvents \in Seq(RunEvent)
  BY OrderRead DEF TypeOK, ChannelsTypeOK
<1>3. Follow(runEvents', lastRun - Len(Waiting))
  BY <1>2, FollowTail
<1>. QED BY <1>1, <1>3, OrderRead

\* The send of a dispatch moves its job from the outbox to atlas_exec.
LEMMA SentKeepsOrder ==
  ASSUME TypeOK, TypeOK', DispatchSent, UNCHANGED <<running, cmdQ, relay>>
  PROVE  Pipeline' = Pipeline /\ Waiting' = Waiting
<1>1. outbox # <<>> /\ outbox' = <<>> /\ execQ' = Append(execQ, Head(outbox))
  BY DEF DispatchSent
<1>2. /\ outbox = <<Head(outbox)>> /\ Head(outbox) \in Job /\ execQ \in Seq(Job)
      /\ outbox \in Seq(Job)
  BY <1>1, OnlyHead, QueuesTyped DEF QueueTypes
<1>3. execQ' = execQ \o outbox /\ execQ' \in Seq(Job)
  BY <1>1, <1>2, AppendIsConcat, AppendProperties
<1>4. ASSUME NEW q \in Seq(Job)
      PROVE  (q \o execQ') \o outbox' = (q \o execQ) \o outbox
  <2>1. q \o execQ' \in Seq(Job)
    BY <1>3, ConcatProperties
  <2>2. (q \o execQ) \o outbox = q \o execQ'
    BY <1>2, <1>3, ConcatAssociative
  <2>. QED BY <1>1, <2>1, <2>2, ConcatEmptySeq
<1>5. running \o cmdQ \o relay \in Seq(Job) /\ cmdQ \o relay \in Seq(Job)
  <2>1. running \in Seq(Job) /\ cmdQ \in Seq(Job) /\ relay \in Seq(Job)
    BY QueuesTyped DEF QueueTypes
  <2>2. running \o cmdQ \in Seq(Job)
    BY <2>1, ConcatProperties
  <2>. QED BY <2>1, <2>2, ConcatProperties
<1>. QED BY <1>4, <1>5 DEF Pipeline, Waiting

\* Steps of Atlas.
LEMMA AtlasKeepsOrder ==
  ASSUME TypeOK, TypeOK', OrderInv, AtlasStep, UNCHANGED runnerVars
  PROVE  OrderInv'
<1>1. RunsInOrder /\ UNCHANGED <<running, cmdQ, relay, pc>>
  BY DEF OrderInv, runnerVars
<1>2. CASE AtlasSend
  <2>1. DispatchSent /\ UNCHANGED <<lastRun, runEvents, relayUp>>
    BY <1>2 DEF AtlasSend, DispatchSent, DispatchFails, OrderInv
  <2>2. Pipeline' = Pipeline /\ Waiting' = Waiting
    BY <1>1, <2>1, SentKeepsOrder
  <2>3. RunsInOrder'
    BY <1>1, <2>1, <2>2, OrderRead
  <2>. QED BY <1>1, <2>1, <2>3 DEF OrderInv
<1>3. CASE ~AtlasSend
  <2>1. outbox = <<>> /\ UNCHANGED <<execQ, relayUp>>
    BY <1>3 DEF AtlasStep, OnRunEvent, OnSummons, OnPresence, OnReset, OnShutdown, SetPaused,
       SaveDecree, RemoveDecree, SaveSettings, Housekeeping,
       ReloadWards, RenameDecree, ManualRun, Receives, Selecting
  <2>2. runEvents' = runEvents \/ (runEvents # <<>> /\ runEvents' = Tail(runEvents))
    BY <1>3 DEF AtlasStep, OnRunEvent, OnSummons, OnPresence, OnReset, OnShutdown, SetPaused,
       SaveDecree, RemoveDecree, SaveSettings, Housekeeping,
       ReloadWards, RenameDecree, ManualRun, Receives
  <2>3. \/ UNCHANGED <<outbox, lastRun>>
        \/ \E key, dry, deep : DispatchDecree(key, dry, deep)
    <3>1. CASE OnRunEvent
      BY <3>1 DEF OnRunEvent, HandleSummons, HandleRunEvent
    <3>2. CASE OnSummons
      BY <3>2 DEF OnSummons, HandleSummons, runVars
    <3>3. CASE ManualRun
      BY <3>3 DEF ManualRun, runVars
    <3>4. CASE OnPresence \/ OnReset \/ OnShutdown \/ SetPaused \/ SaveDecree
                 \/ RemoveDecree \/ SaveSettings \/ Housekeeping
      BY <3>4 DEF OnPresence, OnReset, OnShutdown, SetPaused, SaveDecree, RemoveDecree,
         SaveSettings, Housekeeping, ReloadWards, RenameDecree, runVars
    <3>. QED BY <1>3, <3>1, <3>2, <3>3, <3>4 DEF AtlasStep
  <2>4. RunsInOrder'
    BY <1>1, <2>1, <2>2, <2>3, SelectKeepsOrder
  <2>. QED BY <1>1, <2>1, <2>4 DEF OrderInv
<1>. QED BY <1>2, <1>3

\* What a dead runner's channel loses is at the front of the pipeline.
LEMMA DeadDrops ==
  ASSUME TypeOK, TypeOK', UNCHANGED <<running, execQ, outbox>>,
         \/ RelaySend /\ pc = "dead" /\ cmdQ = <<>>
         \/ RunnerDies
  PROVE  \E front \in Seq(Job) : Pipeline = front \o Pipeline' /\ Len(Waiting') <= Len(Waiting)
<1>1. /\ running = <<>> /\ running' = <<>>
      /\ cmdQ \in Seq(Job) /\ relay \in Seq(Job) /\ execQ \in Seq(Job) /\ outbox \in Seq(Job)
  <2>1. pc \in {"starting", "dead"}
    BY DEF RunnerDies
  <2>. QED BY <2>1 DEF TypeOK, RunnerTypeOK, AtlasTypeOK, RunTypeOK, ChannelsTypeOK
<1>2. Pipeline = Waiting /\ Pipeline' = Waiting' /\ Waiting' \in Seq(Job)
  BY <1>1, OrderRead, ConcatEmptySeq
<1>3. \A a, b \in Seq(Job) : Len(b) <= Len(a \o b)
  <2>. TAKE a, b \in Seq(Job)
  <2>1. Len(a) \in Nat /\ Len(b) \in Nat /\ Len(a \o b) = Len(a) + Len(b)
    BY ConcatProperties, LenProperties
  <2>. QED BY <2>1
<1>4. CASE RelaySend /\ pc = "dead" /\ cmdQ = <<>>
  <2>1. relay' = <<>> /\ cmdQ' = <<>> /\ execQ' = execQ /\ outbox' = outbox
    BY <1>4 DEF RelaySend
  <2>2. Waiting = (relay \o execQ) \o outbox /\ Waiting' = execQ \o outbox
    BY <1>1, <1>4, <2>1, ConcatEmptySeq DEF Waiting
  <2>3. (relay \o execQ) \o outbox = relay \o (execQ \o outbox)
    BY <1>1, ConcatAssociative
  <2>4. Waiting = relay \o Waiting'
    BY <2>2, <2>3
  <2>. QED BY <1>1, <1>2, <1>3, <2>4
<1>5. CASE RunnerDies
  <2>. DEFINE rest == relay \o execQ
  <2>1. cmdQ' = <<>> /\ relay' = relay /\ execQ' = execQ /\ outbox' = outbox
    BY <1>5 DEF RunnerDies
  <2>2. (cmdQ \o relay) \o execQ = cmdQ \o rest
    <3>1. cmdQ \in Seq(Job) /\ relay \in Seq(Job) /\ execQ \in Seq(Job)
      BY <1>1
    <3>. QED BY ONLY <3>1, ConcatAssociative
  <2>3. rest \in Seq(Job)
    BY <1>1, ConcatProperties
  <2>4. Waiting = (cmdQ \o rest) \o outbox /\ Waiting' = rest \o outbox
    BY <1>1, <2>1, <2>2, ConcatEmptySeq DEF Waiting
  <2>. HIDE DEF rest
  <2>5. (cmdQ \o rest) \o outbox = cmdQ \o (rest \o outbox)
    <3>1. cmdQ \in Seq(Job) /\ outbox \in Seq(Job)
      BY <1>1
    <3>. QED BY ONLY <2>3, <3>1, ConcatAssociative
  <2>6. Waiting = cmdQ \o Waiting'
    BY <2>4, <2>5
  <2>. QED BY <1>1, <1>2, <1>3, <2>6
<1>. QED BY <1>4, <1>5

\* Steps of the relay and of the runner.
LEMMA RunnerKeepsOrder ==
  ASSUME TypeOK, TypeOK', OrderInv, RelayStep \/ RunnerStep \/ RunnerDies,
         UNCHANGED atlasVars
  PROVE  OrderInv'
<1>0. RunsInOrder /\ relayUp /\ UNCHANGED <<outbox, lastRun>>
  BY DEF OrderInv, atlasVars, runVars
<1>1. ASSUME UNCHANGED runEvents,
             \E front \in Seq(Job) : Pipeline = front \o Pipeline' /\ Len(Waiting') <= Len(Waiting)
      PROVE  RunsInOrder'
  BY <1>0, <1>1, FrontLeaves
<1>2. CASE RelayRecv \/ (RelaySend /\ pc # "dead") \/ RunnerRecv
  <2>1. UNCHANGED <<runEvents, relayUp>> /\ (pc' = "dead" => pc = "dead" /\ cmdQ' = cmdQ)
    BY <1>2 DEF RelayRecv, RelaySend, RunnerRecv, chanVars
  <2>2. Pipeline' = Pipeline
    BY <1>0, <1>2, QueuesTyped, PassesOn
  <2>3. Len(running) <= Len(running')
    <3>1. running' = running \/ (pc = "receiving" /\ running' = <<Head(cmdQ)>>)
      BY <1>2 DEF RelayRecv, RelaySend, RunnerRecv
    <3>2. Len(running) \in Nat /\ (pc = "receiving" => Len(running) = 0)
      BY DEF TypeOK, RunnerTypeOK
    <3>3. CASE running' = running
      BY <3>2, <3>3
    <3>4. CASE pc = "receiving" /\ running' = <<Head(cmdQ)>>
      <4>1. Len(running') = 1
        BY <3>4
      <4>. QED BY <3>2, <3>4, <4>1
    <3>. QED BY <3>1, <3>3, <3>4
  <2>4. Len(Waiting') <= Len(Waiting)
    <3>1. /\ Len(Pipeline) = Len(running) + Len(Waiting) /\ Len(Waiting) \in Nat
          /\ Len(Pipeline') = Len(running') + Len(Waiting') /\ Len(Waiting') \in Nat
          /\ Len(running) \in Nat /\ Len(running') \in Nat
      <4>1. running \in Seq(Job) /\ running' \in Seq(Job)
        BY QueuesTyped DEF QueueTypes
      <4>. QED BY <4>1, OrderRead, ConcatProperties, LenProperties
    <3>2. \A p, q, r, s \in Nat : p + q = r + s /\ p <= r => s <= q
      OBVIOUS
    <3>. QED BY <2>2, <2>3, <3>1, <3>2
  <2>5. Pipeline = <<>> \o Pipeline' /\ <<>> \in Seq(Job)
    BY <2>2, QueuesTyped, PipelineTyped, ConcatEmptySeq
  <2>6. RunsInOrder'
    BY <1>1, <2>1, <2>4, <2>5
  <2>. QED BY <1>0, <2>1, <2>6 DEF OrderInv
<1>3. CASE (RelaySend /\ pc = "dead") \/ RunnerDies
  <2>1. /\ UNCHANGED <<runEvents, relayUp, running, execQ, outbox>>
        /\ pc' = "dead" => cmdQ' = <<>>
    BY <1>0, <1>3 DEF RelaySend, RunnerDies, chanVars, OrderInv
  <2>2. RunsInOrder'
    BY <1>1, <1>3, <2>1, DeadDrops DEF OrderInv
  <2>. QED BY <1>0, <2>1, <2>2 DEF OrderInv
<1>4. CASE RunnerStart \/ RunnerCheck \/ RunnerBegin \/ RunnerEnd
  <2>1. UNCHANGED <<running, cmdQ, relay, execQ, runEvents, relayUp>> /\ pc' # "dead"
    BY <1>4 DEF RunnerStart, RunnerCheck, RunnerBegin, RunnerEnd, Goes, chanVars
  <2>2. Pipeline' = Pipeline /\ Waiting' = Waiting
    BY <1>0, <2>1 DEF Pipeline, Waiting
  <2>3. RunsInOrder'
    BY <1>0, <2>1, <2>2, OrderRead
  <2>. QED BY <1>0, <2>1, <2>3 DEF OrderInv
<1>5. CASE RunnerLog \/ RunnerProgress \/ RunnerPanic
  <2>1. UNCHANGED <<running, cmdQ, relay, execQ, relayUp>> /\ pc' # "dead"
    BY <1>5 DEF RunnerLog, RunnerProgress, RunnerPanic, Sends
  <2>2. Pipeline' = Pipeline /\ Waiting' = Waiting
    BY <1>0, <2>1 DEF Pipeline, Waiting
  <2>3. Follow(runEvents', lastRun - Len(Waiting))
    BY <1>0, <1>5, EventFollows
    DEF RunnerLog, RunnerProgress, RunnerPanic, EventKinds, RunnerPCs
  <2>4. RunsInOrder'
    BY <1>0, <2>1, <2>2, <2>3, OrderRead
  <2>. QED BY <1>0, <2>1, <2>4 DEF OrderInv
<1>6. CASE RunnerDone
  <2>1. UNCHANGED <<cmdQ, relay, execQ, relayUp>> /\ pc' # "dead" /\ running' = <<>>
    BY <1>6 DEF RunnerDone, Sends
  <2>2. Waiting' = Waiting /\ Pipeline' = Waiting
    <3>1. Waiting' = Waiting
      BY <1>0, <2>1 DEF Waiting
    <3>. QED BY <2>1, <3>1, OrderRead, ConcatEmptySeq
  <2>3. Follow(runEvents', lastRun - Len(Waiting))
    BY <1>0, <1>6, EventFollows DEF RunnerDone, EventKinds, RunnerPCs
  <2>4. Ordered(Waiting, lastRun)
    <3>1. running \in Seq(Job) /\ lastRun \in Nat
      BY QueuesTyped DEF QueueTypes, TypeOK, AtlasTypeOK, RunTypeOK
    <3>2. Ordered(running \o Waiting, lastRun) /\ Waiting \in Seq(Job)
      BY <1>0, OrderRead
    <3>. QED BY <3>1, <3>2, OrderedSuffix
  <2>5. RunsInOrder'
    BY <1>0, <2>2, <2>3, <2>4, OrderRead
  <2>. QED BY <1>0, <2>1, <2>5 DEF OrderInv
<1>. QED BY <1>2, <1>3, <1>4, <1>5, <1>6 DEF RelayStep, RunnerStep

\* As long as the relay task cannot fail, no queue between Atlas and the runner
\* loses, repeats or reorders a sequence, and events come back in the order of
\* dispatch, even when the runner never starts.
THEOREM RunsInOrderHolds ==
  ASSUME "relay" \notin Faults
  PROVE  Spec => []RunsInOrder
<1>1. Init => OrderInv
  <2>. SUFFICES ASSUME Init PROVE OrderInv
    OBVIOUS
  <2>1. /\ running = <<>> /\ cmdQ = <<>> /\ relay = <<>> /\ execQ = <<>> /\ outbox = <<>>
        /\ runEvents = <<>> /\ relayUp
    BY DEF Init, ChannelsInit, AtlasInit, RunnerInit
  <2>2. DOMAIN Pipeline = {} /\ DOMAIN runEvents = {}
    BY <2>1 DEF Pipeline
  <2>. QED BY <2>1, <2>2 DEF OrderInv, RunsInOrder
<1>2. TypeOK /\ TypeOK' /\ OrderInv /\ [Next]_vars => OrderInv'
  <2>. SUFFICES ASSUME TypeOK, TypeOK', OrderInv, [Next]_vars
                PROVE  OrderInv'
    OBVIOUS
  <2>1. CASE AtlasStep /\ UNCHANGED runnerVars
    BY <2>1, AtlasKeepsOrder
  <2>2. CASE (RelayStep \/ RunnerStep \/ RunnerDies) /\ UNCHANGED atlasVars
    BY <2>2, RunnerKeepsOrder
  <2>3. CASE UNCHANGED <<running, cmdQ, relay, execQ, outbox, runEvents, lastRun, relayUp, pc>>
    <3>1. Pipeline' = Pipeline /\ Waiting' = Waiting
      BY <2>3 DEF Pipeline, Waiting
    <3>2. RunsInOrder'
      BY <2>3, <3>1, OrderRead DEF OrderInv
    <3>. QED BY <2>3, <3>2 DEF OrderInv
  <2>4. CASE GraceElapses /\ UNCHANGED runnerVars
    BY <2>3, <2>4 DEF GraceElapses, runnerVars, chanVars
  <2>5. CASE Environment
    BY <2>3, <2>5 DEF Environment, VigilSends, CommandArrives, UserInput,
       TrayReset, TrayQuit, Spends, runnerVars, atlasVars, runVars
  <2>6. CASE UNCHANGED vars
    BY <2>3, <2>6 DEF vars, runnerVars, chanVars, atlasVars, runVars
  <2>. QED
    BY <2>1, <2>2, <2>4, <2>5, <2>6
    DEF Next, Rest, AtlasSteps, RelaySteps, RunnerSteps, TaskFails
<1>3. OrderInv => RunsInOrder
  BY DEF OrderInv
<1>. QED BY TypeCorrect, <1>1, <1>2, <1>3, PTL DEF Spec

-----------------------------------------------------------------------------
(* Atlas can stop every run *)

\* The first job of q has been told to stop, is ending, or is the one Atlas holds.
Held(q) ==
  q # <<>> => \/ Head(q).run \in aborted
              \/ Winding
              \/ atlasUp /\ state = "Executing" /\ activeAbort = Head(q).run

AllHeld == Held(running) /\ Held(cmdQ) /\ Held(relay) /\ Held(execQ) /\ Held(outbox)

\* A Panic is followed by the Done of its run.
PanicEnds ==
  \A i \in DOMAIN runEvents :
    runEvents[i].kind = "Panic" =>
      \/ pc = "finishing"
      \/ \E j \in DOMAIN runEvents : j > i /\ runEvents[j].kind = "Done"

HeldInv ==
  /\ atlasUp => PanicEnds
  /\ resets = 0 => AllHeld

NoneWaits == running = <<>> /\ cmdQ = <<>> /\ relay = <<>> /\ execQ = <<>>

\* Without a reset one sequence at most is in flight, and none in an Idle engine.
LEMMA OneInFlight ==
  ASSUME TypeOK, TypeOK', OverlapBound, resets = 0
  PROVE  /\ Len(running) <= 1 /\ Len(cmdQ) <= 1 /\ Len(execQ) <= 1
         /\ running # <<>> => cmdQ = <<>> /\ relay = <<>> /\ execQ = <<>> /\ outbox = <<>>
         /\ cmdQ # <<>> => relay = <<>> /\ execQ = <<>> /\ outbox = <<>>
         /\ relay # <<>> => execQ = <<>> /\ outbox = <<>> /\ cmdQ = <<>>
         /\ execQ # <<>> => outbox = <<>>
         /\ Dones(runEvents) # {} => NoneWaits /\ outbox = <<>>
         /\ state = "Idle" => NoneWaits /\ outbox = <<>>
<1>. DEFINE d == Cardinality(Dones(runEvents))
<1>1. /\ running \in Seq(Job) /\ cmdQ \in Seq(Job) /\ relay \in Seq(Job)
      /\ execQ \in Seq(Job) /\ outbox \in Seq(Job)
  BY QueuesTyped DEF QueueTypes
<1>2. /\ Len(running) \in Nat /\ Len(cmdQ) \in Nat /\ Len(relay) \in Nat
      /\ Len(execQ) \in Nat /\ Len(outbox) \in Nat
  BY <1>1, LenProperties
<1>3. d \in Nat /\ (d = 0 <=> Dones(runEvents) = {})
  BY DonesFinite, FS_EmptySet DEF TypeOK, ChannelsTypeOK
<1>4. (Len(execQ) + Len(outbox) + d) + (Len(running) + Len(cmdQ) + Len(relay))
        <= IF state = "Idle" THEN 0 ELSE 1
  <2>1. Before + After <= Room /\ Room \in Nat
    BY FlightCounted
  <2>2. Room = IF state = "Idle" THEN 0 ELSE 1
    BY DEF Room
  <2>. QED BY <2>1, <2>2 DEF Before, After
<1>5. /\ running = <<>> <=> Len(running) = 0
      /\ cmdQ = <<>> <=> Len(cmdQ) = 0
      /\ relay = <<>> <=> Len(relay) = 0
      /\ execQ = <<>> <=> Len(execQ) = 0
      /\ outbox = <<>> <=> Len(outbox) = 0
  BY <1>1, EmptySeq
<1>. HIDE DEF d
<1>. QED BY <1>2, <1>3, <1>4, <1>5 DEF NoneWaits

\* A Panic that Atlas reads comes from the run that is ending, if any is left.
LEMMA PanicReadEnding ==
  ASSUME TypeOK, runEvents # <<>>, Head(runEvents).kind = "Panic", PanicEnds,
         Dones(runEvents) = {}
  PROVE  pc = "finishing"
<1>1. runEvents \in Seq(RunEvent) /\ 1 \in DOMAIN runEvents /\ Head(runEvents) = runEvents[1]
  BY HeadTailProperties, LenProperties, EmptySeq DEF TypeOK, ChannelsTypeOK
<1>. QED BY <1>1 DEF PanicEnds, Dones

\* With no other run in flight, the one a dispatch sends is held.
LEMMA DispatchHolds ==
  ASSUME NoneWaits, outbox = <<>>, UNCHANGED <<running, cmdQ, relay, execQ>>, atlasUp',
         \/ UNCHANGED outbox
         \/ \E key, dry, deep : DispatchDecree(key, dry, deep)
  PROVE  AllHeld'
<1>1. Held(running)' /\ Held(cmdQ)' /\ Held(relay)' /\ Held(execQ)'
  BY DEF NoneWaits, Held
<1>2. CASE outbox' = <<>>
  BY <1>1, <1>2 DEF AllHeld, Held
<1>3. ASSUME NEW key, NEW dry, NEW deep, DispatchDecree(key, dry, deep), outbox' # <<>>
      PROVE  AllHeld'
  <2>1. /\ outbox' = <<[run |-> lastRun + 1, key |-> key, dry |-> dry]>>
        /\ state' = "Executing" /\ activeAbort' = lastRun + 1
    BY <1>3 DEF DispatchDecree
  <2>2. Head(outbox').run = lastRun + 1
    BY <2>1
  <2>. QED BY <1>1, <2>1, <2>2 DEF AllHeld, Held
<1>. QED BY <1>2, <1>3

-----------------------------------------------------------------------------
(* Steps of Atlas *)

\* Atlas gives up a run only by telling it to stop or when it is ending.
LEMMA AtlasHolds ==
  ASSUME TypeOK, TypeOK', OverlapBound, HeldInv, resets = 0, resets' = 0, AtlasStep,
         UNCHANGED runnerVars
  PROVE  AllHeld'
<1>1. AllHeld /\ UNCHANGED <<running, cmdQ, relay, pc>> /\ atlasUp
  BY DEF HeldInv, runnerVars, AtlasStep, AtlasSend, DispatchSent, DispatchFails,
     OnRunEvent, OnSummons, OnPresence, OnReset, OnShutdown, SetPaused, SaveDecree,
     RemoveDecree, SaveSettings, Housekeeping,
     ReloadWards, RenameDecree, ManualRun, Receives, Selecting
<1>2. ASSUME UNCHANGED <<execQ, outbox, aborted, atlasUp, state, activeAbort>>
      PROVE  AllHeld'
  BY <1>1, <1>2 DEF AllHeld, Held, Winding
<1>3. CASE AtlasSend
  <2>1. /\ outbox # <<>> /\ outbox' = <<>> /\ NoneWaits
        /\ outbox = <<Head(outbox)>>
    <3>1. outbox # <<>> /\ outbox' = <<>>
      BY <1>3 DEF AtlasSend, DispatchSent, DispatchFails
    <3>. QED BY <3>1, OneInFlight, OnlyHead, QueuesTyped DEF QueueTypes, NoneWaits
  <2>2. CASE DispatchSent
    <3>1. /\ execQ' = Append(<<>>, Head(outbox))
          /\ UNCHANGED <<aborted, atlasUp, state, activeAbort>>
      BY <1>3, <2>1, <2>2 DEF AtlasSend, DispatchSent, NoneWaits
    <3>2. Head(execQ') = Head(outbox)
      BY <3>1
    <3>. QED BY <1>1, <2>1, <3>1, <3>2 DEF AllHeld, Held, Winding, NoneWaits
  <2>3. CASE UNCHANGED execQ
    BY <1>1, <2>1, <2>3 DEF AllHeld, Held, NoneWaits
  <2>. QED BY <1>3, <2>2, <2>3 DEF AtlasSend
<1>4. CASE OnRunEvent
  <2>. DEFINE kind == Head(runEvents).kind
  <2>1. outbox = <<>> /\ runEvents # <<>> /\ UNCHANGED <<execQ, aborted, atlasUp>>
    BY <1>4 DEF OnRunEvent, Selecting
  <2>2. kind \in EventKinds /\ (kind = "Done" => Dones(runEvents) # {})
    <3>1. /\ runEvents \in Seq(RunEvent) /\ 1 \in DOMAIN runEvents
          /\ Head(runEvents) = runEvents[1] /\ Head(runEvents) \in RunEvent
      BY <2>1, HeadTailProperties, LenProperties, EmptySeq DEF TypeOK, ChannelsTypeOK
    <3>. QED BY <3>1 DEF Dones, RunEvent
  <2>3. \/ HandleRunEvent(kind)
        \/ LeavesIdle(kind) /\ \E key, dry, deep : DispatchDecree(key, dry, deep)
    BY <1>4 DEF OnRunEvent, HandleSummons, Pops
  <2>4. HandleRunEvent(kind) => UNCHANGED outbox
    BY DEF HandleRunEvent
  <2>. HIDE DEF kind
  <2>5. CASE NoneWaits
    BY <1>1, <2>1, <2>3, <2>4, <2>5, DispatchHolds
  <2>6. CASE ~NoneWaits
    <3>1. Dones(runEvents) = {} /\ state # "Idle" /\ kind # "Done"
      BY <2>2, <2>6, OneInFlight
    <3>2. HandleRunEvent(kind)
      BY <2>3, <3>1 DEF LeavesIdle
    <3>3. CASE kind = "Panic"
      <4>1. pc' = "finishing"
        BY <1>1, <2>1, <3>1, <3>3, PanicReadEnding DEF HeldInv, kind
      <4>. QED BY <4>1 DEF AllHeld, Held, Winding
    <3>4. CASE kind # "Panic"
      <4>1. UNCHANGED <<state, activeAbort>>
        BY <3>1, <3>2, <3>4 DEF HandleRunEvent
      <4>. QED BY <1>2, <2>1, <2>4, <3>2, <4>1
    <3>. QED BY <3>3, <3>4
  <2>. QED BY <2>5, <2>6
<1>5. ASSUME outbox = <<>>, UNCHANGED <<execQ, aborted, atlasUp>>,
             \/ UNCHANGED runVars
             \/ state = "Idle" /\ \E key, dry, deep : DispatchDecree(key, dry, deep)
      PROVE  AllHeld'
  <2>1. CASE UNCHANGED runVars
    BY <1>2, <1>5, <2>1 DEF runVars
  <2>2. CASE state = "Idle" /\ \E key, dry, deep : DispatchDecree(key, dry, deep)
    <3>1. NoneWaits
      BY <2>2, OneInFlight
    <3>. QED BY <1>1, <1>5, <2>2, <3>1, DispatchHolds
  <2>. QED BY <1>5, <2>1, <2>2
<1>6. CASE OnSummons
  <2>1. outbox = <<>> /\ UNCHANGED <<execQ, aborted, atlasUp>>
    BY <1>6 DEF OnSummons, Selecting
  <2>2. \/ UNCHANGED runVars
        \/ state = "Idle" /\ \E key, dry, deep : DispatchDecree(key, dry, deep)
    BY <1>6 DEF OnSummons, HandleSummons
  <2>. QED BY <1>5, <2>1, <2>2
<1>7. CASE ManualRun
  <2>1. outbox = <<>> /\ UNCHANGED <<execQ, aborted, atlasUp>>
    BY <1>7 DEF ManualRun, Receives, Selecting
  <2>2. \/ UNCHANGED runVars
        \/ state = "Idle" /\ \E key, dry, deep : DispatchDecree(key, dry, deep)
    BY <1>7 DEF ManualRun
  <2>. QED BY <1>5, <2>1, <2>2
<1>8. ASSUME SendAbort(activeAbort), UNCHANGED <<execQ, outbox>>
      PROVE  AllHeld'
  <2>1. ASSUME NEW q \in Seq(Job), Held(q), q # <<>>
        PROVE  Head(q).run \in aborted' \/ Winding
    <3>1. Head(q) \in Job
      BY <2>1, HeadTailProperties
    <3>2. Head(q).run # NoRun
      BY <3>1 DEF Job, NoRun
    <3>. QED BY <1>8, <2>1, <3>2 DEF SendAbort, Held
  <2>2. /\ running \in Seq(Job) /\ cmdQ \in Seq(Job) /\ relay \in Seq(Job)
        /\ execQ \in Seq(Job) /\ outbox \in Seq(Job)
    BY QueuesTyped DEF QueueTypes
  <2>3. ASSUME NEW q \in Seq(Job), Held(q), NEW p, p = q
        PROVE  p # <<>> => Head(p).run \in aborted' \/ Winding
    BY <2>1, <2>3
  <2>. QED BY <1>1, <1>8, <2>1, <2>2 DEF AllHeld, Held, Winding
<1>9. CASE OnPresence
  <2>1. UNCHANGED <<execQ, outbox, atlasUp>>
    BY <1>9 DEF OnPresence
  <2>2. CASE SendAbort(activeAbort)
    BY <1>8, <2>1, <2>2
  <2>3. CASE UNCHANGED <<aborted, activeAbort, state>>
    BY <1>2, <2>1, <2>3
  <2>. QED BY <1>9, <2>2, <2>3 DEF OnPresence, YieldToPresence
<1>10. CASE OnShutdown
  BY <1>8, <1>10 DEF OnShutdown
<1>11. CASE OnReset \/ SaveDecree \/ RemoveDecree \/ SaveSettings
  <2>1. ResetState /\ UNCHANGED <<execQ, outbox, atlasUp>>
    BY <1>11 DEF OnReset, SaveDecree, RemoveDecree, SaveSettings, Receives
  <2>2. UNCHANGED <<aborted, activeAbort, state>>
    BY <2>1 DEF ResetState
  <2>. QED BY <1>2, <2>1, <2>2
<1>12. CASE SetPaused \/ Housekeeping
  BY <1>2, <1>12 DEF SetPaused, Housekeeping, ReloadWards, RenameDecree, Receives, runVars
<1>. QED
  BY <1>3, <1>4, <1>6, <1>7, <1>9, <1>10, <1>11, <1>12 DEF AtlasStep

-----------------------------------------------------------------------------
(* Steps of the relay and the runner *)

\* A queue of one is empty once its head is taken.
LEMMA LastTaken ==
  ASSUME NEW q \in Seq(Job), q # <<>>, Len(q) <= 1
  PROVE  Tail(q) = <<>>
<1>1. Tail(q) \in Seq(Job) /\ Len(Tail(q)) = Len(q) - 1 /\ Len(q) = 1
  BY OnlyHead, HeadTailProperties
<1>2. Len(Tail(q)) = 0
  BY <1>1
<1>. QED BY <1>1, <1>2, EmptySeq

\* The relay and the runner pass a held job on.
LEMMA RunnerHolds ==
  ASSUME TypeOK, TypeOK', OverlapBound, AllHeld, resets = 0,
         RelayStep \/ RunnerStep \/ RunnerDies \/ RelayDies, UNCHANGED atlasVars
  PROVE  AllHeld'
<1>1. UNCHANGED <<outbox, state, activeAbort>>
  BY DEF atlasVars, runVars
<1>2. UNCHANGED <<aborted, atlasUp>>
  BY DEF RelayStep, RunnerStep, RelayRecv, RelaySend, RunnerRecv, RunnerStart, RunnerLog,
     RunnerCheck, RunnerBegin, RunnerEnd, RunnerProgress, RunnerPanic, RunnerDone,
     RunnerDies, RelayDies, Goes, Sends, chanVars
<1>3. /\ running \in Seq(Job) /\ cmdQ \in Seq(Job) /\ relay \in Seq(Job)
      /\ execQ \in Seq(Job) /\ outbox \in Seq(Job)
  BY QueuesTyped DEF QueueTypes
<1>4. Winding => running # <<>>
  <2>1. Winding => Len(running) = 1
    BY DEF Winding, TypeOK, RunnerTypeOK
  <2>2. running = <<>> => Len(running) = 0
    OBVIOUS
  <2>. QED BY <2>1, <2>2
<1>5. CASE RelayRecv
  <2>1. /\ execQ # <<>> /\ relay' = <<Head(execQ)>> /\ execQ' = Tail(execQ)
        /\ UNCHANGED <<cmdQ, running, pc>>
    BY <1>5 DEF RelayRecv
  <2>2. execQ' = <<>> /\ Head(relay') = Head(execQ)
    BY <1>3, <2>1, OneInFlight, LastTaken
  <2>. QED BY <1>1, <1>2, <2>1, <2>2 DEF AllHeld, Held, Winding
<1>6. CASE RelaySend
  <2>1. /\ relay # <<>> /\ relay' = <<>> /\ UNCHANGED <<execQ, running, pc>>
        /\ cmdQ' = Append(cmdQ, Head(relay)) \/ UNCHANGED cmdQ
    BY <1>6 DEF RelaySend, chanVars
  <2>2. CASE cmdQ' = Append(cmdQ, Head(relay))
    <3>1. cmdQ = <<>>
      BY <2>1, OneInFlight
    <3>2. Head(cmdQ') = Head(relay)
      BY <2>2, <3>1
    <3>. QED BY <1>1, <1>2, <2>1, <3>2 DEF AllHeld, Held, Winding
  <2>3. CASE UNCHANGED cmdQ
    BY <1>1, <1>2, <2>1, <2>3 DEF AllHeld, Held, Winding
  <2>. QED BY <2>1, <2>2, <2>3
<1>7. CASE RunnerRecv
  <2>1. /\ cmdQ # <<>> /\ running' = <<Head(cmdQ)>> /\ cmdQ' = Tail(cmdQ)
        /\ UNCHANGED <<relay, execQ>> /\ ~Winding
    BY <1>7 DEF RunnerRecv, chanVars, Winding
  <2>2. /\ cmdQ' = <<>> /\ Head(running') = Head(cmdQ)
    BY <1>3, <2>1, OneInFlight, LastTaken
  <2>. QED BY <1>1, <1>2, <2>1, <2>2 DEF AllHeld, Held
<1>8. CASE RunnerDone
  <2>1. running' = <<>> /\ UNCHANGED <<relay, execQ, cmdQ>> /\ pc = "finishing"
    BY <1>8 DEF RunnerDone, Sends
  <2>2. NoneWaits \/ (cmdQ = <<>> /\ relay = <<>> /\ execQ = <<>> /\ outbox = <<>>)
    BY <1>4, <2>1, OneInFlight DEF Winding
  <2>3. cmdQ = <<>> /\ relay = <<>> /\ execQ = <<>> /\ outbox = <<>>
    BY <1>4, <2>1, OneInFlight DEF Winding
  <2>. QED BY <1>1, <2>1, <2>3 DEF AllHeld, Held
<1>9. CASE RunnerStart \/ RunnerLog \/ RunnerCheck \/ RunnerBegin \/ RunnerEnd
             \/ RunnerProgress \/ RunnerPanic
  <2>1. UNCHANGED <<running, cmdQ, relay, execQ>>
    BY <1>9 DEF RunnerStart, RunnerLog, RunnerCheck, RunnerBegin, RunnerEnd,
       RunnerProgress, RunnerPanic, Goes, Sends, chanVars
  <2>2. Winding => Winding'
    BY <1>9 DEF RunnerStart, RunnerLog, RunnerCheck, RunnerBegin, RunnerEnd,
       RunnerProgress, RunnerPanic, Goes, Sends, Winding
  <2>. QED BY <1>1, <1>2, <2>1, <2>2 DEF AllHeld, Held
<1>10. CASE RunnerDies
  <2>1. cmdQ' = <<>> /\ UNCHANGED <<running, relay, execQ>> /\ ~Winding
    BY <1>10 DEF RunnerDies, chanVars, Winding
  <2>. QED BY <1>1, <1>2, <2>1 DEF AllHeld, Held
<1>11. CASE RelayDies
  <2>1. relay' = <<>> /\ execQ' = <<>> /\ UNCHANGED <<running, cmdQ, pc>>
    BY <1>11 DEF RelayDies
  <2>. QED BY <1>1, <1>2, <2>1 DEF AllHeld, Held, Winding
<1>. QED
  BY <1>5, <1>6, <1>7, <1>8, <1>9, <1>10, <1>11 DEF RelayStep, RunnerStep

-----------------------------------------------------------------------------
(* Each Panic and its Done *)

\* The runner sends Done after a Panic, and Atlas reads them in this order.
LEMMA PanicEndsKept ==
  ASSUME TypeOK, TypeOK', atlasUp => PanicEnds,
         \/ AtlasStep /\ UNCHANGED runnerVars
         \/ RelayStep \/ RunnerStep \/ RunnerDies \/ RelayDies
  PROVE  (atlasUp => PanicEnds)'
<1>. SUFFICES ASSUME atlasUp'
              PROVE  PanicEnds'
  OBVIOUS
<1>1. atlasUp
  BY DEF AtlasStep, AtlasSend, DispatchSent, DispatchFails, OnRunEvent, OnSummons,
     OnPresence, OnReset, OnShutdown, SetPaused, SaveDecree, RemoveDecree, SaveSettings,
     Housekeeping,
     ReloadWards, RenameDecree, ManualRun, Receives, RelayStep, RunnerStep, RelayRecv, RelaySend,
     RunnerRecv, RunnerStart, RunnerLog, RunnerCheck, RunnerBegin, RunnerEnd,
     RunnerProgress, RunnerPanic, RunnerDone, RunnerDies, RelayDies, Goes, Sends, chanVars
<1>2. runEvents \in Seq(RunEvent) /\ PanicEnds
  BY <1>1 DEF TypeOK, ChannelsTypeOK
<1>3. ASSUME UNCHANGED runEvents, pc' = "finishing" \/ pc # "finishing"
      PROVE  PanicEnds'
  BY <1>2, <1>3 DEF PanicEnds
<1>4. CASE OnRunEvent /\ UNCHANGED runnerVars
  <2>1. runEvents # <<>> /\ runEvents' = Tail(runEvents) /\ UNCHANGED pc
    BY <1>4 DEF OnRunEvent, runnerVars
  <2>2. /\ Len(runEvents) \in Nat \ {0} /\ DOMAIN runEvents = 1 .. Len(runEvents)
        /\ DOMAIN runEvents' = 1 .. Len(runEvents) - 1
        /\ \A i \in 1 .. Len(runEvents) - 1 : runEvents'[i] = runEvents[i + 1]
    BY <1>2, <2>1, HeadTailProperties, LenProperties, EmptySeq
  <2>3. ASSUME NEW i \in DOMAIN runEvents', runEvents'[i].kind = "Panic", pc' # "finishing"
        PROVE  \E j \in DOMAIN runEvents' : j > i /\ runEvents'[j].kind = "Done"
    <3>1. i \in Nat /\ i + 1 \in DOMAIN runEvents /\ runEvents[i + 1].kind = "Panic"
      BY <2>2, <2>3
    <3>2. PICK j \in DOMAIN runEvents : j > i + 1 /\ runEvents[j].kind = "Done"
      BY <1>2, <2>1, <2>3, <3>1 DEF PanicEnds
    <3>3. j - 1 \in DOMAIN runEvents' /\ j - 1 > i /\ runEvents'[j - 1] = runEvents[j]
      BY <2>2, <3>1, <3>2
    <3>. QED BY <3>2, <3>3
  <2>. QED BY <2>3 DEF PanicEnds
<1>5. CASE AtlasStep /\ UNCHANGED runnerVars /\ ~OnRunEvent
  <2>1. UNCHANGED <<runEvents, pc>>
    BY <1>5 DEF AtlasStep, AtlasSend, OnSummons, OnPresence, OnReset, OnShutdown, SetPaused,
       SaveDecree, RemoveDecree, SaveSettings, Housekeeping,
       ReloadWards, RenameDecree, ManualRun, Receives, runnerVars
  <2>. QED BY <1>3, <2>1
<1>6. CASE RelayStep \/ RunnerStart \/ RunnerRecv \/ RunnerCheck \/ RunnerBegin \/ RunnerEnd
             \/ RunnerDies \/ RelayDies
  <2>1. UNCHANGED runEvents /\ (pc' = "finishing" \/ pc # "finishing")
    BY <1>6 DEF RelayStep, RelayRecv, RelaySend, RunnerStart, RunnerRecv, RunnerCheck,
       RunnerBegin, RunnerEnd, RunnerDies, RelayDies, Goes, chanVars
  <2>. QED BY <1>3, <2>1
<1>7. ASSUME NEW kind \in EventKinds, NEW from, NEW to, Sends(from, kind, to),
             from \in RunnerPCs \ {"starting", "receiving", "dead"},
             to = "finishing" \/ kind = "Done" \/ (from # "finishing" /\ kind # "Panic")
      PROVE  PanicEnds'
  <2>. DEFINE e == [kind |-> kind, run |-> job.run]
              n == Len(runEvents)
  <2>1. runEvents' = Append(runEvents, e) /\ pc = from /\ pc' = to
    BY <1>1, <1>7 DEF Sends, Emit
  <2>2. e \in RunEvent
    <3>1. running \in Seq(Job) /\ Len(running) = 1
      BY <1>7 DEF Sends, TypeOK, RunnerTypeOK
    <3>2. job \in Job
      BY ONLY <3>1 DEF job
    <3>. QED BY <1>7, <3>2 DEF Job, RunEvent
  <2>3. /\ n \in Nat /\ DOMAIN runEvents = 1 .. n /\ DOMAIN runEvents' = 1 .. n + 1
        /\ \A i \in 1 .. n : runEvents'[i] = runEvents[i]
        /\ runEvents'[n + 1].kind = kind
    <3>. HIDE DEF e
    <3>1. /\ n \in Nat /\ DOMAIN runEvents = 1 .. n /\ DOMAIN runEvents' = 1 .. n + 1
          /\ \A i \in 1 .. n : runEvents'[i] = runEvents[i]
          /\ runEvents'[n + 1] = e
      BY <1>2, <2>1, <2>2, AppendProperties, LenProperties
    <3>. QED BY <3>1 DEF e
  <2>. HIDE DEF e, n
  <2>4. ASSUME NEW i \in DOMAIN runEvents', runEvents'[i].kind = "Panic", pc' # "finishing"
        PROVE  \E j \in DOMAIN runEvents' : j > i /\ runEvents'[j].kind = "Done"
    <3>1. kind = "Done" \/ (from # "finishing" /\ kind # "Panic")
      BY <1>7, <2>1, <2>4
    <3>2. i \in 1 .. n /\ runEvents[i].kind = "Panic"
      <4>1. i # n + 1
        BY <2>3, <2>4, <3>1
      <4>. QED BY <2>3, <2>4, <4>1
    <3>3. CASE kind = "Done"
      BY <2>3, <3>2, <3>3
    <3>4. CASE from # "finishing"
      <4>1. PICK j \in DOMAIN runEvents : j > i /\ runEvents[j].kind = "Done"
        BY <1>2, <2>1, <2>3, <3>2, <3>4 DEF PanicEnds
      <4>. QED BY <2>3, <4>1
    <3>. QED BY <3>1, <3>3, <3>4
  <2>. QED BY <2>4 DEF PanicEnds
<1>8. CASE RunnerLog \/ RunnerProgress \/ RunnerPanic \/ RunnerDone
  BY <1>7, <1>8 DEF RunnerLog, RunnerProgress, RunnerPanic, RunnerDone, EventKinds, RunnerPCs
<1>. QED BY <1>4, <1>5, <1>6, <1>8 DEF RunnerStep

-----------------------------------------------------------------------------

\* The jobs of the pipeline, one by one.
LEMMA PipelineHeld ==
  ASSUME TypeOK, TypeOK', OverlapBound, AllHeld, resets = 0
  PROVE  LiveRunIsHeld
<1>1. /\ running \in Seq(Job) /\ cmdQ \in Seq(Job) /\ relay \in Seq(Job)
      /\ execQ \in Seq(Job) /\ outbox \in Seq(Job)
  BY QueuesTyped DEF QueueTypes
<1>2. \E q \in {running, cmdQ, relay, execQ, outbox} : Pipeline = q
  <2>. USE <1>1, ConcatEmptySeq DEF Pipeline, NoneWaits
  <2>1. CASE running # <<>>
    BY <2>1, OneInFlight
  <2>2. CASE running = <<>> /\ cmdQ # <<>>
    BY <2>2, OneInFlight
  <2>3. CASE running = <<>> /\ cmdQ = <<>> /\ relay # <<>>
    BY <2>3, OneInFlight
  <2>4. CASE running = <<>> /\ cmdQ = <<>> /\ relay = <<>> /\ execQ # <<>>
    BY <2>4, OneInFlight
  <2>5. CASE running = <<>> /\ cmdQ = <<>> /\ relay = <<>> /\ execQ = <<>>
    BY <2>5
  <2>. QED BY <2>1, <2>2, <2>3, <2>4, <2>5
<1>3. Pipeline \in Seq(Job) /\ Held(Pipeline) /\ Len(Pipeline) <= 1
  <2>1. Pipeline \in Seq(Job) /\ Held(Pipeline)
    BY <1>1, <1>2 DEF AllHeld
  <2>2. Len(outbox) <= 1 /\ Len(relay) <= 1
    BY DEF TypeOK, RunnerTypeOK, AtlasTypeOK, RunTypeOK
  <2>. QED BY <1>2, <2>1, <2>2, OneInFlight
<1>4. ASSUME NEW i \in DOMAIN Pipeline
      PROVE  i = 1 /\ Pipeline # <<>> /\ Pipeline[i] = Head(Pipeline)
  <2>1. i \in 1 .. Len(Pipeline) /\ Len(Pipeline) \in Nat
    BY <1>3, LenProperties
  <2>2. i = 1 /\ Len(Pipeline) = 1
    BY <1>3, <2>1
  <2>. QED BY <1>3, <2>2, HeadTailProperties
<1>. QED BY <1>3, <1>4 DEF LiveRunIsHeld, Held

\* Until a busy engine is reset, each run that can still begin an action and has
\* not been told to stop is the one Atlas is Executing, whichever tasks fail:
\* presence and shutdown reach every sequence there is.
THEOREM LiveRunIsHeldHolds == Spec => [](resets = 0 => LiveRunIsHeld)
<1>1. Init => HeldInv
  <2>. SUFFICES ASSUME Init PROVE HeldInv
    OBVIOUS
  <2>1. /\ running = <<>> /\ cmdQ = <<>> /\ relay = <<>> /\ execQ = <<>> /\ outbox = <<>>
        /\ runEvents = <<>>
    BY DEF Init, ChannelsInit, AtlasInit, RunnerInit
  <2>2. DOMAIN runEvents = {}
    BY <2>1
  <2>. QED BY <2>1, <2>2 DEF HeldInv, PanicEnds, AllHeld, Held
<1>2. TypeOK /\ TypeOK' /\ OverlapBound /\ HeldInv /\ [Next]_vars => HeldInv'
  <2>. SUFFICES ASSUME TypeOK, TypeOK', OverlapBound, HeldInv, [Next]_vars
                PROVE  HeldInv'
    OBVIOUS
  <2>1. CASE AtlasStep /\ UNCHANGED runnerVars
    <3>1. resets' = 0 => resets = 0
      <4>1. UNCHANGED resets \/ ResetState
        BY <2>1 DEF AtlasStep, AtlasSend, OnRunEvent, OnSummons, OnPresence, OnReset,
           OnShutdown, SetPaused, SaveDecree, RemoveDecree, SaveSettings, Housekeeping,
           ReloadWards, RenameDecree,
           ManualRun
      <4>2. resets \in Nat
        BY DEF TypeOK, AtlasTypeOK
      <4>3. ResetState => UNCHANGED resets \/ resets' = resets + 1
        BY DEF ResetState
      <4>4. \A n \in Nat : n + 1 # 0
        OBVIOUS
      <4>. QED BY <4>1, <4>2, <4>3, <4>4
    <3>. QED BY <2>1, <3>1, AtlasHolds, PanicEndsKept DEF HeldInv
  <2>2. CASE (RelayStep \/ RunnerStep \/ RunnerDies \/ RelayDies) /\ UNCHANGED atlasVars
    <3>1. UNCHANGED resets
      BY <2>2 DEF atlasVars
    <3>. QED BY <2>2, <3>1, RunnerHolds, PanicEndsKept DEF HeldInv
  <2>3. CASE UNCHANGED <<running, cmdQ, relay, execQ, outbox, runEvents, aborted, atlasUp,
                         state, activeAbort, resets, pc>>
    BY <2>3 DEF HeldInv, PanicEnds, AllHeld, Held, Winding
  <2>4. CASE GraceElapses /\ UNCHANGED runnerVars
    BY <2>3, <2>4 DEF GraceElapses, runnerVars, chanVars
  <2>5. CASE Environment
    BY <2>3, <2>5 DEF Environment, VigilSends, CommandArrives, UserInput,
       TrayReset, TrayQuit, Spends, runnerVars, atlasVars, runVars
  <2>6. CASE UNCHANGED vars
    BY <2>3, <2>6 DEF vars, runnerVars, chanVars, atlasVars, runVars
  <2>. QED
    BY <2>1, <2>2, <2>4, <2>5, <2>6
    DEF Next, Rest, AtlasSteps, RelaySteps, RunnerSteps, TaskFails
<1>3. TypeOK /\ TypeOK' /\ OverlapBound /\ HeldInv => (resets = 0 => LiveRunIsHeld)
  BY PipelineHeld DEF HeldInv
<1>. QED BY TypeCorrect, OverlapBoundHolds, <1>1, <1>2, <1>3, PTL DEF Spec

-----------------------------------------------------------------------------
(* The steps of SerialRuns *)

\* What they need of the state.
SerialInv == TypeOK /\ OverlapBound /\ AbortInv /\ LateInv /\ resets = 0


\* With no run in flight the runner is idle.
LEMMA EmptyPipeline ==
  ASSUME TypeOK, TypeOK', LateInv, Pipeline = <<>>
  PROVE  running = <<>> /\ pc # "acting" /\ late = 0
<1>1. QueueTypes /\ Len(Pipeline) = 0
  BY QueuesTyped
<1>2. Len(Pipeline) = Len(running) + Len(cmdQ) + Len(relay) + Len(execQ) + Len(outbox)
  BY QueuesTyped, PipelineTyped
<1>3. Len(running) = 0
  BY <1>1, <1>2, LenProperties DEF QueueTypes
<1>. QED BY <1>1, <1>3, EmptySeq DEF QueueTypes, TypeOK, RunnerTypeOK, LateInv

\* The same after a step.
LEMMA EmptyPipelineAfter ==
  ASSUME TypeOK, TypeOK', LateInv', Pipeline' = <<>>
  PROVE  running' = <<>> /\ pc' # "acting" /\ late' = 0
<1>1. QueueTypes' /\ Len(Pipeline') = 0
  BY QueuesTyped
<1>2. Len(Pipeline') = Len(running') + Len(cmdQ') + Len(relay') + Len(execQ') + Len(outbox')
  BY QueuesTyped, PipelineTyped
<1>3. Len(running') = 0
  BY <1>1, <1>2, LenProperties DEF QueueTypes
<1>. QED BY <1>1, <1>3, EmptySeq DEF QueueTypes, TypeOK, RunnerTypeOK, LateInv

\* The one run is in one of the queues.
LEMMA OneQueue ==
  ASSUME TypeOK, TypeOK', OverlapBound, resets = 0
  PROVE  /\ running # <<>> => Pipeline = running
         /\ outbox # <<>> => NoneWaits
         /\ NoneWaits => Pipeline = outbox
         /\ \/ Pipeline = running /\ cmdQ = <<>> /\ relay = <<>> /\ execQ = <<>> /\ outbox = <<>>
            \/ Pipeline = cmdQ /\ running = <<>> /\ relay = <<>> /\ execQ = <<>> /\ outbox = <<>>
            \/ Pipeline = relay /\ running = <<>> /\ cmdQ = <<>> /\ execQ = <<>> /\ outbox = <<>>
            \/ Pipeline = execQ /\ running = <<>> /\ cmdQ = <<>> /\ relay = <<>> /\ outbox = <<>>
            \/ Pipeline = outbox /\ NoneWaits
<1>1. /\ running \in Seq(Job) /\ cmdQ \in Seq(Job) /\ relay \in Seq(Job)
      /\ execQ \in Seq(Job) /\ outbox \in Seq(Job)
  BY QueuesTyped DEF QueueTypes
<1>. USE <1>1, ConcatEmptySeq DEF Pipeline, NoneWaits
<1>2. CASE running # <<>>
  BY <1>2, OneInFlight
<1>3. CASE running = <<>> /\ cmdQ # <<>>
  BY <1>3, OneInFlight
<1>4. CASE running = <<>> /\ cmdQ = <<>> /\ relay # <<>>
  BY <1>4, OneInFlight
<1>5. CASE running = <<>> /\ cmdQ = <<>> /\ relay = <<>> /\ execQ # <<>>
  BY <1>5, OneInFlight
<1>6. CASE running = <<>> /\ cmdQ = <<>> /\ relay = <<>> /\ execQ = <<>>
  BY <1>6
<1>. QED BY <1>2, <1>3, <1>4, <1>5, <1>6

\* Queues that are kept or emptied keep the run or lose it.
LEMMA KeptOrLost ==
  ASSUME TypeOK, TypeOK', OverlapBound, resets = 0,
         running' \in {running, <<>>}, cmdQ' \in {cmdQ, <<>>}, relay' \in {relay, <<>>},
         execQ' \in {execQ, <<>>}, outbox' \in {outbox, <<>>}
  PROVE  Pipeline' = Pipeline \/ Pipeline' = <<>>
<1>1. /\ running \in Seq(Job) /\ cmdQ \in Seq(Job) /\ relay \in Seq(Job)
      /\ execQ \in Seq(Job) /\ outbox \in Seq(Job)
  BY QueuesTyped DEF QueueTypes
<1>2. ASSUME NEW q \in Seq(Job)
      PROVE  /\ q \o <<>> \o <<>> \o <<>> \o <<>> = q
             /\ <<>> \o q \o <<>> \o <<>> \o <<>> = q
             /\ <<>> \o <<>> \o q \o <<>> \o <<>> = q
             /\ <<>> \o <<>> \o <<>> \o q \o <<>> = q
             /\ <<>> \o <<>> \o <<>> \o <<>> \o q = q
  BY ConcatEmptySeq, EmptySeq
<1>3. <<>> \in Seq(Job)
  BY EmptySeq
<1>. QED BY <1>1, <1>2, <1>3, OneQueue DEF Pipeline, NoneWaits

-----------------------------------------------------------------------------
(* The steps of SerialRuns, seen on the pipeline *)

\* A step that keeps the pipeline and the runner at its work is not seen.
LEMMA SeenNothing ==
  ASSUME Pipeline' = Pipeline, UNCHANGED <<paused, lastRun, aborted>>,
         late' > 0 <=> late > 0, pc' = "acting" <=> pc = "acting"
  PROVE  UNCHANGED Serial!vars
BY DEF Serial!vars

\* A run that leaves the pipeline between two actions ends.
LEMMA SeenEnd ==
  ASSUME SerialInv, SerialInv', Pipeline' = <<>>, UNCHANGED <<paused, lastRun>>,
         pc # "acting"
  PROVE  Serial!End \/ UNCHANGED Serial!vars
<1>1. pc' # "acting" /\ late' = 0
  BY EmptyPipelineAfter DEF SerialInv
<1>2. CASE Pipeline = <<>>
  <2>1. late = 0
    BY <1>2, EmptyPipeline DEF SerialInv
  <2>. QED BY <1>1, <1>2, <2>1 DEF Serial!vars
<1>3. CASE Pipeline # <<>>
  <2>1. Head(Pipeline).run # 0
    <3>1. Pipeline \in Seq(Job)
      BY QueuesTyped, PipelineTyped DEF SerialInv
    <3>2. Head(Pipeline) \in Job
      BY <1>3, <3>1, HeadTailProperties
    <3>. QED BY <3>2 DEF Job
  <2>. QED BY <1>1, <1>3, <2>1 DEF Serial!End, NoRun
<1>. QED BY <1>2, <1>3

\* A job that enters the empty pipeline begins.
LEMMA SeenBegin ==
  ASSUME SerialInv, NEW key, NEW dry, Pipeline = <<>>, paused => dry, dry \in BOOLEAN,
         Pipeline' = <<[run |-> lastRun + 1, key |-> key, dry |-> dry]>>,
         lastRun' = lastRun + 1, UNCHANGED <<paused, aborted, pc, late>>
  PROVE  Serial!Begin
<1>1. /\ Head(Pipeline').run = lastRun + 1 /\ Head(Pipeline').dry = dry
      /\ Pipeline' # <<>>
  OBVIOUS
<1>2. lastRun + 1 \notin aborted
  BY DEF SerialInv, AbortInv, TypeOK, AtlasTypeOK, RunTypeOK
<1>. QED BY <1>1, <1>2 DEF Serial!Begin, NoRun

\* An abort that is sent to the run in progress stops it.
LEMMA SeenStop ==
  ASSUME SerialInv, SerialInv', Pipeline' = Pipeline, aborted \subseteq aborted',
         UNCHANGED <<paused, lastRun, pc, late>>
  PROVE  Serial!Stop \/ UNCHANGED Serial!vars
<1>1. CASE Pipeline = <<>> \/ (Head(Pipeline).run \in aborted <=> Head(Pipeline).run \in aborted')
  BY <1>1 DEF Serial!vars
<1>2. CASE Pipeline # <<>> /\ Head(Pipeline).run \in aborted'
  <2>1. Head(Pipeline).run # 0
    <3>1. Pipeline \in Seq(Job)
      BY QueuesTyped, PipelineTyped DEF SerialInv
    <3>2. Head(Pipeline) \in Job
      BY <1>2, <3>1, HeadTailProperties
    <3>. QED BY <3>2 DEF Job
  <2>. QED BY <1>2, <2>1 DEF Serial!Stop
<1>. QED BY <1>1, <1>2

-----------------------------------------------------------------------------
(* Steps of the engine *)

\* Steps of Atlas.
LEMMA AtlasSeen ==
  ASSUME SerialInv, SerialInv', AtlasStep, UNCHANGED runnerVars
  PROVE  Serial!Next \/ UNCHANGED Serial!vars
<1>. USE DEF SerialInv
<1>1. UNCHANGED <<running, cmdQ, relay, pc, late>>
  BY DEF runnerVars
<1>2. ASSUME UNCHANGED <<execQ, outbox, lastRun, paused>>, aborted \subseteq aborted'
      PROVE  Serial!Next \/ UNCHANGED Serial!vars
  <2>1. Pipeline' = Pipeline
    BY <1>1, <1>2 DEF Pipeline
  <2>. QED BY <1>1, <1>2, <2>1, SeenStop DEF Serial!Next
<1>3. ASSUME outbox = <<>>, UNCHANGED <<execQ, aborted, paused>>, NoneWaits,
             NEW key, NEW dry \in BOOLEAN, NEW deep, DispatchDecree(key, dry, deep),
             paused => dry
      PROVE  Serial!Next \/ UNCHANGED Serial!vars
  <2>1. CASE UNCHANGED <<outbox, lastRun>>
    BY <1>2, <1>3, <2>1
  <2>2. CASE /\ lastRun' = lastRun + 1
             /\ outbox' = <<[run |-> lastRun + 1, key |-> key, dry |-> dry]>>
    <3>1. Pipeline = <<>>
      BY <1>3, OneQueue
    <3>2. Pipeline' = outbox'
      <4>1. /\ running' = <<>> /\ cmdQ' = <<>> /\ relay' = <<>> /\ execQ' = <<>>
            /\ outbox' \in Seq(Job)
        BY <1>1, <1>3, QueuesTyped DEF NoneWaits, QueueTypes
      <4>. QED BY <4>1, ConcatEmptySeq, EmptySeq DEF Pipeline
    <3>. QED BY <1>1, <1>3, <2>2, <3>1, <3>2, SeenBegin DEF Serial!Next
  <2>. QED BY <1>3, <2>1, <2>2 DEF DispatchDecree
<1>4. CASE AtlasSend
  <2>1. UNCHANGED <<lastRun, paused, aborted>>
    BY <1>4 DEF AtlasSend
  <2>2. CASE DispatchSent
    <3>1. Pipeline' = Pipeline
      BY <1>1, <2>2, SentKeepsOrder
    <3>. QED BY <1>1, <2>1, <3>1, SeenNothing
  <2>3. CASE DispatchFails /\ UNCHANGED execQ
    <3>1. outbox # <<>> /\ outbox' = <<>>
      BY <2>3 DEF DispatchFails
    <3>2. NoneWaits /\ NoneWaits'
      BY <1>1, <2>3, <3>1, OneQueue DEF NoneWaits
    <3>3. Pipeline' = <<>> /\ pc # "acting"
      <4>1. Pipeline' = <<>>
        BY <3>1, <3>2 DEF Pipeline, NoneWaits
      <4>. QED BY <1>1, <4>1, EmptyPipelineAfter
    <3>. QED BY <2>1, <3>3, SeenEnd DEF Serial!Next
  <2>. QED BY <1>4, <2>2, <2>3 DEF AtlasSend
<1>5. CASE OnRunEvent
  <2>. DEFINE kind == Head(runEvents).kind
  <2>1. outbox = <<>> /\ runEvents # <<>> /\ UNCHANGED <<execQ, aborted, paused>>
    BY <1>5 DEF OnRunEvent, Selecting
  <2>2. kind = "Done" => Dones(runEvents) # {}
    <3>1. /\ runEvents \in Seq(RunEvent) /\ 1 \in DOMAIN runEvents
          /\ Head(runEvents) = runEvents[1]
      BY <2>1, HeadTailProperties, LenProperties, EmptySeq DEF TypeOK, ChannelsTypeOK
    <3>. QED BY <3>1 DEF Dones
  <2>3. \/ HandleRunEvent(kind)
        \/ LeavesIdle(kind) /\ ~paused /\ \E key, deep : DispatchDecree(key, FALSE, deep)
    BY <1>5 DEF OnRunEvent, HandleSummons, Pops
  <2>. HIDE DEF kind
  <2>4. CASE HandleRunEvent(kind)
    BY <1>2, <2>1, <2>4 DEF HandleRunEvent
  <2>5. CASE LeavesIdle(kind) /\ ~paused /\ \E key, deep : DispatchDecree(key, FALSE, deep)
    <3>1. NoneWaits
      BY <2>2, <2>5, OneInFlight DEF LeavesIdle
    <3>. QED BY <1>3, <2>1, <2>5, <3>1
  <2>. QED BY <2>3, <2>4, <2>5
<1>6. CASE OnSummons
  <2>1. outbox = <<>> /\ UNCHANGED <<execQ, aborted, paused>>
    BY <1>6 DEF OnSummons, Selecting
  <2>2. CASE UNCHANGED runVars
    BY <1>2, <2>1, <2>2 DEF runVars
  <2>3. CASE ~paused /\ state = "Idle" /\ \E key, deep : DispatchDecree(key, FALSE, deep)
    BY <1>3, <2>1, <2>3, OneInFlight
  <2>. QED BY <1>6, <2>2, <2>3 DEF OnSummons, HandleSummons
<1>7. CASE ManualRun
  <2>1. outbox = <<>> /\ UNCHANGED <<execQ, aborted, paused>>
    BY <1>7 DEF ManualRun, Receives, Selecting
  <2>2. CASE UNCHANGED runVars
    BY <1>2, <2>1, <2>2 DEF runVars
  <2>3. CASE /\ ~paused \/ Head(forgeQ).dry
             /\ state = "Idle"
             /\ DispatchDecree(Head(forgeQ).key, Head(forgeQ).dry, FALSE)
    <3>1. Head(forgeQ).dry \in BOOLEAN
      <4>1. forgeQ \in Seq(Commands) /\ forgeQ # <<>> /\ Head(forgeQ).op = "ManualRun"
        BY <1>7 DEF ManualRun, Receives, TypeOK, ChannelsTypeOK
      <4>2. Head(forgeQ) \in Command
        BY <4>1, ConstantsOK, HeadTailProperties
      <4>. QED BY <4>1, <4>2 DEF Command
    <3>. QED BY <1>3, <2>1, <2>3, <3>1, OneInFlight
  <2>. QED BY <1>7, <2>2, <2>3 DEF ManualRun
<1>8. CASE OnPresence \/ OnShutdown
  BY <1>2, <1>8 DEF OnPresence, OnShutdown, YieldToPresence, SendAbort
<1>9. CASE OnReset \/ SaveDecree \/ RemoveDecree \/ SaveSettings
  <2>1. UNCHANGED <<execQ, outbox, lastRun, paused>> /\ ResetState
    BY <1>9 DEF OnReset, SaveDecree, RemoveDecree, SaveSettings, Receives
  <2>2. aborted \subseteq aborted'
    BY <2>1 DEF ResetState, SendAbort
  <2>. QED BY <1>2, <2>1, <2>2
<1>10. CASE Housekeeping
  BY <1>2, <1>10 DEF Housekeeping, ReloadWards, RenameDecree, Receives, runVars
<1>11. CASE SetPaused
  <2>1. UNCHANGED <<execQ, outbox, lastRun, aborted>> /\ paused' \in BOOLEAN
    BY <1>11 DEF SetPaused, Receives, runVars, TypeOK, AtlasTypeOK
  <2>2. Pipeline' = Pipeline
    BY <1>1, <2>1 DEF Pipeline
  <2>. QED BY <1>1, <2>1, <2>2 DEF Serial!Next, Serial!Pause
<1>. QED
  BY <1>4, <1>5, <1>6, <1>7, <1>8, <1>9, <1>10, <1>11 DEF AtlasStep

\* Steps of the relay and of the runner.
LEMMA RunnerSeen ==
  ASSUME SerialInv, SerialInv', RelayStep \/ RunnerStep \/ RunnerDies \/ RelayDies,
         UNCHANGED atlasVars
  PROVE  Serial!Next \/ UNCHANGED Serial!vars
<1>. USE DEF SerialInv
<1>1. UNCHANGED <<outbox, lastRun, paused>>
  BY DEF atlasVars, runVars
<1>2. UNCHANGED aborted
  BY DEF RelayStep, RunnerStep, RelayRecv, RelaySend, RunnerRecv, RunnerStart, RunnerLog,
     RunnerCheck, RunnerBegin, RunnerEnd, RunnerProgress, RunnerPanic, RunnerDone,
     RunnerDies, RelayDies, Goes, Sends, chanVars
<1>3. CASE RelayRecv \/ (RelaySend /\ pc # "dead") \/ RunnerRecv
  <2>1. Pipeline' = Pipeline
    BY <1>1, <1>3, QueuesTyped, PassesOn
  <2>2. UNCHANGED late /\ (pc' = "acting" <=> pc = "acting")
    BY <1>3 DEF RelayRecv, RelaySend, RunnerRecv
  <2>. QED BY <1>1, <1>2, <2>1, <2>2, SeenNothing
<1>4. CASE (RelaySend /\ pc = "dead") \/ RunnerDies \/ RelayDies \/ RunnerDone
  <2>1. /\ running' \in {running, <<>>} /\ cmdQ' \in {cmdQ, <<>>}
        /\ relay' \in {relay, <<>>} /\ execQ' \in {execQ, <<>>}
    BY <1>4 DEF RelaySend, RunnerDies, RelayDies, RunnerDone, Sends, chanVars
  <2>2. Pipeline' = Pipeline \/ Pipeline' = <<>>
    BY <1>1, <2>1, KeptOrLost
  <2>3. CASE Pipeline' = <<>>
    <3>1. pc # "acting"
      <4>1. CASE RelayDies
        <5>1. UNCHANGED pc
          BY <4>1 DEF RelayDies
        <5>. QED BY <2>3, <5>1, EmptyPipelineAfter
      <4>2. CASE ~RelayDies
        BY <1>4, <4>2 DEF RunnerDies, RunnerDone, Sends
      <4>. QED BY <4>1, <4>2
    <3>. QED BY <1>1, <2>3, <3>1, SeenEnd DEF Serial!Next
  <2>4. CASE Pipeline' = Pipeline /\ Pipeline # <<>>
    <3>1. ~RunnerDone
      <4>1. SUFFICES ASSUME RunnerDone
                     PROVE  FALSE
        OBVIOUS
      <4>2. running # <<>> /\ running' = <<>> /\ UNCHANGED <<cmdQ, relay, execQ>>
        <5>1. Len(running) = 1 /\ running' = <<>> /\ UNCHANGED <<cmdQ, relay, execQ>>
          BY <4>1 DEF RunnerDone, Sends, TypeOK, RunnerTypeOK
        <5>2. running = <<>> => Len(running) = 0
          OBVIOUS
        <5>. QED BY <5>1, <5>2
      <4>3. cmdQ' = <<>> /\ relay' = <<>> /\ execQ' = <<>> /\ outbox' = <<>>
        BY <1>1, <4>2, OneInFlight
      <4>4. Pipeline' = <<>>
        BY <4>2, <4>3 DEF Pipeline
      <4>. QED BY <2>4, <4>4
    <3>2. UNCHANGED late /\ (pc' = "acting" <=> pc = "acting")
      BY <1>4, <3>1 DEF RelaySend, RunnerDies, RelayDies
    <3>. QED BY <1>1, <1>2, <2>4, <3>2, SeenNothing
  <2>. QED BY <2>2, <2>3, <2>4
<1>5. CASE RunnerStart \/ RunnerLog \/ RunnerCheck \/ RunnerProgress \/ RunnerPanic
  <2>1. /\ UNCHANGED <<running, cmdQ, relay, execQ, late>>
        /\ pc' = "acting" <=> pc = "acting"
    BY <1>5 DEF RunnerStart, RunnerLog, RunnerCheck, RunnerProgress, RunnerPanic, Goes,
       Sends, chanVars
  <2>2. Pipeline' = Pipeline
    BY <1>1, <2>1 DEF Pipeline
  <2>. QED BY <1>1, <1>2, <2>1, <2>2, SeenNothing
<1>6. CASE RunnerBegin \/ RunnerEnd
  <2>1. UNCHANGED <<running, cmdQ, relay, execQ>>
    BY <1>6 DEF RunnerBegin, RunnerEnd, Goes, chanVars
  <2>2. Pipeline' = Pipeline
    BY <1>1, <2>1 DEF Pipeline
  <2>3. Pipeline = running /\ running # <<>> /\ Pipeline \in Seq(Job)
    <3>1. Len(running) = 1
      BY <1>6 DEF RunnerBegin, RunnerEnd, Goes, TypeOK, RunnerTypeOK
    <3>2. running = <<>> => Len(running) = 0
      OBVIOUS
    <3>. QED BY <3>1, <3>2, OneQueue, QueuesTyped, PipelineTyped
  <2>4. Head(Pipeline) = job /\ job.run # 0
    <3>1. Head(Pipeline) \in Job
      BY <2>3, HeadTailProperties
    <3>. QED BY <2>3, <3>1 DEF job, Job
  <2>5. CASE RunnerBegin
    <3>1. /\ pc = "delaying" /\ pc' = "acting"
          /\ late' = IF job.run \in aborted THEN late + 1 ELSE late
      BY <2>5 DEF RunnerBegin, Goes
    <3>2. late = 0
      BY <3>1 DEF LateInv
    <3>3. late' > 0 <=> job.run \in aborted
      BY <3>1, <3>2
    <3>. QED
      BY <1>1, <1>2, <2>2, <2>3, <2>4, <3>1, <3>2, <3>3 DEF Serial!Next, Serial!BeginAction
  <2>6. CASE RunnerEnd
    <3>1. pc = "acting" /\ pc' # "acting" /\ late' = late
      BY <2>6 DEF RunnerEnd, Goes
    <3>. QED BY <1>1, <1>2, <2>2, <3>1 DEF Serial!Next, Serial!EndAction
  <2>. QED BY <1>6, <2>5, <2>6
<1>. QED BY <1>3, <1>4, <1>5, <1>6 DEF RelayStep, RunnerStep

-----------------------------------------------------------------------------

\* As long as nobody resets a busy engine, and whichever of its tasks fails, it
\* does what SerialRuns allows: runs one decree at a time, begins no live one while
\* paused, and at most one more action of a run that is told to stop.
THEOREM RunsAreSerialSteps ==
  Spec /\ [](resets = 0) => Serial!Init /\ [][Serial!Next]_(Serial!vars)
<1>1. Init => Serial!Init
  <2>. SUFFICES ASSUME Init PROVE Serial!Init
    OBVIOUS
  <2>1. /\ running = <<>> /\ cmdQ = <<>> /\ relay = <<>> /\ execQ = <<>> /\ outbox = <<>>
        /\ pc = "starting" /\ late = 0 /\ lastRun = 0 /\ paused = FALSE
    BY DEF Init, ChannelsInit, AtlasInit, RunnerInit
  <2>2. Pipeline = <<>>
    BY <2>1 DEF Pipeline
  <2>. QED BY <2>1, <2>2 DEF Serial!Init, NoRun
<1>2. SerialInv /\ SerialInv' /\ [Next]_vars => [Serial!Next]_(Serial!vars)
  <2>. SUFFICES ASSUME SerialInv, SerialInv', [Next]_vars
                PROVE  Serial!Next \/ UNCHANGED Serial!vars
    OBVIOUS
  <2>1. CASE AtlasStep /\ UNCHANGED runnerVars
    BY <2>1, AtlasSeen
  <2>2. CASE (RelayStep \/ RunnerStep \/ RunnerDies \/ RelayDies) /\ UNCHANGED atlasVars
    BY <2>2, RunnerSeen
  <2>3. CASE UNCHANGED <<running, cmdQ, relay, execQ, outbox, paused, lastRun, aborted,
                         late, pc>>
    <3>1. Pipeline' = Pipeline
      BY <2>3 DEF Pipeline
    <3>. QED BY <2>3, <3>1, SeenNothing
  <2>4. CASE GraceElapses /\ UNCHANGED runnerVars
    BY <2>3, <2>4 DEF GraceElapses, runnerVars, chanVars
  <2>5. CASE Environment
    BY <2>3, <2>5 DEF Environment, VigilSends, CommandArrives, UserInput,
       TrayReset, TrayQuit, Spends, runnerVars, atlasVars, runVars
  <2>6. CASE UNCHANGED vars
    BY <2>3, <2>6 DEF vars, runnerVars, chanVars, atlasVars, runVars
  <2>. QED
    BY <2>1, <2>2, <2>4, <2>5, <2>6
    DEF Next, Rest, AtlasSteps, RelaySteps, RunnerSteps, TaskFails
<1>3. TypeOK /\ OverlapBound /\ AbortInv /\ LateInv /\ resets = 0 <=> SerialInv
  BY DEF SerialInv
<1>. QED
  BY TypeCorrect, OverlapBoundHolds, AbortInvariant, LateInvariant, <1>1, <1>2, <1>3, PTL
  DEF Spec

-----------------------------------------------------------------------------
(* Every summons is run *)

(***************************************************************************)
(* What the count rests on: no task fails, every key is registered at      *)
(* start-up, a summons can match and be dispatched while its decrees are   *)
(* registered, nobody pauses the engine or runs a decree by hand, and a    *)
(* decree that is removed does not come back.                              *)
(***************************************************************************)
ServedOnly ==
  /\ Faults = {} /\ BootKeys = Keys
  /\ \A s \in Summonses : ~s.deep /\ (s.key \in Keys \/ s.near # {})
  /\ \A c \in Commands : c.op \notin {"SetPaused", "ManualRun"}
  /\ \A c, r \in Commands : c.op = "SaveDecree" /\ r.op = "RemoveDecree" => c.key # r.key

\* Nothing pauses the engine or ends a task, and saving a decree adds no key.
Undisturbed ==
  /\ ~paused /\ relayUp /\ pc # "dead"
  /\ \A c \in Commands : c.op = "SaveDecree" => c.key \in registry

\* Each summons is dispatched or still in one of its two queues.
AllCounted == lastRun + Len(pendingSummons) + Len(vigilQ) = used["summons"]

\* A sequence is in flight, whose Done makes Atlas Idle and pops a summons.
DoneWillCome == state # "Idle" \/ pendingSummons # <<>> => Before + After >= 1

ServedInv ==
  /\ Undisturbed
  /\ atlasUp => PanicEnds
  /\ atlasUp /\ Keys \subseteq registry => AllCounted /\ DoneWillCome

\* The engine keeps undisturbed, and a key that was removed stays away.
LEMMA UndisturbedKept ==
  ASSUME ServedOnly, TypeOK, Undisturbed, [Next]_vars
  PROVE  Undisturbed' /\ (Keys \subseteq registry' => UNCHANGED registry)
<1>1. ASSUME UNCHANGED <<paused, relayUp, pc, registry>>
      PROVE  Undisturbed' /\ (Keys \subseteq registry' => UNCHANGED registry)
  BY <1>1 DEF Undisturbed
<1>2. Faults = {} /\ registry \subseteq Keys /\ forgeQ \in Seq(Commands)
  BY DEF ServedOnly, TypeOK, ChannelsTypeOK, AtlasTypeOK
<1>3. forgeQ # <<>> => Head(forgeQ) \in Commands
  BY <1>2
<1>4. CASE AtlasStep /\ UNCHANGED runnerVars
  <2>1. UNCHANGED <<relayUp, pc>>
    BY <1>4 DEF AtlasStep, AtlasSend, OnRunEvent, OnSummons, OnPresence, OnReset, OnShutdown,
       SetPaused, SaveDecree, RemoveDecree, SaveSettings, Housekeeping,
       ReloadWards, RenameDecree, ManualRun, Receives,
       runnerVars
  <2>2. ~SetPaused /\ ~ManualRun
    BY <1>3 DEF ServedOnly, SetPaused, ManualRun, Receives
  <2>3. CASE SaveDecree
    <3>1. Head(forgeQ).key \in registry /\ UNCHANGED paused
      BY <1>3, <2>3 DEF SaveDecree, Receives, Undisturbed
    <3>2. UNCHANGED registry
      BY <2>3, <3>1 DEF SaveDecree
    <3>. QED BY <1>1, <2>1, <3>1, <3>2
  <2>4. CASE RemoveDecree
    <3>1. UNCHANGED paused
      BY <2>4 DEF RemoveDecree
    <3>2. CASE UNCHANGED registry
      BY <1>1, <2>1, <3>1, <3>2
    <3>3. CASE registry' = registry \ {Head(forgeQ).key}
      <4>1. Head(forgeQ) \in Commands /\ Head(forgeQ).op = "RemoveDecree"
        BY <1>3, <2>4 DEF RemoveDecree, Receives
      <4>2. \A c \in Commands : c.op = "SaveDecree" => c.key \in registry'
        BY <3>3, <4>1 DEF ServedOnly, Undisturbed
      <4>3. Keys \subseteq registry' => UNCHANGED registry
        BY <1>2, <3>3
      <4>. QED BY <2>1, <3>1, <4>2, <4>3 DEF Undisturbed
    <3>. QED BY <2>4, <3>2, <3>3 DEF RemoveDecree
  <2>5. CASE ~SaveDecree /\ ~RemoveDecree
    <3>1. UNCHANGED <<paused, registry>>
      BY <1>4, <2>2, <2>5 DEF AtlasStep, AtlasSend, OnRunEvent, OnSummons, OnPresence, OnReset,
         OnShutdown, SaveSettings, Housekeeping, ReloadWards, RenameDecree
    <3>. QED BY <1>1, <2>1, <3>1
  <2>. QED BY <2>3, <2>4, <2>5
<1>5. CASE (RelayStep \/ RunnerStep) /\ UNCHANGED atlasVars
  <2>1. UNCHANGED <<paused, relayUp, registry>>
    BY <1>5 DEF RelayStep, RunnerStep, RelayRecv, RelaySend, RunnerRecv, RunnerStart,
       RunnerLog, RunnerCheck, RunnerBegin, RunnerEnd, RunnerProgress, RunnerPanic,
       RunnerDone, Goes, Sends, chanVars, atlasVars
  <2>2. pc' # "dead"
    BY <1>5 DEF RelayStep, RunnerStep, RelayRecv, RelaySend, RunnerRecv, RunnerStart,
       RunnerLog, RunnerCheck, RunnerBegin, RunnerEnd, RunnerProgress, RunnerPanic,
       RunnerDone, Goes, Sends, Undisturbed
  <2>. QED BY <2>1, <2>2 DEF Undisturbed
<1>6. CASE GraceElapses /\ UNCHANGED runnerVars
  BY <1>1, <1>6 DEF GraceElapses, chanVars, runnerVars
<1>7. CASE Environment
  BY <1>1, <1>7 DEF Environment, VigilSends, CommandArrives, UserInput, TrayReset, TrayQuit,
     Spends, runnerVars, atlasVars
<1>8. CASE UNCHANGED vars
  BY <1>1, <1>8 DEF vars, chanVars, runnerVars, atlasVars
<1>. QED
  BY <1>2, <1>4, <1>5, <1>6, <1>7, <1>8
  DEF Next, AtlasSteps, RelaySteps, RunnerSteps, TaskFails, Rest

\* Neither the relay nor the runner loses a sequence before its Done is read.
LEMMA NoneLost ==
  ASSUME TypeOK, TypeOK', RelayStep \/ RunnerStep, pc # "dead", atlasUp, UNCHANGED outbox
  PROVE  Before' + After' >= Before + After
<1>. DEFINE d == Cardinality(Dones(runEvents))
<1>0. /\ d \in Nat /\ d' \in Nat
      /\ {Len(running), Len(cmdQ), Len(relay), Len(execQ), Len(outbox)} \subseteq Nat
      /\ {Len(running'), Len(cmdQ'), Len(relay'), Len(execQ')} \subseteq Nat
  <2>1. d \in Nat /\ d' \in Nat
    BY DonesFinite DEF TypeOK, ChannelsTypeOK
  <2>2. QueueTypes /\ QueueTypes'
    BY QueuesTyped
  <2>. QED BY <2>1, <2>2 DEF QueueTypes
<1>1. ASSUME NEW kind \in EventKinds, NEW from, NEW to,
             from \in RunnerPCs \ {"starting", "receiving", "dead"}, Sends(from, kind, to)
      PROVE  d' = d + IF kind = "Done" THEN 1 ELSE 0
  <2>1. running \in Seq(Job) /\ Len(running) = 1 /\ runEvents \in Seq(RunEvent)
    BY <1>1 DEF Sends, TypeOK, RunnerTypeOK, ChannelsTypeOK
  <2>2. job \in Job
    BY ONLY <2>1 DEF job
  <2>3. [kind |-> kind, run |-> job.run] \in RunEvent
    BY <1>1, <2>2 DEF Job, RunEvent
  <2>4. runEvents' = Append(runEvents, [kind |-> kind, run |-> job.run])
    BY <1>1 DEF Sends, Emit
  <2>5. Cardinality(Dones(Append(runEvents, [kind |-> kind, run |-> job.run])))
          = d + IF [kind |-> kind, run |-> job.run].kind = "Done" THEN 1 ELSE 0
    BY <2>1, <2>3, DonesAppend
  <2>. QED BY <2>4, <2>5
<1>2. UNCHANGED runEvents => d' = d
  OBVIOUS
<1>. HIDE DEF d
<1>3. /\ Before = Len(execQ) + Len(outbox) + d /\ Before' = Len(execQ') + Len(outbox) + d'
      /\ After = Len(running) + Len(cmdQ) + Len(relay)
      /\ After' = Len(running') + Len(cmdQ') + Len(relay')
  BY DEF Before, After, d
<1>4. CASE RelayRecv \/ RelaySend \/ RunnerRecv
  <2>1. Pipeline' = Pipeline /\ d' = d
    BY <1>2, <1>4, QueuesTyped, PassesOn DEF RelayRecv, RelaySend, RunnerRecv, chanVars
  <2>2. /\ Len(Pipeline) = Len(running) + Len(cmdQ) + Len(relay) + Len(execQ) + Len(outbox)
        /\ Len(Pipeline) = Len(running') + Len(cmdQ') + Len(relay') + Len(execQ')
                             + Len(outbox)
    BY <2>1, QueuesTyped, PipelineTyped
  <2>3. \A r, c, l, e, o, n, p \in Nat :
          p = r + c + l + e + o => (e + o + n) + (r + c + l) = p + n
    OBVIOUS
  <2>4. /\ (Len(execQ) + Len(outbox) + d) + (Len(running) + Len(cmdQ) + Len(relay))
             = Len(Pipeline) + d
        /\ (Len(execQ') + Len(outbox) + d) + (Len(running') + Len(cmdQ') + Len(relay'))
             = Len(Pipeline) + d
    <3>1. Len(Pipeline) \in Nat
      BY <1>0, <2>2
    <3>. QED BY <1>0, <2>2, <2>3, <3>1
  <2>5. Len(Pipeline) + d \in Int
    BY <1>0, <2>2
  <2>. QED BY <1>3, <2>1, <2>4, <2>5
<1>5. CASE RunnerStart \/ RunnerCheck \/ RunnerBegin \/ RunnerEnd
  <2>1. UNCHANGED <<running, cmdQ, relay, execQ, runEvents>>
    BY <1>5 DEF RunnerStart, RunnerCheck, RunnerBegin, RunnerEnd, Goes, chanVars
  <2>. QED BY <1>0, <1>2, <1>3, <2>1
<1>6. CASE RunnerLog \/ RunnerProgress \/ RunnerPanic
  <2>1. UNCHANGED <<running, cmdQ, relay, execQ>>
    BY <1>6 DEF RunnerLog, RunnerProgress, RunnerPanic, Sends
  <2>2. d' = d
    BY <1>0, <1>1, <1>6 DEF RunnerLog, RunnerProgress, RunnerPanic, EventKinds, RunnerPCs
  <2>. QED BY <1>0, <1>3, <2>1, <2>2
<1>7. CASE RunnerDone
  <2>1. UNCHANGED <<cmdQ, relay, execQ>> /\ Len(running) = 1
    BY <1>7 DEF RunnerDone, Sends, TypeOK, RunnerTypeOK
  <2>2. d' = d + 1
    BY <1>1, <1>7 DEF RunnerDone, EventKinds, RunnerPCs
  <2>. QED BY <1>0, <1>3, <2>1, <2>2
<1>. QED BY <1>4, <1>5, <1>6, <1>7 DEF RelayStep, RunnerStep

\* A summons that reaches its handler becomes a run.
LEMMA SummonsDispatched ==
  ASSUME ServedOnly, TypeOK, Keys \subseteq registry, outbox = <<>>,
         NEW s \in Summonses, NEW ignored, HandleSummons(s, ignored)
  PROVE  lastRun' = lastRun + 1 /\ Len(outbox') = 1
<1>1. ~s.deep /\ s.near \subseteq Keys /\ (s.key \in Keys \/ s.near # {})
  BY ConstantsOK DEF ServedOnly, IsSummons
<1>2. Matches(s) # {}
  BY <1>1 DEF Matches
<1>3. PICK key \in Matches(s) : DispatchDecree(key, FALSE, s.deep)
  BY <1>2 DEF HandleSummons
<1>4. /\ lastRun' = lastRun + 1
      /\ outbox' = <<[run |-> lastRun + 1, key |-> key, dry |-> FALSE]>>
  BY <1>1, <1>3 DEF DispatchDecree
<1>. QED BY <1>4

\* An event that is read and is not the end of a run leaves its Done to come.
LEMMA DoneStaysToCome ==
  ASSUME TypeOK, TypeOK', PanicEnds, DoneWillCome, UNCHANGED <<running, cmdQ, relay, pc>>,
         runEvents # <<>>, runEvents' = Tail(runEvents), UNCHANGED <<execQ, outbox>>,
         Head(runEvents).kind # "Done",
         Head(runEvents).kind = "Panic" \/ state # "Idle" \/ pendingSummons # <<>>
  PROVE  Before' + After' >= 1
<1>. DEFINE d == Cardinality(Dones(runEvents))
<1>1. /\ Before \in Nat /\ After \in Nat
  BY FlightCounted
<1>2. runEvents \in Seq(RunEvent) /\ d \in Nat /\ d' = d
  BY DonesFinite, DonesTail DEF TypeOK, ChannelsTypeOK
<1>. HIDE DEF d
<1>3. Before' = Before /\ After' = After
  BY <1>2 DEF Before, After, d
<1>4. CASE state # "Idle" \/ pendingSummons # <<>>
  BY <1>3, <1>4 DEF DoneWillCome
<1>5. CASE Head(runEvents).kind = "Panic"
  <2>1. CASE pc = "finishing"
    <3>1. Len(running) = 1 /\ Len(cmdQ) \in Nat /\ Len(relay) \in Nat
      BY <2>1 DEF TypeOK, RunnerTypeOK
    <3>. QED BY <1>1, <1>3, <3>1 DEF After
  <2>2. CASE Dones(runEvents) # {}
    <3>1. d >= 1
      BY <1>2, <2>2, DonesFinite, FS_EmptySet DEF d
    <3>2. Len(execQ) \in Nat /\ Len(outbox) \in Nat
      BY DEF TypeOK, ChannelsTypeOK, AtlasTypeOK, RunTypeOK
    <3>. QED BY <1>1, <1>2, <1>3, <3>1, <3>2 DEF Before, d
  <2>. QED BY <1>5, <2>1, <2>2, PanicReadEnding
<1>. QED BY <1>4, <1>5

\* Atlas takes each summons from one queue to the next or dispatches it.
LEMMA AtlasServes ==
  ASSUME ServedOnly, TypeOK, TypeOK', Undisturbed, PanicEnds, AllCounted, DoneWillCome,
         Keys \subseteq registry, atlasUp', AtlasStep, UNCHANGED <<runnerVars, used>>
  PROVE  AllCounted' /\ DoneWillCome'
<1>0. /\ Before \in Nat /\ After \in Nat /\ Before' \in Nat /\ After' = After
      /\ lastRun \in Nat /\ Len(pendingSummons) \in Nat /\ Len(vigilQ) \in Nat
  <2>1. Before \in Nat /\ After \in Nat /\ Before' \in Nat /\ After' = After
    BY FlightCounted DEF After, runnerVars
  <2>. QED BY <2>1 DEF TypeOK, ChannelsTypeOK, AtlasTypeOK, RunTypeOK
<1>1. ASSUME UNCHANGED <<execQ, outbox, runEvents, lastRun, pendingSummons, vigilQ>>,
             state' # "Idle" => state # "Idle"
      PROVE  AllCounted' /\ DoneWillCome'
  <2>1. Before' = Before
    BY <1>1 DEF Before
  <2>. QED BY <1>0, <1>1, <2>1 DEF AllCounted, DoneWillCome
<1>2. ASSUME Len(outbox') = 1
      PROVE  DoneWillCome'
  <2>1. Len(execQ') \in Nat /\ Cardinality(Dones(runEvents')) \in Nat
    BY DonesFinite DEF TypeOK, ChannelsTypeOK
  <2>2. Before' >= 1
    BY <1>2, <2>1 DEF Before
  <2>3. \A b, a \in Nat : b >= 1 => b + a >= 1
    OBVIOUS
  <2>4. Before' + After' >= 1
    BY <1>0, <2>2, <2>3
  <2>. QED BY <2>4 DEF DoneWillCome
<1>3. forgeQ # <<>> => Head(forgeQ) \in Commands
  BY DEF TypeOK, ChannelsTypeOK
<1>4. CASE AtlasSend
  <2>1. DispatchSent /\ UNCHANGED <<state, runEvents, lastRun, pendingSummons, vigilQ>>
    BY <1>4 DEF AtlasSend, DispatchSent, DispatchFails, Undisturbed, inputQs
  <2>2. outbox # <<>> /\ outbox' = <<>> /\ execQ' = Append(execQ, Head(outbox))
    BY <2>1 DEF DispatchSent
  <2>3. Len(outbox) = 1 /\ Head(outbox) \in Job /\ execQ \in Seq(Job)
    BY <2>2, OnlyHead DEF TypeOK, ChannelsTypeOK, AtlasTypeOK, RunTypeOK
  <2>4. Len(outbox') = 0 /\ Len(execQ') = Len(execQ) + 1 /\ Len(execQ) \in Nat
    BY <2>2, <2>3, AppendProperties
  <2>5. Cardinality(Dones(runEvents)) \in Nat
    BY DonesFinite DEF TypeOK, ChannelsTypeOK
  <2>6. Before' = Before
    BY <2>1, <2>3, <2>4, <2>5 DEF Before
  <2>. QED BY <1>0, <2>1, <2>6 DEF AllCounted, DoneWillCome
<1>5. CASE OnRunEvent
  <2>. DEFINE kind == Head(runEvents).kind
  <2>1. /\ outbox = <<>> /\ runEvents # <<>> /\ runEvents' = Tail(runEvents)
        /\ UNCHANGED <<execQ, vigilQ>>
    BY <1>5 DEF OnRunEvent, Selecting, inputQs
  <2>2. kind \in EventKinds
    <3>1. Head(runEvents) \in RunEvent
      BY <2>1 DEF TypeOK, ChannelsTypeOK
    <3>. QED BY <3>1 DEF RunEvent
  <2>3. CASE Pops(kind)
    <3>1. /\ pendingSummons # <<>> /\ pendingSummons' = Tail(pendingSummons)
          /\ HandleSummons(Head(pendingSummons), HandleRunEvent(kind))
      BY <1>5, <2>3 DEF OnRunEvent, Pops
    <3>2. pendingSummons \in Seq(Summonses)
      BY DEF TypeOK, AtlasTypeOK
    <3>3. /\ Head(pendingSummons) \in Summonses
          /\ Len(pendingSummons') = Len(pendingSummons) - 1
      BY <3>1, <3>2, HeadTailProperties
    <3>4. lastRun' = lastRun + 1 /\ Len(outbox') = 1
      BY <2>1, <3>1, <3>3, SummonsDispatched
    <3>5. AllCounted'
      BY <1>0, <2>1, <3>3, <3>4 DEF AllCounted
    <3>. QED BY <1>2, <3>4, <3>5
  <2>4. CASE ~Pops(kind)
    <3>1. HandleRunEvent(kind) /\ UNCHANGED pendingSummons
      BY <1>5, <2>4 DEF OnRunEvent
    <3>2. AllCounted' /\ UNCHANGED outbox
      BY <2>1, <3>1 DEF AllCounted, HandleRunEvent
    <3>. HIDE DEF kind
    <3>3. CASE kind = "Done"
      <4>1. pendingSummons = <<>> /\ state' = "Idle"
        BY <2>4, <3>1, <3>3 DEF Pops, LeavesIdle, HandleRunEvent, Undisturbed
      <4>. QED BY <3>1, <3>2, <4>1 DEF DoneWillCome
    <3>4. CASE kind # "Done"
      <4>1. kind = "Panic" \/ state' = state
        BY <2>2, <3>1, <3>4 DEF HandleRunEvent, EventKinds
      <4>2. kind = "Panic" \/ state # "Idle" \/ pendingSummons # <<>> => Before' + After' >= 1
        <5>1. UNCHANGED <<running, cmdQ, relay, pc>>
          BY DEF runnerVars
        <5>. QED BY <2>1, <3>2, <3>4, <5>1, DoneStaysToCome DEF kind
      <4>. QED BY <3>1, <3>2, <4>1, <4>2 DEF DoneWillCome
    <3>. QED BY <3>3, <3>4
  <2>. QED BY <2>3, <2>4
<1>6. CASE OnSummons
  <2>1. /\ outbox = <<>> /\ vigilQ # <<>> /\ vigilQ' = Tail(vigilQ) /\ ~paused
        /\ UNCHANGED <<execQ, runEvents>>
    BY <1>6 DEF OnSummons, Selecting, Undisturbed
  <2>2. vigilQ \in Seq(Summonses) /\ pendingSummons \in Seq(Summonses)
    BY DEF TypeOK, ChannelsTypeOK, AtlasTypeOK
  <2>3. Head(vigilQ) \in Summonses /\ Len(vigilQ') = Len(vigilQ) - 1
    BY <2>1, <2>2, HeadTailProperties
  <2>4. CASE state = "Idle"
    <3>1. HandleSummons(Head(vigilQ), UNCHANGED runVars) /\ UNCHANGED pendingSummons
      BY <1>6, <2>1, <2>4 DEF OnSummons
    <3>2. lastRun' = lastRun + 1 /\ Len(outbox') = 1
      BY <2>1, <2>3, <3>1, SummonsDispatched
    <3>3. AllCounted'
      BY <1>0, <2>3, <3>1, <3>2 DEF AllCounted
    <3>. QED BY <1>2, <3>2, <3>3
  <2>5. CASE state # "Idle"
    <3>1. /\ pendingSummons' = Append(pendingSummons, Head(vigilQ))
          /\ UNCHANGED <<state, outbox, lastRun>>
      BY <1>6, <2>1, <2>5 DEF OnSummons, runVars
    <3>2. Len(pendingSummons') = Len(pendingSummons) + 1
      BY <2>2, <2>3, <3>1, AppendProperties
    <3>3. AllCounted'
      BY <1>0, <2>3, <3>1, <3>2 DEF AllCounted
    <3>4. Before' = Before
      BY <2>1, <3>1 DEF Before
    <3>. QED BY <1>0, <2>5, <3>3, <3>4 DEF DoneWillCome
  <2>. QED BY <2>4, <2>5
<1>7. CASE OnPresence
  BY <1>1, <1>7 DEF OnPresence, YieldsTo, YieldToPresence
<1>8. CASE OnReset \/ SaveDecree \/ RemoveDecree \/ SaveSettings
  BY <1>1, <1>8 DEF OnReset, SaveDecree, RemoveDecree, SaveSettings, Receives, ResetState
<1>9. CASE OnShutdown
  BY <1>9 DEF OnShutdown
<1>10. CASE SetPaused \/ ManualRun
  BY <1>3, <1>10 DEF ServedOnly, SetPaused, ManualRun, Receives
<1>11. CASE Housekeeping
  BY <1>1, <1>11 DEF Housekeeping, ReloadWards, RenameDecree, Receives, runVars
<1>. QED
  BY <1>4, <1>5, <1>6, <1>7, <1>8, <1>9, <1>10, <1>11 DEF AtlasStep

\* Every step keeps the count, as long as every key is registered.
LEMMA ServedKept ==
  ASSUME ServedOnly, TypeOK, TypeOK', ServedInv, [Next]_vars
  PROVE  ServedInv'
<1>1. Undisturbed' /\ (Keys \subseteq registry' => UNCHANGED registry)
  BY UndisturbedKept DEF ServedInv
<1>2. Faults = {} /\ pc # "dead"
  BY DEF ServedOnly, ServedInv, Undisturbed
<1>3. CASE AtlasStep /\ UNCHANGED <<runnerVars, used>>
  <2>1. (atlasUp => PanicEnds)'
    BY <1>3, PanicEndsKept DEF ServedInv
  <2>2. ASSUME atlasUp', Keys \subseteq registry'
        PROVE  AllCounted' /\ DoneWillCome'
    <3>1. atlasUp
      BY <1>3 DEF AtlasStep, AtlasSend, DispatchSent, DispatchFails, OnRunEvent, OnSummons,
         OnPresence, OnReset, OnShutdown, SetPaused, SaveDecree, RemoveDecree, SaveSettings,
         Housekeeping, ReloadWards, RenameDecree, ManualRun, Receives, Selecting
    <3>2. Keys \subseteq registry
      BY <1>1, <2>2
    <3>. QED BY <1>3, <2>2, <3>1, <3>2, AtlasServes DEF ServedInv
  <2>. QED BY <1>1, <2>1, <2>2 DEF ServedInv
<1>4. CASE (RelayStep \/ RunnerStep) /\ UNCHANGED <<atlasVars, used>>
  <2>1. (atlasUp => PanicEnds)'
    BY <1>4, PanicEndsKept DEF ServedInv
  <2>2. UNCHANGED <<atlasUp, vigilQ>>
    BY <1>4 DEF RelayStep, RunnerStep, RelayRecv, RelaySend, RunnerRecv, RunnerStart,
       RunnerLog, RunnerCheck, RunnerBegin, RunnerEnd, RunnerProgress, RunnerPanic,
       RunnerDone, Goes, Sends, chanVars, inputQs
  <2>3. UNCHANGED <<state, outbox, lastRun, pendingSummons, registry>>
    BY <1>4 DEF atlasVars, runVars
  <2>4. atlasUp => Before' + After' >= Before + After
    BY <1>2, <1>4, <2>3, NoneLost
  <2>5. Before + After \in Int /\ Before' + After' \in Int
    BY FlightCounted
  <2>6. atlasUp /\ DoneWillCome => DoneWillCome'
    BY <2>3, <2>4, <2>5 DEF DoneWillCome
  <2>7. AllCounted => AllCounted'
    BY <1>4, <2>2, <2>3 DEF AllCounted
  <2>. QED BY <1>1, <2>1, <2>2, <2>3, <2>6, <2>7 DEF ServedInv
<1>5. ASSUME UNCHANGED <<atlasUp, registry, runEvents, execQ, runnerVars, state, outbox,
                         lastRun, pendingSummons>>,
             AllCounted => AllCounted'
      PROVE  ServedInv'
  <2>1. UNCHANGED <<running, cmdQ, relay, pc>>
    BY <1>5 DEF runnerVars
  <2>2. Before' = Before /\ After' = After /\ (PanicEnds => PanicEnds')
    BY <1>5, <2>1 DEF Before, After, PanicEnds
  <2>3. DoneWillCome => DoneWillCome'
    BY <1>5, <2>2 DEF DoneWillCome
  <2>. QED BY <1>1, <1>5, <2>2, <2>3 DEF ServedInv
<1>6. CASE GraceElapses /\ UNCHANGED <<runnerVars, used>>
  BY <1>5, <1>6 DEF GraceElapses, chanVars, AllCounted
<1>7. CASE VigilSends
  <2>1. /\ UNCHANGED <<atlasUp, registry, runEvents, execQ, runnerVars, state, outbox,
                       lastRun, pendingSummons>>
        /\ used["summons"]' = used["summons"] + 1 /\ Len(vigilQ') = Len(vigilQ) + 1
    <3>1. PICK s \in Summonses : vigilQ' = Append(vigilQ, s)
      BY <1>7 DEF VigilSends
    <3>2. Len(vigilQ') = Len(vigilQ) + 1
      BY <3>1, AppendProperties DEF TypeOK, ChannelsTypeOK
    <3>3. used' = [used EXCEPT !["summons"] = @ + 1] /\ used \in [Inputs -> Nat]
      BY <1>7 DEF VigilSends, Spends, TypeOK
    <3>4. used["summons"]' = used["summons"] + 1
      BY <3>3 DEF Inputs
    <3>5. UNCHANGED <<atlasUp, registry, runEvents, execQ, runnerVars, state, outbox,
                      lastRun, pendingSummons>>
      BY <1>7 DEF VigilSends, Spends, atlasVars, runVars
    <3>. QED BY <3>2, <3>4, <3>5
  <2>2. /\ lastRun \in Nat /\ Len(pendingSummons) \in Nat /\ Len(vigilQ) \in Nat
        /\ used["summons"] \in Nat
    <3>1. lastRun \in Nat /\ Len(pendingSummons) \in Nat /\ Len(vigilQ) \in Nat
      BY DEF TypeOK, ChannelsTypeOK, AtlasTypeOK, RunTypeOK
    <3>2. used["summons"] \in Nat
      BY DEF TypeOK, Inputs
    <3>. QED BY <3>1, <3>2
  <2>3. AllCounted => AllCounted'
    BY <2>1, <2>2 DEF AllCounted
  <2>. QED BY <1>5, <2>1, <2>3
<1>8. CASE CommandArrives \/ UserInput \/ TrayReset \/ TrayQuit
  <2>1. /\ UNCHANGED <<atlasUp, registry, runEvents, execQ, runnerVars, state, outbox,
                       lastRun, pendingSummons, vigilQ>>
        /\ \E i \in {"command", "signal", "reset", "shutdown"} :
             used' = [used EXCEPT ![i] = @ + 1]
    BY <1>8 DEF CommandArrives, UserInput, TrayReset, TrayQuit, Spends, atlasVars, runVars
  <2>2. used["summons"]' = used["summons"]
    BY <2>1 DEF TypeOK, Inputs
  <2>3. AllCounted => AllCounted'
    BY <2>1, <2>2 DEF AllCounted
  <2>. QED BY <1>5, <2>1, <2>3
<1>9. CASE UNCHANGED vars
  BY <1>5, <1>9 DEF vars, chanVars, atlasVars, runVars, AllCounted
<1>. QED
  BY <1>2, <1>3, <1>4, <1>6, <1>7, <1>8, <1>9
  DEF Next, AtlasSteps, RelaySteps, RunnerSteps, TaskFails, Environment, Rest

(***************************************************************************)
(* At rest each summons has been run once and only once, whatever yields,  *)
(* resets, late events, faults of actions and removals fell between: a     *)
(* summons that waits does so behind a run whose Done is still to be read. *)
(***************************************************************************)
THEOREM SummonsRunOnceHolds ==
  ASSUME ServedOnly
  PROVE  Spec => []SummonsRunOnce
<1>1. Init => ServedInv
  <2>. SUFFICES ASSUME Init PROVE ServedInv
    OBVIOUS
  <2>1. /\ vigilQ = <<>> /\ pendingSummons = <<>> /\ runEvents = <<>> /\ state = "Idle"
        /\ lastRun = 0 /\ used["summons"] = 0 /\ ~paused /\ relayUp /\ pc = "starting"
        /\ registry = Keys
    BY DEF Init, ChannelsInit, AtlasInit, RunnerInit, ServedOnly, Inputs
  <2>2. \A c \in Commands : c.op = "SaveDecree" => c.key \in Keys
    BY ConstantsOK DEF Command
  <2>3. Undisturbed /\ PanicEnds
    BY <2>1, <2>2 DEF Undisturbed, PanicEnds
  <2>4. AllCounted /\ DoneWillCome
    BY <2>1 DEF AllCounted, DoneWillCome
  <2>. QED BY <2>3, <2>4 DEF ServedInv
<1>2. TypeOK /\ TypeOK' /\ ServedInv /\ [Next]_vars => ServedInv'
  BY ServedKept
<1>3. TypeOK /\ ServedInv => SummonsRunOnce
  <2>. SUFFICES ASSUME TypeOK, ServedInv, AtRest, atlasUp, Keys \subseteq registry
                PROVE  lastRun = used["summons"]
    BY DEF SummonsRunOnce
  <2>1. /\ outbox = <<>> /\ vigilQ = <<>> /\ runEvents = <<>> /\ cmdQ = <<>>
        /\ relay = <<>> /\ execQ = <<>> /\ pc = "receiving"
    BY DEF AtRest, ServedInv, Undisturbed
  <2>2. Before = 0
    <3>1. Dones(runEvents) = {}
      BY <2>1 DEF Dones
    <3>. QED BY <2>1, <3>1, FS_EmptySet DEF Before
  <2>3. After = 0
    <3>1. Len(running) = 0
      BY <2>1 DEF TypeOK, RunnerTypeOK
    <3>. QED BY <2>1, <3>1 DEF After
  <2>4. ~(0 + 0 >= 1)
    OBVIOUS
  <2>5. pendingSummons = <<>>
    BY <2>2, <2>3, <2>4 DEF ServedInv, DoneWillCome
  <2>. QED BY <2>1, <2>5 DEF ServedInv, AllCounted, TypeOK, AtlasTypeOK, RunTypeOK
<1>. QED BY TypeCorrect, <1>1, <1>2, <1>3, PTL DEF Spec
=============================================================================
