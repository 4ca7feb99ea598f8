------------------------------- MODULE Runner -------------------------------
(***************************************************************************)
(* The relay task of arbiter-app/src/main.rs, which turns an ExecData into *)
(* an ExecCmd, and the runner task of arbiter-bridge/src/runner.rs, which  *)
(* executes one sequence at a time, node by node, and reports to Atlas.    *)
(* The runner takes a job from its own queue only when it has finished the *)
(* previous one, so QUEUE_LOCK is always free when it is acquired.         *)
(***************************************************************************)
EXTENDS Channels

VARIABLES
  relay,      \* the job the relay is forwarding
  cmdQ,       \* relay -> runner (exec_cmd)
  running,    \* the job the runner executes
  pc,         \* where the runner is in its loop
  idx,        \* the node it is at
  inhibited,  \* ArbiterFilter's interference lock
  late        \* history: actions of the running job begun after its abort

runnerVars == <<relay, cmdQ, running, pc, idx, inhibited, late>>

RunnerPCs == {"starting", "receiving", "logging", "checking", "delaying",
              "acting", "reporting", "panicking", "finishing", "dead"}

RunnerInit ==
  /\ relay = <<>> /\ cmdQ = <<>> /\ running = <<>>
  /\ pc = "starting" /\ idx = 1
  /\ inhibited = FALSE /\ late = 0

RunnerTypeOK ==
  /\ relay \in Seq(Job) /\ Len(relay) <= 1
  /\ cmdQ \in Seq(Job)
  /\ running \in Seq(Job)
  /\ pc \in RunnerPCs
  /\ Len(running) = IF pc \in {"starting", "receiving", "dead"} THEN 0 ELSE 1
  /\ idx \in Nat \ {0} /\ inhibited \in BOOLEAN /\ late \in Nat

-----------------------------------------------------------------------------
(* The relay task *)

RelayRecv ==
  /\ relayUp /\ relay = <<>> /\ execQ # <<>>
  /\ relay' = <<Head(execQ)>>
  /\ execQ' = Tail(execQ)
  /\ UNCHANGED <<cmdQ, running, pc, idx, inhibited, late, inputQs, runEvents,
                 aborted, atlasUp, relayUp>>

\* exec_cmd_tx.send(cmd).await; a failed send is ignored and the job is lost.
RelaySend ==
  /\ relayUp /\ relay # <<>>
  /\ relay' = <<>>
  /\ \/ pc # "dead" /\ Len(cmdQ) < ExecCap /\ cmdQ' = Append(cmdQ, Head(relay))
     \/ pc = "dead" /\ UNCHANGED cmdQ
  /\ UNCHANGED <<running, pc, idx, inhibited, late, chanVars>>

-----------------------------------------------------------------------------
(* The runner task *)

job   == Head(running)
nodes == Script[job.key]
node  == nodes[idx]

\* The runner moves on without touching a channel.
Goes(from, to) ==
  /\ pc = from /\ pc' = to
  /\ UNCHANGED <<relay, cmdQ, running, chanVars>>

\* HardwareBridge::new has found the input backend.
RunnerStart == Goes("starting", "receiving") /\ UNCHANGED <<idx, inhibited, late>>

\* Mutant: the newest job is taken first.
RunnerRecv_Newest ==
  /\ pc = "receiving" /\ cmdQ # <<>>
  /\ running' = <<cmdQ[Len(cmdQ)]>> /\ cmdQ' = SubSeq(cmdQ, 1, Len(cmdQ) - 1)
  /\ pc' \in {"logging", "finishing"}
  /\ UNCHANGED <<relay, idx, inhibited, late, chanVars>>

\* rx.recv() and the hibernation guard: a job older than 5 s is only Done.
RunnerRecv ==
  /\ pc = "receiving" /\ cmdQ # <<>>
  /\ running' = <<Head(cmdQ)>> /\ cmdQ' = Tail(cmdQ)
  /\ pc' \in {"logging", "finishing"}
  /\ UNCHANGED <<relay, idx, inhibited, late, chanVars>>

\* The runner awaits event_tx.send and then moves on.
Sends(from, kind, to) ==
  /\ pc = from /\ pc' = to
  /\ Emit(job.run, kind)
  /\ UNCHANGED <<relay, cmdQ, inhibited, inputQs, execQ, aborted, atlasUp, relayUp>>

RunnerLog == Sends("logging", "Log", "checking") /\ UNCHANGED <<running, idx, late>>

\* Mutant: the abort channel is only looked at before the first node.
RunnerCheck_Once ==
  LET stop == idx = 1 /\ job.run \in aborted IN
  \/ /\ Goes("checking", "finishing")
     /\ idx > Len(nodes) \/ stop
     /\ UNCHANGED <<idx, inhibited, late>>
  \/ /\ Goes("checking", "checking")
     /\ idx <= Len(nodes) /\ ~stop /\ node = "entry"
     /\ idx' = idx + 1 /\ UNCHANGED <<inhibited, late>>
  \/ /\ Goes("checking", "delaying")
     /\ idx <= Len(nodes) /\ ~stop /\ node # "entry"
     /\ UNCHANGED <<idx, inhibited, late>>

\* The top of the node loop: its end, the abort channel, then the node.
RunnerCheck ==
  \/ /\ Goes("checking", "finishing")
     /\ idx > Len(nodes) \/ job.run \in aborted
     /\ UNCHANGED <<idx, inhibited, late>>
  \/ /\ Goes("checking", "checking")
     /\ idx <= Len(nodes) /\ job.run \notin aborted /\ node = "entry"
     /\ idx' = idx + 1 /\ UNCHANGED <<inhibited, late>>
  \/ /\ Goes("checking", "delaying")
     /\ idx <= Len(nodes) /\ job.run \notin aborted /\ node # "entry"
     /\ UNCHANGED <<idx, inhibited, late>>

\* delay_ms has passed: the action begins, presence inhibited if it is Hand's.
RunnerBegin ==
  /\ Goes("delaying", "acting")
  /\ inhibited' = (node = "hand" /\ ~job.dry)
  /\ late' = IF job.run \in aborted THEN late + 1 ELSE late
  /\ UNCHANGED idx

\* The action ends; a wait and a dry run cannot fail.
RunnerEnd ==
  /\ \/ Goes("acting", "reporting")
     \/ Goes("acting", "panicking") /\ node # "wait" /\ ~job.dry
  /\ inhibited' = FALSE
  /\ UNCHANGED <<idx, late>>

RunnerProgress ==
  /\ Sends("reporting", "Progress", "checking")
  /\ idx' = idx + 1 /\ UNCHANGED <<running, late>>

\* Mutant: a fault ends the sequence without Done.
RunnerPanic_NoDone ==
  /\ Sends("panicking", "Panic", "receiving")
  /\ running' = <<>> /\ idx' = 1 /\ late' = 0

RunnerPanic ==
  Sends("panicking", "Panic", "finishing") /\ UNCHANGED <<running, idx, late>>

\* Mutant: the finished job is kept.
RunnerDone_Keeps ==
  Sends("finishing", "Done", "receiving") /\ UNCHANGED <<running, idx, late>>

RunnerDone ==
  /\ Sends("finishing", "Done", "receiving")
  /\ running' = <<>> /\ idx' = 1 /\ late' = 0

RelayStep == RelayRecv \/ RelaySend
RunnerStep ==
  \/ RunnerStart \/ RunnerRecv \/ RunnerLog \/ RunnerCheck \/ RunnerBegin
  \/ RunnerEnd \/ RunnerProgress \/ RunnerPanic \/ RunnerDone

-----------------------------------------------------------------------------
(* Failures of the two tasks *)

\* HardwareBridge::new panics: the task and its receiver are gone.
RunnerDies ==
  /\ pc = "starting" /\ pc' = "dead"
  /\ cmdQ' = <<>>
  /\ UNCHANGED <<relay, running, idx, inhibited, late, chanVars>>

\* The relay task panics: its receiver closes and what it held is lost.
RelayDies ==
  /\ relayUp /\ relayUp' = FALSE
  /\ relay' = <<>> /\ execQ' = <<>>
  /\ UNCHANGED <<cmdQ, running, pc, idx, inhibited, late, inputQs, runEvents,
                 aborted, atlasUp>>
=============================================================================
