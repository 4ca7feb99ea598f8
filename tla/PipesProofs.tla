---------------------------- MODULE PipesProofs ----------------------------
(***************************************************************************)
(* Theorems about Pipes for every value of its constants: however many     *)
(* tasks of the Forge compete for the pipe and however small the channel,  *)
(* a simulation is not run before its save, and a pause is not forgotten.  *)
(***************************************************************************)
EXTENDS Pipes, SequenceTheorems, TLAPS

-----------------------------------------------------------------------------
(* Types *)

Save(t) == [task |-> t, name |-> "save"]
Run(t) == [task |-> t, name |-> "run"]

\* A task that is about to write has something to write.
PipesTypes == TypeOK /\ \A t \in Tasks : task[t].pc = "write" => task[t].left # <<>>

LEMMA Commands == \A t \in Tasks : Save(t) \in Command /\ Run(t) \in Command /\ Save(t) # Run(t)
<1>. SUFFICES ASSUME NEW t \in Tasks
              PROVE  Save(t) \in Command /\ Run(t) \in Command /\ Save(t) # Run(t)
  OBVIOUS
<1>1. Save(t) \in Command
  BY DEF Save, Command
<1>2. Run(t) \in Command
  BY DEF Run, Command
<1>3. Save(t).name = "save" /\ Run(t).name = "run"
  BY DEF Save, Run
<1>. QED BY <1>1, <1>2, <1>3

\* The head of a queue and the rest of it.
LEMMA HeadAndTail ==
  ASSUME NEW S, NEW q \in Seq(S), q # <<>>
  PROVE  /\ Head(q) \in S /\ Tail(q) \in Seq(S) /\ Len(q) \in Nat \ {0}
         /\ Len(Tail(q)) = Len(q) - 1 /\ Head(q) = q[1]
         /\ \A i \in 1 .. Len(q) - 1 : Tail(q)[i] = q[i + 1]
BY EmptySeq, HeadTailProperties

\* The job of a task, and what Rest leaves of it.
LEMMA JobTypes ==
  ASSUME NEW t \in Tasks, NEW kind \in Kinds
  PROVE  Job(t, kind) \in {<<>>, <<Save(t)>>, <<Save(t), Run(t)>>} /\ Job(t, kind) \in Seq(Command)
<1>1. Job(t, kind) \in {<<>>, <<Save(t)>>, <<Save(t), Run(t)>>}
  BY PipesConstantsOK DEF Job, Save, Run
<1>2. Save(t) \in Command /\ Run(t) \in Command
  BY Commands
<1>3. \A c, d \in Command : <<>> \in Seq(Command) /\ <<c>> \in Seq(Command) /\ <<c, d>> \in Seq(Command)
  OBVIOUS
<1>. QED BY <1>1, <1>2, <1>3

LEMMA RestTypes ==
  ASSUME TypeOK, NEW t \in Tasks
  PROVE  Rest(t) \in [pc : {"open", "done"}, left : Seq(Command)]
<1>1. task[t].left \in Seq(Command)
  BY DEF TypeOK
<1>2. task[t].left # <<>> => Tail(task[t].left) \in Seq(Command)
  BY <1>1, HeadAndTail
<1>3. <<>> \in Seq(Command)
  BY EmptySeq
<1>. QED BY <1>1, <1>2, <1>3 DEF Rest

LEMMA TaskTypes ==
  ASSUME PipesTypes, Starts \/ Opens \/ OpenFails \/ Writes \/ Closes
  PROVE  PipesTypes'
<1>0. TypeOK /\ \A t \in Tasks : task[t].pc = "write" => task[t].left # <<>>
  BY DEF PipesTypes
<1>. DEFINE T == [pc : {"new", "open", "write", "close", "done"}, left : Seq(Command)]
            P == [open : BOOLEAN, data : Seq(Command)]
<1>1. CASE Starts
  <2>1. PICK t \in Tasks, kind \in Kinds :
          /\ task' = [task EXCEPT ![t] = [pc |-> "open", left |-> Job(t, kind)]]
          /\ UNCHANGED <<serverVars, queue, paused, trayVars, fate>>
    BY <1>1 DEF Starts
  <2>2. task' \in [Tasks -> T] /\ \A u \in Tasks : task'[u].pc = "write" => task'[u].left # <<>>
    BY <1>0, <2>1, JobTypes DEF TypeOK
  <2>. QED BY <1>0, <2>1, <2>2 DEF PipesTypes, TypeOK, serverVars, trayVars
<1>2. CASE Opens
  <2>1. PICK t \in Tasks :
          /\ server' = "serving" /\ pipe' = [open |-> TRUE, data |-> <<>>]
          /\ task' = [task EXCEPT ![t].pc = IF task[t].left = <<>> THEN "close" ELSE "write"]
          /\ UNCHANGED <<inHand, queue, paused, trayVars, fate>>
    BY <1>2 DEF Opens
  <2>2. task' \in [Tasks -> T] /\ \A u \in Tasks : task'[u].pc = "write" => task'[u].left # <<>>
    BY <1>0, <2>1 DEF TypeOK
  <2>3. pipe' \in P
    BY <2>1, EmptySeq
  <2>. QED BY <1>0, <2>1, <2>2, <2>3 DEF PipesTypes, TypeOK, trayVars
<1>3. CASE OpenFails
  <2>1. PICK t \in Tasks :
          /\ task' = [task EXCEPT ![t] = Rest(t)]
          /\ fate' = [c \in Command |->
               IF task[t].left # <<>> /\ c = Head(task[t].left) THEN "failed" ELSE fate[c]]
          /\ UNCHANGED <<serverVars, queue, paused, trayVars>>
    BY <1>3 DEF OpenFails
  <2>2. task' \in [Tasks -> T] /\ \A u \in Tasks : task'[u].pc = "write" => task'[u].left # <<>>
    BY <1>0, <2>1, RestTypes DEF TypeOK
  <2>3. fate' \in [Command -> Fates]
    BY <1>0, <2>1 DEF TypeOK, Fates
  <2>. QED BY <1>0, <2>1, <2>2, <2>3 DEF PipesTypes, TypeOK, serverVars, trayVars
<1>4. CASE Writes
  <2>1. PICK t \in Tasks :
          /\ task[t].pc = "write" /\ task' = [task EXCEPT ![t].pc = "close"]
          /\ pipe' = [pipe EXCEPT !.data = Append(@, Head(task[t].left))]
          /\ fate' = [fate EXCEPT ![Head(task[t].left)] = "written"]
          /\ UNCHANGED <<server, inHand, queue, paused, trayVars>>
    BY <1>4 DEF Writes
  <2>2. task' \in [Tasks -> T] /\ \A u \in Tasks : task'[u].pc = "write" => task'[u].left # <<>>
    BY <1>0, <2>1 DEF TypeOK
  <2>3. Head(task[t].left) \in Command
    BY <1>0, <2>1, HeadAndTail DEF TypeOK
  <2>4. pipe' \in P /\ fate' \in [Command -> Fates]
    BY <1>0, <2>1, <2>3, AppendProperties DEF TypeOK, Fates
  <2>. QED BY <1>0, <2>1, <2>2, <2>4 DEF PipesTypes, TypeOK, trayVars
<1>5. CASE Closes
  <2>1. PICK t \in Tasks :
          /\ task' = [task EXCEPT ![t] = Rest(t)] /\ pipe' = [pipe EXCEPT !.open = FALSE]
          /\ UNCHANGED <<server, inHand, queue, paused, trayVars, fate>>
    BY <1>5 DEF Closes
  <2>2. task' \in [Tasks -> T] /\ \A u \in Tasks : task'[u].pc = "write" => task'[u].left # <<>>
    BY <1>0, <2>1, RestTypes DEF TypeOK
  <2>3. pipe' \in P
    BY <1>0, <2>1 DEF TypeOK
  <2>. QED BY <1>0, <2>1, <2>2, <2>3 DEF PipesTypes, TypeOK, trayVars
<1>. QED BY <1>1, <1>2, <1>3, <1>4, <1>5

LEMMA ServerTypes ==
  ASSUME PipesTypes, Wakes \/ Reads \/ Forwards \/ Ends
  PROVE  PipesTypes'
<1>0. TypeOK /\ \A t \in Tasks : task[t].pc = "write" => task[t].left # <<>>
  BY DEF PipesTypes
<1>1. CASE Wakes \/ Ends
  BY <1>0, <1>1 DEF PipesTypes, TypeOK, Wakes, Ends, trayVars
<1>2. CASE Reads
  <2>1. pipe.data \in Seq(Command) /\ pipe.data # <<>> /\ pipe.open \in BOOLEAN
    BY <1>0, <1>2 DEF Reads, TypeOK
  <2>2. Head(pipe.data) \in Command /\ Tail(pipe.data) \in Seq(Command)
    BY <2>1, HeadAndTail
  <2>3. inHand' = <<Head(pipe.data)>> /\ pipe' = [pipe EXCEPT !.data = Tail(@)]
        /\ UNCHANGED <<task, server, queue, paused, trayVars, fate>>
    BY <1>2 DEF Reads
  <2>4. pipe' \in [open : BOOLEAN, data : Seq(Command)]
    BY <1>0, <2>2, <2>3 DEF TypeOK
  <2>5. inHand' \in {<<c>> : c \in Command}
    BY <2>2, <2>3
  <2>. QED BY <1>0, <2>3, <2>4, <2>5 DEF PipesTypes, TypeOK, trayVars
<1>3. CASE Forwards
  <2>1. PICK c \in Command : inHand = <<c>>
    BY <1>0, <1>3 DEF Forwards, TypeOK
  <2>2. queue' = queue \o <<c>> /\ Len(queue) < QueueCap /\ inHand' = <<>>
        /\ UNCHANGED <<task, server, pipe, paused, trayVars, fate>>
    BY <1>3, <2>1 DEF Forwards
  <2>3. queue \in Seq(Command \cup Pause) /\ <<c>> \in Seq(Command \cup Pause) /\ Len(<<c>>) = 1
    BY <1>0 DEF TypeOK
  <2>4. queue' \in Seq(Command \cup Pause) /\ Len(queue') = Len(queue) + 1 /\ Len(queue) \in Nat
    BY <2>2, <2>3, ConcatProperties
  <2>5. Len(queue') <= QueueCap
    BY <2>2, <2>4, PipesConstantsOK
  <2>. QED BY <1>0, <2>2, <2>4, <2>5 DEF PipesTypes, TypeOK, trayVars
<1>. QED BY <1>1, <1>2, <1>3

LEMMA ChannelTypes ==
  ASSUME PipesTypes, TrayTogglesPause \/ AtlasTakes
  PROVE  PipesTypes'
<1>0. /\ TypeOK /\ \A t \in Tasks : task[t].pc = "write" => task[t].left # <<>>
      /\ queue \in Seq(Command \cup Pause) /\ Len(queue) \in Nat /\ Len(queue) <= QueueCap
  BY DEF PipesTypes, TypeOK
<1>1. CASE TrayTogglesPause
  <2>1. /\ toggles < MaxToggles /\ toggles' = toggles + 1 /\ trayPaused' = ~trayPaused
        /\ UNCHANGED <<task, serverVars, paused, fate>>
    BY <1>1 DEF TrayTogglesPause
  <2>2. toggles' \in 0 .. MaxToggles /\ trayPaused' \in BOOLEAN
    BY <1>0, <2>1, PipesConstantsOK DEF TypeOK
  <2>3. [paused |-> trayPaused'] \in Command \cup Pause
    BY <2>2 DEF Pause
  <2>4. queue' \in Seq(Command \cup Pause) /\ Len(queue') <= QueueCap /\ dropped' \in BOOLEAN
    <3>1. CASE /\ Len(queue) < QueueCap /\ queue' = Append(queue, [paused |-> trayPaused'])
               /\ UNCHANGED dropped
      <4>1. queue' \in Seq(Command \cup Pause) /\ Len(queue') = Len(queue) + 1
        BY <1>0, <2>3, <3>1, AppendProperties
      <4>. QED BY <1>0, <3>1, <4>1, PipesConstantsOK DEF TypeOK
    <3>2. CASE dropped' = TRUE /\ UNCHANGED queue
      BY <1>0, <3>2
    <3>. QED BY <1>1, <3>1, <3>2 DEF TrayTogglesPause
  <2>. QED BY <1>0, <2>1, <2>2, <2>4 DEF PipesTypes, TypeOK, serverVars
<1>2. CASE AtlasTakes
  <2>1. queue # <<>> /\ queue' = Tail(queue) /\ UNCHANGED <<task, serverVars, trayVars>>
    BY <1>2 DEF AtlasTakes
  <2>2. queue' \in Seq(Command \cup Pause) /\ Len(queue') = Len(queue) - 1
    BY <1>0, <2>1, HeadAndTail
  <2>3. paused' \in BOOLEAN /\ fate' \in [Command -> Fates]
    BY <1>0, <1>2 DEF AtlasTakes, TypeOK, Pause, Fates
  <2>4. Len(queue') <= QueueCap
    BY <1>0, <2>2, PipesConstantsOK
  <2>. QED BY <1>0, <2>1, <2>2, <2>3, <2>4 DEF PipesTypes, TypeOK, serverVars, trayVars
<1>. QED BY <1>1, <1>2

LEMMA PipesTyped == Spec => []PipesTypes
<1>1. Init => PipesTypes
  <2>1. <<>> \in Seq(Command) /\ <<>> \in Seq(Command \cup Pause) /\ Len(<<>>) = 0
    BY EmptySeq
  <2>. HAVE Init
  <2>2. task \in [Tasks -> [pc : {"new", "open", "write", "close", "done"}, left : Seq(Command)]]
        /\ \A t \in Tasks : task[t].pc = "new"
    BY <2>1 DEF Init
  <2>3. pipe \in [open : BOOLEAN, data : Seq(Command)]
    BY <2>1 DEF Init
  <2>4. fate \in [Command -> Fates]
    BY DEF Init, Fates
  <2>5. queue \in Seq(Command \cup Pause) /\ Len(queue) <= QueueCap /\ toggles \in 0 .. MaxToggles
    BY <2>1, PipesConstantsOK DEF Init
  <2>6. TypeOK
    BY <2>2, <2>3, <2>4, <2>5 DEF Init, TypeOK
  <2>. QED BY <2>2, <2>6 DEF PipesTypes
<1>2. PipesTypes /\ [Next]_vars => PipesTypes'
  <2>. SUFFICES ASSUME PipesTypes, [Next]_vars
                PROVE  PipesTypes'
    OBVIOUS
  <2>1. CASE UNCHANGED vars
    BY <2>1 DEF PipesTypes, TypeOK, vars, serverVars, trayVars
  <2>. QED BY <2>1, TaskTypes, ServerTypes, ChannelTypes DEF Next, Done
<1>. QED BY <1>1, <1>2, PTL DEF Spec

(***************************************************************************)
(* Every variable always has its type, for any tasks and any capacity.     *)
(***************************************************************************)
THEOREM TypeOKHolds == Spec => []TypeOK
<1>1. PipesTypes => TypeOK
  BY DEF PipesTypes
<1>. QED BY <1>1, PipesTyped, PTL

-----------------------------------------------------------------------------
(* The tray's pause *)

\* Taking all of q, Atlas goes from paused = now to paused = then: the last
\* pause in q decides, or there is none.
Settles(q, now, then) ==
  \/ now = then /\ \A i \in 1 .. Len(q) : q[i] \notin Pause
  \/ \E i \in 1 .. Len(q) :
       /\ q[i] \in Pause /\ q[i].paused = then
       /\ \A j \in 1 .. Len(q) : j > i => q[j] \notin Pause

PauseInv == ~dropped => Settles(queue, paused, trayPaused)

LEMMA CommandIsNoPause == \A c \in Command : c \notin Pause
<1>. SUFFICES ASSUME NEW c \in Command, c \in Pause
              PROVE  FALSE
  OBVIOUS
<1>1. DOMAIN c = {"task", "name"}
  BY DEF Command
<1>2. DOMAIN c = {"paused"}
  BY DEF Pause
<1>3. "task" \in DOMAIN c /\ "task" \notin {"paused"}
  BY <1>1
<1>. QED BY <1>2, <1>3

LEMMA SettlesAppended ==
  ASSUME NEW q \in Seq(Command \cup Pause), NEW e \in Command \cup Pause, NEW now, NEW then
  PROVE  /\ e \in Pause /\ e.paused = then => Settles(Append(q, e), now, then)
         /\ e \notin Pause /\ Settles(q, now, then) => Settles(Append(q, e), now, then)
<1>. DEFINE a == Append(q, e)
<1>1. /\ Len(q) \in Nat /\ Len(a) = Len(q) + 1 /\ a[Len(a)] = e
      /\ \A i \in 1 .. Len(q) : a[i] = q[i]
  BY AppendProperties
<1>. HIDE DEF a
<1>2. ASSUME e \in Pause, e.paused = then
      PROVE  Settles(a, now, then)
  <2>1. Len(a) \in 1 .. Len(a) /\ \A j \in 1 .. Len(a) : ~(j > Len(a))
    BY <1>1
  <2>. QED BY <1>1, <1>2, <2>1 DEF Settles
<1>3. ASSUME e \notin Pause, Settles(q, now, then)
      PROVE  Settles(a, now, then)
  <2>0. \A j \in 1 .. Len(a) : j \in 1 .. Len(q) \/ j = Len(a)
    BY <1>1
  <2>1. CASE now = then /\ \A i \in 1 .. Len(q) : q[i] \notin Pause
    <3>1. \A i \in 1 .. Len(a) : a[i] \notin Pause
      BY <1>1, <1>3, <2>0, <2>1
    <3>. QED BY <2>1, <3>1 DEF Settles
  <2>2. CASE \E i \in 1 .. Len(q) : /\ q[i] \in Pause /\ q[i].paused = then
                                    /\ \A j \in 1 .. Len(q) : j > i => q[j] \notin Pause
    <3>1. PICK i \in 1 .. Len(q) : /\ q[i] \in Pause /\ q[i].paused = then
                                   /\ \A j \in 1 .. Len(q) : j > i => q[j] \notin Pause
      BY <2>2
    <3>2. i \in 1 .. Len(a)
      BY <1>1
    <3>3. a[i] \in Pause /\ a[i].paused = then
      BY <1>1, <3>1
    <3>4. \A j \in 1 .. Len(a) : j > i => a[j] \notin Pause
      BY <1>1, <1>3, <2>0, <3>1
    <3>. QED BY <3>2, <3>3, <3>4 DEF Settles
  <2>. QED BY <1>3, <2>1, <2>2 DEF Settles
<1>. QED BY <1>2, <1>3 DEF a

LEMMA SettlesTaken ==
  ASSUME NEW q \in Seq(Command \cup Pause), q # <<>>, NEW now, NEW then, Settles(q, now, then)
  PROVE  Settles(Tail(q), IF Head(q) \in Pause THEN Head(q).paused ELSE now, then)
<1>. DEFINE r == Tail(q)
            mid == IF Head(q) \in Pause THEN Head(q).paused ELSE now
<1>1. /\ Len(q) \in Nat \ {0} /\ Len(r) = Len(q) - 1 /\ Head(q) = q[1]
      /\ \A i \in 1 .. Len(q) - 1 : r[i] = q[i + 1]
  BY HeadAndTail
<1>. HIDE DEF r
<1>2. /\ \A i \in 1 .. Len(r) : i + 1 \in 1 .. Len(q) /\ r[i] = q[i + 1]
      /\ \A j \in 1 .. Len(q) : j > 1 => j - 1 \in 1 .. Len(r) /\ r[j - 1] = q[j]
  BY <1>1
<1>3. CASE now = then /\ \A i \in 1 .. Len(q) : q[i] \notin Pause
  <2>1. mid = then
    BY <1>1, <1>3
  <2>. QED BY <1>2, <1>3, <2>1 DEF Settles, r
<1>4. CASE \E i \in 1 .. Len(q) : /\ q[i] \in Pause /\ q[i].paused = then
                                  /\ \A j \in 1 .. Len(q) : j > i => q[j] \notin Pause
  <2>1. PICK i \in 1 .. Len(q) : /\ q[i] \in Pause /\ q[i].paused = then
                                 /\ \A j \in 1 .. Len(q) : j > i => q[j] \notin Pause
    BY <1>4
  <2>2. CASE i = 1
    <3>1. mid = then
      BY <1>1, <2>1, <2>2
    <3>2. ASSUME NEW j \in 1 .. Len(r)
          PROVE  r[j] \notin Pause
      <4>1. j + 1 \in 1 .. Len(q) /\ j + 1 > i /\ r[j] = q[j + 1]
        BY <1>2, <2>2
      <4>. QED BY <2>1, <4>1
    <3>. QED BY <3>1, <3>2 DEF Settles, r
  <2>3. CASE i > 1
    <3>1. i - 1 \in 1 .. Len(r) /\ r[i - 1] \in Pause /\ r[i - 1].paused = then
      BY <1>2, <2>1, <2>3
    <3>2. ASSUME NEW j \in 1 .. Len(r), j > i - 1
          PROVE  r[j] \notin Pause
      <4>1. j + 1 \in 1 .. Len(q) /\ j + 1 > i /\ r[j] = q[j + 1]
        BY <1>2, <3>2
      <4>. QED BY <2>1, <4>1
    <3>. QED BY <3>1, <3>2 DEF Settles, r
  <2>. QED BY <2>2, <2>3
<1>. QED BY <1>3, <1>4 DEF Settles

LEMMA PauseStays ==
  ASSUME PipesTypes, PauseInv, [Next]_vars
  PROVE  PauseInv'
<1>0. TypeOK /\ queue \in Seq(Command \cup Pause)
  BY DEF PipesTypes, TypeOK
<1>1. CASE UNCHANGED <<queue, paused, trayVars>>
  BY <1>1 DEF PauseInv, Settles, trayVars
<1>2. CASE Forwards
  <2>1. PICK c \in Command : inHand = <<c>>
    BY <1>0, <1>2 DEF Forwards, TypeOK
  <2>2. queue' = queue \o <<c>> /\ UNCHANGED <<paused, trayVars>>
    BY <1>2, <2>1 DEF Forwards
  <2>3. queue' = Append(queue, c)
    BY <1>0, <2>2, AppendIsConcat
  <2>4. Settles(queue, paused, trayPaused) => Settles(queue', paused, trayPaused)
    BY <1>0, <2>3, SettlesAppended, CommandIsNoPause
  <2>. QED BY <2>2, <2>4 DEF PauseInv, Settles, trayVars
<1>3. CASE TrayTogglesPause
  <2>1. trayPaused' \in BOOLEAN
    BY <1>3 DEF TrayTogglesPause
  <2>2. [paused |-> trayPaused'] \in Pause /\ [paused |-> trayPaused'].paused = trayPaused'
    BY <2>1 DEF Pause
  <2>3. CASE queue' = Append(queue, [paused |-> trayPaused'])
    <3>1. Settles(queue', paused', trayPaused')
      BY <1>0, <2>2, <2>3, SettlesAppended
    <3>. QED BY <3>1 DEF PauseInv, Settles
  <2>4. CASE dropped' = TRUE
    BY <2>4 DEF PauseInv
  <2>. QED BY <1>3, <2>3, <2>4 DEF TrayTogglesPause
<1>4. CASE AtlasTakes
  <2>1. /\ queue # <<>> /\ queue' = Tail(queue) /\ UNCHANGED trayVars
        /\ \/ Head(queue) \in Command /\ UNCHANGED paused
           \/ Head(queue) \in Pause /\ paused' = Head(queue).paused
    BY <1>4 DEF AtlasTakes
  <2>2. paused' = IF Head(queue) \in Pause THEN Head(queue).paused ELSE paused
    BY <2>1, CommandIsNoPause
  <2>3. Settles(queue, paused, trayPaused) => Settles(queue', paused', trayPaused)
    BY <1>0, <2>1, <2>2, SettlesTaken
  <2>. QED BY <2>1, <2>3 DEF PauseInv, Settles, trayVars
<1>5. \/ UNCHANGED <<queue, paused, trayVars>>
      \/ Forwards \/ TrayTogglesPause \/ AtlasTakes
  BY DEF Next, Done, vars, Starts, Opens, OpenFails, Writes, Closes, Wakes, Reads, Ends
<1>. QED BY <1>1, <1>2, <1>3, <1>4, <1>5

(***************************************************************************)
(* However the tray's clicks and the Forge's commands interleave in the    *)
(* channel, an empty channel leaves Atlas paused exactly if the tray says  *)
(* so, unless a click found the channel full.                              *)
(***************************************************************************)
THEOREM PauseAgreesHolds == Spec => []PauseAgrees
<1>1. Init => PauseInv
  <2>. HAVE Init
  <2>1. queue = <<>> /\ paused = trayPaused
    BY DEF Init
  <2>2. 1 .. Len(queue) = {}
    BY <2>1
  <2>. QED BY <2>1, <2>2 DEF PauseInv, Settles
<1>2. PipesTypes /\ PauseInv /\ [Next]_vars => PauseInv'
  BY PauseStays
<1>3. PauseInv => PauseAgrees
  BY EmptySeq DEF PauseInv, PauseAgrees, Settles
<1>. QED BY <1>1, <1>2, <1>3, PipesTyped, PTL DEF Spec

-----------------------------------------------------------------------------
(* The order of commands on their way *)

Occurs(q, c) == \E i \in 1 .. Len(q) : q[i] = c

\* Each d in q has a c before it.
Precedes(q, c, d) ==
  \A j \in 1 .. Len(q) : q[j] = d => \E i \in 1 .. Len(q) : i < j /\ q[i] = c

LEMMA Appended ==
  ASSUME NEW S, NEW q \in Seq(S), NEW e \in S, NEW c \in S, NEW d \in S, c # d
  PROVE  /\ Occurs(Append(q, e), c) <=> Occurs(q, c) \/ e = c
         /\ Precedes(Append(q, e), c, d) <=> Precedes(q, c, d) /\ (e = d => Occurs(q, c))
<1>. DEFINE a == Append(q, e)
            n == Len(q)
<1>1. n \in Nat /\ Len(a) = n + 1 /\ a[n + 1] = e /\ \A i \in 1 .. n : a[i] = q[i]
  BY AppendProperties
<1>. HIDE DEF a, n
<1>2. \A i \in 1 .. n + 1 : i \in 1 .. n \/ i = n + 1
  BY <1>1
<1>3. n + 1 \in 1 .. n + 1 /\ \A i \in 1 .. n : i \in 1 .. n + 1 /\ i < n + 1
  BY <1>1
<1>4. Occurs(a, c) <=> Occurs(q, c) \/ e = c
  <2>1. Occurs(q, c) <=> \E i \in 1 .. n : q[i] = c
    BY DEF Occurs, n
  <2>2. Occurs(a, c) <=> \E i \in 1 .. n + 1 : a[i] = c
    BY <1>1 DEF Occurs
  <2>. QED BY <1>1, <1>2, <1>3, <2>1, <2>2
<1>5. Precedes(a, c, d) <=> \A j \in 1 .. n + 1 : a[j] = d => \E i \in 1 .. n + 1 : i < j /\ a[i] = c
  BY <1>1 DEF Precedes
<1>6. Precedes(q, c, d) <=> \A j \in 1 .. n : q[j] = d => \E i \in 1 .. n : i < j /\ q[i] = c
  BY DEF Precedes, n
<1>7. Occurs(q, c) <=> \E i \in 1 .. n : q[i] = c
  BY DEF Occurs, n
<1>8. ASSUME Precedes(a, c, d)
      PROVE  Precedes(q, c, d) /\ (e = d => Occurs(q, c))
  <2>1. ASSUME NEW j \in 1 .. n, q[j] = d
        PROVE  \E i \in 1 .. n : i < j /\ q[i] = c
    <3>1. PICK i \in 1 .. n + 1 : i < j /\ a[i] = c
      BY <1>1, <1>3, <1>5, <1>8, <2>1
    <3>2. i \in 1 .. n
      BY <1>1, <3>1
    <3>. QED BY <1>1, <3>1, <3>2
  <2>2. ASSUME e = d
        PROVE  Occurs(q, c)
    <3>1. PICK i \in 1 .. n + 1 : i < n + 1 /\ a[i] = c
      BY <1>1, <1>3, <1>5, <1>8, <2>2
    <3>2. i \in 1 .. n
      BY <1>1, <3>1
    <3>. QED BY <1>1, <1>7, <3>1, <3>2
  <2>. QED BY <1>6, <2>1, <2>2
<1>9. ASSUME Precedes(q, c, d), e = d => Occurs(q, c)
      PROVE  Precedes(a, c, d)
  <2>1. ASSUME NEW j \in 1 .. n + 1, a[j] = d
        PROVE  \E i \in 1 .. n + 1 : i < j /\ a[i] = c
    <3>1. CASE j \in 1 .. n
      <4>1. PICK i \in 1 .. n : i < j /\ q[i] = c
        BY <1>1, <1>6, <1>9, <2>1, <3>1
      <4>. QED BY <1>1, <1>3, <4>1
    <3>2. CASE j = n + 1
      <4>1. PICK i \in 1 .. n : q[i] = c
        BY <1>1, <1>7, <1>9, <2>1, <3>2
      <4>. QED BY <1>1, <1>3, <3>2, <4>1
    <3>. QED BY <1>2, <3>1, <3>2
  <2>. QED BY <1>5, <2>1
<1>. QED BY <1>4, <1>8, <1>9 DEF a

LEMMA Taken ==
  ASSUME NEW S, NEW q \in Seq(S), q # <<>>, NEW c \in S, NEW d \in S, c # d
  PROVE  /\ Occurs(q, c) <=> Head(q) = c \/ Occurs(Tail(q), c)
         /\ Precedes(q, c, d) <=> Head(q) # d /\ (Head(q) = c \/ Precedes(Tail(q), c, d))
<1>. DEFINE r == Tail(q)
            n == Len(q)
            h == Head(q)
<1>1. n \in Nat \ {0} /\ Len(r) = n - 1 /\ h = q[1] /\ \A i \in 1 .. n - 1 : r[i] = q[i + 1]
  BY HeadAndTail
<1>2. Occurs(q, c) <=> \E i \in 1 .. n : q[i] = c
  BY DEF Occurs
<1>3. Precedes(q, c, d) <=> \A j \in 1 .. n : q[j] = d => \E i \in 1 .. n : i < j /\ q[i] = c
  BY DEF Precedes
<1>. HIDE DEF r, n, h
<1>4. Occurs(r, c) <=> \E i \in 1 .. n - 1 : q[i + 1] = c
  BY <1>1 DEF Occurs
<1>5. Precedes(r, c, d) <=>
        \A j \in 1 .. n - 1 : q[j + 1] = d => \E i \in 1 .. n - 1 : i < j /\ q[i + 1] = c
  BY <1>1 DEF Precedes
<1>6. /\ 1 \in 1 .. n /\ \A i \in 1 .. n - 1 : i + 1 \in 1 .. n
      /\ \A i \in 1 .. n : i = 1 \/ (i - 1 \in 1 .. n - 1 /\ (i - 1) + 1 = i)
  BY <1>1
<1>7. Occurs(q, c) <=> h = c \/ Occurs(r, c)
  BY <1>1, <1>2, <1>4, <1>6
<1>8. ASSUME Precedes(q, c, d)
      PROVE  h # d /\ (h = c \/ Precedes(r, c, d))
  <2>1. h # d
    BY <1>1, <1>3, <1>6, <1>8
  <2>2. ASSUME h # c, NEW j \in 1 .. n - 1, q[j + 1] = d
        PROVE  \E i \in 1 .. n - 1 : i < j /\ q[i + 1] = c
    <3>1. PICK i \in 1 .. n : i < j + 1 /\ q[i] = c
      BY <1>3, <1>6, <1>8, <2>2
    <3>2. i # 1
      BY <1>1, <2>2, <3>1
    <3>3. i - 1 \in 1 .. n - 1 /\ i - 1 < j /\ q[(i - 1) + 1] = c
      BY <1>1, <3>1, <3>2
    <3>. QED BY <3>3
  <2>. QED BY <1>5, <2>1, <2>2
<1>9. ASSUME h # d, h = c \/ Precedes(r, c, d)
      PROVE  Precedes(q, c, d)
  <2>1. ASSUME NEW j \in 1 .. n, q[j] = d
        PROVE  \E i \in 1 .. n : i < j /\ q[i] = c
    <3>1. j # 1 /\ j - 1 \in 1 .. n - 1 /\ q[(j - 1) + 1] = d /\ 1 < j
      BY <1>1, <1>9, <2>1
    <3>2. CASE h = c
      BY <1>1, <1>6, <3>1, <3>2
    <3>3. CASE Precedes(r, c, d)
      <4>1. PICK i \in 1 .. n - 1 : i < j - 1 /\ q[i + 1] = c
        BY <1>5, <3>1, <3>3
      <4>2. i + 1 \in 1 .. n /\ i + 1 < j
        BY <1>1, <4>1
      <4>. QED BY <4>1, <4>2
    <3>. QED BY <1>9, <3>2, <3>3
  <2>. QED BY <1>3, <2>1
<1>. QED BY <1>7, <1>8, <1>9 DEF r, h

LEMMA AtMostOne ==
  ASSUME NEW c, NEW d, c # d
  PROVE  /\ ~Occurs(<<>>, c) /\ Precedes(<<>>, c, d)
         /\ \A e : (Occurs(<<e>>, c) <=> e = c) /\ (Precedes(<<e>>, c, d) <=> e # d)
<1>1. 1 .. Len(<<>>) = {}
  OBVIOUS
<1>2. ASSUME NEW e
      PROVE  1 .. Len(<<e>>) = {1} /\ <<e>>[1] = e
  OBVIOUS
<1>. QED BY <1>1, <1>2 DEF Occurs, Precedes

\* A command on its way is in the channel, with the server or in the pipe,
\* in the order in which Atlas will take them.
OnItsWay(c) == Occurs(queue, c) \/ Occurs(inHand, c) \/ Occurs(pipe.data, c)

\* Each d on its way has a c before it.
InOrder(c, d) ==
  /\ Precedes(queue, c, d)
  /\ \/ Occurs(queue, c)
     \/ Precedes(inHand, c, d) /\ (Occurs(inHand, c) \/ Precedes(pipe.data, c, d))

\* A step that moves a command on keeps what is on its way, in order.
Kept(c, d) == (OnItsWay(c)' <=> OnItsWay(c)) /\ (InOrder(c, d) => InOrder(c, d)')

\* What a write adds comes last, and what Atlas takes came first.
Added(c, d, e) ==
  /\ OnItsWay(c)' <=> OnItsWay(c) \/ e = c
  /\ InOrder(c, d) /\ (e = d => OnItsWay(c)) => InOrder(c, d)'

TakenOff(c, d, h) ==
  /\ OnItsWay(c)' => OnItsWay(c)
  /\ OnItsWay(c) => h = c \/ OnItsWay(c)'
  /\ h = c => OnItsWay(c)
  /\ InOrder(c, d) => h # d /\ (h = c \/ InOrder(c, d)')

LEMMA WriteAdds ==
  ASSUME TypeOK, NEW c \in Command, NEW d \in Command, c # d, NEW e \in Command,
         pipe' = [pipe EXCEPT !.data = Append(@, e)], UNCHANGED <<queue, inHand>>
  PROVE  Added(c, d, e)
<1>1. pipe.data \in Seq(Command) /\ pipe'.data = Append(pipe.data, e)
  BY DEF TypeOK
<1>2. /\ Occurs(pipe'.data, c) <=> Occurs(pipe.data, c) \/ e = c
      /\ Precedes(pipe'.data, c, d) <=> Precedes(pipe.data, c, d) /\ (e = d => Occurs(pipe.data, c))
  BY <1>1, Appended
<1>3. OnItsWay(c)' <=> Occurs(queue, c) \/ Occurs(inHand, c) \/ Occurs(pipe'.data, c)
  BY DEF OnItsWay
<1>4. InOrder(c, d)' <=> /\ Precedes(queue, c, d)
                         /\ \/ Occurs(queue, c)
                            \/ /\ Precedes(inHand, c, d)
                               /\ Occurs(inHand, c) \/ Precedes(pipe'.data, c, d)
  BY DEF InOrder
<1>. QED BY <1>2, <1>3, <1>4 DEF Added, OnItsWay, InOrder

LEMMA ReadKeeps ==
  ASSUME TypeOK, Reads, NEW c \in Command, NEW d \in Command, c # d
  PROVE  Kept(c, d)
<1>. DEFINE h == Head(pipe.data)
<1>1. /\ pipe.data \in Seq(Command) /\ pipe.data # <<>> /\ inHand = <<>> /\ inHand' = <<h>>
      /\ pipe'.data = Tail(pipe.data) /\ queue' = queue
  BY DEF Reads, TypeOK
<1>. HIDE DEF h
<1>2. /\ Occurs(pipe.data, c) <=> h = c \/ Occurs(pipe'.data, c)
      /\ Precedes(pipe.data, c, d) <=> h # d /\ (h = c \/ Precedes(pipe'.data, c, d))
  BY <1>1, Taken DEF h
<1>3. /\ ~Occurs(inHand, c) /\ Precedes(inHand, c, d)
      /\ Occurs(inHand', c) <=> h = c
      /\ Precedes(inHand', c, d) <=> h # d
  BY <1>1, AtMostOne
<1>4. OnItsWay(c)' <=> Occurs(queue, c) \/ Occurs(inHand', c) \/ Occurs(pipe'.data, c)
  BY <1>1 DEF OnItsWay
<1>5. InOrder(c, d)' <=> /\ Precedes(queue, c, d)
                         /\ \/ Occurs(queue, c)
                            \/ /\ Precedes(inHand', c, d)
                               /\ Occurs(inHand', c) \/ Precedes(pipe'.data, c, d)
  BY <1>1 DEF InOrder
<1>. QED BY <1>2, <1>3, <1>4, <1>5 DEF Kept, OnItsWay, InOrder

LEMMA ForwardKeeps ==
  ASSUME TypeOK, Forwards, NEW c \in Command, NEW d \in Command, c # d
  PROVE  Kept(c, d)
<1>1. PICK e \in Command : inHand = <<e>>
  BY DEF Forwards, TypeOK
<1>2. inHand' = <<>> /\ queue' = queue \o <<e>> /\ pipe' = pipe /\ queue \in Seq(Command \cup Pause)
  BY <1>1 DEF Forwards, TypeOK
<1>3. queue' = Append(queue, e)
  BY <1>2, AppendIsConcat
<1>4. /\ Occurs(queue', c) <=> Occurs(queue, c) \/ e = c
      /\ Precedes(queue', c, d) <=> Precedes(queue, c, d) /\ (e = d => Occurs(queue, c))
  <2>. DEFINE X == Command \cup Pause
  <2>1. queue \in Seq(X) /\ e \in X /\ c \in X /\ d \in X
    BY <1>2
  <2>. HIDE DEF X
  <2>2. /\ Occurs(Append(queue, e), c) <=> Occurs(queue, c) \/ e = c
        /\ Precedes(Append(queue, e), c, d) <=> Precedes(queue, c, d) /\ (e = d => Occurs(queue, c))
    BY <2>1, Appended
  <2>. QED BY <1>3, <2>2
<1>5. /\ ~Occurs(inHand', c) /\ Precedes(inHand', c, d)
      /\ Occurs(inHand, c) <=> e = c
      /\ Precedes(inHand, c, d) <=> e # d
  BY <1>1, <1>2, AtMostOne
<1>6. OnItsWay(c)' <=> Occurs(queue', c) \/ Occurs(inHand', c) \/ Occurs(pipe.data, c)
  BY <1>2 DEF OnItsWay
<1>7. InOrder(c, d)' <=> /\ Precedes(queue', c, d)
                         /\ \/ Occurs(queue', c)
                            \/ /\ Precedes(inHand', c, d)
                               /\ Occurs(inHand', c) \/ Precedes(pipe.data, c, d)
  BY <1>2 DEF InOrder
<1>. QED BY <1>4, <1>5, <1>6, <1>7 DEF Kept, OnItsWay, InOrder

LEMMA ToggleKeeps ==
  ASSUME TypeOK, TrayTogglesPause, NEW c \in Command, NEW d \in Command, c # d
  PROVE  Kept(c, d)
<1>. DEFINE e == [paused |-> trayPaused']
<1>1. inHand' = inHand /\ pipe' = pipe /\ (queue' = queue \/ queue' = Append(queue, e))
  BY DEF TrayTogglesPause, serverVars
<1>2. queue \in Seq(Command \cup Pause) /\ e \in Pause
  BY DEF TypeOK, TrayTogglesPause, Pause
<1>3. e # c /\ e # d
  BY <1>2, CommandIsNoPause
<1>. HIDE DEF e
<1>4. /\ Occurs(queue', c) <=> Occurs(queue, c)
      /\ Precedes(queue', c, d) <=> Precedes(queue, c, d)
  <2>1. {c, d, e} \subseteq Command \cup Pause
    BY <1>2
  <2>2. CASE queue' = Append(queue, e)
    BY <1>2, <1>3, <2>1, <2>2, Appended
  <2>. QED BY <1>1, <2>2
<1>5. OnItsWay(c)' <=> Occurs(queue', c) \/ Occurs(inHand, c) \/ Occurs(pipe.data, c)
  BY <1>1 DEF OnItsWay
<1>6. InOrder(c, d)' <=> /\ Precedes(queue', c, d)
                         /\ \/ Occurs(queue', c)
                            \/ /\ Precedes(inHand, c, d)
                               /\ Occurs(inHand, c) \/ Precedes(pipe.data, c, d)
  BY <1>1 DEF InOrder
<1>. QED BY <1>4, <1>5, <1>6 DEF Kept, OnItsWay, InOrder

LEMMA AtlasTakesOff ==
  ASSUME TypeOK, AtlasTakes, NEW c \in Command, NEW d \in Command, c # d
  PROVE  TakenOff(c, d, Head(queue))
<1>. DEFINE h == Head(queue)
<1>1. /\ queue \in Seq(Command \cup Pause) /\ queue # <<>> /\ queue' = Tail(queue)
      /\ inHand' = inHand /\ pipe' = pipe
  BY DEF AtlasTakes, TypeOK, serverVars
<1>. HIDE DEF h
<1>2. /\ Occurs(queue, c) <=> h = c \/ Occurs(queue', c)
      /\ Precedes(queue, c, d) <=> h # d /\ (h = c \/ Precedes(queue', c, d))
  BY <1>1, Taken DEF h
<1>3. OnItsWay(c)' <=> Occurs(queue', c) \/ Occurs(inHand, c) \/ Occurs(pipe.data, c)
  BY <1>1 DEF OnItsWay
<1>4. InOrder(c, d)' <=> /\ Precedes(queue', c, d)
                         /\ \/ Occurs(queue', c)
                            \/ /\ Precedes(inHand, c, d)
                               /\ Occurs(inHand, c) \/ Precedes(pipe.data, c, d)
  BY <1>1 DEF InOrder
<1>. QED BY <1>2, <1>3, <1>4 DEF TakenOff, OnItsWay, InOrder, h

-----------------------------------------------------------------------------
(* One connection at a time, and how far each task is *)

Connected ==
  /\ \A t \in Tasks : task[t].pc \in {"write", "close"} =>
       /\ server = "serving" /\ pipe.open
       /\ \A u \in Tasks : task[u].pc \in {"write", "close"} => u = t
  /\ server # "serving" => inHand = <<>> /\ pipe.data = <<>>

\* A command still to send has no fate until it is written or given up, and
\* the save comes before the run.
JobPart(t, left, pc, s, r) ==
  /\ left \in {<<>>, <<Save(t)>>, <<Run(t)>>, <<Save(t), Run(t)>>}
  /\ pc = "new" => left = <<>> /\ s = "none" /\ r = "none"
  /\ left \in {<<Save(t)>>, <<Save(t), Run(t)>>} =>
       r = "none" /\ (pc \in {"open", "write"} <=> s = "none")
  /\ left = <<Run(t)>> => s # "none" /\ (pc \in {"open", "write"} <=> r = "none")
  /\ r # "none" => s # "none"
  /\ pc = "write" => left # <<>>

\* A written save is on its way, before the run; a run is taken after it.
WayPart(t, s, r) ==
  /\ s = "written" => OnItsWay(Save(t)) /\ InOrder(Save(t), Run(t))
  /\ OnItsWay(Save(t)) => s # "none"
  /\ OnItsWay(Run(t)) => r # "none"
  /\ r = "taken" => s \in {"taken", "failed"}

JobInv == \A t \in Tasks : JobPart(t, task[t].left, task[t].pc, fate[Save(t)], fate[Run(t)])
WayInv == \A t \in Tasks : WayPart(t, fate[Save(t)], fate[Run(t)])
PipesInv == PipesTypes /\ Connected /\ JobInv /\ WayInv

LEMMA ConnectedStays ==
  ASSUME PipesTypes, Connected, [Next]_vars
  PROVE  Connected'
<1>0. TypeOK /\ task \in [Tasks -> [pc : {"new", "open", "write", "close", "done"}, left : Seq(Command)]]
  BY DEF PipesTypes, TypeOK
<1>1. CASE UNCHANGED <<task, server, pipe, inHand>>
  BY <1>1 DEF Connected
<1>2. CASE Starts \/ OpenFails
  <2>1. PICK t \in Tasks, rec \in [pc : {"open", "done"}, left : Seq(Command)] :
          /\ task[t].pc \in {"new", "open"} /\ task' = [task EXCEPT ![t] = rec]
          /\ UNCHANGED serverVars
    <3>1. CASE Starts
      <4>1. PICK t \in Tasks, kind \in Kinds :
              /\ task[t].pc = "new" /\ UNCHANGED serverVars
              /\ task' = [task EXCEPT ![t] = [pc |-> "open", left |-> Job(t, kind)]]
        BY <3>1 DEF Starts, serverVars
      <4>. QED BY <4>1, JobTypes
    <3>2. CASE OpenFails
      <4>1. PICK t \in Tasks :
              /\ task[t].pc = "open" /\ task' = [task EXCEPT ![t] = Rest(t)]
              /\ UNCHANGED serverVars
        BY <3>2 DEF OpenFails, serverVars
      <4>2. Rest(t) \in [pc : {"open", "done"}, left : Seq(Command)]
        BY <1>0, RestTypes
      <4>. QED BY <4>1, <4>2
    <3>. QED BY <1>2, <3>1, <3>2
  <2>2. \A u \in Tasks : task'[u].pc \in {"write", "close"} => task[u].pc \in {"write", "close"}
    BY <1>0, <2>1
  <2>. QED BY <2>1, <2>2 DEF Connected, serverVars
<1>3. CASE Opens
  <2>1. PICK t \in Tasks :
          /\ server = "listening" /\ server' = "serving" /\ pipe' = [open |-> TRUE, data |-> <<>>]
          /\ task' = [task EXCEPT ![t].pc = IF task[t].left = <<>> THEN "close" ELSE "write"]
    BY <1>3 DEF Opens
  <2>2. \A u \in Tasks : task'[u].pc \in {"write", "close"} => u = t
    BY <1>0, <2>1 DEF Connected
  <2>. QED BY <2>1, <2>2 DEF Connected
<1>4. CASE Writes
  <2>1. PICK t \in Tasks :
          /\ task[t].pc = "write" /\ task' = [task EXCEPT ![t].pc = "close"]
          /\ pipe' = [pipe EXCEPT !.data = Append(@, Head(task[t].left))]
          /\ UNCHANGED <<server, inHand>>
    BY <1>4 DEF Writes
  <2>2. \A u \in Tasks : task'[u].pc \in {"write", "close"} <=> task[u].pc \in {"write", "close"}
    BY <1>0, <2>1
  <2>3. pipe'.open = pipe.open /\ server = "serving"
    BY <1>0, <2>1 DEF Connected, TypeOK
  <2>. QED BY <2>1, <2>2, <2>3 DEF Connected
<1>5. CASE Closes
  <2>1. PICK t \in Tasks :
          /\ task[t].pc = "close" /\ task' = [task EXCEPT ![t] = Rest(t)]
          /\ pipe' = [pipe EXCEPT !.open = FALSE] /\ UNCHANGED <<server, inHand>>
    BY <1>5 DEF Closes
  <2>2. Rest(t).pc \in {"open", "done"}
    BY DEF Rest
  <2>3. \A u \in Tasks : task'[u].pc \notin {"write", "close"}
    BY <1>0, <2>1, <2>2 DEF Connected
  <2>4. server' = "serving"
    BY <2>1 DEF Connected
  <2>. QED BY <2>3, <2>4 DEF Connected
<1>6. CASE Wakes \/ Reads
  <2>1. pipe'.open = pipe.open
    BY <1>0, <1>6 DEF Wakes, Reads, TypeOK
  <2>. QED BY <1>6, <2>1 DEF Wakes, Reads, Connected
<1>7. CASE Forwards \/ Ends
  BY <1>7 DEF Forwards, Ends, Connected
<1>8. \/ UNCHANGED <<task, server, pipe, inHand>>
      \/ Starts \/ Opens \/ OpenFails \/ Writes \/ Closes \/ Wakes \/ Reads \/ Forwards \/ Ends
  BY DEF Next, Done, vars, serverVars, TrayTogglesPause, AtlasTakes
<1>. QED BY <1>1, <1>2, <1>3, <1>4, <1>5, <1>6, <1>7, <1>8

\* The commands of two tasks differ, and each is a save or a run.
LEMMA Distinct ==
  ASSUME NEW t \in Tasks, NEW u \in Tasks
  PROVE  /\ Save(t) \in Command /\ Run(t) \in Command /\ Save(t) # Run(u)
         /\ Save(t) = Save(u) => t = u
         /\ Run(t) = Run(u) => t = u
<1>1. /\ Save(t).name = "save" /\ Run(u).name = "run"
      /\ Save(t).task = t /\ Save(u).task = u /\ Run(t).task = t /\ Run(u).task = u
  BY DEF Save, Run
<1>. QED BY <1>1, Commands

\* What is left once the first command is done with.
LEMMA RestOf ==
  ASSUME NEW t \in Tasks
  PROVE  /\ task[t].left = <<>> => Rest(t) = [pc |-> "done", left |-> <<>>]
         /\ \A c : task[t].left = <<c>> => Rest(t) = [pc |-> "done", left |-> <<>>]
         /\ \A c, d : task[t].left = <<c, d>> => Rest(t) = [pc |-> "open", left |-> <<d>>]
<1>1. /\ Len(<<>>) = 0 /\ \A c : Len(<<c>>) = 1 /\ Tail(<<c>>) = <<>> /\ <<c>> # <<>>
      /\ \A c, d : Len(<<c, d>>) = 2 /\ Tail(<<c, d>>) = <<d>> /\ <<c, d>> # <<>>
  OBVIOUS
<1>2. ASSUME task[t].left = <<>>
      PROVE  Rest(t) = [pc |-> "done", left |-> <<>>]
  BY <1>1, <1>2 DEF Rest
<1>3. ASSUME NEW c, task[t].left = <<c>>
      PROVE  Rest(t) = [pc |-> "done", left |-> <<>>]
  BY <1>1, <1>3 DEF Rest
<1>4. ASSUME NEW c, NEW d, task[t].left = <<c, d>>
      PROVE  Rest(t) = [pc |-> "open", left |-> <<d>>]
  BY <1>1, <1>4 DEF Rest
<1>. QED BY <1>2, <1>3, <1>4

LEMMA JobStays ==
  ASSUME PipesTypes, JobInv, Starts \/ Opens \/ OpenFails \/ Writes \/ Closes
  PROVE  JobInv'
<1>0. /\ TypeOK /\ \A t \in Tasks : task[t].pc = "write" => task[t].left # <<>>
      /\ task \in [Tasks -> [pc : {"new", "open", "write", "close", "done"}, left : Seq(Command)]]
      /\ fate \in [Command -> Fates]
  BY DEF PipesTypes, TypeOK
<1>a. \A t \in Tasks : JobPart(t, task[t].left, task[t].pc, fate[Save(t)], fate[Run(t)])
  BY DEF JobInv
<1>1. CASE Starts
  <2>1. PICK t \in Tasks, kind \in Kinds :
          /\ task[t].pc = "new" /\ UNCHANGED fate
          /\ task' = [task EXCEPT ![t] = [pc |-> "open", left |-> Job(t, kind)]]
    BY <1>1 DEF Starts
  <2>2. task'[t].pc = "open" /\ task'[t].left \in {<<>>, <<Save(t)>>, <<Save(t), Run(t)>>}
    BY <1>0, <2>1, JobTypes
  <2>3. JobPart(t, task'[t].left, task'[t].pc, fate[Save(t)], fate[Run(t)])
    <3>1. fate[Save(t)] = "none" /\ fate[Run(t)] = "none"
      BY <1>a, <2>1 DEF JobPart
    <3>2. task'[t].left # <<Run(t)>>
      <4>1. <<Run(t)>> # <<>> /\ <<Run(t)>> # <<Save(t)>> /\ <<Run(t)>> # <<Save(t), Run(t)>>
        BY Distinct
      <4>. QED BY <2>2, <4>1
    <3>. QED BY <2>2, <3>1, <3>2 DEF JobPart
  <2>4. \A u \in Tasks : u # t => task'[u] = task[u]
    BY <1>0, <2>1
  <2>. QED BY <1>a, <2>1, <2>3, <2>4 DEF JobInv
<1>2. CASE Opens
  <2>1. PICK t \in Tasks :
          /\ task[t].pc = "open" /\ UNCHANGED fate
          /\ task' = [task EXCEPT ![t].pc = IF task[t].left = <<>> THEN "close" ELSE "write"]
    BY <1>2 DEF Opens
  <2>2. /\ task'[t].left = task[t].left
        /\ task'[t].pc = IF task[t].left = <<>> THEN "close" ELSE "write"
    BY <1>0, <2>1
  <2>3. JobPart(t, task'[t].left, task'[t].pc, fate[Save(t)], fate[Run(t)])
    BY <1>a, <2>1, <2>2 DEF JobPart
  <2>4. \A u \in Tasks : u # t => task'[u] = task[u]
    BY <1>0, <2>1
  <2>. QED BY <1>a, <2>1, <2>3, <2>4 DEF JobInv
<1>3. CASE OpenFails
  <2>1. PICK t \in Tasks :
          /\ task[t].pc = "open" /\ task' = [task EXCEPT ![t] = Rest(t)]
          /\ fate' = [c \in Command |->
               IF task[t].left # <<>> /\ c = Head(task[t].left) THEN "failed" ELSE fate[c]]
    BY <1>3 DEF OpenFails
  <2>2. task'[t] = Rest(t) /\ \A u \in Tasks : u # t => task'[u] = task[u]
    BY <1>0, <2>1
  <2>3. JobPart(t, task'[t].left, task'[t].pc, fate'[Save(t)], fate'[Run(t)])
    <3>0. JobPart(t, task[t].left, "open", fate[Save(t)], fate[Run(t)])
      BY <1>a, <2>1
    <3>1. CASE task[t].left = <<>>
      <4>1. fate'[Save(t)] = fate[Save(t)] /\ fate'[Run(t)] = fate[Run(t)]
        BY <2>1, <3>1, Distinct
      <4>. QED BY <2>2, <3>0, <3>1, <4>1, RestOf DEF JobPart
    <3>2. CASE task[t].left = <<Save(t)>>
      <4>1. fate'[Save(t)] = "failed" /\ fate'[Run(t)] = fate[Run(t)]
        BY <2>1, <3>2, Distinct
      <4>. QED BY <2>2, <3>0, <3>2, <4>1, RestOf DEF JobPart
    <3>3. CASE task[t].left = <<Run(t)>>
      <4>1. fate'[Save(t)] = fate[Save(t)] /\ fate'[Run(t)] = "failed"
        BY <2>1, <3>3, Distinct
      <4>. QED BY <2>2, <3>0, <3>3, <4>1, RestOf DEF JobPart
    <3>4. CASE task[t].left = <<Save(t), Run(t)>>
      <4>1. fate'[Save(t)] = "failed" /\ fate'[Run(t)] = fate[Run(t)]
        BY <2>1, <3>4, Distinct
      <4>2. task'[t].left = <<Run(t)>> /\ task'[t].pc = "open"
        BY <2>2, <3>4, RestOf
      <4>3. fate[Run(t)] = "none" /\ <<Run(t)>> # <<Save(t)>>
        BY <3>0, <3>4, Distinct DEF JobPart
      <4>. QED BY <4>1, <4>2, <4>3 DEF JobPart
    <3>. QED BY <3>0, <3>1, <3>2, <3>3, <3>4 DEF JobPart
  <2>4. ASSUME NEW u \in Tasks, u # t
        PROVE  fate'[Save(u)] = fate[Save(u)] /\ fate'[Run(u)] = fate[Run(u)]
    <3>1. task[t].left # <<>> => Head(task[t].left) \in {Save(t), Run(t)}
      BY <1>a DEF JobPart
    <3>. QED BY <2>1, <2>4, <3>1, Distinct
  <2>. QED BY <1>a, <2>2, <2>3, <2>4 DEF JobInv
<1>4. CASE Writes
  <2>1. PICK t \in Tasks :
          /\ task[t].pc = "write" /\ task' = [task EXCEPT ![t].pc = "close"]
          /\ fate' = [fate EXCEPT ![Head(task[t].left)] = "written"]
    BY <1>4 DEF Writes
  <2>2. /\ task'[t].left = task[t].left /\ task'[t].pc = "close"
        /\ \A u \in Tasks : u # t => task'[u] = task[u]
    BY <1>0, <2>1
  <2>3. JobPart(t, task'[t].left, task'[t].pc, fate'[Save(t)], fate'[Run(t)])
    <3>0. JobPart(t, task[t].left, "write", fate[Save(t)], fate[Run(t)])
      BY <1>a, <2>1
    <3>1. CASE task[t].left \in {<<Save(t)>>, <<Save(t), Run(t)>>}
      <4>1. fate'[Save(t)] = "written" /\ fate'[Run(t)] = fate[Run(t)]
        BY <1>0, <2>1, <3>1, Distinct
      <4>2. <<Run(t)>> # <<Save(t)>> /\ <<Run(t)>> # <<Save(t), Run(t)>>
        BY Distinct
      <4>. QED BY <2>2, <3>0, <3>1, <4>1, <4>2 DEF JobPart
    <3>2. CASE task[t].left = <<Run(t)>>
      <4>1. fate'[Save(t)] = fate[Save(t)] /\ fate'[Run(t)] = "written"
        BY <1>0, <2>1, <3>2, Distinct
      <4>2. <<Run(t)>> # <<Save(t)>> /\ <<Run(t)>> # <<Save(t), Run(t)>>
        BY Distinct
      <4>. QED BY <2>2, <3>0, <3>2, <4>1, <4>2 DEF JobPart
    <3>. QED BY <3>0, <3>1, <3>2 DEF JobPart
  <2>4. ASSUME NEW u \in Tasks, u # t
        PROVE  fate'[Save(u)] = fate[Save(u)] /\ fate'[Run(u)] = fate[Run(u)]
    <3>1. Head(task[t].left) \in {Save(t), Run(t)}
      BY <1>a, <2>1 DEF JobPart
    <3>. QED BY <1>0, <2>1, <2>4, <3>1, Distinct
  <2>. QED BY <1>a, <2>2, <2>3, <2>4 DEF JobInv
<1>5. CASE Closes
  <2>1. PICK t \in Tasks :
          task[t].pc = "close" /\ task' = [task EXCEPT ![t] = Rest(t)] /\ UNCHANGED fate
    BY <1>5 DEF Closes
  <2>2. task'[t] = Rest(t) /\ \A u \in Tasks : u # t => task'[u] = task[u]
    BY <1>0, <2>1
  <2>3. JobPart(t, task'[t].left, task'[t].pc, fate[Save(t)], fate[Run(t)])
    <3>0. JobPart(t, task[t].left, "close", fate[Save(t)], fate[Run(t)])
      BY <1>a, <2>1
    <3>1. CASE task[t].left \in {<<>>, <<Save(t)>>, <<Run(t)>>}
      <4>1. task'[t].left = <<>> /\ task'[t].pc = "done"
        BY <2>2, <3>1, RestOf
      <4>. QED BY <3>0, <4>1 DEF JobPart
    <3>2. CASE task[t].left = <<Save(t), Run(t)>>
      <4>1. task'[t].left = <<Run(t)>> /\ task'[t].pc = "open"
        BY <2>2, <3>2, RestOf
      <4>2. fate[Run(t)] = "none" /\ fate[Save(t)] # "none" /\ <<Run(t)>> # <<Save(t)>>
        BY <3>0, <3>2, Distinct DEF JobPart
      <4>. QED BY <4>1, <4>2 DEF JobPart
    <3>. QED BY <3>0, <3>1, <3>2 DEF JobPart
  <2>. QED BY <1>a, <2>1, <2>2, <2>3 DEF JobInv
<1>. QED BY <1>1, <1>2, <1>3, <1>4, <1>5

LEMMA JobKept ==
  ASSUME PipesTypes, JobInv, WayInv, [Next]_vars,
         ~(Starts \/ Opens \/ OpenFails \/ Writes \/ Closes)
  PROVE  JobInv'
<1>1. UNCHANGED task
  BY DEF Next, Done, vars, serverVars, Wakes, Reads, Forwards, Ends, TrayTogglesPause, AtlasTakes
<1>2. CASE UNCHANGED fate
  BY <1>1, <1>2 DEF JobInv
<1>3. CASE AtlasTakes /\ ~UNCHANGED fate
  <2>1. /\ Head(queue) \in Command /\ fate' = [fate EXCEPT ![Head(queue)] = "taken"]
        /\ fate \in [Command -> Fates] /\ TypeOK
    BY <1>3 DEF AtlasTakes, PipesTypes, TypeOK
  <2>2. ASSUME NEW t \in Tasks
        PROVE  JobPart(t, task[t].left, task[t].pc, fate'[Save(t)], fate'[Run(t)])
    <3>0. JobPart(t, task[t].left, task[t].pc, fate[Save(t)], fate[Run(t)])
      BY DEF JobInv
    <3>1. CASE Head(queue) \notin {Save(t), Run(t)}
      <4>1. fate'[Save(t)] = fate[Save(t)] /\ fate'[Run(t)] = fate[Run(t)]
        BY <2>1, <3>1, Distinct
      <4>. QED BY <3>0, <4>1
    <3>2. CASE Head(queue) = Run(t)
      <4>1. fate'[Save(t)] = fate[Save(t)] /\ fate'[Run(t)] = "taken"
        BY <2>1, <3>2, Distinct
      <4>2. OnItsWay(Run(t))
        BY <1>3, <2>1, <3>2, AtlasTakesOff, Distinct DEF TakenOff
      <4>3. fate[Run(t)] # "none"
        BY <4>2 DEF WayInv, WayPart
      <4>. QED BY <3>0, <4>1, <4>3 DEF JobPart
    <3>3. CASE Head(queue) = Save(t)
      <4>1. fate'[Save(t)] = "taken" /\ fate'[Run(t)] = fate[Run(t)]
        BY <2>1, <3>3, Distinct
      <4>2. OnItsWay(Save(t))
        BY <1>3, <2>1, <3>3, AtlasTakesOff, Distinct DEF TakenOff
      <4>3. fate[Save(t)] # "none"
        BY <4>2 DEF WayInv, WayPart
      <4>. QED BY <3>0, <4>1, <4>3 DEF JobPart
    <3>. QED BY <3>1, <3>2, <3>3
  <2>. QED BY <1>1, <2>2 DEF JobInv
<1>. QED BY <1>2, <1>3 DEF Next, Done, vars, Wakes, Reads, Forwards, Ends, TrayTogglesPause

LEMMA WayKept ==
  ASSUME WayInv, UNCHANGED fate,
         \A c, d \in Command : c # d => Kept(c, d)
  PROVE  WayInv'
<1>1. ASSUME NEW t \in Tasks
      PROVE  WayPart(t, fate[Save(t)], fate[Run(t)])'
  <2>1. WayPart(t, fate[Save(t)], fate[Run(t)])
    BY DEF WayInv
  <2>2. Kept(Save(t), Run(t)) /\ Kept(Run(t), Save(t))
    BY Distinct
  <2>. QED BY <2>1, <2>2 DEF WayPart, Kept
<1>. QED BY <1>1 DEF WayInv

LEMMA WayOfWrite ==
  ASSUME PipesTypes, JobInv, WayInv, Writes
  PROVE  WayInv'
<1>0. TypeOK /\ fate \in [Command -> Fates]
  BY DEF PipesTypes, TypeOK
<1>1. PICK t \in Tasks :
        /\ task[t].pc = "write" /\ pipe' = [pipe EXCEPT !.data = Append(@, Head(task[t].left))]
        /\ fate' = [fate EXCEPT ![Head(task[t].left)] = "written"]
        /\ UNCHANGED <<queue, inHand>>
  BY DEF Writes
<1>2. JobPart(t, task[t].left, "write", fate[Save(t)], fate[Run(t)])
  BY <1>1 DEF JobInv
<1>. DEFINE e == Head(task[t].left)
<1>3. e \in {Save(t), Run(t)} /\ fate[e] = "none"
      /\ (e = Save(t) => fate[Run(t)] = "none") /\ (e = Run(t) => fate[Save(t)] # "none")
  <2>1. CASE task[t].left \in {<<Save(t)>>, <<Save(t), Run(t)>>}
    BY <1>2, <2>1, Distinct DEF JobPart
  <2>2. CASE task[t].left = <<Run(t)>>
    BY <1>2, <2>2, Distinct DEF JobPart
  <2>. QED BY <1>2, <2>1, <2>2 DEF JobPart
<1>4. e \in Command
  BY <1>3, Distinct
<1>. HIDE DEF e
<1>5. pipe' = [pipe EXCEPT !.data = Append(@, e)] /\ fate' = [fate EXCEPT ![e] = "written"]
  BY <1>1 DEF e
<1>6. \A c, d \in Command : c # d => Added(c, d, e)
  BY <1>0, <1>1, <1>4, <1>5, WriteAdds
<1>7. ASSUME NEW u \in Tasks
      PROVE  WayPart(u, fate[Save(u)], fate[Run(u)])'
  <2>1. WayPart(u, fate[Save(u)], fate[Run(u)])
    BY DEF WayInv
  <2>2. Added(Save(u), Run(u), e) /\ Added(Run(u), Save(u), e)
    BY <1>6, Distinct
  <2>3. CASE e \notin {Save(u), Run(u)}
    <3>1. fate'[Save(u)] = fate[Save(u)] /\ fate'[Run(u)] = fate[Run(u)]
      BY <1>0, <1>5, <2>3, Distinct
    <3>. QED BY <2>1, <2>2, <2>3, <3>1 DEF WayPart, Added
  <2>4. CASE e = Save(u)
    <3>1. u = t /\ Save(u) # Run(u)
      BY <1>3, <2>4, Distinct
    <3>2. fate'[Save(u)] = "written" /\ fate'[Run(u)] = "none" /\ fate[Run(u)] = "none"
      BY <1>0, <1>3, <1>5, <2>4, <3>1, Distinct
    <3>3. ~OnItsWay(Run(u))
      BY <2>1, <3>2 DEF WayPart
    <3>4. InOrder(Save(u), Run(u))
      BY <3>3 DEF OnItsWay, InOrder, Occurs, Precedes
    <3>. QED BY <2>2, <2>4, <3>1, <3>2, <3>3, <3>4 DEF WayPart, Added
  <2>5. CASE e = Run(u)
    <3>1. u = t /\ Save(u) # Run(u)
      BY <1>3, <2>5, Distinct
    <3>2. fate'[Run(u)] = "written" /\ fate'[Save(u)] = fate[Save(u)] /\ fate[Save(u)] # "none"
      BY <1>0, <1>3, <1>5, <2>5, <3>1, Distinct
    <3>. QED BY <2>1, <2>2, <2>5, <3>1, <3>2 DEF WayPart, Added
  <2>. QED BY <2>3, <2>4, <2>5
<1>. QED BY <1>7 DEF WayInv

LEMMA WayOfTake ==
  ASSUME PipesTypes, JobInv, WayInv, AtlasTakes
  PROVE  WayInv'
<1>0. TypeOK /\ fate \in [Command -> Fates]
  BY DEF PipesTypes, TypeOK
<1>. DEFINE h == Head(queue)
<1>1. IF h \in Command THEN fate' = [fate EXCEPT ![h] = "taken"] ELSE fate' = fate
  BY CommandIsNoPause DEF AtlasTakes
<1>2. \A c, d \in Command : c # d => TakenOff(c, d, h)
  BY <1>0, AtlasTakesOff
<1>. HIDE DEF h
<1>3. ASSUME NEW t \in Tasks
      PROVE  WayPart(t, fate[Save(t)], fate[Run(t)])'
  <2>1. WayPart(t, fate[Save(t)], fate[Run(t)]) /\ Save(t) # Run(t)
    BY Distinct DEF WayInv
  <2>2. TakenOff(Save(t), Run(t), h) /\ TakenOff(Run(t), Save(t), h)
    BY <1>2, Distinct
  <2>3. CASE h \notin {Save(t), Run(t)}
    <3>1. fate'[Save(t)] = fate[Save(t)] /\ fate'[Run(t)] = fate[Run(t)]
      BY <1>0, <1>1, <2>3, Distinct
    <3>. QED BY <2>1, <2>2, <2>3, <3>1 DEF WayPart, TakenOff
  <2>4. CASE h = Save(t)
    <3>1. fate'[Save(t)] = "taken" /\ fate'[Run(t)] = fate[Run(t)]
      BY <1>0, <1>1, <2>1, <2>4, Distinct
    <3>. QED BY <2>1, <2>2, <2>4, <3>1 DEF WayPart, TakenOff
  <2>5. CASE h = Run(t)
    <3>1. fate'[Save(t)] = fate[Save(t)] /\ fate'[Run(t)] = "taken"
      BY <1>0, <1>1, <2>1, <2>5, Distinct
    <3>2. fate[Save(t)] # "written"
      BY <2>1, <2>2, <2>5 DEF WayPart, TakenOff
    <3>3. fate[Run(t)] # "none"
      BY <2>1, <2>2, <2>5 DEF WayPart, TakenOff
    <3>4. fate[Save(t)] \in Fates /\ fate[Save(t)] # "none"
      BY <1>0, <3>3, Distinct DEF JobInv, JobPart
    <3>5. fate[Save(t)] \in {"taken", "failed"}
      BY <3>2, <3>4 DEF Fates
    <3>. QED BY <2>1, <2>2, <3>1, <3>5 DEF WayPart, TakenOff
  <2>. QED BY <2>3, <2>4, <2>5
<1>. QED BY <1>3 DEF WayInv

LEMMA WayOfFailure ==
  ASSUME PipesTypes, JobInv, WayInv, OpenFails
  PROVE  WayInv'
<1>0. TypeOK /\ fate \in [Command -> Fates]
  BY DEF PipesTypes, TypeOK
<1>1. PICK t \in Tasks :
        /\ task[t].pc = "open"
        /\ fate' = [c \in Command |->
             IF task[t].left # <<>> /\ c = Head(task[t].left) THEN "failed" ELSE fate[c]]
        /\ UNCHANGED <<queue, inHand, pipe>>
  BY DEF OpenFails, serverVars
<1>2. JobPart(t, task[t].left, "open", fate[Save(t)], fate[Run(t)])
  BY <1>1 DEF JobInv
<1>3. task[t].left # <<>> => fate[Head(task[t].left)] = "none"
  <2>1. CASE task[t].left \in {<<Save(t)>>, <<Save(t), Run(t)>>}
    BY <1>2, <2>1 DEF JobPart
  <2>2. CASE task[t].left = <<Run(t)>>
    BY <1>2, <2>2 DEF JobPart
  <2>. QED BY <1>2, <2>1, <2>2 DEF JobPart
<1>4. \A c \in Command : fate'[c] = fate[c] \/ (fate[c] = "none" /\ fate'[c] = "failed")
  BY <1>1, <1>3
<1>5. \A c, d \in Command : /\ OnItsWay(c)' <=> OnItsWay(c)
                            /\ InOrder(c, d)' <=> InOrder(c, d)
  BY <1>1 DEF OnItsWay, InOrder
<1>6. ASSUME NEW u \in Tasks
      PROVE  WayPart(u, fate[Save(u)], fate[Run(u)])'
  <2>1. WayPart(u, fate[Save(u)], fate[Run(u)]) /\ Save(u) \in Command /\ Run(u) \in Command
    BY Distinct DEF WayInv
  <2>2. /\ fate'[Save(u)] = fate[Save(u)] \/ (fate[Save(u)] = "none" /\ fate'[Save(u)] = "failed")
        /\ fate'[Run(u)] = fate[Run(u)] \/ (fate[Run(u)] = "none" /\ fate'[Run(u)] = "failed")
    BY <1>4, <2>1
  <2>3. /\ OnItsWay(Save(u))' <=> OnItsWay(Save(u))
        /\ OnItsWay(Run(u))' <=> OnItsWay(Run(u))
        /\ InOrder(Save(u), Run(u))' <=> InOrder(Save(u), Run(u))
    BY <1>5, <2>1
  <2>. QED BY <2>1, <2>2, <2>3 DEF WayPart
<1>. QED BY <1>6 DEF WayInv

LEMMA WayStays ==
  ASSUME PipesTypes, Connected, JobInv, WayInv, [Next]_vars
  PROVE  WayInv'
<1>0. TypeOK
  BY DEF PipesTypes
<1>1. CASE UNCHANGED <<queue, inHand, pipe, fate>>
  <2>1. \A c, d \in Command : Kept(c, d)
    BY <1>1 DEF Kept, OnItsWay, InOrder
  <2>. QED BY <1>1, <2>1, WayKept
<1>2. CASE Opens
  <2>1. UNCHANGED <<queue, inHand, fate>> /\ pipe.data = <<>> /\ pipe'.data = <<>>
    BY <1>2 DEF Opens, Connected
  <2>2. \A c, d \in Command : Kept(c, d)
    BY <2>1 DEF Kept, OnItsWay, InOrder
  <2>. QED BY <2>1, <2>2, WayKept
<1>3. CASE Closes
  <2>1. UNCHANGED <<queue, inHand, fate>> /\ pipe'.data = pipe.data
    BY <1>0, <1>3 DEF Closes, TypeOK
  <2>2. \A c, d \in Command : Kept(c, d)
    BY <2>1 DEF Kept, OnItsWay, InOrder
  <2>. QED BY <2>1, <2>2, WayKept
<1>4. CASE Reads \/ Forwards \/ TrayTogglesPause
  <2>1. UNCHANGED fate
    BY <1>4 DEF Reads, Forwards, TrayTogglesPause
  <2>2. \A c, d \in Command : c # d => Kept(c, d)
    BY <1>0, <1>4, ReadKeeps, ForwardKeeps, ToggleKeeps
  <2>. QED BY <2>1, <2>2, WayKept
<1>5. \/ UNCHANGED <<queue, inHand, pipe, fate>>
      \/ Opens \/ OpenFails \/ Writes \/ Closes \/ Reads \/ Forwards \/ TrayTogglesPause \/ AtlasTakes
  BY DEF Next, Done, vars, serverVars, Starts, Wakes, Ends
<1>. QED BY <1>1, <1>2, <1>3, <1>4, <1>5, WayOfFailure, WayOfWrite, WayOfTake

LEMMA PipesInvariant == Spec => []PipesInv
<1>1. Init => Connected /\ JobInv /\ WayInv
  <2>. HAVE Init
  <2>1. /\ \A t \in Tasks : task[t].pc = "new" /\ task[t].left = <<>>
        /\ server = "asleep" /\ inHand = <<>> /\ queue = <<>> /\ pipe.data = <<>>
        /\ \A c \in Command : fate[c] = "none"
    BY DEF Init
  <2>2. Connected
    BY <2>1 DEF Connected
  <2>3. ASSUME NEW t \in Tasks
        PROVE  /\ JobPart(t, task[t].left, task[t].pc, fate[Save(t)], fate[Run(t)])
               /\ WayPart(t, fate[Save(t)], fate[Run(t)])
    <3>1. fate[Save(t)] = "none" /\ fate[Run(t)] = "none" /\ Save(t) # Run(t)
      BY <2>1, Distinct
    <3>2. ~OnItsWay(Save(t)) /\ ~OnItsWay(Run(t))
      <4>1. ~Occurs(<<>>, Save(t)) /\ ~Occurs(<<>>, Run(t))
        BY <3>1, AtMostOne
      <4>. QED BY <2>1, <4>1 DEF OnItsWay
    <3>3. <<>> # <<Save(t)>> /\ <<>> # <<Run(t)>> /\ <<>> # <<Save(t), Run(t)>>
      OBVIOUS
    <3>. QED BY <2>1, <3>1, <3>2, <3>3 DEF JobPart, WayPart
  <2>. QED BY <2>2, <2>3 DEF JobInv, WayInv
<1>2. PipesTypes /\ Connected /\ JobInv /\ WayInv /\ [Next]_vars
        => Connected' /\ JobInv' /\ WayInv'
  BY ConnectedStays, JobStays, JobKept, WayStays
<1>. QED BY <1>1, <1>2, PipesTyped, PTL DEF Spec, PipesInv

(***************************************************************************)
(* Whatever the other tasks of the Forge do to the pipe between the two    *)
(* commands of a simulation, Atlas takes no run before its save, unless    *)
(* the Forge was told that the save failed.                                *)
(***************************************************************************)
THEOREM SaveBeforeRunHolds == Spec => []SaveBeforeRun
<1>1. PipesInv => SaveBeforeRun
  BY DEF PipesInv, WayInv, WayPart, SaveBeforeRun, Save, Run
<1>. QED BY <1>1, PipesInvariant, PTL
=============================================================================
