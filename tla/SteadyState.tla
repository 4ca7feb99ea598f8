---------------------------- MODULE SteadyState ----------------------------
(***************************************************************************)
(* A file watcher (fs::spawn_watcher in arbiter-core/src/vigil.rs), the    *)
(* threads it starts for file events, the cooldown map they share, and the *)
(* filter (filter.rs) by which the engine marks the files it has written   *)
(* itself (runner.rs).                                                     *)
(*                                                                         *)
(* Time passes in ticks.  A thread sleeps at least CheckTicks between its  *)
(* two looks at a file's size; a fired event keeps others away for         *)
(* CooldownTicks, those of its file and those of every file of the same    *)
(* name that the ward watches; a mark is good for ExpiryTicks.  An age     *)
(* counts the ticks up to the bound where it stops to matter.              *)
(***************************************************************************)
EXTENDS Naturals, Sequences, SequencesExt

CONSTANTS
  Files,          \* the files of the ward, in its folder and those below
  Names, Name,    \* file -> its name without the folder
  Ignored,        \* temporary, restricted or not matching the ward's pattern
  EngineFiles,    \* the files the engine's decrees write
  Rewritten,      \* those written in place too, the others only grow
  CheckTicks,     \* 400 ms in is_write_complete
  CooldownTicks,  \* DEBOUNCE_MS = 400
  ExpiryTicks,    \* 3 s in is_own
  MaxWrites,      \* bound on the writes
  MaxTicks        \* bound on the time in which writes happen

ASSUME SteadyStateConstantsOK ==
  /\ Name \in [Files -> Names]
  /\ Ignored \cup EngineFiles \cup Rewritten \subseteq Files
  /\ CheckTicks \in Nat \ {0} /\ CooldownTicks \in 1 .. CheckTicks
  /\ ExpiryTicks \in Nat /\ ExpiryTicks > CheckTicks
  /\ MaxWrites \in Nat /\ MaxTicks \in Nat

VARIABLES
  size,      \* file -> its length; 0 also stands for absent
  events,    \* files with a Create or Modify event the watcher has not seen
  checks,    \* the threads of is_write_complete
  coolAge,   \* name -> ticks since it fired (COOLDOWN_MAP)
  markAge,   \* file -> ticks since the engine marked it (active_paths)
  writing,   \* the file the engine's runner is writing
  quietFor,  \* history: file -> ticks since its last write
  unserved,  \* history: the user's files written since their last summons
  firedBy,   \* history: name -> the files that fired last
  forgone,   \* history: files that a mark or a namesake's cooldown kept back
  ownFired,  \* history: a summons came of an event the engine had caused
  writes,    \* history: number of writes so far
  ticks      \* history: number of ticks in which writes could happen

watcherVars == <<events, checks, coolAge>>
engineVars  == <<markAge, writing>>
historyVars == <<quietFor, unserved, firedBy, forgone, ownFired, writes, ticks>>
vars == <<size, watcherVars, engineVars, historyVars>>

Event == [file : Files, own : BOOLEAN]
Check == [file : Files, own : BOOLEAN,
          stage : {"sleeping", "stable", "sending"},
          seen : Nat,              \* the size at its last look
          left : 0 .. CheckTicks]

TypeOK ==
  /\ size \in [Files -> 0 .. MaxWrites]
  /\ events \in Seq(Event) /\ checks \in Seq(Check)
  /\ coolAge \in [Names -> 0 .. CooldownTicks]
  /\ markAge \in [Files -> 0 .. ExpiryTicks]
  /\ writing \subseteq EngineFiles
  /\ quietFor \in [Files -> 0 .. CheckTicks]
  /\ unserved \subseteq Files /\ forgone \subseteq Files /\ ownFired \in BOOLEAN
  /\ firedBy \in [Names -> SUBSET Files]
  /\ writes \in 0 .. MaxWrites /\ ticks \in 0 .. MaxTicks

Init ==
  /\ size = [f \in Files |-> 0]
  /\ events = <<>> /\ checks = <<>>
  /\ coolAge = [n \in Names |-> CooldownTicks]
  /\ markAge = [f \in Files |-> ExpiryTicks]
  /\ writing = {}
  /\ quietFor = [f \in Files |-> CheckTicks]
  /\ unserved = {} /\ firedBy = [n \in Names |-> {}] /\ forgone = {}
  /\ ownFired = FALSE /\ writes = 0 /\ ticks = 0

-----------------------------------------------------------------------------
(* Files are written *)

Written(f, own) ==
  /\ writes < MaxWrites /\ writes' = writes + 1
  /\ \/ size' = [size EXCEPT ![f] = @ + 1]
     \/ f \in Rewritten /\ size[f] > 0 /\ UNCHANGED size
  /\ events' = Append(events, [file |-> f, own |-> own])
  /\ quietFor' = [quietFor EXCEPT ![f] = 0]
  /\ UNCHANGED <<checks, coolAge, firedBy, ownFired, ticks>>

UserWrites ==
  \E f \in Files :
    /\ Written(f, FALSE)
    /\ unserved' = unserved \cup ({f} \ Ignored)
    /\ forgone' = forgone \ {f}
    /\ UNCHANGED engineVars

\* A chunk of a copy, or the one rename of a move.
EngineWrites ==
  \E f \in EngineFiles :
    /\ writing \subseteq {f} /\ writing' = {f}
    /\ Written(f, TRUE)
    /\ UNCHANGED <<markAge, unserved, forgone>>

\* filter.mark(final_dst), once move_file or copy_file has returned Ok; an
\* operation that fails leaves what it has written unmarked.
EngineMarks ==
  /\ writing # {} /\ writing' = {}
  /\ \E marked \in SUBSET writing :
       markAge' = [f \in Files |-> IF f \in marked THEN 0 ELSE markAge[f]]
  /\ UNCHANGED <<size, watcherVars, historyVars>>

-----------------------------------------------------------------------------
(* The watcher and its threads *)

IsOwn(f) == markAge[f] < ExpiryTicks

\* The watcher takes an event: drop it, or start a thread that looks at the
\* file's size for the first time.  (That the thread starts somewhat later is
\* the same as that the watcher takes the event later.)
WatcherTakes ==
  /\ events # <<>> /\ events' = Tail(events)
  /\ LET e == Head(events)
         last == \A i \in DOMAIN events' : events'[i].file # e.file
     IN \/ /\ IsOwn(e.file) \/ e.file \in Ignored
           /\ forgone' = IF last THEN forgone \cup {e.file} ELSE forgone
           /\ UNCHANGED checks
        \/ /\ ~IsOwn(e.file) /\ e.file \notin Ignored
           /\ checks' = Append(checks, [file |-> e.file, own |-> e.own,
                                        stage |-> "sleeping",
                                        seen |-> size[e.file],
                                        left |-> CheckTicks])
           /\ UNCHANGED forgone
  /\ UNCHANGED <<size, coolAge, engineVars, quietFor, unserved, firedBy, ownFired,
                 writes, ticks>>

\* Mutant: any content of the file will do.
Stable_NonEmpty(c) == size[c.file] > 0

Stable(c) == size[c.file] = c.seen /\ size[c.file] > 0

\* is_write_complete: a thread wakes and looks again; it gives up if the size
\* has changed.
ThreadLooks ==
  \E i \in DOMAIN checks :
    LET c == checks[i]
    IN /\ c.stage = "sleeping" /\ c.left = 0
       /\ \/ /\ Stable(c)
             /\ checks' = [checks EXCEPT ![i].stage = "stable", ![i].seen = size[c.file]]
          \/ ~Stable(c) /\ checks' = RemoveAt(checks, i)
       /\ UNCHANGED <<size, events, coolAge, engineVars, historyVars>>

Cool(c) == coolAge[Name[c.file]] = CooldownTicks

\* Mutant: an event that is kept back starts the cooldown anew.
ThreadFires_Refreshes ==
  \E i \in DOMAIN checks :
    LET c == checks[i]
        n == Name[c.file]
    IN /\ c.stage = "stable"
       /\ coolAge' = [coolAge EXCEPT ![n] = 0]
       /\ \/ /\ Cool(c)
             /\ firedBy' = [firedBy EXCEPT ![n] = {c.file}]
             /\ checks' = [checks EXCEPT ![i].stage = "sending"]
             /\ UNCHANGED forgone
          \/ /\ ~Cool(c)
             /\ checks' = RemoveAt(checks, i)
             /\ forgone' = IF c.seen = size[c.file] /\ c.file \notin firedBy[n]
                           THEN forgone \cup {c.file} ELSE forgone
             /\ UNCHANGED firedBy
       /\ UNCHANGED <<size, events, engineVars, quietFor, unserved, ownFired, writes, ticks>>

\* is_debounced enters the name in the cooldown map, or finds it there and
\* the thread gives up.
ThreadFires ==
  \E i \in DOMAIN checks :
    LET c == checks[i]
        n == Name[c.file]
    IN /\ c.stage = "stable"
       /\ \/ /\ Cool(c)
             /\ coolAge' = [coolAge EXCEPT ![n] = 0]
             /\ firedBy' = [firedBy EXCEPT ![n] = {c.file}]
             /\ checks' = [checks EXCEPT ![i].stage = "sending"]
             /\ UNCHANGED forgone
          \/ /\ ~Cool(c)
             /\ checks' = RemoveAt(checks, i)
             /\ forgone' = IF c.seen = size[c.file] /\ c.file \notin firedBy[n]
                           THEN forgone \cup {c.file} ELSE forgone
             /\ UNCHANGED <<coolAge, firedBy>>
       /\ UNCHANGED <<size, events, engineVars, quietFor, unserved, ownFired, writes, ticks>>

\* blocking_send has found room in the queue.
ThreadSends ==
  \E i \in DOMAIN checks :
    LET c == checks[i]
    IN /\ c.stage = "sending"
       /\ checks' = RemoveAt(checks, i)
       /\ unserved' = unserved \ {c.file}
       /\ ownFired' = (ownFired \/ c.own)
       /\ UNCHANGED <<size, events, coolAge, engineVars, quietFor, firedBy, forgone,
                      writes, ticks>>

-----------------------------------------------------------------------------
(* Time *)

Older(age, bound) == IF age < bound THEN age + 1 ELSE age

Settled == /\ events = <<>> /\ checks = <<>> /\ writing = {}
           /\ \A n \in Names : coolAge[n] = CooldownTicks
           /\ \A f \in Files : markAge[f] = ExpiryTicks /\ quietFor[f] = CheckTicks

Tick ==
  /\ ~Settled
  /\ \/ ticks < MaxTicks /\ ticks' = ticks + 1 /\ UNCHANGED writes
     \/ ticks = MaxTicks /\ writes' = MaxWrites /\ UNCHANGED ticks
  /\ checks' = [i \in DOMAIN checks |->
                  [checks[i] EXCEPT !.left = IF @ > 0 THEN @ - 1 ELSE 0]]
  /\ coolAge' = [n \in Names |-> Older(coolAge[n], CooldownTicks)]
  /\ markAge' = [f \in Files |-> Older(markAge[f], ExpiryTicks)]
  /\ quietFor' = [f \in Files |-> Older(quietFor[f], CheckTicks)]
  /\ UNCHANGED <<size, events, writing, unserved, firedBy, forgone, ownFired>>

Rest == Settled /\ UNCHANGED vars

Next ==
  \/ UserWrites \/ EngineWrites \/ EngineMarks
  \/ WatcherTakes \/ ThreadLooks \/ ThreadFires \/ ThreadSends \/ Tick \/ Rest

Spec == Init /\ [][Next]_vars

\* The watcher's thread polls, sleeping threads wake, Atlas makes room in its
\* queue, time passes and the runner's operations return.
FairSpec ==
  Spec /\ WF_vars(EngineMarks) /\ WF_vars(WatcherTakes) /\ WF_vars(ThreadLooks)
       /\ WF_vars(ThreadFires) /\ WF_vars(ThreadSends) /\ WF_vars(Tick)

-----------------------------------------------------------------------------

(***************************************************************************)
(* A file the user has written is summoned after its last write, though    *)
(* writes, the threads of earlier events and the cooldown interleave: no   *)
(* event that matters is debounced away by the file's own threads.  Two    *)
(* things the code does are excepted: its last event is taken for the      *)
(* engine's, or its thread meets the cooldown of another file of its name. *)
(***************************************************************************)
UserWriteSummoned ==
  \A f \in Files : f \in unserved ~> f \notin unserved \/ f \in forgone

\* The thread will find the file as it has seen it, and the cooldown over
\* or begun by a namesake.
WillFire(c) ==
  /\ c.stage \in {"sleeping", "stable"} /\ c.seen = size[c.file]
  /\ \/ coolAge[Name[c.file]] + c.left >= CooldownTicks
     \/ c.file \notin firedBy[Name[c.file]]

(***************************************************************************)
(* Why: of such a file an event is still to be taken, or a thread sleeps   *)
(* that neither another write nor another thread of the file makes give    *)
(* up, or one has fired and sends.                                         *)
(***************************************************************************)
SummonsComing ==
  \A f \in unserved \ forgone :
    \/ \E i \in DOMAIN events : events[i].file = f
    \/ \E i \in DOMAIN checks :
         checks[i].file = f /\ (WillFire(checks[i]) \/ checks[i].stage = "sending")

(***************************************************************************)
(* Of a file that only grows, a thread that has looked twice and is about  *)
(* to summon it has found it complete: nobody has written it for the time  *)
(* of the check, however many other threads of the file are on their way,  *)
(* or it has been written since the second look.                           *)
(***************************************************************************)
SummonsAfterWriting ==
  \A i \in DOMAIN checks :
    LET c == checks[i] IN
      c.stage # "sleeping" /\ c.file \notin Rewritten
        => quietFor[c.file] >= CheckTicks \/ size[c.file] # c.seen

(***************************************************************************)
(* The same without the last exception: the code does not look again       *)
(* before it sends, and the send may wait for room.                        *)
(***************************************************************************)
QuietWhenSent ==
  \A i \in DOMAIN checks :
    checks[i].stage = "sending" /\ checks[i].file \notin Rewritten
      => quietFor[checks[i].file] >= CheckTicks

(***************************************************************************)
(* Every file the user has written is summoned: not of files of the same   *)
(* name in two folders of the ward, which share a cooldown.                *)
(***************************************************************************)
NamesakesSummoned ==
  \A f \in Files \ EngineFiles : f \in unserved ~> f \notin unserved

(***************************************************************************)
(* "If Vigil detects a file event caused by Arbiter itself, Signet         *)
(* discards the event": no summons comes of the engine's own writing.      *)
(* The code does not keep this; the README says how.                       *)
(***************************************************************************)
OwnWritesSilent == ~ownFired
=============================================================================
