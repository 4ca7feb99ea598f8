# Project Arbiter in TLA+

Arbiter is a Windows automation engine: watchers raise *summons*, the Atlas
state machine matches a summons to a *decree* and hands its steps to a runner,
which moves files, starts programs and types and clicks for the user, and which
has to get out of the way when the user comes back.  This directory holds TLA+
modules of it, their TLC configurations, and theorems about them checked by
TLAPS.  Source paths below are relative to `src/`.

## The system

| Component | Source | State | Operations | What is hard |
|---|---|---|---|---|
| Atlas | `arbiter-core/src/atlas.rs` | state, active decree, abort sender, grace start, presence config, paused, pending summons, registry, watchers | the branches of the `select!` in `run`, `dispatch_decree`, `handle_summons`, `handle_run_event`, `reset_state`, `yield_to_presence`, `ForgeCommand`s | late events of an earlier run, resets between dispatch and Done, an await inside the loop |
| Relay | `arbiter-app/src/main.rs` | the job it holds | ExecData -> ExecCmd with a fresh Signet snapshot | a send that fails is ignored |
| Runner | `arbiter-bridge/src/runner.rs` | current job, node, inhibition flag | one node after the other: abort poll, delay, action, events | abort is polled only between nodes; Done must always follow |
| Presence | `arbiter-core/src/presence.rs` | interference flag (shared with the runner) | callback per raw input event | the engine's own input must not count as the user's |
| Vigil | `arbiter-core/src/vigil.rs`, `vigil/sys.rs` | cooldown map, seen processes, hotkey table | file, hotkey, clipboard and process watchers, each on a thread | duplicate events, own writes, races of detached threads |
| Filter | `arbiter-core/src/filter.rs` | own paths with their time, inhibition flag | mark, is_own, inhibit, resume | marked after the write, expires |
| Ledger | `arbiter-core/src/ledger.rs` | `ledger.toml` | load, save, apply | two processes load, change and save one file |
| Signet | `arbiter-core/src/signet.rs` | `arbiter.vault`, a cache per process | load, save, reload | stale caches, a write in place |
| Decree | `arbiter-core/src/decree.rs` | lazy variables | interpolation of a summons' variables, validation | missing files, variables read at different times |
| Hand, Inscribe, Shell | `arbiter-bridge/src` | pressed keys, files, a child process | input, move, copy, delete, start | one step of several fails; a child has no time limit |
| IPC | `arbiter-app/src/main.rs`, `arbiter-forge/src/ipc.rs` | one connection at a time on each of two pipes | commands, telemetry, heartbeat, watchdog | no retry, no acknowledgement, a server that does not notice a lost client |
| Forge | `arbiter-forge/src/main.rs` | the lists of decrees, steps and wards, the active decree | edits the ledger itself, then sends a command; reads it again on some log entries | the engine's view, the file and the window diverge |
| Tray | `arbiter-app/src/tray.rs` | pause flag, status, children | reset, pause, quit, open Forge, reads the log | `try_send` may drop; the status is put together from log entries |
| Inquisitor | `arbiter-inquisitor/src/main.rs` | none | a diagnostic run | nothing concurrent |

Who talks to whom: watchers -> `vigil` queue -> Atlas; presence -> `presence`
queue -> Atlas; tray -> `reset` (one slot), `forge_cmd`, `shutdown` -> Atlas;
Forge -> command pipe -> `forge_cmd` -> Atlas; Atlas -> `atlas_exec` -> relay ->
`exec_cmd` -> runner -> `run_event` -> Atlas; Atlas -> abort oneshot -> runner.

## Modules of the engine

* `Channels` - the queues with their capacities, the abort oneshots (the set
  `aborted` of runs whose sender has been used), and `Emit`, the runner's send.
* `Atlas` - the engine's state machine: `state`, `activeDecreeId`, `activeAbort`
  (a run number stands for the oneshot sender), `inGrace` (start.elapsed() is
  below 1500 ms), `presenceConfig`, `paused`, `pendingSummons`, `registry`.
  There is one action per branch of the `select!` and one per ForgeCommand.  A
  branch is atomic, with one exception the code makes: `dispatch_decree` awaits
  room in `atlas_exec`.  The job then sits in `outbox`, and no branch is
  selected (`Selecting`) until `AtlasSend` or the failure of the send.
* `Runner` - the relay task (`RelayRecv`, `RelaySend`), and the runner's task as
  a program counter over the awaits of its loop: receive, log, poll the abort
  channel, delay, act, report, or panic, then Done.
* `Engine` - composes the three with the watchers, the user, the tray and the
  command pipe, states the properties and the fairness.
* `SerialRuns` - what the engine promises while nobody resets it: one run at a
  time, each told to stop begins at most one more action, each ends.  `Engine`
  implements it (`RunsAreSerial`, liveness included): `current` is the run at the
  head of the pipeline, which joins the runner's job, `exec_cmd`, the relay's
  job, `atlas_exec` and `outbox`; `told` is its membership in `aborted`,
  `acting` the runner's program counter, `spent` is `late > 0`.
* `MCEngine` - the constants of the TLC runs.
* `EngineProofs` - its theorems.

History variables, which no action of the code reads: `lastRun` numbers the
dispatches, `run` in jobs and events says which dispatch they come from,
`resets` counts the resets of a busy engine, `late` counts the actions begun
after the abort, `used` counts the inputs of the environment.

Abstractions: a decree is the list of its node kinds (`Script`); a summons is its
registry key, the set of keys its path and glob could match, and whether its
path is too deep.  Which glob match comes first in the HashMap is chosen
freely.  The 5 s hibernation guard, the delays and the 1500 ms grace are
nondeterministic in time.  Of the configuration commands this module keeps the
reset and the effect on the registry.  The fault at a malformed node is left out:
a decree read from the ledger has only entry and action nodes.  The runner takes
the nodes in the order in which the ledger lists them; `compile_sequence`, which
would follow their transitions, is called by no one.

## Modules around the engine

They meet the engine where it is abstract: the commands that `Engine` gets from
the Forge are those of `Editor`, `Config`, `Signet` and `Pipes`, its summons
come of the threads of `SteadyState`, the `act` step of its runner is an action
of `Bridge`, and the log entries it writes are those of `Telemetry`.

* `Config` - the ledger file, the Forge's edits (load, change, save, send: each
  a step), the commands on their way, Atlas' handlers (load; then change, save
  and reload), the registry, `active_watchers`, the hotkeys, and a stop and a
  start of the engine (`ledger::apply`).  `Network` says whether commands may be
  reordered (each is sent by a task of its own) and lost, `Faults` whether a load
  or a save of the ledger may fail: a process that cannot read it goes on, and saves,
  with the default ledger, and nobody notices a save that failed.  `unread` is history: a
  process has saved what it took for a ledger it could not read.  `orphans` are
  watchers that run on after their stop sender was overwritten.  Abstractions: a
  save is one step (`LedgerFile` has its calls), a stopped watcher is gone at once, the
  system grants every hotkey, and paths are already normalised.  `MCConfig` holds the
  decrees, wards, boot ledgers and edits.
* `SteadyState` - a file watcher, the threads it starts, the cooldown map, and the
  filter that the runner marks.  A thread takes three steps: it wakes and looks at the
  size again, it enters the cooldown map or gives up, and it sends, which may have to
  wait.  The map is keyed by the name without the folder (`Name`), as in the code: two
  files of one name in the folders of a recursive ward share a cooldown.  Time is in ticks;
  an age counts up to the bound after which it does not matter.  A thread may
  wake late but not early.  A write lengthens the file or, for the files in `Rewritten`,
  leaves its size; truncation and deletion are left out.  `CooldownTicks <= CheckTicks`
  is the code's 400 ms and 400 ms: the property `UserWriteSummoned` needs it.  `forgone`
  is history, the exceptions of that property: files whose last event was taken for the
  engine's own, or whose thread met the cooldown that a namesake had begun.
* `Signet` - the vault and the caches of the two programs: `load` (a read, and
  later the filling of the cache), `save` (truncate, write, cache) and
  `reload_cache` step by step, in the watchers' and the relay's threads, in
  Atlas (SaveSignet, `merge_ward_paths_into_signet`) and in the Forge.  A
  configuration is its trusted paths; restricted paths, and with them the
  pattern cache, are always empty in what the programs write.
* `Pipes` - the command pipe: one connection per command, a server that serves
  one client at a time and sleeps after it, the bounded `forge_cmd`, the tray's
  `try_send` of the pause.
* `Inscribe` - move, copy and delete call by call, with a failure at each, the
  retry loop, and the user's changes of the source in between.  A copy that has
  the source open keeps it from being changed; one that fails may leave a part.
* `Hand` - a synthetic action as the sequence of its key and button events, each
  of which may fail.
* `Bridge` - composes the two with a shell command: the runner awaits one action
  at a time, goes on to the next after an error, and drops the bridge at its
  end.  The Hand's pressed modifiers and the files live from one action to the
  next.  A child that `shell::run` awaits exits or not.  `MCBridge` holds the
  actions.
* `LedgerFile` - `load` and `save` of `ledger.toml` call by call: `ledger.tmp` is
  truncated, written and renamed, by the Forge and by Atlas; a call may fail and a
  process may end at any point, and a file that is open under one name is
  written though another process renames it.  `LedgerStore` is the atomic store that
  the comment on `save` promises, with `stored` the content of `ledger.toml`, or
  the default ledger where there is no file.  Nothing keeps the saves of the two apart, so
  the store is implemented but for what overlapping saves do: `mixed` is history, the
  processes whose save has overlapped another's, and `spoilt` says that the last change of
  `ledger.toml` was by one of these.  `MCLedgerFile` holds the ledgers.
* `Telemetry` - the broadcast channel, the telemetry server of one connection at
  a time, the heartbeat of 1 s, each Forge's listener with its waits and its
  watchdog of 2 s, and the tray's status, in ticks of half a second.  Several Forges may
  be open: the tray starts one at each click and nobody asks whether one is there; whoever
  opens the pipe first is served until it is gone.  The tray's pause goes into a bounded
  channel that it shares with the Forges' commands; a click that finds it full is dropped
  and the status is set all the same (`misled`).  What is due
  happens before the next tick, unless the engine hangs.  Atlas is here only what
  its log entries tell.  The engine may hang; it and a Forge may end.
* `Editor` - the window of the Forge: the list of decrees, the active decree with its
  steps, and the table of wards, one action per callback; the ledger it saves
  to; its commands, late, reordered or lost; the engine's own saves; and the
  log entries on which the Forge reads the ledger again.  Labels are numbers and an
  id is the slug of a label; a step has one text (its paths, its delay or its arguments).
  The text "words" stands for what is no number and, as arguments, for two words; "spaced"
  for one argument that holds a space, which the editor shows as "words" and saves as
  two.  A node that has what the editor cannot show (a point, a delay, "attached",
  transitions other than to the next one) is not `plain`.  `OpenIsFaithful` excepts decrees with such
  nodes or arguments, with a kind of node the editor has no form for, or raised by the
  clipboard.  Here the ledger can be read and written.
  `MCEditor` holds the decrees that are in the first ledger: one the editor could have made
  and one with what it cannot show.  The assumption `ShippedOK` is what reading a file gives
  (`Sound`: each type of summons has its own fields, a delay is a number, only a program
  has arguments) and, of a ledger written by hand, that its labels are names and no step
  is in two decrees.
* `ConfigProofs`, `SignetProofs`, `PipesProofs`, `BridgeProofs`,
  `TelemetryProofs`, `EditorProofs`, and `FilesProofs` for `LedgerFile` and `SteadyState`:
  theorems about these modules.

The type invariants of `Config`, `SteadyState`, `Signet` and `Bridge` hold as well, and so
does `SteadyState!SummonsComing`; the runs do not list them.

## Runs

| Run | Shows |
|---|---|
| EngineRuns | presence, a reset and a configuration command race the events of three runs: the abort sender is consistent, an aborted run begins at most one more action, at most one sequence per reset overlaps, runs stay in order; under fairness each summons is run once, a busy engine ends Idle, the pending queue empties |
| EngineFaults | no reset, but pauses, manual and dry runs, shutdown, and the death of the relay or the runner: the engine implements `SerialRuns`, every sequence that can act is the one Atlas holds the abort sender of, and nothing live starts while paused |
| EngineOrphan | violated: after a reset, the old run's Done makes Atlas forget the new run |
| ConfigOrdered | commands arrive in order: the last edit of a decree survives all loads and saves of both processes, every decree is registered as last saved, and a saved one in the end, or it is edited again |
| ConfigRestart | commands are lost and reordered, loads and saves fail, a restart falls anywhere: nothing but a save after a failed load costs an untouched decree, no hotkey is held without a decree |
| SteadyWrites | several threads per file, two files of one name: a growing file is found complete before it is summoned; every file the user writes is summoned after its last write, unless a mark or a namesake's cooldown kept it back |
| SignetSaves | once all is quiet, vault and cache are what the commands come to, unless a reload overtook a load |
| PipesCommands | a run never overtakes its save; Atlas and the tray agree on the pause unless a click found the channel full; what the Forge could write reaches Atlas |
| BridgeActions | any three Hand actions, a file operation and a shell command, with failures and deletions anywhere: each action clicks with its own modifiers down and releases them if it succeeds, a file is whole in one place, success means all has been done, only a child keeps the runner |
| LedgerCrash | both processes load and save, calls fail, processes end: the file implements `LedgerStore`, but for what overlapping saves do until one that overlaps no other is through |
| Telemetry | runs, yields, pauses, resets and commands between the ticks of an engine that hangs, ends and starts again, two Forges, clicks that are dropped: the tray's status settles on what the engine does; the watchdog fires only for an engine that stood still for a second, and for one that hangs it does; of the Forges that look for the pipe one finds it |
| Editor | any five things a user does: what is opened and not touched is saved as it was but for what the editor cannot show, no decree gets another's steps, what the ledger holds is listed in the end, a change of a ward finds its row |

A violated run checks one property that a text of the repository states; its
trace is the shortest way the code contradicts it, and `PROJECT.json` quotes
the text under "findings".

Bounds of the engine: two keys, whose scripts have two actions each, of the
kinds that the runner treats differently, so that an abort can fall between two and a
second action after it would show; queues of one or two places, so that
full queues happen, where the code has 10 and 100; the environment produces at
most `Budget[i]` inputs of kind i (`MCEngine`).  The counts let a reset and a
command fall into every position of two overlapping runs with a third summons
behind them, and a pause between two summons.  Deadlock is checked: the engine
may rest only in `AtRest`.  The safety properties are proved besides, for every
budget.

Fairness of the engine: `select!` picks at random among the ready branches, so
each branch that stays ready is taken in the end (weak fairness of each
branch); tokio polls the relay and the runner's thread goes on; an action of
the runner ends (a shell child that never exits is in `Bridge`, not here).  Nothing
is assumed of the environment: it may stop at any time.

Bounds of the others, each a constant of its module: `Config` three edits of
two decrees and at most one restart, so that three commands and both processes'
saves can cross; where loads and saves fail its channel has one place, the first ledger
holds decrees, which is what can be lost, and a ward is watched in one way;
`SteadyState` three writes to three files, two of one name, within four ticks, a
check being two ticks and the expiry three, so that threads of one file and of namesakes
overlap and a mark expires; `Signet` three commands and two loading threads; `Pipes`
three tasks, two clicks and a channel of one place, so that it is often full;
`Bridge` the code's five attempts, one deletion by the user, three actions of the
Hand (the third meets what a failure of the first two left) and one shell
command; `LedgerFile` two processes, both of which save as often as they like, and the
four ledgers of two decrees; `Telemetry` the code's times, a broadcast
channel of two entries, two Forges, any two events and one fault, which is enough for a
run or a reset beside a pause, a hang that spans the watchdog, and a Forge that has to
wait for a killed or closed one to be noticed; its command channel has one place, so
that a click is dropped; `Editor` five user actions, which are enough to
make, rename and save a decree and to open another, and two steps.

The fairness of these modules is that a task which has begun goes on: the Forge
saves and its commands arrive (only in `ConfigOrdered`, where none is lost), Atlas
returns to its loop, the watcher polls, time passes and what is due is done, the
system calls of the Hand and of Inscribe return.  Nothing is assumed of users, of a
shell's child, or of an engine that hangs.  `Editor` stops after its user actions,
so its run does not check deadlock.

## Known not to hold

While the modules were written these properties were found violated as well.
They stay in the modules as statements of what the code does not keep; adding
one to the configuration named here gives the trace.

| Property | Add it to | What the code does |
|---|---|---|
| Engine!FaultHolds | EngineRuns | the runner sends Done after every Panic (`runner.rs:362`), and Done leaves Faulted (`atlas.rs:787`) |
| Engine!YieldHolds | EngineRuns, with two signals in `RunsBudget` | the aborted run's Done ends a yield and starts the next summons (`atlas.rs:617`) while presence signals are unread |
| Engine!YieldEnds | EngineFaults | with the runner's task gone no Done comes (`main.rs:237` ignores the failed send) |
| Engine!PendingServed | EngineFaults | a summons that is pending when a run ends during a pause waits for a later run's event; the resume does not take it up (`atlas.rs:270`).  Removing the decree of the first pending summons strands those behind it too, hence the exception in the property |
| Config!WardsWatched | ConfigOrdered | the Forge has written the ward of a new decree before Atlas looks for it, so Atlas takes it for watched and starts no watcher (`atlas.rs:321`, `arbiter-forge/src/main.rs:383`) |
| Config!RemovedIsGone | ConfigOrdered | the Forge has removed the decree from the file, so Atlas does not find it and leaves it registered (`atlas.rs:495`) |
| Config!ProcessesWatched | ConfigOrdered | SaveWards stops the process watchers too and starts only the wards' (`atlas.rs:436`) |
| Config!WatchersHeld | ConfigOrdered | a ward that two quick edits removed gets a new watcher over the old one's stop sender (`atlas.rs:348`) |
| Config!UnreadIsKept | ConfigRestart | a ledger that cannot be read is replaced by the default one, and the next save makes that permanent: every decree is gone (`atlas.rs:289`, `arbiter-forge/src/main.rs:373`) |
| SteadyState!NamesakesSummoned | SteadyWrites, as a PROPERTY | two files of one name in the folders of a recursive ward that are done within 400 ms share a cooldown, and the second is never summoned (`vigil.rs:302`) |
| SteadyState!QuietWhenSent | SteadyWrites | nothing looks at the file again between the second look and the send, which may wait for room (`vigil.rs:314`) |
| SteadyState!OwnWritesSilent | SteadyWrites | a file is marked only after the copy, its events are looked up while it runs (`runner.rs:272`, `vigil.rs:191`) |
| Signet!NotedWardsShown | SignetSaves | the Forge refreshes its list from a cache that nobody clears (`arbiter-forge/src/main.rs:277`) |
| Signet!SavedTakesEffect | SignetSaves | a load that read the vault before a save fills the cache after the reload (`signet.rs:204`), and every later job gets the old configuration |
| Pipes!SimulationSent | PipesCommands | the second command of a simulation finds the server still at the first, or asleep after it, and is given up (`ipc.rs:14`) |
| Inscribe!NotLost | BridgeActions, with `UserMay <- Writes` | what the user saves between a move's copy and its removal is removed (`inscribe.rs:104`) |
| Hand!NotStuck | BridgeActions | after a failed event the modifier stays down, since the bridge is never dropped between two actions (`hand.rs:116`) |
| LedgerFile!NeverTorn | LedgerCrash | both processes write the same `ledger.tmp`, and one renames what the other has just truncated (`ledger.rs:323`; the comment there: "Atomic write: write to temp file then rename") |
| Telemetry!EndClosesForge | Telemetry | the watchdog ends only a listener that is connected; an engine that has ended closes the pipe, and the Forge tries to open it for ever |
| Telemetry!TrayNeverMisleads | Telemetry | the end of a run during a pause shows "Standing By", a summons logged as matched and then given up shows "Executing", and a click that is dropped shows "Paused" while the engine runs (`arbiter-app/src/main.rs:301`) |
| Telemetry!EveryForgeConnects | Telemetry | the tray starts another Forge at every click (`tray.rs:216`), and the server serves the first until it is gone (`arbiter-app/src/main.rs:123`) |
| Telemetry!ResetKeepsClosed | Telemetry | children that have ended stay in the tray's list, so a reset starts a Forge that was closed |
| Telemetry!TrayShowsRun | Telemetry | the tray reads the log only after the first click in its menu |
| Editor!DecreeIdsUnique | Editor | a new decree's number is found among the labels; a renamed decree keeps the id of its first label, so New after a rename gives an id that exists, and saving replaces that decree (`arbiter-forge/src/main.rs:468`; `decree.rs:12`: "Unique identifier for a decree.") |
| Editor!ReselectKeeps | Editor | a new decree's status stays 0 when it is saved, so selecting it again discards what was typed (`arbiter-forge/src/main.rs:501`) |
| Editor!EnterKeepsMode | Editor | an edit of nothing is taken for the mode's button, also when Enter makes it (`arbiter-forge/src/main.rs:641`) |
| Editor!RemovedIsUnlisted | Editor | the Forge removes a decree from the ledger, the engine does not find it and logs nothing, and the row stays |

Other things the model says of the code, without a property: a rename is logged with
words the Forge does not look for; a clipboard decree becomes a manual one when it is
opened and saved, a node the editor has no kind for becomes a wait, points, delays
and "attached" are lost, an argument with a space becomes two, and the transitions are
made anew in the order of the list; a simulation without an active decree saves one labelled
"No Decree Selected"; no sender uses the tag by which the Forge would show that
the engine runs.

## Proved

Every invariant and every action property that a passing run checks holds for all values
of the constants, the number of edits, faults, inputs or threads among them, that satisfy
the named assumptions of the modules and the hypotheses given here.

The engine (`EngineProofs`):

* `TypeCorrect` - the type invariant.
* `AbortHandleHolds` - `AbortHandle`.  The inductive invariant `AbortInv` adds that
  `aborted` contains only numbers of runs dispatched so far; without it a new run's
  sender could be one that was used already.
* `AbortStopsRunHolds` - `late <= 1`.  The invariant `LateInv` adds where the runner is:
  before the first action after the abort, `late` is 0; it is 1 only in the action and
  on the way back to the poll, which then ends the run.
* `PausedRunsNothingHolds` - the action property, from the guards of the three
  dispatching branches.
* `OverlapBoundHolds` - `OverlapBound`, inductive with the types: every dispatch starts
  from Idle, Idle is reached only with a Done or by a reset, and a Done leaves the
  pipeline as it enters the events.
* `RunsInOrderHolds` - `RunsInOrder`, if the relay is not among the tasks that fail (when
  it does, what it held is missing between what the runner has and what is dispatched
  next).  The invariant adds that a dead runner's queue is empty, so that what is lost
  with it was at the front.
* `LiveRunIsHeldHolds` - `resets = 0 => LiveRunIsHeld`.  From `OverlapBound` at most one
  run is in flight; the invariant says of each queue that its head is held, and that a
  Panic among the events is followed by a Done or the runner is about to send it
  (`PanicEnds`): a Panic that Atlas reads cannot make it give up a run that goes on.
  After a reset it is false: a Done of the old run that comes late makes Atlas let go of
  the next (`EngineOrphan`).
* `SummonsRunOnceHolds` - `SummonsRunOnce`, if `ServedOnly`: no task fails; every key is
  registered at the start, and what is removed is not saved again; every summons has a
  key or a glob that matches and a path that is not too deep; nobody pauses the engine
  or runs a decree by hand.  Each of these is needed: a summons that is too deep or has
  no decree is refused, one that meets a pause is dropped, a manual run is a run without
  a summons, and of a decree that comes back summonses were refused while it was gone.  Resets,
  yields, shutdowns and faults in the scripts are not excluded; `EngineRuns` is an instance.  The invariant `ServedInv` counts: dispatches, pending and
  unread summonses together are those that were raised, and while the engine is busy
  or a summons pends, a sequence is in flight or its Done is on its way.
* `RunsAreSerialSteps` - `Spec /\ [](resets = 0) => Serial!Init /\
  [][Serial!Next]_(Serial!vars)`: the safety half of `RunsAreSerial`.  Every step moves the
  one run along the queues, loses it, or is a dispatch, an abort or a step of an action.

The Forge's window (`EditorProofs`).  The invariant `EditorTypes` says of every decree in the
ledger and in a command that it is `Sound`, has no more steps than the window can hold
and a label that was given out; it implies `TypeOK`.

* `OpenIsFaithfulHolds` - inductive with the types: what is written to the window by
  `Loaded` and `StepOf` is read back by `Collected` as the ledger holds it, for what the
  editor can show.
* `StepsStayHolds` - by `OwnInv`: each step id has one decree, in the ledger, in the commands
  that are on their way and in the window; the next id is unused; and without an active
  decree the window has no steps, which is why a step can be appended to none.
* `LedgerIsListedHolds` - by `ListedInv`: all is listed, or an entry is on its way, or was
  lost.  It rests on what `Synced` does, which removes and appends rows: a lemma
  on ranks says where a row that stays is found again.
* `WardRowsDifferHolds` - by `WardRowsInv`: an id that is a number is below the next one; the
  other ids are the paths of the ledger, which has each once.

The configuration (`ConfigProofs`):

* `HotkeysOwnedHolds` - inductive by itself: a hotkey is taken with its key's entry in the
  registry, and freed with it.
* `UntouchedKeptHolds` - by `KeptInv`: until a process saves in place of a ledger that it
  could not read, every ledger that a process has read and will save keeps the untouched
  decrees too, and every command spares them.  No hypothesis excludes a fault.
* `LastEditKeptHolds` - if `InOrder` (no command is lost or overtaken, the engine is not
  stopped), `Readable` and `Writable` (no load and no save fails), as in `ConfigOrdered`:
  a save that fails loses the edit.  By `LastInv`: of the commands that wait, the last makes
  the last edit; until it is handled nobody else saves.
* `SavedIsRegisteredHolds` - if `InOrder`, `Readable` (saves may fail: the registry is not
  made from the file) and `KeysApart(own)` for some `own`: each decree has
  summonses of its own, no two decrees one with the same key, in the files of the start
  and in what the user saves; with a shared key the later command takes the entry of
  the other decree.  The instance of `MCConfig` is one: `own` is the file and the first hotkey for
  one decree, the process and the second hotkey for the other.  `RegistryInv` says of each
  decree that the last command about it registers it as intended, or that none waits and
  it is registered.

The pipes:

* `PipesProofs!SaveBeforeRunHolds` - by `PipesInv`: one task at a time is connected; how far
  each task is and what has become of its commands agree; a save that was
  written and not taken is before the run in the pipe, the server's hand and the channel.
* `PipesProofs!PauseAgreesHolds` - by `PauseInv`: unless a click was dropped, the last pause in the
  channel is the tray's, or there is none and Atlas has it.  `TypeOKHolds` is the types.
* `TelemetryProofs!NoFalseAlarmHolds` - by `WatchInv`, for any number of Forges: while one is
  linked, the engine has run for no longer than since its last heartbeat, unless that one
  is on its way.
* `TelemetryProofs!TrayAtRestHolds` - by `TrayInv`: once no click of the tray is on its way to
  Atlas and no run is to come, the last of what the tray holds is what Atlas does, unless it
  was misled, by a dropped click among others.  `TypeOKHolds` is the types.

Files and actions:

* `SignetProofs!LastSaveKeptHolds` and `CacheCurrentHolds` - by `VaultInv`: while the Forge has
  nothing on its way and no load was overtaken, Atlas either is at rest and vault and caches are
  as expected, or has in its hands what will make them so.
* `BridgeProofs!NotLostHolds` - if the user does not overwrite the file meanwhile (with it the
  property is false, see above): until the operation returns the file the user wants is
  still the source, a copy under way reads it, and a move removes it only when the
  destination is the same.  `OkIsDoneHolds` needs no such hypothesis.
* `BridgeProofs!ClicksWithItsModifiersHolds` and `OkReleasesHolds` - by `HandInv`: what is
  down in the middle of an action follows from how many of its events have been sent
  (`HeldAfter`), also when a combination names a modifier twice.
* `FilesProofs!LedgerIsAtomic` - `Spec => StoreIsAtomic`, whoever saves.  `SaveInv` says that
  what a process saves is an edit of what it had loaded; `AloneInv`, that while a save goes on
  that has overlapped no other, nobody else saves, it writes `ledger.tmp`, and at the rename
  that holds its ledger; `FileInv` adds that `ledger.toml` is not torn until overlapping
  saves have changed it.  Under these the rename is the store's save, and every other
  call a load or a stutter.
* `FilesProofs!SummonsAfterWritingHolds` - by `SeenInv`: a thread that has seen all there is of
  a file that only grows has slept no longer than the file has been left alone.
* `FilesProofs!SummonsComingHolds` - `SummonsComing`, an invariant that the run need not list, by
  `ComingInv`: of a file that is neither summoned nor `forgone`, an event is to be taken, or a
  thread will fire or sends.  It is what the liveness property `UserWriteSummoned` rests on:
  with the fairness of the run, the event is taken and the thread wakes.  It needs
  `CooldownTicks <= CheckTicks`: when a thread wakes, a summons of its own file that was sent
  before it looked no longer holds it back.

Only model-checked: everything temporal beyond action properties and the steps of `SerialRuns`
and `LedgerStore`.  Liveness under fairness and ENABLED are out of the prover's reach.

## Not modelled

* The Inquisitor: a diagnostic program that runs once and shares nothing.
* The loops of the hotkey, clipboard and process watchers: one thread each over
  a system interface; what they send is an input of `Engine`, what they hold is in
  `Config`.
* The lazy variables of a summons (`EnvContext`): a sequential look-up.
* The presence monitor against the engine's own input: the code sets a flag around an
  action, and nothing in it says how late the system delivers an injected event.
* Layout, icons, dialogs and the form of the Signet page.
* Windows itself: the start-up registry, path
  normalisation, what a shell command does.

`PROJECT.json` gives for each component what is left out of it.

## Plan

1. `Config` and `Pipes` composed: the network of `Config` replaced by the pipe.
2. A vault that is torn by the end of a process, and the caches after it.
3. Wards on folders that appear late, and the poll loop of the process watcher.
4. Proofs: the type invariants of `Config`, `Signet` and `Bridge`, and what the other
   liveness properties rest on, as `SummonsComing` is for `UserWriteSummoned`.
