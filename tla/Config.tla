------------------------------- MODULE Config -------------------------------
(***************************************************************************)
(* The configuration of the engine: the decrees and wards of the ledger    *)
(* file, which the Forge and Atlas both load, change and save, and what    *)
(* Atlas makes of them: the registry, the watchers and the hotkeys.  The   *)
(* Forge (arbiter-forge/src/main.rs) first edits the file itself and then  *)
(* sends the command that makes Atlas edit it again and reload.            *)
(*                                                                         *)
(* Saving the file is one step (LedgerFile has its write and its rename),  *)
(* loading another; between the two of one process the other may run.      *)
(* Both may fail.  A process that cannot read the ledger goes on with the  *)
(* default one, which is empty; one that cannot write it goes on as if it  *)
(* had.  A stopped watcher is gone at once, and the system grants every    *)
(* hotkey.                                                                 *)
(***************************************************************************)
EXTENDS Naturals, Sequences, FiniteSets, SequencesExt

CONSTANTS
  Ids,        \* decree ids
  Defs,       \* the summons a decree may have: [kind, at, pattern, recursive]
  Boot,       \* the ledgers the engine may find at its first start
  Edits,      \* what the user may do in the Forge
  MaxEdits,   \* bound on the user's edits
  MaxStops,   \* bound on the stops of the engine
  QueueCap,   \* capacity of forge_cmd (10 in the code)
  Network,    \* what may happen to commands: a subset of {"reorder", "lose"}
  Faults      \* the calls on the file that may fail: of {"load", "save"}

(***************************************************************************)
(* at is the ward's path of a "file" summons, the combination of a         *)
(* "hotkey", the process (or the clipboard) of a "watch"; a "manual" one   *)
(* has none.                                                               *)
(***************************************************************************)
Kinds == {"file", "hotkey", "watch", "manual"}
Places == {d.at : d \in Defs}

ASSUME ConfigConstantsOK ==
  /\ \A d \in Defs : /\ DOMAIN d = {"kind", "at", "pattern", "recursive"}
                     /\ d.kind \in Kinds /\ d.recursive \in BOOLEAN
  /\ MaxEdits \in Nat /\ MaxStops \in Nat /\ QueueCap \in Nat \ {0}
  /\ Network \subseteq {"reorder", "lose"} /\ Faults \subseteq {"load", "save"}

\* A map with one more entry, and a map without the entries of S.
Put(map, k, v) == [x \in DOMAIN map \cup {k} |-> IF x = k THEN v ELSE map[x]]
Without(map, S) == [x \in DOMAIN map \ S |-> map[x]]
Maps(S, T) == UNION {[D -> T] : D \in SUBSET S}

\* Summons::to_registry_key
RegistryKey(d) == [kind |-> d.kind, at |-> d.at, pattern |-> d.pattern]
RegistryKeys == {RegistryKey(d) : d \in Defs}

\* DecreeDef: body numbers the edit its nodes come from.
DecreeDef == [summons : Defs, body : 0 .. MaxEdits]
Ledger == [decrees : Maps(Ids, DecreeDef), wards : Maps(Places, BOOLEAN)]
Default == [decrees |-> <<>>, wards |-> <<>>]

Command ==
       [op : {"save"}, id : Ids, def : DecreeDef]
  \cup [op : {"remove", "rename"}, id : Ids]
  \cup [op : {"wards"}, wards : Maps(Places, BOOLEAN)]

\* The file holds decrees of the user, written before the first edit; an
\* edit names a decree and gives what its command carries.
ASSUME ConfigInputsOK ==
  /\ Boot \subseteq [decrees : Maps(Ids, [summons : Defs, body : {0}]),
                     wards : Maps(Places, BOOLEAN)]
  /\ Edits \subseteq [op : {"save", "simulate"}, id : Ids, summons : Defs]
                 \cup [op : {"remove", "rename"}, id : Ids]
                 \cup [op : {"wards"}, wards : Maps(Places, BOOLEAN)]

VARIABLES
  disk,       \* ledger.toml
  editing,    \* the Forge's edit between its load and its save
  sending,    \* the tasks of the Forge that are sending a command
  forgeQ,     \* commands in the engine's queue
  handling,   \* Atlas' command between its load and its save
  registry,   \* registry key -> body of the registered decree
  active,     \* active_watchers: place -> recursive
  orphans,    \* running watchers whose stop sender has been dropped
  grabbed,    \* the hotkeys registered with the system
  appUp,
  intended,   \* history: the decrees as the user last left them
  lastEdit,   \* history: the decree saved or removed by the last edit
  unread,     \* history: a process has saved after it could not load
  edits,      \* history: number of edits so far
  stops       \* history: number of stops so far

engineVars == <<handling, registry, active, orphans, grabbed>>
userVars   == <<editing, sending, intended, lastEdit, edits>>
vars == <<disk, unread, forgeQ, engineVars, userVars, appUp, stops>>

TypeOK ==
  /\ disk \in Ledger
  /\ \A e \in ToSet(editing) : e.ledger \in Ledger /\ e.read \in BOOLEAN
  /\ \A c \in ToSet(sending) \cup ToSet(forgeQ) : c \in Command
  /\ \A h \in ToSet(handling) : h.cmd \in Command /\ h.ledger \in Ledger
                              /\ h.read \in BOOLEAN
  /\ registry \in Maps(RegistryKeys, 0 .. MaxEdits)
  /\ active \in Maps(Places, BOOLEAN)
  /\ orphans \subseteq [at : Places, recursive : BOOLEAN]
  /\ grabbed \subseteq Places
  /\ appUp \in BOOLEAN /\ unread \in BOOLEAN
  /\ intended \in Maps(Ids, DecreeDef) /\ lastEdit \subseteq Ids
  /\ edits \in 0 .. MaxEdits /\ stops \in 0 .. MaxStops

-----------------------------------------------------------------------------
(* The file: ledger::load(), or else the default; ledger::save() *)

Loaded ==
  {[ledger |-> disk, read |-> TRUE]}
    \cup {[ledger |-> Default, read |-> FALSE] : f \in Faults \cap {"load"}}

\* by is what the process has loaded.
SavesLedger(ledger, by) ==
  \/ disk' = ledger /\ unread' = (unread \/ ~by.read)
  \/ "save" \in Faults /\ UNCHANGED <<disk, unread>>

-----------------------------------------------------------------------------
(* Starting the engine: ledger::apply *)

Summoned(ledger, kind) ==
  {d \in {def.summons : def \in Range(ledger.decrees)} : d.kind = kind}
PlacesOf(ledger, kind) == {d.at : d \in Summoned(ledger, kind)}

\* The decrees that are registered: a file's ward has to exist.
Registrable(ledger) ==
  {id \in DOMAIN ledger.decrees :
     LET d == ledger.decrees[id].summons
     IN d.kind = "file" => d.at \in DOMAIN ledger.wards}

\* Of the decrees with one key the last in the file is the one registered.
BootRegistries(ledger) ==
  LET keyOf(id) == RegistryKey(ledger.decrees[id].summons)
      keys == {keyOf(id) : id \in Registrable(ledger)}
  IN {r \in [keys -> 0 .. MaxEdits] :
        \A k \in keys : \E id \in Registrable(ledger) :
          keyOf(id) = k /\ r[k] = ledger.decrees[id].body}

\* Only the wards a decree refers to are watched.
BootWatchers(ledger) ==
  LET wards == DOMAIN ledger.wards \cap PlacesOf(ledger, "file")
  IN [p \in wards \cup PlacesOf(ledger, "watch") |->
        p \in wards => ledger.wards[p]]

Apply(ledger) ==
  /\ registry' \in BootRegistries(ledger)
  /\ active' = BootWatchers(ledger)
  /\ grabbed' = PlacesOf(ledger, "hotkey")

Init ==
  /\ disk \in Boot
  /\ editing = <<>> /\ sending = <<>> /\ forgeQ = <<>> /\ handling = <<>>
  /\ \E l \in Loaded :
       /\ registry \in BootRegistries(l.ledger)
       /\ active = BootWatchers(l.ledger)
       /\ grabbed = PlacesOf(l.ledger, "hotkey")
  /\ orphans = {}
  /\ appUp = TRUE /\ unread = FALSE
  /\ intended = disk.decrees /\ lastEdit = {}
  /\ edits = 0 /\ stops = 0

-----------------------------------------------------------------------------
(* The Forge *)

\* An edit is of something the Forge shows.
Possible(edit) == edit.op \in {"remove", "rename"} => edit.id \in DOMAIN intended

CommandOf(edit) ==
  IF edit.op \in {"save", "simulate"}
  THEN [op |-> "save", id |-> edit.id,
        def |-> [summons |-> edit.summons, body |-> edits + 1]]
  ELSE edit

\* The decrees after a command, as far as the command says.
DecreesAfter(decrees, cmd) ==
  CASE cmd.op = "save"   -> Put(decrees, cmd.id, cmd.def)
    [] cmd.op = "remove" -> Without(decrees, {cmd.id})
    [] OTHER             -> decrees

\* The Forge writes a file decree's ward with it, Atlas only a missing one.
ForgeWards(wards, cmd) ==
  CASE cmd.op = "save" /\ cmd.def.summons.kind = "file" ->
         Put(wards, cmd.def.summons.at, cmd.def.summons.recursive)
    [] cmd.op = "wards" -> cmd.wards
    [] OTHER            -> wards

\* The user's edit is made: what is intended from now on.
Intend(cmd) ==
  /\ intended' = DecreesAfter(intended, cmd)
  /\ lastEdit' = IF cmd.op \in {"save", "remove"} THEN {cmd.id} ELSE {}

\* on_save_decree, on_remove_decree and the wards' save: up to ledger::load.
ForgeLoads ==
  /\ editing = <<>> /\ edits < MaxEdits
  /\ \E e \in Edits, l \in Loaded :
       /\ e.op \in {"save", "remove", "wards"} /\ Possible(e)
       /\ editing' = <<[cmd |-> CommandOf(e), ledger |-> l.ledger, read |-> l.read]>>
  /\ edits' = edits + 1
  /\ UNCHANGED <<disk, unread, sending, forgeQ, engineVars, intended, lastEdit, appUp, stops>>

\* A decree that the loaded ledger does not hold is not removed from the file.
ForgeWrites(held) ==
  LET cmd == held.cmd
      ledger == held.ledger
      gone == cmd.op = "remove" /\ cmd.id \notin DOMAIN ledger.decrees
  IN \/ gone /\ UNCHANGED <<disk, unread>>
     \/ /\ ~gone
        /\ SavesLedger([decrees |-> DecreesAfter(ledger.decrees, cmd),
                        wards |-> ForgeWards(ledger.wards, cmd)], held)

\* The command is sent whether or not the file could be written.
ForgeSaves ==
  /\ editing # <<>> /\ editing' = <<>>
  /\ LET cmd == editing[1].cmd
     IN /\ ForgeWrites(editing[1])
        /\ sending' = Append(sending, cmd)
        /\ Intend(cmd)
  /\ UNCHANGED <<forgeQ, engineVars, edits, appUp, stops>>

\* Renaming and simulating only send; simulating sends a SaveDecree first.
ForgeSends ==
  /\ editing = <<>> /\ edits < MaxEdits /\ edits' = edits + 1
  /\ \E e \in Edits :
       /\ e.op \in {"rename", "simulate"} /\ Possible(e)
       /\ sending' = Append(sending, CommandOf(e))
       /\ Intend(CommandOf(e))
  /\ UNCHANGED <<disk, unread, editing, forgeQ, engineVars, appUp, stops>>

-----------------------------------------------------------------------------
(* Commands on their way *)

\* Each command is sent by a task of its own over a connection of its own.
MayMove(i) == i \in DOMAIN sending /\ ("reorder" \in Network \/ i = 1)

CommandDelivered ==
  /\ appUp /\ Len(forgeQ) < QueueCap
  /\ \E i \in DOMAIN sending :
       /\ MayMove(i)
       /\ forgeQ' = Append(forgeQ, sending[i]) /\ sending' = RemoveAt(sending, i)
  /\ UNCHANGED <<disk, unread, engineVars, editing, intended, lastEdit, edits, appUp, stops>>

\* The pipe cannot be opened: send_command reports it and gives up.
CommandLost ==
  /\ "lose" \in Network \/ ~appUp
  /\ \E i \in DOMAIN sending : sending' = RemoveAt(sending, i)
  /\ UNCHANGED <<disk, unread, forgeQ, engineVars, editing, intended, lastEdit, edits, appUp,
                 stops>>

-----------------------------------------------------------------------------
(* Atlas *)

\* A command is received and the ledger loaded.
AtlasLoads ==
  /\ appUp /\ handling = <<>> /\ forgeQ # <<>>
  /\ \E l \in Loaded :
       handling' = <<[cmd |-> Head(forgeQ), ledger |-> l.ledger, read |-> l.read]>>
  /\ forgeQ' = Tail(forgeQ)
  /\ UNCHANGED <<disk, unread, registry, active, orphans, grabbed, userVars, appUp, stops>>

Handles(op) ==
  /\ appUp /\ handling # <<>> /\ handling[1].cmd.op = op
  /\ handling' = <<>>
  /\ UNCHANGED <<forgeQ, userVars, appUp, stops>>

\* The hotkeys of the decree the loaded ledger holds under this id.
HotkeyOf(ledger, id) ==
  {ledger.decrees[i].summons.at :
     i \in {j \in DOMAIN ledger.decrees \cap {id} :
              ledger.decrees[j].summons.kind = "hotkey"}}

\* The watcher of a saved file decree: a new one for a ward that is missing
\* or changes its recursion, none for a ward the ledger already has as it is.
FileWatcher(wards, d) ==
  \/ /\ d.at \in DOMAIN wards /\ wards[d.at] = d.recursive
     /\ UNCHANGED <<active, orphans>>
  \/ /\ d.at \in DOMAIN wards /\ wards[d.at] # d.recursive
     /\ active' = Put(active, d.at, d.recursive) /\ UNCHANGED orphans
  \/ /\ d.at \notin DOMAIN wards
     /\ active' = Put(active, d.at, d.recursive)
     /\ orphans' = orphans \cup {[at |-> p, recursive |-> active[p]] :
                                   p \in DOMAIN active \cap {d.at}}

\* entry().or_insert_with(): one watcher for each process.
ProcessWatcher(d) ==
  /\ active' = IF d.at \in DOMAIN active THEN active ELSE Put(active, d.at, TRUE)
  /\ UNCHANGED orphans

SummonsSource(wards, d) ==
  \/ d.kind = "file" /\ FileWatcher(wards, d)
  \/ d.kind = "watch" /\ ProcessWatcher(d)
  \/ d.kind \in {"hotkey", "manual"} /\ UNCHANGED <<active, orphans>>

\* Mutant: a decree the ledger does not hold is not added.
Saved_OnlyKnown(ledger, id, def) ==
  [decrees |-> [i \in DOMAIN ledger.decrees |->
                  IF i = id THEN def ELSE ledger.decrees[i]],
   wards |-> LET d == def.summons
             IN IF d.kind = "file" /\ d.at \notin DOMAIN ledger.wards
                THEN Put(ledger.wards, d.at, d.recursive) ELSE ledger.wards]

\* Mutant: the decree is looked up by its registry key.
Saved_ByKey(ledger, id, def) ==
  [decrees |-> Put(Without(ledger.decrees,
                           {i \in DOMAIN ledger.decrees :
                              RegistryKey(ledger.decrees[i].summons)
                                = RegistryKey(def.summons)}), id, def),
   wards |-> LET d == def.summons
             IN IF d.kind = "file" /\ d.at \notin DOMAIN ledger.wards
                THEN Put(ledger.wards, d.at, d.recursive) ELSE ledger.wards]

\* Mutant: a decree the ledger holds just so is taken for registered.
Registers_OnlyNew(ledger, id, def) ==
  /\ grabbed' = (grabbed \ HotkeyOf(ledger, id))
                  \cup {a \in {def.summons.at} : def.summons.kind = "hotkey"}
  /\ registry' = IF id \in DOMAIN ledger.decrees /\ ledger.decrees[id] = def
                 THEN registry
                 ELSE Put(registry, RegistryKey(def.summons), def.body)

\* What Atlas writes, and what it registers and takes, for a saved decree;
\* what it does in memory does not depend on the save.
Saved(ledger, id, def) ==
  [decrees |-> Put(ledger.decrees, id, def),
   wards |-> LET d == def.summons
             IN IF d.kind = "file" /\ d.at \notin DOMAIN ledger.wards
                THEN Put(ledger.wards, d.at, d.recursive) ELSE ledger.wards]

Registers(ledger, id, def) ==
  /\ grabbed' = (grabbed \ HotkeyOf(ledger, id))
                  \cup {a \in {def.summons.at} : def.summons.kind = "hotkey"}
  /\ registry' = Put(registry, RegistryKey(def.summons), def.body)

SaveDecree ==
  /\ Handles("save")
  /\ LET id == handling[1].cmd.id
         def == handling[1].cmd.def
         ledger == handling[1].ledger
     IN /\ SavesLedger(Saved(ledger, id, def), handling[1])
        /\ SummonsSource(ledger.wards, def.summons)
        /\ Registers(ledger, id, def)

\* Mutant: the hotkey of a removed decree stays taken.
RemoveDecree_KeepsHotkey ==
  /\ Handles("remove")
  /\ LET id == handling[1].cmd.id
         ledger == handling[1].ledger
     IN \/ /\ id \in DOMAIN ledger.decrees
           /\ SavesLedger([ledger EXCEPT !.decrees = Without(@, {id})], handling[1])
           /\ registry' = Without(registry, {RegistryKey(ledger.decrees[id].summons)})
        \/ id \notin DOMAIN ledger.decrees /\ UNCHANGED <<disk, unread, registry>>
  /\ UNCHANGED <<active, orphans, grabbed>>

\* Nothing happens to a decree that the loaded ledger does not hold.
RemoveDecree ==
  /\ Handles("remove")
  /\ LET id == handling[1].cmd.id
         ledger == handling[1].ledger
     IN \/ /\ id \in DOMAIN ledger.decrees
           /\ SavesLedger([ledger EXCEPT !.decrees = Without(@, {id})], handling[1])
           /\ registry' = Without(registry, {RegistryKey(ledger.decrees[id].summons)})
           /\ grabbed' = grabbed \ HotkeyOf(ledger, id)
        \/ id \notin DOMAIN ledger.decrees /\ UNCHANGED <<disk, unread, registry, grabbed>>
  /\ UNCHANGED <<active, orphans>>

\* Stops every watcher, starts those of the wards.
SaveWards ==
  /\ Handles("wards")
  /\ SavesLedger([handling[1].ledger EXCEPT !.wards = handling[1].cmd.wards], handling[1])
  /\ active' = handling[1].cmd.wards
  /\ UNCHANGED <<registry, orphans, grabbed>>

\* Only the label changes; the ledger that was loaded is saved with it.
RenameDecree ==
  /\ Handles("rename")
  /\ LET held == handling[1].cmd.id \in DOMAIN handling[1].ledger.decrees
     IN \/ held /\ SavesLedger(handling[1].ledger, handling[1])
        \/ ~held /\ UNCHANGED <<disk, unread>>
  /\ UNCHANGED <<registry, active, orphans, grabbed>>

AtlasHandles == SaveDecree \/ RemoveDecree \/ SaveWards \/ RenameDecree

-----------------------------------------------------------------------------
(* Stop and start of the engine *)

\* At any point, also between a load and its save; the queue is lost.
AppStops ==
  /\ appUp /\ stops < MaxStops
  /\ appUp' = FALSE /\ stops' = stops + 1
  /\ forgeQ' = <<>> /\ handling' = <<>>
  /\ registry' = <<>> /\ active' = <<>> /\ orphans' = {} /\ grabbed' = {}
  /\ UNCHANGED <<disk, unread, userVars>>

AppStarts ==
  /\ ~appUp /\ appUp' = TRUE
  /\ \E l \in Loaded : Apply(l.ledger)
  /\ UNCHANGED <<disk, unread, forgeQ, handling, orphans, userVars, stops>>

\* All is said and done; the user may stop here.
Quiet == /\ appUp /\ editing = <<>> /\ sending = <<>> /\ forgeQ = <<>>
         /\ handling = <<>>
Rest == Quiet /\ UNCHANGED vars

ForgeSteps == ForgeLoads \/ ForgeSaves \/ ForgeSends
Next ==
  \/ ForgeSteps \/ CommandDelivered \/ CommandLost \/ AtlasLoads \/ AtlasHandles
  \/ AppStops \/ AppStarts \/ Rest

Spec == Init /\ [][Next]_vars

\* The Forge ends its callbacks, its tasks send, Atlas handles its queue.
FairSpec ==
  Spec /\ WF_vars(ForgeSaves) /\ WF_vars(CommandDelivered)
       /\ WF_vars(AtlasLoads) /\ WF_vars(AtlasHandles) /\ WF_vars(AppStarts)

-----------------------------------------------------------------------------
(* What the configuration promises *)

(***************************************************************************)
(* When all is quiet the file holds what the user edited last: whatever    *)
(* the loads and saves of the two processes overwrote, the command that    *)
(* follows an edit makes it good.  (An earlier edit may be lost.)          *)
(***************************************************************************)
LastEditKept ==
  Quiet => \A id \in lastEdit :
    /\ id \in DOMAIN disk.decrees <=> id \in DOMAIN intended
    /\ id \in DOMAIN intended => disk.decrees[id] = intended[id]

(***************************************************************************)
(* When all is quiet every decree the user has kept is registered under    *)
(* its key as it was last saved, though an edit before may have used it.   *)
(***************************************************************************)
SavedIsRegistered ==
  Quiet => \A id \in DOMAIN intended :
    LET k == RegistryKey(intended[id].summons)
    IN k \in DOMAIN registry /\ registry[k] = intended[id].body

(***************************************************************************)
(* No key combination is taken from the system without a decree to run.    *)
(***************************************************************************)
HotkeysOwned ==
  grabbed \subseteq {k.at : k \in {j \in DOMAIN registry : j.kind = "hotkey"}}

(***************************************************************************)
(* A decree the user did not touch, one that has been there from the start *)
(* (body 0), stays in the file until a process saves a ledger it could not *)
(* read.  No other save of either process costs it, nor a failed one, nor  *)
(* a failed load that is not followed by a save.                           *)
(***************************************************************************)
UntouchedKept ==
  ~unread =>
    \A id \in DOMAIN intended : intended[id].body = 0 =>
      id \in DOMAIN disk.decrees /\ disk.decrees[id] = intended[id]

(***************************************************************************)
(* A ledger that cannot be read is not replaced by one made of nothing.    *)
(* The code does not keep this; the README says how.                       *)
(***************************************************************************)
UnreadIsKept == ~unread

(***************************************************************************)
(* Every running watcher can be stopped: Atlas holds its stop sender.      *)
(* The code does not keep this; the README says how.                       *)
(***************************************************************************)
WatchersHeld == orphans = {}

(***************************************************************************)
(* When all is quiet a decree that the user has removed, or moved to       *)
(* another key, does not fire any more.                                    *)
(* The code does not keep this; the README says how.                       *)
(***************************************************************************)
RemovedIsGone ==
  Quiet => DOMAIN registry \subseteq {RegistryKey(def.summons) : def \in Range(intended)}

(***************************************************************************)
(* When all is quiet the ward of every file decree is watched.             *)
(* The code does not keep this; the README says how.                       *)
(***************************************************************************)
WardsWatched ==
  Quiet => \A def \in Range(intended) :
    def.summons.kind = "file" => def.summons.at \in DOMAIN active

(***************************************************************************)
(* When all is quiet the process of every process decree is watched.       *)
(* The code does not keep this; the README says how.                       *)
(***************************************************************************)
ProcessesWatched ==
  Quiet => \A def \in Range(intended) :
    def.summons.kind = "watch" => def.summons.at \in DOMAIN active

(***************************************************************************)
(* What the user saves reaches the engine: the decree is registered as     *)
(* saved, or the user has changed it again.                                *)
(***************************************************************************)
SavedReachesEngine ==
  \A id \in Ids, b \in 1 .. MaxEdits :
    (id \in DOMAIN intended /\ intended[id].body = b)
      ~> \/ id \notin DOMAIN intended \/ intended[id].body # b
         \/ \E k \in DOMAIN registry : registry[k] = b
=============================================================================
