------------------------------- MODULE Signet -------------------------------
(***************************************************************************)
(* The Signet vault (arbiter-core/src/signet.rs): a file that two          *)
(* processes read and write whole, each behind a cache of its own.  In the *)
(* engine many threads load it, the watchers for every event and the relay *)
(* for every job, while Atlas saves it for the commands it takes; in the   *)
(* Forge the user's thread loads and saves it.                             *)
(*                                                                         *)
(* A configuration is its set of trusted paths.  The restricted paths,     *)
(* and with them the cache of their patterns, are always empty in what     *)
(* either program writes.                                                  *)
(***************************************************************************)
EXTENDS Naturals, Sequences

CONSTANTS
  Paths,     \* the paths that may be trusted
  Default,   \* those trusted by ArbiterConfig::default
  Loaders,   \* the engine's threads that call load
  MaxSaves   \* bound on the commands the Forge sends

ASSUME SignetConstantsOK == Default \subseteq Paths /\ MaxSaves \in Nat

VARIABLES
  vault,     \* the file: missing, torn while it is being written, or whole
  cache,     \* CONFIG_CACHE of the engine: empty or one configuration
  loads,     \* loader -> what it has read and not yet put into the cache
  atlas,     \* the command Atlas handles: its step, its path, a configuration
  forge,     \* the Forge: its step, its cache, its list of trusted paths
  cmds,      \* commands on their way to Atlas
  notes,     \* history: "Conservatory Wards updated" has not reached the Forge
  expected,  \* history: what the commands taken so far come to
  raced,     \* history: a load was under way while the cache was cleared
  saves      \* history: number of commands so far

engineVars  == <<cache, loads, atlas>>
historyVars == <<expected, raced, saves>>
vars == <<vault, engineVars, forge, cmds, notes, historyVars>>

Conf == SUBSET Paths
Missing == [state |-> "missing", cfg |-> Default]
Torn == [state |-> "torn", cfg |-> {}]
Whole(c) == [state |-> "whole", cfg |-> c]

Command == [kind : {"signet"}, cfg : Conf, path : {{}}]
             \cup [kind : {"decree", "wards"}, cfg : {{}},
                   path : {{p} : p \in Paths}]
Idle == [pc |-> "idle", kind |-> "signet", path |-> {}, cfg |-> {}]

AtMostOne(S) == {{}} \cup {{x} : x \in S}

TypeOK ==
  /\ vault \in {Missing, Torn} \cup {Whole(c) : c \in Conf}
  /\ cache \in AtMostOne(Conf)
  /\ loads \in [Loaders -> AtMostOne(Conf)]
  /\ atlas \in [pc : {"idle", "load", "fill", "save", "write", "cache",
                      "reload"},
                kind : {"signet", "decree", "wards"},
                path : AtMostOne(Paths), cfg : Conf]
  /\ forge \in [pc : {"idle", "write", "cache"}, cache : AtMostOne(Conf),
                ui : Conf]
  /\ cmds \in Seq(Command) /\ notes \in BOOLEAN
  /\ expected \in Conf /\ raced \in BOOLEAN /\ saves \in 0 .. MaxSaves

\* Both programs have been started; the Forge has loaded the vault.
Init ==
  /\ vault \in {Missing} \cup {Whole(c) : c \in Conf}
  /\ cache = {} /\ loads = [t \in Loaders |-> {}] /\ atlas = Idle
  /\ forge = [pc |-> "idle", cache |-> {vault.cfg}, ui |-> vault.cfg]
  /\ cmds = <<>> /\ notes = FALSE
  /\ expected = vault.cfg /\ raced = FALSE /\ saves = 0

-----------------------------------------------------------------------------
(* load *)

\* What load finds in the file.  A torn vault cannot be decrypted: an error.
FromFile == IF vault.state = "torn" THEN {} ELSE {vault.cfg}

OrDefault(found) == IF found = {} THEN Default ELSE CHOOSE c \in found : TRUE

\* load without a cached configuration first reads the file, and fills the
\* cache in a step of its own; with one it changes nothing.
LoaderReads ==
  \E t \in Loaders :
    /\ cache = {} /\ loads[t] = {} /\ FromFile # {}
    /\ loads' = [loads EXCEPT ![t] = FromFile]
    /\ UNCHANGED <<vault, cache, atlas, forge, cmds, notes, historyVars>>

LoaderFills ==
  \E t \in Loaders :
    /\ loads[t] # {}
    /\ cache' = loads[t] /\ loads' = [loads EXCEPT ![t] = {}]
    /\ UNCHANGED <<vault, atlas, forge, cmds, notes, historyVars>>

-----------------------------------------------------------------------------
(* Atlas: SaveSignet, and the wards SaveDecree and SaveWards make trusted *)

Effect(c, before) == IF c.kind = "signet" THEN c.cfg ELSE before \cup c.path

AtlasTakes ==
  /\ atlas.pc = "idle" /\ cmds # <<>> /\ cmds' = Tail(cmds)
  /\ LET c == Head(cmds)
     IN /\ atlas' = [pc |-> IF c.kind = "signet" THEN "save" ELSE "load",
                     kind |-> c.kind, path |-> c.path, cfg |-> c.cfg]
        /\ expected' = Effect(c, expected)
  /\ UNCHANGED <<vault, cache, loads, forge, notes, raced, saves>>

\* A command is done; after SaveWards Atlas tells the Forge.
Done == /\ atlas' = Idle
        /\ notes' = (notes \/ atlas.kind = "wards")

\* Mutant: the path is the only one trusted.
Merge_Replaces(found) ==
  /\ atlas' = [atlas EXCEPT !.pc = "save", !.cfg = atlas.path]
  /\ UNCHANGED notes

\* merge_ward_paths_into_signet, once it has a configuration.
Merge(found) ==
  \/ atlas.path \subseteq found /\ Done
  \/ /\ ~ atlas.path \subseteq found
     /\ atlas' = [atlas EXCEPT !.pc = "save", !.cfg = found \cup atlas.path]
     /\ UNCHANGED notes

AtlasLoads ==
  /\ atlas.pc = "load"
  /\ \/ cache # {} /\ Merge(OrDefault(cache))
     \/ cache = {} /\ FromFile = {} /\ Merge(Default)
     \/ /\ cache = {} /\ FromFile # {}
        /\ atlas' = [atlas EXCEPT !.pc = "fill", !.cfg = OrDefault(FromFile)]
        /\ UNCHANGED notes
  /\ UNCHANGED <<vault, cache, loads, forge, cmds, historyVars>>

AtlasFills ==
  /\ atlas.pc = "fill"
  /\ cache' = {atlas.cfg} /\ Merge(atlas.cfg)
  /\ UNCHANGED <<vault, loads, forge, cmds, historyVars>>

\* save: the file is truncated, written, and then the cache is filled.
AtlasTruncates ==
  /\ atlas.pc = "save"
  /\ vault' = Torn /\ atlas' = [atlas EXCEPT !.pc = "write"]
  /\ UNCHANGED <<cache, loads, forge, cmds, notes, historyVars>>

AtlasWrites ==
  /\ atlas.pc = "write"
  /\ vault' = Whole(atlas.cfg) /\ atlas' = [atlas EXCEPT !.pc = "cache"]
  /\ UNCHANGED <<cache, loads, forge, cmds, notes, historyVars>>

AtlasCaches ==
  /\ atlas.pc = "cache"
  /\ cache' = {atlas.cfg} /\ atlas' = [atlas EXCEPT !.pc = "reload"]
  /\ UNCHANGED <<vault, loads, forge, cmds, notes, historyVars>>

\* Mutant: save has filled the cache, that seems to do.
AtlasReloads_KeepsCache ==
  /\ atlas.pc = "reload"
  /\ Done
  /\ raced' = (raced \/ \E t \in Loaders : loads[t] # {})
  /\ UNCHANGED <<vault, cache, loads, forge, cmds, expected, saves>>

\* reload_cache
AtlasReloads ==
  /\ atlas.pc = "reload"
  /\ cache' = {} /\ Done
  /\ raced' = (raced \/ \E t \in Loaders : loads[t] # {})
  /\ UNCHANGED <<vault, loads, forge, cmds, expected, saves>>

-----------------------------------------------------------------------------
(* The Forge *)

\* on_save_signet: the list with the one path the user has added or removed
\* is saved in the same three steps ...
ForgeTruncates ==
  /\ forge.pc = "idle" /\ saves < MaxSaves /\ saves' = saves + 1
  /\ \E p \in Paths :
       forge' = [forge EXCEPT !.pc = "write",
                   !.ui = IF p \in @ THEN @ \ {p} ELSE @ \cup {p}]
  /\ vault' = Torn
  /\ UNCHANGED <<engineVars, cmds, notes, expected, raced>>

ForgeWrites ==
  /\ forge.pc = "write" /\ forge' = [forge EXCEPT !.pc = "cache"]
  /\ vault' = Whole(forge.ui)
  /\ UNCHANGED <<engineVars, cmds, notes, historyVars>>

\* ... and then sent to Atlas.
ForgeSends ==
  /\ forge.pc = "cache"
  /\ forge' = [forge EXCEPT !.pc = "idle", !.cache = {forge.ui}]
  /\ cmds' = Append(cmds, [kind |-> "signet", cfg |-> forge.ui, path |-> {}])
  /\ UNCHANGED <<vault, engineVars, notes, historyVars>>

\* SaveDecree with a folder, and SaveWards.
ForgeAddsWard ==
  /\ forge.pc = "idle" /\ saves < MaxSaves /\ saves' = saves + 1
  /\ \E kind \in {"decree", "wards"}, p \in Paths :
       cmds' = Append(cmds, [kind |-> kind, cfg |-> {}, path |-> {p}])
  /\ UNCHANGED <<vault, engineVars, forge, notes, expected, raced>>

\* sync_signet_to_ui with load: after a note of Atlas, or in a new Forge.
Sync(cached) ==
  LET found == IF cached # {} THEN cached ELSE FromFile
  IN forge' = [forge EXCEPT !.cache = found, !.ui = OrDefault(found)]

ForgeSyncs ==
  /\ forge.pc = "idle" /\ notes /\ notes' = FALSE
  /\ Sync(forge.cache)
  /\ UNCHANGED <<vault, engineVars, cmds, historyVars>>

ForgeRestarts ==
  /\ forge.pc = "idle" /\ notes' = FALSE /\ Sync({})
  /\ UNCHANGED <<vault, engineVars, cmds, historyVars>>

Next ==
  \/ LoaderReads \/ LoaderFills
  \/ AtlasTakes \/ AtlasLoads \/ AtlasFills
  \/ AtlasTruncates \/ AtlasWrites \/ AtlasCaches \/ AtlasReloads
  \/ ForgeTruncates \/ ForgeWrites \/ ForgeSends
  \/ ForgeAddsWard \/ ForgeSyncs \/ ForgeRestarts

Spec == Init /\ [][Next]_vars

-----------------------------------------------------------------------------

\* Nothing is under way in either program.
Quiet == /\ atlas.pc = "idle" /\ forge.pc = "idle" /\ cmds = <<>>
         /\ \A t \in Loaders : loads[t] = {}

(***************************************************************************)
(* The vault ends up as what the commands come to in the order Atlas took  *)
(* them, however its writes, the Forge's own writes to the same file and   *)
(* the loads of both cross, as long as no load was overtaken by a          *)
(* reload_cache.                                                           *)
(***************************************************************************)
LastSaveKept == Quiet /\ ~raced => vault.cfg = expected

(***************************************************************************)
(* Then the engine's cache, too, is empty or what the vault says: no torn  *)
(* and no old configuration stays in use.                                  *)
(***************************************************************************)
CacheCurrent == Quiet /\ ~raced => cache \subseteq {vault.cfg}

(***************************************************************************)
(* What main.rs says of load: new settings take effect without a restart,  *)
(* for the cache is cleared whenever they are saved.                       *)
(* The code does not keep this; the README says how.                       *)
(***************************************************************************)
SavedTakesEffect == Quiet => cache \subseteq {vault.cfg}

(***************************************************************************)
(* When Atlas tells the Forge that the wards are updated, the Forge shows  *)
(* the trusted paths as they are then.                                     *)
(* The code does not keep this; the README says how.                       *)
(***************************************************************************)
NotedWardsShown ==
  [][notes /\ ~notes' /\ vault.state = "whole" => forge'.ui = vault.cfg]_vars
=============================================================================
