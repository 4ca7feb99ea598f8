---------------------------- MODULE SignetProofs ----------------------------
(***************************************************************************)
(* Theorems about Signet for every value of its constants: however many    *)
(* threads of the engine load the vault and whatever the two programs      *)
(* write to it, the vault and the cache end up as the commands say, unless *)
(* a load was overtaken by a reload_cache.                                 *)
(***************************************************************************)
EXTENDS Signet, SequenceTheorems, TLAPS

-----------------------------------------------------------------------------
(* Types *)

\* Atlas' record, named, as the proofs need its fields.
AtlasType == [pc : {"idle", "load", "fill", "save", "write", "cache", "reload"},
              kind : {"signet", "decree", "wards"},
              path : AtMostOne(Paths), cfg : Conf]

LEMMA Configurations ==
  /\ Default \in Conf /\ {} \in Conf
  /\ \A c \in Conf, p \in AtMostOne(Paths) : c \cup p \in Conf /\ p \in Conf
  /\ \A c \in Conf : {c} \in AtMostOne(Conf)
  /\ {} \in AtMostOne(Conf) /\ {} \in AtMostOne(Paths)
BY SignetConstantsOK DEF Conf, AtMostOne

\* Of at most one configuration OrDefault takes that one.
LEMMA OrDefaultTakes ==
  ASSUME NEW found \in AtMostOne(Conf)
  PROVE  /\ OrDefault(found) \in Conf
         /\ \A c : found = {c} => OrDefault(found) = c
<1>1. CASE found = {}
  BY <1>1, Configurations DEF OrDefault
<1>2. ASSUME NEW c, found = {c}
      PROVE  OrDefault(found) = c
  BY <1>2 DEF OrDefault
<1>3. CASE found # {}
  <2>1. PICK c \in Conf : found = {c}
    BY <1>3 DEF AtMostOne
  <2>. QED BY <1>2, <2>1
<1>. QED BY <1>1, <1>2, <1>3

\* The fields of a command.
LEMMA CommandFields ==
  ASSUME NEW c \in Command
  PROVE  /\ c.kind \in {"signet", "decree", "wards"}
         /\ c.cfg \in Conf /\ c.path \in AtMostOne(Paths)
BY Configurations DEF Command, AtMostOne

LEMMA FromFileTypes ==
  ASSUME TypeOK
  PROVE  /\ vault.cfg \in Conf /\ FromFile \in AtMostOne(Conf)
         /\ FromFile # {} => FromFile = {vault.cfg} /\ vault.state # "torn"
<1>1. vault.cfg \in Conf
  BY Configurations DEF TypeOK, Missing, Torn, Whole
<1>. QED BY <1>1, Configurations DEF FromFile

\* The head of a queue and the rest of it.
LEMMA HeadAndTail ==
  ASSUME NEW S, NEW q \in Seq(S), q # <<>>
  PROVE  /\ Head(q) \in S /\ Tail(q) \in Seq(S) /\ Len(q) \in Nat \ {0}
         /\ Len(Tail(q)) = Len(q) - 1 /\ Head(q) = q[1]
         /\ \A i \in 1 .. Len(q) - 1 : Tail(q)[i] = q[i + 1]
BY EmptySeq, HeadTailProperties

LEMMA MergeTypes ==
  ASSUME TypeOK, NEW found \in Conf, Merge(found)
  PROVE  atlas' \in AtlasType /\ notes' \in BOOLEAN
<1>1. Idle \in AtlasType
  BY Configurations DEF Idle, AtlasType
<1>2. atlas \in AtlasType /\ found \cup atlas.path \in Conf
  BY Configurations DEF TypeOK, AtlasType
<1>3. CASE Done
  BY <1>1, <1>3 DEF Done, TypeOK
<1>4. CASE atlas' = [atlas EXCEPT !.pc = "save", !.cfg = found \cup atlas.path] /\ UNCHANGED notes
  BY <1>2, <1>4 DEF AtlasType, TypeOK
<1>. QED BY <1>3, <1>4 DEF Merge

LEMMA EngineTypes ==
  ASSUME TypeOK, LoaderReads \/ LoaderFills \/ AtlasTakes \/ AtlasLoads \/ AtlasFills
  PROVE  TypeOK'
<1>1. CASE LoaderReads \/ LoaderFills
  <2>0. cache \in AtMostOne(Conf) /\ loads \in [Loaders -> AtMostOne(Conf)]
        /\ FromFile \in AtMostOne(Conf) /\ {} \in AtMostOne(Conf)
    BY FromFileTypes, Configurations DEF TypeOK
  <2>1. cache' \in AtMostOne(Conf) /\ loads' \in [Loaders -> AtMostOne(Conf)]
    <3>1. CASE LoaderReads
      BY <2>0, <3>1 DEF LoaderReads
    <3>2. CASE LoaderFills
      BY <2>0, <3>2 DEF LoaderFills
    <3>. QED BY <1>1, <3>1, <3>2
  <2>. QED BY <1>1, <2>1 DEF LoaderReads, LoaderFills, TypeOK, historyVars
<1>2. CASE AtlasTakes
  <2>. DEFINE c == Head(cmds)
  <2>1. /\ cmds # <<>> /\ cmds' = Tail(cmds) /\ expected' = Effect(c, expected)
        /\ atlas' = [pc |-> IF c.kind = "signet" THEN "save" ELSE "load",
                     kind |-> c.kind, path |-> c.path, cfg |-> c.cfg]
        /\ UNCHANGED <<vault, cache, loads, forge, notes, raced, saves>>
    BY <1>2 DEF AtlasTakes
  <2>2. c \in Command /\ cmds' \in Seq(Command)
    BY <2>1, HeadAndTail DEF TypeOK
  <2>. HIDE DEF c
  <2>3. atlas' \in AtlasType /\ expected' \in Conf
    BY <2>1, <2>2, CommandFields, Configurations DEF AtlasType, Effect, TypeOK
  <2>. QED BY <2>1, <2>2, <2>3 DEF TypeOK, AtlasType
<1>3. CASE AtlasLoads
  <2>1. OrDefault(cache) \in Conf /\ OrDefault(FromFile) \in Conf /\ Default \in Conf
    BY OrDefaultTakes, FromFileTypes, Configurations DEF TypeOK
  <2>2. atlas' \in AtlasType /\ notes' \in BOOLEAN
    <3>1. CASE atlas' = [atlas EXCEPT !.pc = "fill", !.cfg = OrDefault(FromFile)] /\ UNCHANGED notes
      BY <2>1, <3>1 DEF TypeOK, AtlasType
    <3>. QED BY <1>3, <2>1, <3>1, MergeTypes DEF AtlasLoads
  <2>. QED BY <1>3, <2>2 DEF AtlasLoads, TypeOK, AtlasType, historyVars
<1>4. CASE AtlasFills
  <2>1. atlas.cfg \in Conf
    BY DEF TypeOK
  <2>2. atlas' \in AtlasType /\ notes' \in BOOLEAN /\ cache' \in AtMostOne(Conf)
    BY <1>4, <2>1, MergeTypes, Configurations DEF AtlasFills
  <2>. QED BY <1>4, <2>2 DEF AtlasFills, TypeOK, AtlasType, historyVars
<1>. QED BY <1>1, <1>2, <1>3, <1>4

LEMMA SaveTypes ==
  ASSUME TypeOK, AtlasTruncates \/ AtlasWrites \/ AtlasCaches \/ AtlasReloads
  PROVE  TypeOK'
<1>1. atlas \in AtlasType /\ atlas.cfg \in Conf /\ Idle \in AtlasType
  BY Configurations DEF TypeOK, AtlasType, Idle
<1>2. /\ vault' \in {Missing, Torn} \cup {Whole(c) : c \in Conf}
      /\ cache' \in AtMostOne(Conf)
  BY <1>1, Configurations DEF AtlasTruncates, AtlasWrites, AtlasCaches, AtlasReloads, TypeOK
<1>3. /\ atlas' \in AtlasType /\ notes' \in BOOLEAN /\ raced' \in BOOLEAN
  BY <1>1 DEF AtlasTruncates, AtlasWrites, AtlasCaches, AtlasReloads, TypeOK, AtlasType, Done,
              historyVars
<1>. QED BY <1>2, <1>3 DEF AtlasTruncates, AtlasWrites, AtlasCaches, AtlasReloads, TypeOK,
                           AtlasType, historyVars

LEMMA ForgeTypes ==
  ASSUME TypeOK, ForgeTruncates \/ ForgeWrites \/ ForgeSends \/ ForgeAddsWard
                   \/ ForgeSyncs \/ ForgeRestarts
  PROVE  TypeOK'
<1>. DEFINE F == [pc : {"idle", "write", "cache"}, cache : AtMostOne(Conf), ui : Conf]
<1>0. forge \in F /\ forge.ui \in Conf
  BY DEF TypeOK
<1>1. CASE ForgeTruncates
  <2>1. PICK p \in Paths :
          forge' = [forge EXCEPT !.pc = "write", !.ui = IF p \in @ THEN @ \ {p} ELSE @ \cup {p}]
    BY <1>1 DEF ForgeTruncates
  <2>2. forge.ui \ {p} \in Conf /\ forge.ui \cup {p} \in Conf
    BY <1>0 DEF Conf
  <2>3. forge' \in F
    BY <1>0, <2>1, <2>2
  <2>4. saves' \in 0 .. MaxSaves
    <3>1. saves < MaxSaves /\ saves' = saves + 1 /\ saves \in 0 .. MaxSaves
      BY <1>1 DEF ForgeTruncates, TypeOK
    <3>. QED BY <3>1, SignetConstantsOK
  <2>. QED BY <1>1, <2>3, <2>4 DEF ForgeTruncates, TypeOK, engineVars
<1>2. CASE ForgeWrites
  BY <1>0, <1>2 DEF ForgeWrites, TypeOK, engineVars, historyVars
<1>3. CASE ForgeSends
  <2>1. [kind |-> "signet", cfg |-> forge.ui, path |-> {}] \in Command
    BY <1>0 DEF Command
  <2>2. cmds' \in Seq(Command)
    BY <1>3, <2>1, AppendProperties DEF ForgeSends, TypeOK
  <2>3. forge' \in F
    BY <1>0, <1>3, Configurations DEF ForgeSends
  <2>. QED BY <1>3, <2>2, <2>3 DEF ForgeSends, TypeOK, engineVars, historyVars
<1>4. CASE ForgeAddsWard
  <2>1. PICK kind \in {"decree", "wards"}, p \in Paths :
          cmds' = Append(cmds, [kind |-> kind, cfg |-> {}, path |-> {p}])
    BY <1>4 DEF ForgeAddsWard
  <2>2. [kind |-> kind, cfg |-> {}, path |-> {p}] \in Command
    BY DEF Command
  <2>3. cmds' \in Seq(Command)
    BY <2>1, <2>2, AppendProperties DEF TypeOK
  <2>4. saves' \in 0 .. MaxSaves
    <3>1. saves < MaxSaves /\ saves' = saves + 1 /\ saves \in 0 .. MaxSaves
      BY <1>4 DEF ForgeAddsWard, TypeOK
    <3>. QED BY <3>1, SignetConstantsOK
  <2>. QED BY <1>4, <2>3, <2>4 DEF ForgeAddsWard, TypeOK, engineVars
<1>5. CASE ForgeSyncs \/ ForgeRestarts
  <2>1. PICK cached \in AtMostOne(Conf) : Sync(cached)
    BY <1>0, <1>5, Configurations DEF ForgeSyncs, ForgeRestarts
  <2>2. forge' \in F
    BY <1>0, <2>1, FromFileTypes, OrDefaultTakes DEF Sync
  <2>. QED BY <1>5, <2>2 DEF ForgeSyncs, ForgeRestarts, TypeOK, engineVars, historyVars
<1>. QED BY <1>1, <1>2, <1>3, <1>4, <1>5

LEMMA Typed == Spec => []TypeOK
<1>1. Init => TypeOK
  <2>. HAVE Init
  <2>1. vault.cfg \in Conf
    BY Configurations DEF Init, Missing, Whole
  <2>2. atlas \in AtlasType /\ cmds \in Seq(Command)
    BY Configurations DEF Init, Idle, AtlasType
  <2>3. /\ forge \in [pc : {"idle", "write", "cache"}, cache : AtMostOne(Conf), ui : Conf]
        /\ loads \in [Loaders -> AtMostOne(Conf)] /\ cache \in AtMostOne(Conf)
    BY <2>1, Configurations DEF Init
  <2>4. vault \in {Missing, Torn} \cup {Whole(c) : c \in Conf} /\ expected \in Conf
    BY <2>1 DEF Init
  <2>5. saves \in 0 .. MaxSaves /\ notes \in BOOLEAN /\ raced \in BOOLEAN
    <3>1. saves = 0 /\ notes = FALSE /\ raced = FALSE
      BY DEF Init
    <3>2. MaxSaves \in Nat
      BY SignetConstantsOK
    <3>3. 0 \in 0 .. MaxSaves
      BY <3>2
    <3>. QED BY <3>1, <3>3
  <2>. QED BY <2>2, <2>3, <2>4, <2>5 DEF TypeOK, AtlasType
<1>2. TypeOK /\ [Next]_vars => TypeOK'
  <2>. SUFFICES ASSUME TypeOK, [Next]_vars
                PROVE  TypeOK'
    OBVIOUS
  <2>1. CASE UNCHANGED vars
    BY <2>1 DEF TypeOK, vars, engineVars, historyVars
  <2>. QED BY <2>1, EngineTypes, SaveTypes, ForgeTypes DEF Next
<1>. QED BY <1>1, <1>2, PTL DEF Spec

-----------------------------------------------------------------------------
(* The vault and the engine's cache *)

\* The Forge is writing the vault, or its SaveSignet is still on its way:
\* Atlas will overwrite whatever is found there now.
Pending == forge.pc # "idle" \/ \E i \in 1 .. Len(cmds) : cmds[i].kind = "signet"

\* The vault, the cache and the loads under way all hold base.
Holds(base) ==
  /\ vault.state # "torn" /\ vault.cfg = base
  /\ cache \subseteq {base} /\ \A t \in Loaders : loads[t] \subseteq {base}

(***************************************************************************)
(* While Atlas is at rest everything holds what is expected; while it      *)
(* loads, what was expected before its command; and from then on it has    *)
(* the expected configuration in its hands, and reload_cache will do away  *)
(* with all that is older.                                                 *)
(***************************************************************************)
AtlasOnCourse ==
  /\ atlas.pc = "idle" => Holds(expected)
  /\ atlas.pc = "load" => \E base \in Conf : Holds(base) /\ expected = base \cup atlas.path
  /\ atlas.pc = "fill" => Holds(atlas.cfg) /\ expected = atlas.cfg \cup atlas.path
  /\ atlas.pc \in {"save", "write", "cache", "reload"} => atlas.cfg = expected
  /\ atlas.pc \in {"cache", "reload"} => vault = Whole(expected)

VaultInv == ~raced /\ ~Pending => AtlasOnCourse

\* What Merge does with the configuration it has found.
LEMMA MergeOnCourse ==
  ASSUME TypeOK, NEW base \in Conf, Holds(base)', expected = base \cup atlas.path,
         UNCHANGED expected, Merge(base)
  PROVE  AtlasOnCourse'
<1>1. CASE atlas.path \subseteq base /\ Done
  <2>1. atlas'.pc = "idle" /\ expected' = base
    BY <1>1 DEF Done, Idle
  <2>. QED BY <2>1 DEF AtlasOnCourse, Holds
<1>2. CASE atlas' = [atlas EXCEPT !.pc = "save", !.cfg = base \cup atlas.path]
  <2>1. atlas'.pc = "save" /\ atlas'.cfg = expected'
    BY <1>2 DEF TypeOK
  <2>. QED BY <2>1 DEF AtlasOnCourse
<1>. QED BY <1>1, <1>2 DEF Merge

LEMMA LoadsOnCourse ==
  ASSUME TypeOK, AtlasOnCourse, LoaderReads \/ LoaderFills
  PROVE  AtlasOnCourse'
<1>1. UNCHANGED <<vault, atlas, expected>>
  BY DEF LoaderReads, LoaderFills, historyVars
<1>2. ASSUME NEW base, Holds(base)
      PROVE  Holds(base)'
  <2>1. CASE LoaderReads
    <3>1. PICK t \in Loaders : loads' = [loads EXCEPT ![t] = FromFile]
      BY <2>1 DEF LoaderReads
    <3>2. FromFile \subseteq {base}
      BY <1>2 DEF Holds, FromFile
    <3>3. \A u \in Loaders : loads'[u] \subseteq {base}
      BY <1>2, <3>1, <3>2 DEF Holds, TypeOK
    <3>. QED BY <1>1, <1>2, <2>1, <3>3 DEF Holds, LoaderReads
  <2>2. CASE LoaderFills
    <3>1. PICK t \in Loaders : cache' = loads[t] /\ loads' = [loads EXCEPT ![t] = {}]
      BY <2>2 DEF LoaderFills
    <3>2. \A u \in Loaders : loads'[u] \subseteq {base}
      BY <1>2, <3>1 DEF Holds, TypeOK
    <3>. QED BY <1>1, <1>2, <3>1, <3>2 DEF Holds
  <2>. QED BY <2>1, <2>2
<1>. QED BY <1>1, <1>2 DEF AtlasOnCourse

LEMMA AtlasKeepsCourse ==
  ASSUME TypeOK, AtlasOnCourse, ~raced',
         AtlasLoads \/ AtlasFills \/ AtlasTruncates \/ AtlasWrites \/ AtlasCaches \/ AtlasReloads
  PROVE  AtlasOnCourse'
<1>1. CASE AtlasLoads
  <2>1. UNCHANGED <<vault, cache, loads, expected>> /\ atlas.pc = "load"
    BY <1>1 DEF AtlasLoads, historyVars
  <2>2. PICK base \in Conf : Holds(base) /\ expected = base \cup atlas.path
    BY <2>1 DEF AtlasOnCourse
  <2>3. Holds(base)'
    BY <2>1, <2>2 DEF Holds
  <2>4. CASE cache # {} /\ Merge(OrDefault(cache))
    <3>0. cache = {base} /\ cache \in AtMostOne(Conf)
      BY <2>2, <2>4 DEF Holds, TypeOK
    <3>1. OrDefault(cache) = base
      BY <3>0, OrDefaultTakes
    <3>. QED BY <2>1, <2>2, <2>3, <2>4, <3>1, MergeOnCourse
  <2>5. CASE FromFile = {}
    BY <2>2, <2>5 DEF Holds, FromFile
  <2>6. CASE FromFile # {} /\ atlas' = [atlas EXCEPT !.pc = "fill", !.cfg = OrDefault(FromFile)]
    <3>1. OrDefault(FromFile) = base
      BY <2>2, <2>6, OrDefaultTakes, FromFileTypes DEF Holds
    <3>2. atlas'.pc = "fill" /\ atlas'.cfg = base /\ atlas'.path = atlas.path
      BY <2>6, <3>1 DEF TypeOK
    <3>. QED BY <2>1, <2>2, <2>3, <3>2 DEF AtlasOnCourse
  <2>. QED BY <1>1, <2>4, <2>5, <2>6 DEF AtlasLoads
<1>2. CASE AtlasFills
  <2>1. /\ UNCHANGED <<vault, loads, expected>> /\ cache' = {atlas.cfg} /\ Merge(atlas.cfg)
        /\ atlas.pc = "fill" /\ atlas.cfg \in Conf
    BY <1>2 DEF AtlasFills, historyVars, TypeOK
  <2>2. Holds(atlas.cfg) /\ expected = atlas.cfg \cup atlas.path
    BY <2>1 DEF AtlasOnCourse
  <2>. DEFINE base == atlas.cfg
  <2>3. /\ vault'.state # "torn" /\ vault'.cfg = base
        /\ cache' \subseteq {base} /\ \A t \in Loaders : loads'[t] \subseteq {base}
    BY <2>1, <2>2 DEF Holds
  <2>4. \A b : b = base => Holds(b)'
    BY <2>3 DEF Holds
  <2>5. PICK b \in Conf : b = base
    BY <2>1
  <2>. QED BY <2>1, <2>2, <2>4, <2>5, MergeOnCourse
<1>3. CASE AtlasTruncates
  <2>1. atlas'.pc = "write" /\ atlas'.cfg = atlas.cfg /\ atlas.pc = "save" /\ UNCHANGED expected
    BY <1>3 DEF AtlasTruncates, TypeOK, historyVars
  <2>. QED BY <2>1 DEF AtlasOnCourse
<1>4. CASE AtlasWrites
  <2>1. /\ atlas'.pc = "cache" /\ atlas'.cfg = atlas.cfg /\ atlas.pc = "write"
        /\ vault' = Whole(atlas.cfg) /\ UNCHANGED expected
    BY <1>4 DEF AtlasWrites, TypeOK, historyVars
  <2>. QED BY <2>1 DEF AtlasOnCourse, Whole
<1>5. CASE AtlasCaches
  <2>1. /\ atlas'.pc = "reload" /\ atlas'.cfg = atlas.cfg /\ atlas.pc = "cache"
        /\ UNCHANGED <<vault, expected>>
    BY <1>5 DEF AtlasCaches, TypeOK, historyVars
  <2>. QED BY <2>1 DEF AtlasOnCourse, Whole
<1>6. CASE AtlasReloads
  <2>1. /\ atlas'.pc = "idle" /\ cache' = {} /\ atlas.pc = "reload"
        /\ UNCHANGED <<vault, loads, expected>> /\ \A t \in Loaders : loads[t] = {}
    BY <1>6 DEF AtlasReloads, Done, Idle
  <2>2. vault'.state = "whole" /\ vault'.cfg = expected'
    BY <2>1 DEF AtlasOnCourse, Whole
  <2>3. Holds(expected)'
    BY <2>1, <2>2 DEF Holds
  <2>. QED BY <2>1, <2>3 DEF AtlasOnCourse
<1>. QED BY <1>1, <1>2, <1>3, <1>4, <1>5, <1>6

\* Only Atlas' taking of a SaveSignet ends the pending ones.
LEMMA PendingEnds ==
  ASSUME TypeOK, [Next]_vars, Pending, ~Pending'
  PROVE  AtlasTakes /\ Head(cmds).kind = "signet"
<1>1. cmds \in Seq(Command) /\ Len(cmds) \in Nat
  BY DEF TypeOK
<1>2. CASE UNCHANGED <<forge, cmds>>
  BY <1>2 DEF Pending
<1>3. CASE AtlasTakes
  <2>1. cmds # <<>> /\ cmds' = Tail(cmds) /\ UNCHANGED forge
    BY <1>3 DEF AtlasTakes
  <2>2. /\ Len(cmds') = Len(cmds) - 1 /\ Head(cmds) = cmds[1]
        /\ \A i \in 1 .. Len(cmds) - 1 : cmds'[i] = cmds[i + 1]
    BY <1>1, <2>1, HeadAndTail
  <2>3. PICK i \in 1 .. Len(cmds) : cmds[i].kind = "signet"
    BY <2>1 DEF Pending
  <2>4. i # 1 => i - 1 \in 1 .. Len(cmds') /\ cmds'[i - 1] = cmds[i]
    BY <1>1, <2>2
  <2>5. i = 1
    BY <2>3, <2>4 DEF Pending
  <2>. QED BY <1>3, <2>2, <2>3, <2>5
<1>4. CASE ForgeTruncates \/ ForgeWrites
  <2>1. forge'.pc \in {"write", "cache"}
    BY <1>4 DEF ForgeTruncates, ForgeWrites, TypeOK
  <2>. QED BY <2>1 DEF Pending
<1>5. CASE ForgeSends
  <2>1. cmds' = Append(cmds, [kind |-> "signet", cfg |-> forge.ui, path |-> {}])
    BY <1>5 DEF ForgeSends
  <2>2. Len(cmds') = Len(cmds) + 1 /\ cmds'[Len(cmds) + 1].kind = "signet"
    BY <1>1, <2>1
  <2>3. Len(cmds) + 1 \in 1 .. Len(cmds')
    BY <1>1, <2>2
  <2>. QED BY <2>2, <2>3 DEF Pending
<1>6. CASE ForgeAddsWard
  <2>1. UNCHANGED forge /\ \E c : cmds' = Append(cmds, c)
    BY <1>6 DEF ForgeAddsWard
  <2>2. Len(cmds') = Len(cmds) + 1 /\ \A i \in 1 .. Len(cmds) : cmds'[i] = cmds[i]
    BY <1>1, <2>1
  <2>3. \A i \in 1 .. Len(cmds) : i \in 1 .. Len(cmds')
    BY <1>1, <2>2
  <2>. QED BY <2>1, <2>2, <2>3 DEF Pending
<1>7. CASE ForgeSyncs \/ ForgeRestarts
  <2>1. UNCHANGED cmds /\ forge.pc = "idle"
    BY <1>7 DEF ForgeSyncs, ForgeRestarts
  <2>. QED BY <2>1 DEF Pending
<1>. QED BY <1>2, <1>3, <1>4, <1>5, <1>6, <1>7
       DEF Next, vars, engineVars, historyVars, LoaderReads, LoaderFills, AtlasLoads, AtlasFills,
           AtlasTruncates, AtlasWrites, AtlasCaches, AtlasReloads

LEMMA VaultStays ==
  ASSUME TypeOK, VaultInv, [Next]_vars
  PROVE  VaultInv'
<1>. SUFFICES ASSUME ~raced', ~Pending'
              PROVE  AtlasOnCourse'
  BY DEF VaultInv
<1>1. CASE AtlasTakes
  <2>. DEFINE c == Head(cmds)
  <2>1. /\ atlas.pc = "idle" /\ expected' = Effect(c, expected) /\ ~raced
        /\ atlas' = [pc |-> IF c.kind = "signet" THEN "save" ELSE "load",
                     kind |-> c.kind, path |-> c.path, cfg |-> c.cfg]
        /\ UNCHANGED <<vault, cache, loads>>
    BY <1>1 DEF AtlasTakes
  <2>. HIDE DEF c
  <2>2. CASE c.kind = "signet"
    BY <2>1, <2>2 DEF AtlasOnCourse, Effect
  <2>3. CASE c.kind # "signet"
    <3>1. ~Pending
      BY <2>3, PendingEnds DEF c
    <3>2. Holds(expected)
      BY <2>1, <3>1 DEF VaultInv, AtlasOnCourse
    <3>3. \A b : Holds(b) => Holds(b)'
      BY <2>1 DEF Holds
    <3>4. atlas'.pc = "load" /\ atlas'.path = c.path /\ expected' = expected \cup c.path
      BY <2>1, <2>3 DEF Effect
    <3>5. PICK b \in Conf : b = expected
      BY DEF TypeOK
    <3>6. Holds(b)' /\ expected' = b \cup atlas'.path
      BY <3>2, <3>3, <3>4, <3>5
    <3>. QED BY <3>4, <3>6 DEF AtlasOnCourse
  <2>. QED BY <2>2, <2>3
<1>2. CASE ~AtlasTakes
  <2>1. ~Pending
    BY <1>2, PendingEnds
  <2>2. ~raced
    BY DEF Next, vars, engineVars, historyVars, LoaderReads, LoaderFills, AtlasTakes, AtlasLoads,
           AtlasFills, AtlasTruncates, AtlasWrites, AtlasCaches, AtlasReloads, ForgeTruncates,
           ForgeWrites, ForgeSends, ForgeAddsWard, ForgeSyncs, ForgeRestarts
  <2>3. AtlasOnCourse
    BY <2>1, <2>2 DEF VaultInv
  <2>4. CASE UNCHANGED <<vault, cache, loads, atlas, expected>>
    BY <2>3, <2>4 DEF AtlasOnCourse, Holds
  <2>5. ~(ForgeTruncates \/ ForgeWrites \/ ForgeSends)
    <3>1. ~ForgeTruncates
      BY DEF ForgeTruncates, Pending, TypeOK
    <3>. QED BY <2>1, <3>1 DEF ForgeWrites, ForgeSends, Pending
  <2>. QED BY <1>2, <2>3, <2>4, <2>5, LoadsOnCourse, AtlasKeepsCourse
         DEF Next, vars, engineVars, historyVars, ForgeAddsWard, ForgeSyncs, ForgeRestarts
<1>. QED BY <1>1, <1>2

LEMMA VaultInvariant == Spec => [](TypeOK /\ VaultInv)
<1>1. Init => VaultInv
  <2>. HAVE Init
  <2>1. vault.state # "torn" /\ vault.cfg = expected
    BY DEF Init, Missing, Whole
  <2>2. Holds(expected) /\ atlas.pc = "idle"
    BY <2>1 DEF Init, Holds, Idle
  <2>. QED BY <2>2 DEF VaultInv, AtlasOnCourse
<1>2. TypeOK /\ VaultInv /\ [Next]_vars => VaultInv'
  BY VaultStays
<1>. QED BY <1>1, <1>2, Typed, PTL DEF Spec

\* When nothing is under way, all hold what is expected.
LEMMA QuietHolds == VaultInv /\ Quiet /\ ~raced => Holds(expected)
<1>. HAVE VaultInv /\ Quiet /\ ~raced
<1>1. 1 .. Len(cmds) = {}
  BY DEF Quiet
<1>. QED BY <1>1 DEF VaultInv, Quiet, Pending, AtlasOnCourse

(***************************************************************************)
(* For any paths and any number of threads: at rest the vault is what the  *)
(* commands come to, whichever of the writes of the two programs was last. *)
(***************************************************************************)
THEOREM LastSaveKeptHolds == Spec => []LastSaveKept
<1>1. VaultInv => LastSaveKept
  BY QuietHolds DEF LastSaveKept, Holds
<1>. QED BY <1>1, VaultInvariant, PTL

(***************************************************************************)
(* And then no thread of the engine finds an older configuration cached.   *)
(***************************************************************************)
THEOREM CacheCurrentHolds == Spec => []CacheCurrent
<1>1. VaultInv => CacheCurrent
  BY QuietHolds DEF CacheCurrent, Holds
<1>. QED BY <1>1, VaultInvariant, PTL
=============================================================================
