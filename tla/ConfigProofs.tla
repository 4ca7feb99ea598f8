---------------------------- MODULE ConfigProofs ----------------------------
(***************************************************************************)
(* Theorems about Config: what the hotkeys, the untouched decrees, the     *)
(* last edit and the registry rest on, for every set of decrees, edits     *)
(* and bounds.                                                             *)
(***************************************************************************)
EXTENDS Config, SequenceTheorems, TLAPS

-----------------------------------------------------------------------------
(* Maps and commands *)

\* A map is a function on a part of the keys.
LEMMA MapIsFunction ==
  ASSUME NEW S, NEW T, NEW m \in Maps(S, T)
  PROVE  DOMAIN m \subseteq S /\ m \in [DOMAIN m -> T]
<1>1. PICK D \in SUBSET S : m \in [D -> T]
  BY DEF Maps
<1> QED
  BY <1>1

LEMMA FunctionIsMap ==
  ASSUME NEW S, NEW T, NEW D \in SUBSET S, NEW m \in [D -> T]
  PROVE  m \in Maps(S, T)
BY DEF Maps

\* A map stays one of its kind.
LEMMA PutTyped ==
  ASSUME NEW S, NEW T, NEW m \in Maps(S, T), NEW k \in S, NEW v \in T
  PROVE  Put(m, k, v) \in Maps(S, T)
<1>1. DOMAIN m \subseteq S /\ m \in [DOMAIN m -> T]
  BY MapIsFunction
<1>2. Put(m, k, v) \in [DOMAIN m \cup {k} -> T]
  BY <1>1 DEF Put
<1> QED
  BY <1>1, <1>2, FunctionIsMap

LEMMA WithoutTyped ==
  ASSUME NEW S, NEW T, NEW m \in Maps(S, T), NEW R
  PROVE  Without(m, R) \in Maps(S, T)
<1>1. DOMAIN m \subseteq S /\ m \in [DOMAIN m -> T]
  BY MapIsFunction
<1>2. Without(m, R) \in [DOMAIN m \ R -> T]
  BY <1>1 DEF Without
<1> QED
  BY <1>1, <1>2, FunctionIsMap

\* What a command carries.
LEMMA CommandCarries ==
  ASSUME NEW c \in Command
  PROVE  /\ c.op \in {"save", "remove", "rename", "wards"}
         /\ c.op # "wards" => c.id \in Ids
         /\ c.op = "save" => c.def \in DecreeDef
         /\ c.op = "wards" => c.wards \in Maps(Places, BOOLEAN)
BY DEF Command

\* A ledger is what it holds.
LEMMA LedgerHolds ==
  ASSUME NEW l \in Ledger
  PROVE  l.decrees \in Maps(Ids, DecreeDef) /\ l.wards \in Maps(Places, BOOLEAN)
BY DEF Ledger

LEMMA LedgerTyped ==
  ASSUME NEW d \in Maps(Ids, DecreeDef), NEW w \in Maps(Places, BOOLEAN)
  PROVE  [decrees |-> d, wards |-> w] \in Ledger
BY DEF Ledger

\* The commands that wait lose the one that is delivered or given up.
LEMMA RemoveAtTyped ==
  ASSUME NEW X, NEW s \in Seq(X), NEW i \in DOMAIN s
  PROVE  RemoveAt(s, i) \in Seq(X)
<1>1. i \in 1 .. Len(s) /\ Len(s) \in Nat
  BY LenProperties
<1>2. SubSeq(s, 1, i - 1) \in Seq(X) /\ SubSeq(s, i + 1, Len(s)) \in Seq(X)
  <2>1. \A j \in 1 .. i - 1 : s[j] \in X
    BY <1>1, ElementOfSeq
  <2>2. \A j \in i + 1 .. Len(s) : s[j] \in X
    BY <1>1, ElementOfSeq
  <2> QED
    BY <1>1, <2>1, <2>2, SubSeqProperties
<1> QED
  BY <1>2, ConcatProperties DEF RemoveAt

\* Without reordering it is the first.
LEMMA RemoveAtFirst ==
  ASSUME NEW X, NEW s \in Seq(X), s # <<>>
  PROVE  RemoveAt(s, 1) = Tail(s)
<1>1. SubSeq(s, 1, 0) = <<>>
  BY SubSeqEmpty
<1>2. SubSeq(s, 2, Len(s)) = Tail(s)
  BY TailIsSubSeq
<1>3. RemoveAt(s, 1) = SubSeq(s, 1, 0) \o SubSeq(s, 2, Len(s))
  BY DEF RemoveAt
<1>4. RemoveAt(s, 1) = Tail(s)
  <2>1. Tail(s) \in Seq(X)
    BY HeadTailProperties
  <2>2. <<>> \o Tail(s) = Tail(s)
    BY <2>1, ConcatEmptySeq
  <2> QED
    BY <1>1, <1>2, <1>3, <2>2
<1> QED
  BY <1>4

-----------------------------------------------------------------------------
(* The hotkeys *)

\* What a start takes from the system it has registered.
LEMMA ApplyOwns ==
  ASSUME NEW ledger, NEW r \in BootRegistries(ledger)
  PROVE  PlacesOf(ledger, "hotkey")
           \subseteq {k.at : k \in {j \in DOMAIN r : j.kind = "hotkey"}}
<1> SUFFICES ASSUME NEW d \in Summoned(ledger, "hotkey")
             PROVE  \E k \in DOMAIN r : k.kind = "hotkey" /\ k.at = d.at
  BY DEF PlacesOf
<1>1. PICK id \in DOMAIN ledger.decrees :
        d = ledger.decrees[id].summons /\ d.kind = "hotkey"
  BY DEF Summoned, Range
<1>2. id \in Registrable(ledger)
  BY <1>1 DEF Registrable
<1>3. DOMAIN r = {RegistryKey(ledger.decrees[i].summons) : i \in Registrable(ledger)}
  BY DEF BootRegistries
<1>4. RegistryKey(d) \in DOMAIN r
  BY <1>1, <1>2, <1>3
<1> QED
  BY <1>1, <1>4 DEF RegistryKey

(***************************************************************************)
(* A key combination is taken from the system only for a decree that is    *)
(* registered under it, whatever is lost or reordered on the way to Atlas: *)
(* a save takes and registers together, and what a removal unregisters is  *)
(* given back, as both are read from the same ledger.                      *)
(***************************************************************************)
THEOREM HotkeysOwnedHolds == Spec => []HotkeysOwned
<1>1. Init => HotkeysOwned
  <2> SUFFICES ASSUME Init PROVE HotkeysOwned
    OBVIOUS
  <2>1. PICK l \in Loaded : /\ registry \in BootRegistries(l.ledger)
                           /\ grabbed = PlacesOf(l.ledger, "hotkey")
    BY DEF Init
  <2> QED
    BY <2>1, ApplyOwns DEF HotkeysOwned
<1>2. HotkeysOwned /\ [Next]_vars => HotkeysOwned'
  <2> SUFFICES ASSUME HotkeysOwned, [Next]_vars
               PROVE  HotkeysOwned'
    OBVIOUS
  <2>1. CASE UNCHANGED <<registry, grabbed>>
    BY <2>1 DEF HotkeysOwned
  <2>2. CASE SaveDecree
    <3> DEFINE id == handling[1].cmd.id
               d == handling[1].cmd.def.summons
    <3>1. /\ grabbed' = (grabbed \ HotkeyOf(handling[1].ledger, id))
                          \cup {a \in {d.at} : d.kind = "hotkey"}
          /\ registry' = Put(registry, RegistryKey(d), handling[1].cmd.def.body)
      BY <2>2 DEF SaveDecree, Registers
    <3>2. DOMAIN registry' = DOMAIN registry \cup {RegistryKey(d)}
      BY <3>1 DEF Put
    <3>3. RegistryKey(d).at = d.at /\ RegistryKey(d).kind = d.kind
      BY DEF RegistryKey
    <3> QED
      BY <3>1, <3>2, <3>3 DEF HotkeysOwned
  <2>3. CASE RemoveDecree
    <3> DEFINE id == handling[1].cmd.id
               ledger == handling[1].ledger
               d == ledger.decrees[id].summons
    <3>1. CASE id \notin DOMAIN ledger.decrees
      BY <2>1, <2>3, <3>1 DEF RemoveDecree
    <3>2. CASE id \in DOMAIN ledger.decrees
      <4>1. /\ grabbed' = grabbed \ HotkeyOf(ledger, id)
            /\ registry' = Without(registry, {RegistryKey(d)})
        BY <2>3, <3>2 DEF RemoveDecree
      <4>2. DOMAIN registry' = DOMAIN registry \ {RegistryKey(d)}
        BY <4>1 DEF Without
      <4>3. d.kind = "hotkey" => d.at \in HotkeyOf(ledger, id)
        BY <3>2 DEF HotkeyOf
      <4>4. RegistryKey(d).at = d.at /\ RegistryKey(d).kind = d.kind
        BY DEF RegistryKey
      <4> QED
        BY <4>1, <4>2, <4>3, <4>4 DEF HotkeysOwned
    <3> QED
      BY <3>1, <3>2
  <2>4. CASE AppStops
    BY <2>4 DEF AppStops, HotkeysOwned
  <2>5. CASE AppStarts
    <3>1. PICK l \in Loaded : /\ registry' \in BootRegistries(l.ledger)
                             /\ grabbed' = PlacesOf(l.ledger, "hotkey")
      BY <2>5 DEF AppStarts, Apply
    <3> QED
      BY <3>1, ApplyOwns DEF HotkeysOwned
  <2> QED
    BY <2>1, <2>2, <2>3, <2>4, <2>5
    DEF Next, ForgeSteps, ForgeLoads, ForgeSaves, ForgeSends, CommandDelivered,
        CommandLost, AtlasLoads, AtlasHandles, SaveWards, RenameDecree, Rest,
        vars, engineVars
<1> QED
  BY <1>1, <1>2, PTL DEF Spec

-----------------------------------------------------------------------------
(* Types *)

Holding == [cmd : Command, ledger : Ledger, read : BOOLEAN]

\* What the processes hold and the commands on their way.
ConfigTypes ==
  /\ disk \in Ledger
  /\ editing \in Seq(Holding) /\ handling \in Seq(Holding)
  /\ sending \in Seq(Command) /\ forgeQ \in Seq(Command)
  /\ intended \in Maps(Ids, DecreeDef)
  /\ edits \in 0 .. MaxEdits

\* What one process holds, once it has loaded.
LEMMA HoldingTyped ==
  ASSUME NEW s \in Seq(Holding), s # <<>>
  PROVE  /\ s[1].cmd \in Command /\ s[1].ledger \in Ledger /\ s[1].read \in BOOLEAN
<1>1. 1 \in 1 .. Len(s)
  BY EmptySeq
<1>2. s[1] \in Holding
  BY <1>1, ElementOfSeq
<1> QED
  BY <1>2 DEF Holding

LEMMA HoldingOne ==
  ASSUME NEW c \in Command, NEW l \in Ledger, NEW r \in BOOLEAN
  PROVE  <<[cmd |-> c, ledger |-> l, read |-> r]>> \in Seq(Holding)
BY DEF Holding

\* What a process reads: the file, or the default ledger in its place.
LEMMA LoadedTyped ==
  ASSUME disk \in Ledger, NEW l \in Loaded
  PROVE  /\ l.ledger \in Ledger /\ l.read \in BOOLEAN
         /\ l.read => l.ledger = disk
<1>1. Default \in Ledger
  <2>1. \A S, T : <<>> \in Maps(S, T)
    <3> SUFFICES ASSUME NEW S, NEW T PROVE <<>> \in Maps(S, T)
      OBVIOUS
    <3>1. <<>> \in [{} -> T]
      OBVIOUS
    <3> QED
      BY <3>1 DEF Maps
  <2> QED
    BY <2>1, LedgerTyped DEF Default
<1>2. \/ l = [ledger |-> disk, read |-> TRUE]
      \/ l = [ledger |-> Default, read |-> FALSE]
  BY DEF Loaded
<1>3. CASE l = [ledger |-> disk, read |-> TRUE]
  BY <1>3
<1>4. CASE l = [ledger |-> Default, read |-> FALSE]
  BY <1>1, <1>4
<1> QED
  BY <1>2, <1>3, <1>4

\* The ledgers the engine may find first.
LEMMA BootTyped ==
  ASSUME NEW l \in Boot
  PROVE  l \in Ledger
<1>1. /\ l \in [decrees : Maps(Ids, [summons : Defs, body : {0}]),
               wards : Maps(Places, BOOLEAN)]
  BY ConfigInputsOK
<1>2. PICK d \in Maps(Ids, [summons : Defs, body : {0}]), w \in Maps(Places, BOOLEAN) :
        l = [decrees |-> d, wards |-> w]
  BY <1>1
<1>3. 0 \in 0 .. MaxEdits
  BY ConfigConstantsOK
<1>4. [summons : Defs, body : {0}] \subseteq DecreeDef
  BY <1>3 DEF DecreeDef
<1>5. DOMAIN d \subseteq Ids /\ d \in [DOMAIN d -> [summons : Defs, body : {0}]]
  BY MapIsFunction
<1>6. d \in [DOMAIN d -> DecreeDef]
  BY <1>4, <1>5
<1>7. d \in Maps(Ids, DecreeDef)
  BY <1>5, <1>6, FunctionIsMap
<1> QED
  BY <1>2, <1>7, LedgerTyped

\* The command of an edit the user makes, and what it says.
LEMMA EditCommand ==
  ASSUME ConfigTypes, NEW e \in Edits, edits < MaxEdits
  PROVE  /\ CommandOf(e) \in Command
         /\ CommandOf(e).op = "save" => CommandOf(e).def.body = edits + 1
<1>1. \/ e \in [op : {"save", "simulate"}, id : Ids, summons : Defs]
      \/ e \in [op : {"remove", "rename"}, id : Ids]
      \/ e \in [op : {"wards"}, wards : Maps(Places, BOOLEAN)]
  BY ConfigInputsOK
<1>2. CASE e.op \in {"save", "simulate"}
  <2>1. e.id \in Ids /\ e.summons \in Defs
    BY <1>1, <1>2
  <2>2. edits + 1 \in 0 .. MaxEdits
    BY ConfigConstantsOK DEF ConfigTypes
  <2>3. [summons |-> e.summons, body |-> edits + 1] \in DecreeDef
    BY <2>1, <2>2 DEF DecreeDef
  <2>4. CommandOf(e) = [op |-> "save", id |-> e.id,
                        def |-> [summons |-> e.summons, body |-> edits + 1]]
    BY <1>2 DEF CommandOf
  <2>5. CommandOf(e) \in Command
    BY <2>1, <2>3, <2>4 DEF Command
  <2> QED
    BY <2>4, <2>5
<1>3. CASE e.op \notin {"save", "simulate"}
  <2>1. CommandOf(e) = e
    BY <1>3 DEF CommandOf
  <2>2. e \in Command /\ e.op # "save"
    BY <1>1, <1>3 DEF Command
  <2> QED
    BY <2>1, <2>2
<1> QED
  BY <1>2, <1>3

\* What the decrees and the wards of the Forge become.
LEMMA EditedTyped ==
  ASSUME NEW c \in Command, NEW d \in Maps(Ids, DecreeDef),
         NEW w \in Maps(Places, BOOLEAN)
  PROVE  /\ DecreesAfter(d, c) \in Maps(Ids, DecreeDef)
         /\ ForgeWards(w, c) \in Maps(Places, BOOLEAN)
<1>1. DecreesAfter(d, c) \in Maps(Ids, DecreeDef)
  <2>1. CASE c.op = "save"
    BY <2>1, CommandCarries, PutTyped DEF DecreesAfter
  <2>2. CASE c.op = "remove"
    BY <2>2, WithoutTyped DEF DecreesAfter
  <2>3. CASE c.op \notin {"save", "remove"}
    BY <2>3 DEF DecreesAfter
  <2> QED
    BY <2>1, <2>2, <2>3
<1>2. ForgeWards(w, c) \in Maps(Places, BOOLEAN)
  <2>1. CASE c.op = "save" /\ c.def.summons.kind = "file"
    <3>1. c.def.summons \in Defs
      BY <2>1, CommandCarries DEF DecreeDef
    <3>2. c.def.summons.at \in Places /\ c.def.summons.recursive \in BOOLEAN
      BY <3>1, ConfigConstantsOK DEF Places
    <3>3. ForgeWards(w, c) = Put(w, c.def.summons.at, c.def.summons.recursive)
      BY <2>1 DEF ForgeWards
    <3> QED
      BY <3>2, <3>3, PutTyped
  <2>2. CASE c.op = "wards"
    BY <2>2, CommandCarries DEF ForgeWards
  <2>3. CASE ~(c.op = "save" /\ c.def.summons.kind = "file") /\ c.op # "wards"
    BY <2>3 DEF ForgeWards
  <2> QED
    BY <2>1, <2>2, <2>3
<1> QED
  BY <1>1, <1>2

\* What Atlas writes for a saved decree.
LEMMA SavedTyped ==
  ASSUME NEW l \in Ledger, NEW id \in Ids, NEW def \in DecreeDef
  PROVE  Saved(l, id, def) \in Ledger
<1>1. l.decrees \in Maps(Ids, DecreeDef) /\ l.wards \in Maps(Places, BOOLEAN)
  BY LedgerHolds
<1>2. def.summons \in Defs
  BY DEF DecreeDef
<1>3. def.summons.at \in Places /\ def.summons.recursive \in BOOLEAN
  BY <1>2, ConfigConstantsOK DEF Places
<1>4. Put(l.decrees, id, def) \in Maps(Ids, DecreeDef)
  BY <1>1, PutTyped
<1>5. Put(l.wards, def.summons.at, def.summons.recursive) \in Maps(Places, BOOLEAN)
  BY <1>1, <1>3, PutTyped
<1> QED
  BY <1>1, <1>4, <1>5, LedgerTyped DEF Saved

\* A ledger with other decrees or other wards.
LEMMA LedgerExcept ==
  ASSUME NEW l \in Ledger
  PROVE  /\ \A d \in Maps(Ids, DecreeDef) :
              /\ [l EXCEPT !.decrees = d] = [decrees |-> d, wards |-> l.wards]
              /\ [l EXCEPT !.decrees = d] \in Ledger
         /\ \A w \in Maps(Places, BOOLEAN) :
              /\ [l EXCEPT !.wards = w] = [decrees |-> l.decrees, wards |-> w]
              /\ [l EXCEPT !.wards = w] \in Ledger
BY DEF Ledger

\* What Atlas has written when it has handled a command.
LEMMA HandledTyped ==
  ASSUME ConfigTypes, AtlasHandles
  PROVE  disk' \in Ledger
<1> DEFINE c == handling[1].cmd
           l == handling[1].ledger
<1>1. handling # <<>>
  BY DEF AtlasHandles, SaveDecree, RemoveDecree, SaveWards, RenameDecree, Handles
<1>2. c \in Command /\ l \in Ledger
  BY <1>1, HoldingTyped DEF ConfigTypes
<1>3. l.decrees \in Maps(Ids, DecreeDef)
  BY <1>2, LedgerHolds
<1>4. CASE SaveDecree
  <2>1. c.op = "save" /\ disk' \in {disk, Saved(l, c.id, c.def)}
    BY <1>4 DEF SaveDecree, Handles, SavesLedger
  <2>2. c.id \in Ids /\ c.def \in DecreeDef
    BY <1>2, <2>1, CommandCarries
  <2>3. Saved(l, c.id, c.def) \in Ledger
    BY <1>2, <2>2, SavedTyped
  <2> QED
    BY <2>1, <2>3 DEF ConfigTypes
<1>5. CASE RemoveDecree
  <2>1. \/ disk' = disk
        \/ disk' = [l EXCEPT !.decrees = Without(l.decrees, {c.id})]
    BY <1>5 DEF RemoveDecree, SavesLedger
  <2>2. Without(l.decrees, {c.id}) \in Maps(Ids, DecreeDef)
    BY <1>3, WithoutTyped
  <2>3. [l EXCEPT !.decrees = Without(l.decrees, {c.id})] \in Ledger
    BY <1>2, <2>2, LedgerExcept
  <2>4. disk \in Ledger
    BY DEF ConfigTypes
  <2> QED
    BY <2>1, <2>3, <2>4
<1>6. CASE SaveWards
  <2>1. c.op = "wards" /\ disk' \in {disk, [l EXCEPT !.wards = c.wards]}
    BY <1>6 DEF SaveWards, Handles, SavesLedger
  <2>2. c.wards \in Maps(Places, BOOLEAN)
    BY <1>2, <2>1, CommandCarries
  <2>3. [l EXCEPT !.wards = c.wards] \in Ledger
    BY <1>2, <2>2, LedgerExcept
  <2> QED
    BY <2>1, <2>3 DEF ConfigTypes
<1>7. CASE RenameDecree
  BY <1>2, <1>7 DEF RenameDecree, SavesLedger, ConfigTypes
<1> QED
  BY <1>4, <1>5, <1>6, <1>7 DEF AtlasHandles

\* A save by the Forge writes what it holds, changed as the command says, or
\* leaves the file as it is.
LEMMA ForgeSaved ==
  ASSUME ConfigTypes, ForgeSaves
  PROVE  LET c == editing[1].cmd
             l == editing[1].ledger
         IN /\ c \in Command /\ l \in Ledger
            /\ disk' \in Ledger
            /\ \/ disk' = disk /\ unread' = unread
               \/ /\ disk'.decrees = DecreesAfter(l.decrees, c)
                  /\ unread' = (unread \/ ~editing[1].read)
            /\ intended' = DecreesAfter(intended, c)
            /\ intended' \in Maps(Ids, DecreeDef)
            /\ sending' = Append(sending, c)
            /\ sending' \in Seq(Command)
<1> DEFINE c == editing[1].cmd
           l == editing[1].ledger
<1>1. c \in Command /\ l \in Ledger
  BY HoldingTyped DEF ForgeSaves, ConfigTypes
<1>2. /\ sending' = Append(sending, c)
      /\ intended' = DecreesAfter(intended, c)
  BY DEF ForgeSaves, Intend
<1> DEFINE after == [decrees |-> DecreesAfter(l.decrees, c),
                     wards |-> ForgeWards(l.wards, c)]
<1>8. \/ disk' = disk /\ unread' = unread
      \/ disk' = after /\ unread' = (unread \/ ~editing[1].read)
  BY DEF ForgeSaves, ForgeWrites, SavesLedger
<1>3. /\ DecreesAfter(l.decrees, c) \in Maps(Ids, DecreeDef)
      /\ ForgeWards(l.wards, c) \in Maps(Places, BOOLEAN)
  BY <1>1, LedgerHolds, EditedTyped
<1>4. disk' \in Ledger
  BY <1>3, <1>8, LedgerTyped DEF ConfigTypes
<1>5. intended' \in Maps(Ids, DecreeDef)
  <2>1. l.wards \in Maps(Places, BOOLEAN)
    BY <1>1, LedgerHolds
  <2> QED
    BY <1>1, <1>2, <2>1, EditedTyped DEF ConfigTypes
<1>6. sending' \in Seq(Command)
  BY <1>1, <1>2, AppendProperties DEF ConfigTypes
<1>7. after.decrees = DecreesAfter(l.decrees, c)
  OBVIOUS
<1> HIDE DEF after
<1> QED
  BY <1>1, <1>2, <1>4, <1>5, <1>6, <1>7, <1>8

\* So does an edit that only sends.
LEMMA ForgeSent ==
  ASSUME ConfigTypes, ForgeSends
  PROVE  \E c \in Command :
           /\ c.op \in {"save", "rename"}
           /\ c.op = "save" => c.def.body = edits + 1
           /\ intended' = DecreesAfter(intended, c)
           /\ intended' \in Maps(Ids, DecreeDef)
           /\ lastEdit' = IF c.op \in {"save", "remove"} THEN {c.id} ELSE {}
           /\ sending' = Append(sending, c)
           /\ sending' \in Seq(Command)
<1>1. PICK e \in Edits : /\ e.op \in {"rename", "simulate"}
                         /\ sending' = Append(sending, CommandOf(e))
                         /\ Intend(CommandOf(e))
  BY DEF ForgeSends
<1> DEFINE c == CommandOf(e)
<1>2. edits < MaxEdits
  BY DEF ForgeSends
<1>3. c \in Command /\ (c.op = "save" => c.def.body = edits + 1)
  BY <1>2, EditCommand
<1>4. c.op \in {"save", "rename"}
  BY <1>1 DEF CommandOf
<1>5. /\ intended' = DecreesAfter(intended, c)
      /\ lastEdit' = IF c.op \in {"save", "remove"} THEN {c.id} ELSE {}
  BY <1>1 DEF Intend
<1>6. disk.wards \in Maps(Places, BOOLEAN)
  BY LedgerHolds DEF ConfigTypes
<1>7. intended' \in Maps(Ids, DecreeDef)
  BY <1>3, <1>5, <1>6, EditedTyped DEF ConfigTypes
<1>8. sending' \in Seq(Command)
  BY <1>1, <1>3, AppendProperties DEF ConfigTypes
<1> QED
  BY <1>1, <1>3, <1>4, <1>5, <1>7, <1>8

LEMMA TypesInit == Init => ConfigTypes
<1> SUFFICES ASSUME Init PROVE ConfigTypes
  OBVIOUS
<1>1. disk \in Ledger /\ intended = disk.decrees
  BY BootTyped DEF Init
<1>2. intended \in Maps(Ids, DecreeDef)
  BY <1>1, LedgerHolds
<1>3. edits \in 0 .. MaxEdits
  BY ConfigConstantsOK DEF Init
<1> QED
  BY <1>1, <1>2, <1>3, EmptySeq DEF Init, ConfigTypes

LEMMA TypesNext == ConfigTypes /\ [Next]_vars => ConfigTypes'
<1> SUFFICES ASSUME ConfigTypes, [Next]_vars
             PROVE  ConfigTypes'
  OBVIOUS
<1>1. CASE ForgeLoads
  <2>1. PICK e \in Edits, l \in Loaded :
          editing' = <<[cmd |-> CommandOf(e), ledger |-> l.ledger, read |-> l.read]>>
    BY <1>1 DEF ForgeLoads
  <2>2. edits < MaxEdits /\ edits' = edits + 1
    BY <1>1 DEF ForgeLoads
  <2>3. CommandOf(e) \in Command
    BY <2>2, EditCommand
  <2>4. editing' \in Seq(Holding)
    BY <2>1, <2>3, LoadedTyped, HoldingOne DEF ConfigTypes
  <2>5. edits' \in 0 .. MaxEdits
    BY <2>2, ConfigConstantsOK DEF ConfigTypes
  <2> QED
    BY <1>1, <2>4, <2>5 DEF ForgeLoads, ConfigTypes, engineVars
<1>2. CASE ForgeSaves
  <2>1. /\ disk' \in Ledger /\ intended' \in Maps(Ids, DecreeDef)
        /\ sending' \in Seq(Command)
    BY <1>2, ForgeSaved
  <2> QED
    BY <1>2, <2>1, EmptySeq DEF ForgeSaves, ConfigTypes, engineVars
<1>3. CASE ForgeSends
  <2>1. intended' \in Maps(Ids, DecreeDef) /\ sending' \in Seq(Command)
    BY <1>3, ForgeSent
  <2>2. edits' \in 0 .. MaxEdits
    BY <1>3, ConfigConstantsOK DEF ForgeSends, ConfigTypes
  <2> QED
    BY <1>3, <2>1, <2>2 DEF ForgeSends, ConfigTypes, engineVars
<1>4. CASE CommandDelivered
  <2>1. PICK i \in DOMAIN sending :
          forgeQ' = Append(forgeQ, sending[i]) /\ sending' = RemoveAt(sending, i)
    BY <1>4 DEF CommandDelivered
  <2>2. sending[i] \in Command
    BY <2>1, LenProperties, ElementOfSeq DEF ConfigTypes
  <2>3. forgeQ' \in Seq(Command) /\ sending' \in Seq(Command)
    BY <2>1, <2>2, AppendProperties, RemoveAtTyped DEF ConfigTypes
  <2> QED
    BY <1>4, <2>3 DEF CommandDelivered, ConfigTypes, engineVars
<1>5. CASE CommandLost
  <2>1. sending' \in Seq(Command)
    BY <1>5, RemoveAtTyped DEF CommandLost, ConfigTypes
  <2> QED
    BY <1>5, <2>1 DEF CommandLost, ConfigTypes, engineVars
<1>6. CASE AtlasLoads
  <2>1. Head(forgeQ) \in Command /\ Tail(forgeQ) \in Seq(Command)
    BY <1>6, HeadTailProperties DEF AtlasLoads, ConfigTypes
  <2>2. handling' \in Seq(Holding)
    <3>1. PICK l \in Loaded :
            handling' = <<[cmd |-> Head(forgeQ), ledger |-> l.ledger, read |-> l.read]>>
      BY <1>6 DEF AtlasLoads
    <3> QED
      BY <2>1, <3>1, LoadedTyped, HoldingOne DEF ConfigTypes
  <2> QED
    BY <1>6, <2>1, <2>2 DEF AtlasLoads, ConfigTypes, userVars
<1>7. CASE AtlasHandles
  <2>1. disk' \in Ledger
    BY <1>7, HandledTyped
  <2>2. handling' = <<>> /\ UNCHANGED <<forgeQ, userVars>>
    BY <1>7 DEF AtlasHandles, SaveDecree, RemoveDecree, SaveWards, RenameDecree, Handles
  <2> QED
    BY <2>1, <2>2, EmptySeq DEF ConfigTypes, userVars
<1>8. CASE AppStops
  BY <1>8, EmptySeq DEF AppStops, ConfigTypes, userVars
<1>9. CASE AppStarts
  BY <1>9 DEF AppStarts, ConfigTypes, userVars
<1>10. CASE UNCHANGED vars
  BY <1>10 DEF vars, engineVars, userVars, ConfigTypes
<1> QED
  BY <1>1, <1>2, <1>3, <1>4, <1>5, <1>6, <1>7, <1>8, <1>9, <1>10
  DEF Next, ForgeSteps, Rest

LEMMA TypesHold == Spec => []ConfigTypes
BY TypesInit, TypesNext, PTL DEF Spec

-----------------------------------------------------------------------------
(* The decrees nobody touches *)

UntouchedOf(decrees) == {id \in DOMAIN decrees : decrees[id].body = 0}

\* The decrees of a ledger include those the user has not touched, as they are.
Keeps(decrees, user) ==
  \A id \in UntouchedOf(user) : id \in DOMAIN decrees /\ decrees[id] = user[id]

\* The commands that change no decree the user has not touched.
Sparing(user) ==
  {c \in Command : c.op \in {"save", "remove"} => c.id \notin UntouchedOf(user)}

(***************************************************************************)
(* UntouchedKept is inductive with this: every ledger a process has read   *)
(* and may save keeps them too, and every command on its way spares them,  *)
(* since the edit that sent it touched its decree.                         *)
(***************************************************************************)
KeptInv ==
  /\ ~unread => Keeps(disk.decrees, intended)
  /\ editing # <<>> => /\ ~unread /\ editing[1].read =>
                            Keeps(editing[1].ledger.decrees, intended)
                       /\ editing[1].cmd.op = "save" => editing[1].cmd.def.body # 0
  /\ sending \in Seq(Sparing(intended)) /\ forgeQ \in Seq(Sparing(intended))
  /\ handling # <<>> => /\ ~unread /\ handling[1].read =>
                             Keeps(handling[1].ledger.decrees, intended)
                        /\ handling[1].cmd \in Sparing(intended)

\* A command that is made touches its decree, and no other.
LEMMA CommandTouches ==
  ASSUME NEW user, NEW c \in Command, c.op = "save" => c.def.body # 0
  PROVE  LET after == DecreesAfter(user, c)
         IN /\ UntouchedOf(after) \subseteq UntouchedOf(user)
            /\ \A id \in UntouchedOf(after) : after[id] = user[id]
            /\ c \in Sparing(after)
<1> DEFINE after == DecreesAfter(user, c)
<1> HIDE DEF after
<1>1. CASE c.op = "save"
  <2>1. after = Put(user, c.id, c.def)
    BY <1>1 DEF after, DecreesAfter
  <2>2. /\ DOMAIN after = DOMAIN user \cup {c.id} /\ after[c.id] = c.def
        /\ \A x \in DOMAIN user \ {c.id} : after[x] = user[x]
    BY <2>1 DEF Put
  <2>3. c.id \notin UntouchedOf(after)
    BY <1>1, <2>2 DEF UntouchedOf
  <2>4. /\ UntouchedOf(after) \subseteq UntouchedOf(user)
        /\ \A id \in UntouchedOf(after) : after[id] = user[id]
    BY <2>2, <2>3 DEF UntouchedOf
  <2>5. c \in Sparing(after)
    BY <2>3 DEF Sparing
  <2> QED
    BY <2>4, <2>5 DEF after
<1>2. CASE c.op = "remove"
  <2>1. after = Without(user, {c.id})
    BY <1>2 DEF after, DecreesAfter
  <2>2. /\ DOMAIN after = DOMAIN user \ {c.id}
        /\ \A x \in DOMAIN user \ {c.id} : after[x] = user[x]
    BY <2>1 DEF Without
  <2>3. /\ UntouchedOf(after) \subseteq UntouchedOf(user)
        /\ \A id \in UntouchedOf(after) : after[id] = user[id]
        /\ c.id \notin UntouchedOf(after)
    BY <2>2 DEF UntouchedOf
  <2>4. c \in Sparing(after)
    BY <2>3 DEF Sparing
  <2> QED
    BY <2>3, <2>4 DEF after
<1>3. CASE c.op \notin {"save", "remove"}
  <2>1. after = user
    BY <1>3 DEF after, DecreesAfter
  <2> QED
    BY <1>3, <2>1 DEF after, Sparing, UntouchedOf
<1> QED
  BY <1>1, <1>2, <1>3 DEF after

\* What keeps the untouched decrees keeps the fewer that are left, and so does
\* what a command that spares them makes of it.
LEMMA KeepsFewer ==
  ASSUME NEW decrees, NEW user, NEW after, Keeps(decrees, user),
         UntouchedOf(after) \subseteq UntouchedOf(user),
         \A id \in UntouchedOf(after) : after[id] = user[id]
  PROVE  Keeps(decrees, after) /\ Sparing(user) \subseteq Sparing(after)
BY DEF Keeps, Sparing

LEMMA KeepsAfter ==
  ASSUME NEW decrees, NEW user, NEW c \in Sparing(user), Keeps(decrees, user)
  PROVE  Keeps(DecreesAfter(decrees, c), user)
<1>1. CASE c.op = "save"
  <2>1. DecreesAfter(decrees, c) = Put(decrees, c.id, c.def)
    BY <1>1 DEF DecreesAfter
  <2>2. c.id \notin UntouchedOf(user)
    BY <1>1 DEF Sparing
  <2>3. /\ DOMAIN Put(decrees, c.id, c.def) = DOMAIN decrees \cup {c.id}
        /\ \A x \in DOMAIN decrees \ {c.id} : Put(decrees, c.id, c.def)[x] = decrees[x]
    BY DEF Put
  <2> QED
    BY <2>1, <2>2, <2>3 DEF Keeps
<1>2. CASE c.op = "remove"
  <2>1. DecreesAfter(decrees, c) = Without(decrees, {c.id})
    BY <1>2 DEF DecreesAfter
  <2>2. c.id \notin UntouchedOf(user)
    BY <1>2 DEF Sparing
  <2>3. /\ DOMAIN Without(decrees, {c.id}) = DOMAIN decrees \ {c.id}
        /\ \A x \in DOMAIN decrees \ {c.id} : Without(decrees, {c.id})[x] = decrees[x]
    BY DEF Without
  <2> QED
    BY <2>1, <2>2, <2>3 DEF Keeps
<1>3. CASE c.op \notin {"save", "remove"}
  BY <1>3 DEF DecreesAfter
<1> QED
  BY <1>1, <1>2, <1>3

\* What Atlas writes is what the command makes of the ledger it loaded, or
\* the file stays as it is: there is nothing to change, or the save fails.
LEMMA HandledDecrees ==
  ASSUME ConfigTypes, AtlasHandles
  PROVE  \/ /\ disk' = disk /\ unread' = unread
            /\ \/ "save" \in Faults
               \/ handling[1].cmd.op = "rename"
               \/ /\ handling[1].cmd.op = "remove"
                  /\ handling[1].cmd.id \notin DOMAIN handling[1].ledger.decrees
         \/ /\ disk'.decrees = DecreesAfter(handling[1].ledger.decrees, handling[1].cmd)
            /\ unread' = (unread \/ ~handling[1].read)
<1> DEFINE c == handling[1].cmd
           l == handling[1].ledger
           kept == disk' = disk /\ unread' = unread
           marks == unread' = (unread \/ ~handling[1].read)
<1>1. handling # <<>>
  BY DEF AtlasHandles, SaveDecree, RemoveDecree, SaveWards, RenameDecree, Handles
<1>2. c \in Command /\ l \in Ledger
  BY <1>1, HoldingTyped DEF ConfigTypes
<1>3. l.decrees \in Maps(Ids, DecreeDef)
  BY <1>2, LedgerHolds
<1>4. CASE SaveDecree
  <2>1. /\ c.op = "save"
        /\ \/ disk' = Saved(l, c.id, c.def) /\ marks
           \/ "save" \in Faults /\ kept
    BY <1>4 DEF SaveDecree, Handles, SavesLedger
  <2>2. Saved(l, c.id, c.def).decrees = DecreesAfter(l.decrees, c)
    BY <2>1 DEF Saved, DecreesAfter
  <2> QED
    BY <2>1, <2>2
<1>5. CASE RemoveDecree
  <2>1. c.op = "remove"
    BY <1>5 DEF RemoveDecree, Handles
  <2>2. \/ kept /\ c.id \notin DOMAIN l.decrees
        \/ kept /\ "save" \in Faults
        \/ disk' = [l EXCEPT !.decrees = Without(l.decrees, {c.id})] /\ marks
    BY <1>5 DEF RemoveDecree, SavesLedger
  <2>3. Without(l.decrees, {c.id}) \in Maps(Ids, DecreeDef)
    BY <1>3, WithoutTyped
  <2>4. [l EXCEPT !.decrees = Without(l.decrees, {c.id})].decrees
          = Without(l.decrees, {c.id})
    BY <1>2, <2>3, LedgerExcept
  <2>5. DecreesAfter(l.decrees, c) = Without(l.decrees, {c.id})
    BY <2>1 DEF DecreesAfter
  <2> QED
    BY <2>1, <2>2, <2>4, <2>5
<1>6. CASE SaveWards
  <2>1. /\ c.op = "wards"
        /\ \/ disk' = [l EXCEPT !.wards = c.wards] /\ marks
           \/ "save" \in Faults /\ kept
    BY <1>6 DEF SaveWards, Handles, SavesLedger
  <2>2. c.wards \in Maps(Places, BOOLEAN)
    BY <1>2, <2>1, CommandCarries
  <2>3. [l EXCEPT !.wards = c.wards].decrees = l.decrees
    BY <1>2, <2>1, <2>2, LedgerExcept
  <2>4. DecreesAfter(l.decrees, c) = l.decrees
    BY <2>1 DEF DecreesAfter
  <2> QED
    BY <2>1, <2>3, <2>4
<1>7. CASE RenameDecree
  <2>1. c.op = "rename" /\ (kept \/ (disk' = l /\ marks))
    BY <1>7 DEF RenameDecree, Handles, SavesLedger
  <2>2. DecreesAfter(l.decrees, c) = l.decrees
    BY <2>1 DEF DecreesAfter
  <2> QED
    BY <2>1, <2>2
<1> QED
  BY <1>4, <1>5, <1>6, <1>7 DEF AtlasHandles

LEMMA KeptInit == Init => KeptInv
BY EmptySeq DEF Init, KeptInv, Keeps, UntouchedOf

LEMMA KeptNext == ConfigTypes /\ KeptInv /\ [Next]_vars => KeptInv'
<1> SUFFICES ASSUME ConfigTypes, KeptInv, [Next]_vars
             PROVE  KeptInv'
  OBVIOUS
<1>1. CASE ForgeLoads
  <2>1. PICK e \in Edits, l \in Loaded :
          editing' = <<[cmd |-> CommandOf(e), ledger |-> l.ledger, read |-> l.read]>>
    BY <1>1 DEF ForgeLoads
  <2>2. edits < MaxEdits
    BY <1>1 DEF ForgeLoads
  <2>3. CommandOf(e).op = "save" => CommandOf(e).def.body = edits + 1
    BY <2>2, EditCommand
  <2>4. edits + 1 # 0
    BY ConfigConstantsOK DEF ConfigTypes
  <2>5. /\ editing'[1].cmd = CommandOf(e)
        /\ editing'[1].read => editing'[1].ledger = disk
    BY <2>1, LoadedTyped DEF ConfigTypes
  <2>6. UNCHANGED <<intended, disk, unread, sending, forgeQ, handling>>
    BY <1>1 DEF ForgeLoads, engineVars
  <2> QED
    BY <2>3, <2>4, <2>5, <2>6 DEF KeptInv
<1>2. CASE ForgeSaves
  <2> DEFINE c == editing[1].cmd
             l == editing[1].ledger
  <2>1. /\ c \in Command
        /\ \/ disk' = disk /\ unread' = unread
           \/ /\ disk'.decrees = DecreesAfter(l.decrees, c)
              /\ unread' = (unread \/ ~editing[1].read)
        /\ intended' = DecreesAfter(intended, c)
        /\ sending' = Append(sending, c)
    BY <1>2, ForgeSaved
  <2>2. /\ ~unread /\ editing[1].read => Keeps(l.decrees, intended)
        /\ c.op = "save" => c.def.body # 0
    BY <1>2 DEF ForgeSaves, KeptInv
  <2>3. /\ UntouchedOf(intended') \subseteq UntouchedOf(intended)
        /\ \A id \in UntouchedOf(intended') : intended'[id] = intended[id]
        /\ c \in Sparing(intended')
    BY <2>1, <2>2, CommandTouches
  <2>4. /\ \A d : Keeps(d, intended) => Keeps(d, intended')
        /\ Sparing(intended) \subseteq Sparing(intended')
    BY <2>3, KeepsFewer DEF Keeps, Sparing
  <2>5. ~unread' => Keeps(disk'.decrees, intended')
    <3>1. CASE disk' = disk /\ unread' = unread
      BY <2>4, <3>1 DEF KeptInv
    <3>2. CASE /\ disk'.decrees = DecreesAfter(l.decrees, c)
               /\ unread' = (unread \/ ~editing[1].read)
      <4> SUFFICES ASSUME ~unread' PROVE Keeps(disk'.decrees, intended')
        OBVIOUS
      <4>1. Keeps(l.decrees, intended')
        BY <2>2, <2>4, <3>2
      <4> QED
        BY <2>3, <3>2, <4>1, KeepsAfter
    <3> QED
      BY <2>1, <3>1, <3>2
  <2>6. sending' \in Seq(Sparing(intended')) /\ forgeQ \in Seq(Sparing(intended'))
    <3>1. /\ sending \in Seq(Sparing(intended'))
          /\ forgeQ \in Seq(Sparing(intended'))
      BY <2>4, SeqMonotonic DEF KeptInv
    <3> QED
      BY <2>1, <2>3, <3>1, AppendProperties
  <2>7. handling # <<>> => /\ ~unread' /\ handling[1].read =>
                                Keeps(handling[1].ledger.decrees, intended')
                           /\ handling[1].cmd \in Sparing(intended')
    <3>1. ~unread' => ~unread
      BY <2>1
    <3> QED
      BY <2>4, <3>1 DEF KeptInv
  <2>8. UNCHANGED <<forgeQ, handling>> /\ editing' = <<>>
    BY <1>2 DEF ForgeSaves, engineVars
  <2> QED
    BY <2>5, <2>6, <2>7, <2>8 DEF KeptInv
<1>3. CASE ForgeSends
  <2>1. PICK c \in Command : /\ c.op = "save" => c.def.body = edits + 1
                             /\ intended' = DecreesAfter(intended, c)
                             /\ sending' = Append(sending, c)
    BY <1>3, ForgeSent
  <2>2. c.op = "save" => c.def.body # 0
    <3>1. edits + 1 # 0
      BY ConfigConstantsOK DEF ConfigTypes
    <3> QED
      BY <2>1, <3>1
  <2>3. /\ UntouchedOf(intended') \subseteq UntouchedOf(intended)
        /\ \A id \in UntouchedOf(intended') : intended'[id] = intended[id]
        /\ c \in Sparing(intended')
    BY <2>1, <2>2, CommandTouches
  <2>4. /\ ~unread => Keeps(disk.decrees, intended')
        /\ Sparing(intended) \subseteq Sparing(intended')
    BY <2>3 DEF KeptInv, Keeps, Sparing
  <2>5. sending' \in Seq(Sparing(intended')) /\ forgeQ \in Seq(Sparing(intended'))
    <3>1. /\ sending \in Seq(Sparing(intended'))
          /\ forgeQ \in Seq(Sparing(intended'))
      BY <2>4, SeqMonotonic DEF KeptInv
    <3> QED
      BY <2>1, <2>3, <3>1, AppendProperties
  <2>6. handling # <<>> => /\ ~unread /\ handling[1].read =>
                                Keeps(handling[1].ledger.decrees, intended')
                           /\ handling[1].cmd \in Sparing(intended')
    <3>1. \A d : Keeps(d, intended) => Keeps(d, intended')
      BY <2>3 DEF Keeps
    <3> QED
      BY <2>4, <3>1 DEF KeptInv
  <2>7. UNCHANGED <<disk, unread, forgeQ, handling, editing>> /\ editing = <<>>
    BY <1>3 DEF ForgeSends, engineVars
  <2> QED
    BY <2>4, <2>5, <2>6, <2>7 DEF KeptInv
<1>4. CASE CommandDelivered
  <2>1. PICK i \in DOMAIN sending :
          forgeQ' = Append(forgeQ, sending[i]) /\ sending' = RemoveAt(sending, i)
    BY <1>4 DEF CommandDelivered
  <2>2. sending[i] \in Sparing(intended)
    BY <2>1, LenProperties, ElementOfSeq DEF KeptInv
  <2>3. forgeQ' \in Seq(Sparing(intended)) /\ sending' \in Seq(Sparing(intended))
    BY <2>1, <2>2, AppendProperties, RemoveAtTyped DEF KeptInv
  <2>4. UNCHANGED <<disk, unread, intended, editing, handling>>
    BY <1>4 DEF CommandDelivered, engineVars
  <2> QED
    BY <2>3, <2>4 DEF KeptInv
<1>5. CASE CommandLost
  <2>1. sending' \in Seq(Sparing(intended))
    BY <1>5, RemoveAtTyped DEF CommandLost, KeptInv
  <2>2. UNCHANGED <<disk, unread, intended, editing, handling, forgeQ>>
    BY <1>5 DEF CommandLost, engineVars
  <2> QED
    BY <2>1, <2>2 DEF KeptInv
<1>6. CASE AtlasLoads
  <2>1. /\ Head(forgeQ) \in Sparing(intended)
        /\ Tail(forgeQ) \in Seq(Sparing(intended))
    BY <1>6, HeadTailProperties DEF AtlasLoads, KeptInv
  <2>2. PICK l \in Loaded :
          handling' = <<[cmd |-> Head(forgeQ), ledger |-> l.ledger, read |-> l.read]>>
    BY <1>6 DEF AtlasLoads
  <2>3. /\ handling'[1].cmd = Head(forgeQ)
        /\ handling'[1].read => handling'[1].ledger = disk
    BY <2>2, LoadedTyped DEF ConfigTypes
  <2>4. /\ forgeQ' = Tail(forgeQ)
        /\ UNCHANGED <<disk, unread, intended, editing, sending>>
    BY <1>6 DEF AtlasLoads, userVars
  <2> QED
    BY <2>1, <2>3, <2>4 DEF KeptInv
<1>7. CASE AtlasHandles
  <2>1. handling # <<>> /\ handling' = <<>> /\ UNCHANGED <<forgeQ, userVars>>
    BY <1>7 DEF AtlasHandles, SaveDecree, RemoveDecree, SaveWards, RenameDecree, Handles
  <2>2. \/ disk' = disk /\ unread' = unread
        \/ /\ disk'.decrees = DecreesAfter(handling[1].ledger.decrees, handling[1].cmd)
           /\ unread' = (unread \/ ~handling[1].read)
    BY <1>7, HandledDecrees
  <2>3. ~unread' => Keeps(disk'.decrees, intended)
    <3>1. handling[1].cmd \in Sparing(intended)
      BY <2>1 DEF KeptInv
    <3>2. CASE disk' = disk /\ unread' = unread
      BY <3>2 DEF KeptInv
    <3>3. CASE /\ disk'.decrees
                    = DecreesAfter(handling[1].ledger.decrees, handling[1].cmd)
               /\ unread' = (unread \/ ~handling[1].read)
      <4> SUFFICES ASSUME ~unread' PROVE Keeps(disk'.decrees, intended)
        OBVIOUS
      <4>1. Keeps(handling[1].ledger.decrees, intended)
        BY <2>1, <3>3 DEF KeptInv
      <4> QED
        BY <3>1, <3>3, <4>1, KeepsAfter
    <3> QED
      BY <2>2, <3>2, <3>3
  <2>4. ~unread' => ~unread
    BY <2>2
  <2> QED
    BY <2>1, <2>3, <2>4 DEF KeptInv, userVars
<1>8. CASE AppStops
  BY <1>8, EmptySeq DEF AppStops, KeptInv, userVars
<1>9. CASE AppStarts
  BY <1>9 DEF AppStarts, KeptInv, userVars
<1>10. CASE UNCHANGED vars
  BY <1>10 DEF vars, engineVars, userVars, KeptInv
<1> QED
  BY <1>1, <1>2, <1>3, <1>4, <1>5, <1>6, <1>7, <1>8, <1>9, <1>10
  DEF Next, ForgeSteps, Rest

(***************************************************************************)
(* Until a process saves a ledger it could not read, no save of the Forge  *)
(* or of Atlas costs a decree the user did not touch, though each may      *)
(* overwrite the file with a ledger it loaded before the other saved; for  *)
(* any failed calls, any ways of the commands and any stops of the engine. *)
(***************************************************************************)
THEOREM UntouchedKeptHolds == Spec => []UntouchedKept
<1>1. KeptInv => UntouchedKept
  BY DEF KeptInv, UntouchedKept, Keeps, UntouchedOf
<1> QED
  BY <1>1, TypesHold, KeptInit, KeptNext, PTL DEF Spec

-----------------------------------------------------------------------------
(* Commands in order: none is lost or overtaken, and the engine stays up *)

InOrder == Network = {} /\ MaxStops = 0
Readable == "load" \notin Faults
Writable == "save" \notin Faults

InHand == IF handling = <<>> THEN <<>> ELSE <<handling[1].cmd>>

\* What Atlas has still to handle, the oldest first.
Pending == (InHand \o forgeQ) \o sending

StaysUp == appUp /\ stops = 0

\* A process loads the file, if it can.
LEMMA ReadableLoads ==
  ASSUME Readable, NEW l \in Loaded
  PROVE  l.ledger = disk
BY DEF Readable, Loaded

LEMMA StaysUpHolds ==
  ASSUME InOrder
  PROVE  Spec => []StaysUp
<1>1. Init => StaysUp
  BY DEF Init, StaysUp
<1>2. StaysUp /\ [Next]_vars => StaysUp'
  <2> SUFFICES ASSUME StaysUp, [Next]_vars
               PROVE  StaysUp'
    OBVIOUS
  <2>1. CASE UNCHANGED <<appUp, stops>>
    BY <2>1 DEF StaysUp
  <2>2. ~AppStops
    <3>1. ~(0 < 0)
      OBVIOUS
    <3> QED
      BY <3>1 DEF AppStops, StaysUp, InOrder
  <2>3. ~AppStarts
    BY DEF AppStarts, StaysUp
  <2> QED
    BY <2>1, <2>2, <2>3
    DEF Next, ForgeSteps, ForgeLoads, ForgeSaves, ForgeSends, CommandDelivered,
        CommandLost, AtlasLoads, AtlasHandles, SaveDecree, RemoveDecree, SaveWards,
        RenameDecree, Handles, Rest, vars
<1> QED
  BY <1>1, <1>2, PTL DEF Spec

LEMMA PendingTyped ==
  ASSUME ConfigTypes
  PROVE  InHand \in Seq(Command) /\ InHand \o forgeQ \in Seq(Command) /\ Pending \in Seq(Command)
<1>1. InHand \in Seq(Command)
  <2>1. CASE handling = <<>>
    BY <2>1, EmptySeq DEF InHand
  <2>2. CASE handling # <<>>
    <3>1. handling[1].cmd \in Command
      BY <2>2, HoldingTyped DEF ConfigTypes
    <3> QED
      BY <2>2, <3>1 DEF InHand
  <2> QED
    BY <2>1, <2>2
<1>2. InHand \o forgeQ \in Seq(Command)
  BY <1>1, ConcatProperties DEF ConfigTypes
<1> QED
  BY <1>1, <1>2, ConcatProperties DEF Pending, ConfigTypes

\* The first of one queue becomes the last of the one before it.
LEMMA FirstMoves ==
  ASSUME NEW X, NEW s \in Seq(X), NEW t \in Seq(X), t # <<>>
  PROVE  Append(s, Head(t)) \o Tail(t) = s \o t
<1>1. Head(t) \in X /\ Tail(t) \in Seq(X) /\ <<Head(t)>> \in Seq(X)
  BY HeadTailProperties
<1>2. Append(s, Head(t)) = s \o <<Head(t)>>
  BY <1>1, AppendIsConcat
<1>3. (s \o <<Head(t)>>) \o Tail(t) = s \o (<<Head(t)>> \o Tail(t))
  BY <1>1, ConcatAssociative
<1>4. <<Head(t)>> \o Tail(t) = t
  BY <1>1, HeadTailProperties
<1> QED
  BY <1>2, <1>3, <1>4

\* An edit's command waits behind all others.
LEMMA PendingGrows ==
  ASSUME ConfigTypes, NEW c \in Command, sending' = Append(sending, c),
         UNCHANGED <<forgeQ, handling>>
  PROVE  Pending' = Append(Pending, c)
<1>1. InHand \o forgeQ \in Seq(Command) /\ sending \in Seq(Command) /\ <<c>> \in Seq(Command)
  BY PendingTyped DEF ConfigTypes
<1>2. Pending' = (InHand \o forgeQ) \o Append(sending, c)
  BY DEF Pending, InHand
<1>3. Append(sending, c) = sending \o <<c>>
  BY <1>1, AppendIsConcat
<1>4. (InHand \o forgeQ) \o (sending \o <<c>>) = ((InHand \o forgeQ) \o sending) \o <<c>>
  BY <1>1, ConcatAssociative
<1>5. Append(Pending, c) = Pending \o <<c>>
  BY PendingTyped, AppendIsConcat
<1> QED
  BY <1>2, <1>3, <1>4, <1>5 DEF Pending

\* On its way a command stays behind those before it.
LEMMA PendingMoves ==
  ASSUME ConfigTypes, InOrder, CommandDelivered \/ AtlasLoads
  PROVE  Pending' = Pending
<1>1. InHand \in Seq(Command) /\ forgeQ \in Seq(Command) /\ sending \in Seq(Command)
  BY PendingTyped DEF ConfigTypes
<1>2. CASE CommandDelivered
  <2>1. /\ sending # <<>> /\ forgeQ' = Append(forgeQ, sending[1])
        /\ sending' = RemoveAt(sending, 1)
    <3>1. PICK i \in DOMAIN sending :
            MayMove(i) /\ forgeQ' = Append(forgeQ, sending[i]) /\ sending' = RemoveAt(sending, i)
      BY <1>2 DEF CommandDelivered
    <3>2. i = 1
      BY <3>1 DEF MayMove, InOrder
    <3>3. sending # <<>>
      BY <3>1
    <3> QED
      BY <3>1, <3>2, <3>3
  <2>2. sending[1] = Head(sending) /\ Head(sending) \in Command /\ Tail(sending) \in Seq(Command)
    BY <1>1, <2>1, HeadTailProperties
  <2>3. sending' = Tail(sending)
    BY <1>1, <2>1, RemoveAtFirst
  <2>4. InHand' = InHand
    BY <1>2 DEF CommandDelivered, engineVars, InHand
  <2>5. Append(InHand \o forgeQ, Head(sending)) \o Tail(sending) = (InHand \o forgeQ) \o sending
    BY <2>1, PendingTyped, FirstMoves DEF ConfigTypes
  <2>6. Append(InHand \o forgeQ, Head(sending)) = InHand \o Append(forgeQ, Head(sending))
    <3>1. <<Head(sending)>> \in Seq(Command)
      BY <2>2
    <3>2. Append(forgeQ, Head(sending)) = forgeQ \o <<Head(sending)>>
      BY <1>1, <2>2, AppendIsConcat
    <3>3. Append(InHand \o forgeQ, Head(sending)) = (InHand \o forgeQ) \o <<Head(sending)>>
      BY <2>2, PendingTyped, AppendIsConcat
    <3>4. (InHand \o forgeQ) \o <<Head(sending)>> = InHand \o (forgeQ \o <<Head(sending)>>)
      BY <1>1, <3>1, ConcatAssociative
    <3> QED
      BY <3>2, <3>3, <3>4
  <2> QED
    BY <2>1, <2>2, <2>3, <2>4, <2>5, <2>6 DEF Pending
<1>3. CASE AtlasLoads
  <2>1. /\ handling = <<>> /\ forgeQ # <<>> /\ forgeQ' = Tail(forgeQ) /\ sending' = sending
        /\ \E l \in Loaded :
             handling' = <<[cmd |-> Head(forgeQ), ledger |-> l.ledger, read |-> l.read]>>
    BY <1>3 DEF AtlasLoads, userVars
  <2>2. InHand = <<>> /\ InHand' = <<Head(forgeQ)>>
    BY <2>1 DEF InHand
  <2>3. Head(forgeQ) \in Command /\ Tail(forgeQ) \in Seq(Command)
    BY <1>1, <2>1, HeadTailProperties
  <2>4. <<Head(forgeQ)>> \o Tail(forgeQ) = forgeQ /\ <<>> \o forgeQ = forgeQ
    BY <1>1, <2>1, <2>3, HeadTailProperties, ConcatEmptySeq
  <2> QED
    BY <2>1, <2>2, <2>4 DEF Pending
<1> QED
  BY <1>2, <1>3

\* Atlas has the oldest in hand, and drops it when it is done.
LEMMA PendingShrinks ==
  ASSUME ConfigTypes, AtlasHandles
  PROVE  /\ Pending # <<>> /\ Head(Pending) = handling[1].cmd
         /\ Pending' = Tail(Pending)
         /\ Pending' = forgeQ \o sending
<1>1. handling # <<>> /\ handling' = <<>> /\ UNCHANGED <<forgeQ, sending>>
  BY DEF AtlasHandles, SaveDecree, RemoveDecree, SaveWards, RenameDecree, Handles, userVars
<1> DEFINE c == handling[1].cmd
<1>2. InHand = <<c>> /\ InHand' = <<>>
  BY <1>1 DEF InHand
<1>3. c \in Command /\ forgeQ \in Seq(Command) /\ sending \in Seq(Command)
  BY <1>1, HoldingTyped DEF ConfigTypes
<1>4. forgeQ \o sending \in Seq(Command) /\ <<c>> \in Seq(Command)
  BY <1>3, ConcatProperties
<1>5. Pending = <<c>> \o (forgeQ \o sending)
  BY <1>2, <1>3, <1>4, ConcatAssociative DEF Pending
<1>6. Pending' = forgeQ \o sending
  BY <1>1, <1>2, <1>3, ConcatEmptySeq DEF Pending
<1>7. \A q \in Seq(Command) : /\ <<c>> \o q # <<>> /\ Head(<<c>> \o q) = c
                              /\ Tail(<<c>> \o q) = q
  BY <1>3
<1> QED
  BY <1>4, <1>5, <1>6, <1>7

-----------------------------------------------------------------------------
(* The last edit *)

\* A command that saves or removes the decree id.
Concerns(c, id) == c.op \in {"save", "remove"} /\ c.id = id

\* It makes of the decree what the user has made of it.
Makes(c, id) ==
  /\ Concerns(c, id)
  /\ id \in DOMAIN intended <=> c.op = "save"
  /\ c.op = "save" => intended[id] = c.def

\* The decree is in a ledger as the user wants it.
AsIntended(decrees, id) ==
  /\ id \in DOMAIN decrees <=> id \in DOMAIN intended
  /\ id \in DOMAIN intended => decrees[id] = intended[id]

(***************************************************************************)
(* LastEditKept is inductive with this: the command that makes the last    *)
(* edit is the last of those that wait, and until it is handled nobody     *)
(* else saves, so that the ledger it is applied to is the file.            *)
(***************************************************************************)
LastInv ==
  /\ \A id \in lastEdit :
       IF Pending = <<>> THEN AsIntended(disk.decrees, id)
                         ELSE Makes(Pending[Len(Pending)], id)
  /\ handling # <<>> /\ forgeQ = <<>> /\ sending = <<>> => handling[1].ledger = disk

LEMMA MadeAsIntended ==
  ASSUME NEW c, NEW id, NEW decrees, Makes(c, id)
  PROVE  AsIntended(DecreesAfter(decrees, c), id)
<1>1. CASE c.op = "save"
  <2>1. DecreesAfter(decrees, c) = Put(decrees, id, c.def)
    BY <1>1 DEF DecreesAfter, Makes, Concerns
  <2>2. id \in DOMAIN intended /\ intended[id] = c.def
    BY <1>1 DEF Makes
  <2> QED
    BY <2>1, <2>2 DEF AsIntended, Put
<1>2. CASE c.op = "remove"
  <2>1. DecreesAfter(decrees, c) = Without(decrees, {id})
    BY <1>2 DEF DecreesAfter, Makes, Concerns
  <2>2. id \notin DOMAIN intended
    BY <1>2 DEF Makes
  <2> QED
    BY <2>1, <2>2 DEF AsIntended, Without
<1> QED
  BY <1>1, <1>2 DEF Makes, Concerns

\* The command of an edit makes what it edits.
LEMMA EditMakes ==
  ASSUME NEW c \in Command, intended' = DecreesAfter(intended, c),
         c.op \in {"save", "remove"}
  PROVE  Makes(c, c.id)'
<1>1. CASE c.op = "save"
  <2>1. intended' = Put(intended, c.id, c.def)
    BY <1>1 DEF DecreesAfter
  <2>2. c.id \in DOMAIN intended' /\ intended'[c.id] = c.def
    BY <2>1 DEF Put
  <2> QED
    BY <1>1, <2>2 DEF Makes, Concerns
<1>2. CASE c.op = "remove"
  <2>1. intended' = Without(intended, {c.id})
    BY <1>2 DEF DecreesAfter
  <2>2. c.id \notin DOMAIN intended'
    BY <2>1 DEF Without
  <2> QED
    BY <1>2, <2>2 DEF Makes, Concerns
<1> QED
  BY <1>1, <1>2

LEMMA LastInit == Init => LastInv
BY DEF Init, LastInv

\* An edit's command is the last that waits.
LEMMA LastGrows ==
  ASSUME ConfigTypes, NEW c \in Command, sending' = Append(sending, c),
         intended' = DecreesAfter(intended, c),
         lastEdit' = IF c.op \in {"save", "remove"} THEN {c.id} ELSE {},
         UNCHANGED <<forgeQ, handling>>
  PROVE  LastInv'
<1>1. Pending' = Append(Pending, c) /\ Pending \in Seq(Command)
  BY PendingGrows, PendingTyped
<1>2. Pending' # <<>> /\ Pending'[Len(Pending')] = c
  BY <1>1, AppendProperties
<1>3. sending' # <<>>
  BY AppendProperties DEF ConfigTypes
<1>4. ASSUME NEW id \in lastEdit'
      PROVE  Makes(Pending[Len(Pending)], id)'
  <2>1. c.op \in {"save", "remove"} /\ id = c.id
    BY <1>4
  <2>2. Makes(c, c.id)'
    BY <2>1, EditMakes
  <2> QED
    BY <1>2, <2>1, <2>2 DEF Makes
<1> QED
  BY <1>2, <1>3, <1>4 DEF LastInv

LEMMA LastNext ==
  ASSUME InOrder, Readable, Writable, ConfigTypes, StaysUp, LastInv, [Next]_vars
  PROVE  LastInv'
<1>1. CASE ForgeLoads
  BY <1>1 DEF ForgeLoads, engineVars, LastInv, Pending, InHand, Makes, AsIntended
<1>2. CASE ForgeSaves
  <2> DEFINE c == editing[1].cmd
  <2>1. /\ c \in Command /\ intended' = DecreesAfter(intended, c)
        /\ sending' = Append(sending, c)
    BY <1>2, ForgeSaved
  <2>2. /\ lastEdit' = IF c.op \in {"save", "remove"} THEN {c.id} ELSE {}
        /\ UNCHANGED <<forgeQ, handling>>
    BY <1>2 DEF ForgeSaves, Intend, engineVars
  <2> QED
    BY <2>1, <2>2, LastGrows
<1>3. CASE ForgeSends
  <2>1. PICK c \in Command :
          /\ intended' = DecreesAfter(intended, c)
          /\ lastEdit' = IF c.op \in {"save", "remove"} THEN {c.id} ELSE {}
          /\ sending' = Append(sending, c)
    BY <1>3, ForgeSent
  <2>2. UNCHANGED <<forgeQ, handling>>
    BY <1>3 DEF ForgeSends, engineVars
  <2> QED
    BY <2>1, <2>2, LastGrows
<1>4. CASE CommandDelivered
  <2>1. Pending' = Pending
    BY <1>4, PendingMoves
  <2>2. forgeQ' # <<>>
    <3>1. PICK i \in DOMAIN sending : forgeQ' = Append(forgeQ, sending[i])
      BY <1>4 DEF CommandDelivered
    <3>2. sending[i] \in Command
      BY <3>1, LenProperties, ElementOfSeq DEF ConfigTypes
    <3> QED
      BY <3>1, <3>2, AppendProperties DEF ConfigTypes
  <2>3. UNCHANGED <<disk, intended, lastEdit>>
    BY <1>4 DEF CommandDelivered
  <2> QED
    BY <2>1, <2>2, <2>3 DEF LastInv, Makes, AsIntended
<1>5. ~CommandLost
  BY DEF CommandLost, InOrder, StaysUp
<1>6. CASE AtlasLoads
  <2>1. Pending' = Pending
    BY <1>6, PendingMoves
  <2>2. handling'[1].ledger = disk /\ UNCHANGED <<disk, intended, lastEdit>>
    BY <1>6, ReadableLoads DEF AtlasLoads, userVars
  <2> QED
    BY <2>1, <2>2 DEF LastInv, Makes, AsIntended
<1>7. CASE AtlasHandles
  <2> DEFINE c == handling[1].cmd
             l == handling[1].ledger
  <2>1. /\ Pending \in Seq(Command) /\ Pending # <<>> /\ Head(Pending) = c
        /\ Pending' = Tail(Pending) /\ Pending' = forgeQ \o sending
    BY <1>7, PendingShrinks, PendingTyped
  <2>2. handling # <<>> /\ handling' = <<>> /\ UNCHANGED <<intended, lastEdit>>
    BY <1>7 DEF AtlasHandles, SaveDecree, RemoveDecree, SaveWards, RenameDecree,
                Handles, userVars
  <2>3. SUFFICES ASSUME NEW id \in lastEdit
                 PROVE  IF Pending' = <<>> THEN AsIntended(disk'.decrees, id)
                                           ELSE Makes(Pending'[Len(Pending')], id)
    BY <2>2 DEF LastInv, Makes, AsIntended
  <2>4. Makes(Pending[Len(Pending)], id)
    BY <2>1 DEF LastInv
  <2>5. CASE Pending' # <<>>
    <3>1. Pending'[Len(Pending')] = Pending[Len(Pending)]
      <4>1. /\ Len(Tail(Pending)) = Len(Pending) - 1 /\ Len(Pending) \in Nat
            /\ Tail(Pending) \in Seq(Command)
            /\ \A i \in 1 .. Len(Tail(Pending)) : Tail(Pending)[i] = Pending[i + 1]
        BY <2>1, HeadTailProperties, LenProperties
      <4>2. Len(Tail(Pending)) \in 1 .. Len(Tail(Pending))
        BY <2>1, <2>5, <4>1, EmptySeq
      <4>3. Len(Tail(Pending)) + 1 = Len(Pending)
        BY <4>1
      <4> QED
        BY <2>1, <4>1, <4>2, <4>3
    <3> QED
      BY <2>4, <2>5, <3>1
  <2>6. CASE Pending' = <<>>
    <3>1. forgeQ = <<>> /\ sending = <<>>
      <4>1. forgeQ \in Seq(Command) /\ sending \in Seq(Command)
        BY DEF ConfigTypes
      <4>2. forgeQ \o sending = <<>>
        BY <2>1, <2>6
      <4> QED
        BY <4>1, <4>2, ConcatEqualIffEmpty
    <3>2. l = disk
      BY <2>2, <3>1 DEF LastInv
    <3>3. Makes(c, id)
      <4>1. Len(Tail(Pending)) = Len(Pending) - 1 /\ Len(Pending) \in Nat
        BY <2>1, HeadTailProperties, LenProperties
      <4>2. Len(Tail(Pending)) = 0
        BY <2>1, <2>6, EmptySeq
      <4>3. Len(Pending) = 1 /\ Head(Pending) = Pending[1]
        BY <4>1, <4>2
      <4> QED
        BY <2>1, <2>4, <4>3
    <3>4. CASE disk'.decrees = DecreesAfter(l.decrees, c)
      BY <2>6, <3>3, <3>4, MadeAsIntended
    <3>5. CASE disk' = disk /\ c.op = "remove" /\ c.id \notin DOMAIN l.decrees
      <4>1. id \notin DOMAIN intended /\ id \notin DOMAIN disk'.decrees
        BY <3>2, <3>3, <3>5 DEF Makes, Concerns
      <4> QED
        BY <2>6, <4>1 DEF AsIntended
    <3>6. c.op # "rename"
      BY <3>3 DEF Makes, Concerns
    <3> QED
      BY <1>7, <3>4, <3>5, <3>6, HandledDecrees DEF Writable
  <2> QED
    BY <2>5, <2>6
<1>8. ~AppStops
  <2>1. ~(0 < 0)
    OBVIOUS
  <2> QED
    BY <2>1 DEF AppStops, StaysUp, InOrder
<1>9. ~AppStarts
  BY DEF AppStarts, StaysUp
<1>10. CASE UNCHANGED vars
  BY <1>10 DEF vars, engineVars, userVars, LastInv, Pending, InHand, Makes, AsIntended
<1> QED
  BY <1>1, <1>2, <1>3, <1>4, <1>5, <1>6, <1>7, <1>8, <1>9, <1>10
  DEF Next, ForgeSteps, Rest

(***************************************************************************)
(* Once all is quiet the file holds the last edit, if it can be read and   *)
(* written, the commands arrive as they are sent and the engine stays up:  *)
(* whatever the two processes overwrote for each other, the last command   *)
(* is applied to what is there.                                            *)
(***************************************************************************)
THEOREM LastEditKeptHolds ==
  ASSUME InOrder, Readable, Writable
  PROVE  Spec => []LastEditKept
<1>1. LastInv => LastEditKept
  <2>1. Quiet => Pending = <<>>
    <3>1. <<>> \in Seq({}) /\ (<<>> \o <<>>) \o <<>> = <<>>
      BY EmptySeq, ConcatEmptySeq
    <3> QED
      BY <3>1 DEF Quiet, Pending, InHand
  <2> QED
    BY <2>1 DEF LastInv, LastEditKept, AsIntended
<1>2. ConfigTypes /\ StaysUp /\ LastInv /\ [Next]_vars => LastInv'
  BY LastNext
<1> QED
  BY <1>1, <1>2, LastInit, StaysUpHolds, TypesHold, PTL DEF Spec

-----------------------------------------------------------------------------
(* The registry *)

\* Each decree has summons of its own, and no two decrees one with one key.
Apart(own) ==
  \A i, j \in Ids : i # j =>
    \A d \in own[i], e \in own[j] : RegistryKey(d) # RegistryKey(e)

Owned(own, decrees) == \A id \in DOMAIN decrees : decrees[id].summons \in own[id]

\* So it is in the files the engine may find, which lack no ward, and with
\* what the user saves.
KeysApart(own) ==
  /\ Apart(own)
  /\ \A l \in Boot : Owned(own, l.decrees) /\ DOMAIN l.decrees \subseteq Registrable(l)
  /\ \A e \in Edits : e.op \in {"save", "simulate"} => e.summons \in own[e.id]

OwnCommands(own) == {c \in Command : c.op = "save" => c.def.summons \in own[c.id]}

Registered(id) ==
  LET k == RegistryKey(intended[id].summons)
  IN k \in DOMAIN registry /\ registry[k] = intended[id].body

\* Of the commands of p about something (those in about) the last is a right
\* one, or there is none and the matter is settled.
Answers(p, about, right, settled) ==
  \/ \E i \in 1 .. Len(p) : /\ p[i] \in right
                            /\ \A j \in 1 .. Len(p) : j > i => p[j] \notin about
  \/ settled /\ \A i \in 1 .. Len(p) : p[i] \notin about

About(id) == {c \in Command : Concerns(c, id)}
Right(id) == {c \in Command : Makes(c, id)}

(***************************************************************************)
(* SavedIsRegistered is inductive with this: of every decree the user has, *)
(* the last command that waits is the one that registers it as intended,   *)
(* or none waits and it is registered; and every command and every ledger  *)
(* that is loaded keeps to the keys of its decrees, so that no other       *)
(* decree's command touches its entry.                                     *)
(***************************************************************************)
RegistryInv(own) ==
  /\ \A id \in DOMAIN intended : Answers(Pending, About(id), Right(id), Registered(id))
  /\ Pending \in Seq(OwnCommands(own))
  /\ Owned(own, disk.decrees) /\ Owned(own, intended)
  /\ editing # <<>> => /\ editing[1].cmd \in OwnCommands(own)
                       /\ Owned(own, editing[1].ledger.decrees)
  /\ handling # <<>> => Owned(own, handling[1].ledger.decrees)

\* One more command.
LEMMA AnswersAppend ==
  ASSUME NEW X, NEW p \in Seq(X), NEW c \in X, NEW about, NEW right, NEW b \in BOOLEAN,
         \/ c \in right
         \/ c \notin about /\ Answers(p, about, right, b)
  PROVE  Answers(Append(p, c), about, right, b)
<1> DEFINE q == Append(p, c)
<1>1. /\ Len(p) \in Nat /\ Len(q) = Len(p) + 1 /\ q[Len(p) + 1] = c
      /\ \A i \in 1 .. Len(p) : q[i] = p[i]
  BY AppendProperties, LenProperties
<1> HIDE DEF q
<1>2. \A i \in 1 .. Len(q) : i \in 1 .. Len(p) \/ i = Len(p) + 1
  BY <1>1
<1>3. \A i \in 1 .. Len(p) : i \in 1 .. Len(q)
  BY <1>1
<1>4. CASE c \in right
  <2>1. Len(p) + 1 \in 1 .. Len(q) /\ \A j \in 1 .. Len(q) : ~(j > Len(p) + 1)
    BY <1>1
  <2> QED
    BY <1>1, <1>4, <2>1 DEF Answers, q
<1>5. CASE c \notin about /\ Answers(p, about, right, b)
  <2>1. CASE \E i \in 1 .. Len(p) : /\ p[i] \in right
                                    /\ \A j \in 1 .. Len(p) : j > i => p[j] \notin about
    <3>1. PICK i \in 1 .. Len(p) : /\ p[i] \in right
                                   /\ \A j \in 1 .. Len(p) : j > i => p[j] \notin about
      BY <2>1
    <3>2. i \in 1 .. Len(q) /\ q[i] \in right
      BY <1>1, <1>3, <3>1
    <3>3. \A j \in 1 .. Len(q) : j > i => q[j] \notin about
      BY <1>1, <1>2, <1>5, <3>1
    <3> QED
      BY <3>2, <3>3 DEF Answers, q
  <2>2. CASE b /\ \A i \in 1 .. Len(p) : p[i] \notin about
    <3>1. \A j \in 1 .. Len(q) : q[j] \notin about
      BY <1>1, <1>2, <1>5, <2>2
    <3> QED
      BY <2>2, <3>1 DEF Answers, q
  <2> QED
    BY <1>5, <2>1, <2>2 DEF Answers
<1> QED
  BY <1>4, <1>5

\* The first one handled: if the answer was the first, the matter is settled.
LEMMA AnswersTail ==
  ASSUME NEW X, NEW p \in Seq(X), p # <<>>, NEW about, NEW right,
         NEW a \in BOOLEAN, NEW b \in BOOLEAN, Answers(p, about, right, a),
         Head(p) \in right => b, Head(p) \notin about /\ a => b
  PROVE  Answers(Tail(p), about, right, b)
<1> DEFINE q == Tail(p)
<1>1. /\ Len(p) \in Nat \ {0} /\ Len(q) = Len(p) - 1 /\ Head(p) = p[1]
      /\ \A i \in 1 .. Len(q) : q[i] = p[i + 1]
  BY HeadTailProperties, EmptySeq
<1> HIDE DEF q
<1>2. \A i \in 1 .. Len(q) : i + 1 \in 1 .. Len(p)
  BY <1>1
<1>3. CASE \E i \in 1 .. Len(p) : /\ p[i] \in right
                                  /\ \A j \in 1 .. Len(p) : j > i => p[j] \notin about
  <2>1. PICK i \in 1 .. Len(p) : /\ p[i] \in right
                                 /\ \A j \in 1 .. Len(p) : j > i => p[j] \notin about
    BY <1>3
  <2>2. \A j \in 1 .. Len(q) : j + 1 > i => q[j] \notin about
    BY <1>1, <1>2, <2>1
  <2>3. CASE i = 1
    <3>1. \A j \in 1 .. Len(q) : j + 1 > i
      BY <1>1, <2>3
    <3>2. b
      BY <1>1, <2>1, <2>3
    <3> QED
      BY <2>2, <3>1, <3>2 DEF Answers, q
  <2>4. CASE i # 1
    <3>1. i - 1 \in 1 .. Len(q) /\ (i - 1) + 1 = i
      BY <1>1, <2>4
    <3>2. q[i - 1] \in right
      BY <1>1, <2>1, <3>1
    <3>3. \A j \in 1 .. Len(q) : j > i - 1 => j + 1 > i
      BY <1>1
    <3> QED
      BY <2>2, <3>1, <3>2, <3>3 DEF Answers, q
  <2> QED
    BY <2>3, <2>4
<1>4. CASE a /\ \A i \in 1 .. Len(p) : p[i] \notin about
  <2>1. 1 \in 1 .. Len(p)
    BY <1>1
  <2>2. b
    BY <1>1, <1>4, <2>1
  <2>3. \A j \in 1 .. Len(q) : q[j] \notin about
    BY <1>1, <1>2, <1>4
  <2> QED
    BY <2>2, <2>3 DEF Answers, q
<1> QED
  BY <1>3, <1>4 DEF Answers

\* A command that keeps to its keys leaves decrees that do.
LEMMA OwnedAfter ==
  ASSUME NEW own, NEW decrees, Owned(own, decrees), NEW c \in OwnCommands(own)
  PROVE  Owned(own, DecreesAfter(decrees, c))
<1>1. CASE c.op = "save"
  <2>1. DecreesAfter(decrees, c) = Put(decrees, c.id, c.def)
    BY <1>1 DEF DecreesAfter
  <2>2. c.def.summons \in own[c.id]
    BY <1>1 DEF OwnCommands
  <2> QED
    BY <2>1, <2>2 DEF Owned, Put
<1>2. CASE c.op = "remove"
  <2>1. DecreesAfter(decrees, c) = Without(decrees, {c.id})
    BY <1>2 DEF DecreesAfter
  <2> QED
    BY <2>1 DEF Owned, Without
<1>3. CASE c.op \notin {"save", "remove"}
  BY <1>3 DEF DecreesAfter
<1> QED
  BY <1>1, <1>2, <1>3

LEMMA RegistryInit ==
  ASSUME NEW own, KeysApart(own), Readable, Init
  PROVE  RegistryInv(own)
<1>1. disk \in Boot /\ disk \in Ledger /\ intended = disk.decrees
  BY BootTyped DEF Init
<1>2. DOMAIN disk.decrees \subseteq Ids
  BY <1>1, LedgerHolds, MapIsFunction
<1>3. Owned(own, disk.decrees) /\ DOMAIN disk.decrees \subseteq Registrable(disk)
  BY <1>1 DEF KeysApart
<1>4. Pending = <<>>
  <2>1. <<>> \in Seq({}) /\ (<<>> \o <<>>) \o <<>> = <<>>
    BY EmptySeq, ConcatEmptySeq
  <2> QED
    BY <2>1 DEF Init, Pending, InHand
<1>5. ASSUME NEW id \in DOMAIN intended
      PROVE  Registered(id)
  <2> DEFINE k == RegistryKey(intended[id].summons)
             keys == {RegistryKey(disk.decrees[i].summons) : i \in Registrable(disk)}
  <2>1. /\ DOMAIN registry = keys
        /\ \A x \in keys : \E i \in Registrable(disk) :
             /\ RegistryKey(disk.decrees[i].summons) = x
             /\ registry[x] = disk.decrees[i].body
    <3>1. PICK m \in Loaded : registry \in BootRegistries(m.ledger)
      BY DEF Init
    <3>2. registry \in BootRegistries(disk)
      BY <3>1, ReadableLoads
    <3> QED
      BY <3>2 DEF BootRegistries
  <2>2. k \in keys
    BY <1>1, <1>3, <1>5
  <2>3. PICK i \in Registrable(disk) : /\ RegistryKey(disk.decrees[i].summons) = k
                                       /\ registry[k] = disk.decrees[i].body
    BY <2>1, <2>2
  <2>4. i = id
    <3>1. i \in DOMAIN disk.decrees /\ id \in DOMAIN disk.decrees
      BY <1>1, <1>5, <2>3 DEF Registrable
    <3>2. disk.decrees[i].summons \in own[i] /\ disk.decrees[id].summons \in own[id]
      BY <1>3, <3>1 DEF Owned
    <3> QED
      BY <1>1, <1>2, <2>3, <3>1, <3>2 DEF KeysApart, Apart
  <2> QED
    BY <1>1, <2>1, <2>2, <2>3, <2>4 DEF Registered
<1>6. \A id \in DOMAIN intended : Answers(Pending, About(id), Right(id), Registered(id))
  <2>1. \A i \in 1 .. Len(Pending) : FALSE
    BY <1>4
  <2> QED
    BY <1>5, <2>1 DEF Answers
<1> QED
  BY <1>1, <1>3, <1>4, <1>6, EmptySeq DEF Init, RegistryInv

LEMMA RegisteredBoolean == \A id : Registered(id) \in BOOLEAN
BY DEF Registered

\* The command of an edit is the answer for its decree, and none of the others'
\* matter.
LEMMA RegistryGrows ==
  ASSUME NEW own, ConfigTypes, RegistryInv(own), NEW c \in OwnCommands(own),
         sending' = Append(sending, c), intended' = DecreesAfter(intended, c),
         UNCHANGED <<forgeQ, handling, registry>>
  PROVE  /\ (\A id \in DOMAIN intended :
               Answers(Pending, About(id), Right(id), Registered(id)))'
         /\ Pending' \in Seq(OwnCommands(own)) /\ Owned(own, intended')
<1>1. c \in Command
  BY DEF OwnCommands
<1>2. Pending' = Append(Pending, c)
  BY <1>1, PendingGrows
<1>3. Pending' \in Seq(OwnCommands(own))
  BY <1>2, AppendProperties DEF RegistryInv
<1>4. Owned(own, intended')
  BY OwnedAfter DEF RegistryInv
<1>5. ASSUME NEW id \in DOMAIN intended'
      PROVE  Answers(Pending, About(id), Right(id), Registered(id))'
  <2>1. Registered(id)' \in BOOLEAN
    BY DEF Registered
  <2>2. Pending \in Seq(Command)
    BY PendingTyped
  <2>3. CASE Concerns(c, id)
    <3>1. Makes(c, id)'
      BY <1>1, <2>3, EditMakes DEF Concerns
    <3>2. c \in Right(id)'
      BY <1>1, <3>1 DEF Right
    <3>3. Answers(Append(Pending, c), About(id), Right(id)', Registered(id)')
      BY <1>1, <2>1, <2>2, <3>2, AnswersAppend
    <3> QED
      BY <1>2, <3>3 DEF Answers, About, Concerns
  <2>4. CASE ~Concerns(c, id)
    <3>1. id \in DOMAIN intended /\ intended'[id] = intended[id]
      <4>1. CASE c.op = "save"
        <5>1. intended' = Put(intended, c.id, c.def) /\ c.id # id
          BY <2>4, <4>1 DEF DecreesAfter, Concerns
        <5> QED
          BY <1>5, <5>1 DEF Put
      <4>2. CASE c.op = "remove"
        <5>1. intended' = Without(intended, {c.id})
          BY <4>2 DEF DecreesAfter
        <5> QED
          BY <1>5, <5>1 DEF Without
      <4>3. CASE c.op \notin {"save", "remove"}
        BY <1>5, <4>3 DEF DecreesAfter
      <4> QED
        BY <4>1, <4>2, <4>3
    <3>2. Registered(id)' = Registered(id)
      BY <3>1 DEF Registered
    <3>3. Right(id)' = Right(id)
      BY <1>5, <3>1 DEF Right, Makes
    <3>4. c \notin About(id) /\ Answers(Pending, About(id), Right(id), Registered(id))
      BY <2>4, <3>1 DEF About, RegistryInv
    <3>5. Answers(Append(Pending, c), About(id), Right(id), Registered(id))
      BY <1>1, <2>2, <3>4, AnswersAppend, RegisteredBoolean
    <3> QED
      BY <1>2, <3>2, <3>3, <3>5 DEF Answers, About, Concerns
  <2> QED
    BY <2>3, <2>4
<1> QED
  BY <1>3, <1>4, <1>5

\* What Atlas handles leaves the entries of other decrees alone, and makes that
\* of its own.
LEMMA RegistryHandled ==
  ASSUME NEW own, KeysApart(own), ConfigTypes, RegistryInv(own), AtlasHandles,
         NEW id \in DOMAIN intended
  PROVE  LET c == handling[1].cmd
         IN /\ c \in Right(id) => Registered(id)'
            /\ c \notin About(id) /\ Registered(id) => Registered(id)'
<1> DEFINE c == handling[1].cmd
           l == handling[1].ledger
           k == RegistryKey(intended[id].summons)
<1>1. handling # <<>> /\ intended' = intended
  BY DEF AtlasHandles, SaveDecree, RemoveDecree, SaveWards, RenameDecree, Handles, userVars
<1>2. c \in Command /\ l \in Ledger
  BY <1>1, HoldingTyped DEF ConfigTypes
<1>3. c \in OwnCommands(own)
  <2>1. Pending # <<>> /\ Head(Pending) = c
    BY PendingShrinks
  <2> QED
    BY <2>1, HeadTailProperties DEF RegistryInv
<1>4. id \in Ids /\ intended[id].summons \in own[id]
  <2>1. DOMAIN intended \subseteq Ids
    BY MapIsFunction DEF ConfigTypes
  <2> QED
    BY <2>1 DEF RegistryInv, Owned
<1>5. CASE SaveDecree
  <2>1. c.op = "save" /\ registry' = Put(registry, RegistryKey(c.def.summons), c.def.body)
    BY <1>5 DEF SaveDecree, Handles, Registers
  <2>2. ASSUME c \in Right(id)
        PROVE  Registered(id)'
    <3>1. intended[id] = c.def
      BY <2>1, <2>2 DEF Right, Makes
    <3> QED
      BY <1>1, <2>1, <3>1 DEF Registered, Put
  <2>3. ASSUME c \notin About(id), Registered(id)
        PROVE  Registered(id)'
    <3>1. c.id # id /\ c.id \in Ids /\ c.def.summons \in own[c.id]
      BY <1>2, <1>3, <2>1, <2>3, CommandCarries DEF About, Concerns, OwnCommands
    <3>2. RegistryKey(c.def.summons) # k
      BY <1>4, <3>1 DEF KeysApart, Apart
    <3> QED
      BY <1>1, <2>1, <2>3, <3>2 DEF Registered, Put
  <2> QED
    BY <2>2, <2>3
<1>6. CASE RemoveDecree
  <2>1. /\ c.op = "remove"
        /\ \/ registry' = registry
           \/ /\ c.id \in DOMAIN l.decrees
              /\ registry' = Without(registry, {RegistryKey(l.decrees[c.id].summons)})
    BY <1>6 DEF RemoveDecree, Handles
  <2>2. c \notin Right(id)
    BY <2>1 DEF Right, Makes
  <2>3. ASSUME c \notin About(id), Registered(id)
        PROVE  Registered(id)'
    <3>1. CASE registry' = registry
      BY <1>1, <2>3, <3>1 DEF Registered
    <3>2. CASE /\ c.id \in DOMAIN l.decrees
               /\ registry' = Without(registry, {RegistryKey(l.decrees[c.id].summons)})
      <4>1. c.id # id /\ c.id \in Ids
        BY <1>2, <2>1, <2>3, CommandCarries DEF About, Concerns
      <4>2. l.decrees[c.id].summons \in own[c.id]
        BY <1>1, <3>2 DEF RegistryInv, Owned
      <4>3. RegistryKey(l.decrees[c.id].summons) # k
        BY <1>4, <4>1, <4>2 DEF KeysApart, Apart
      <4> QED
        BY <1>1, <2>3, <3>2, <4>3 DEF Registered, Without
    <3> QED
      BY <2>1, <3>1, <3>2
  <2> QED
    BY <2>2, <2>3
<1>7. CASE SaveWards \/ RenameDecree
  <2>1. c.op \in {"wards", "rename"} /\ registry' = registry
    BY <1>7 DEF SaveWards, RenameDecree, Handles
  <2>2. c \notin Right(id)
    BY <2>1 DEF Right, Makes, Concerns
  <2> QED
    BY <1>1, <2>1, <2>2 DEF Registered
<1> QED
  BY <1>5, <1>6, <1>7 DEF AtlasHandles

\* An edit of the user keeps to the keys.
LEMMA EditOwned ==
  ASSUME NEW own, KeysApart(own), ConfigTypes, NEW e \in Edits, edits < MaxEdits
  PROVE  CommandOf(e) \in OwnCommands(own)
<1>1. CommandOf(e) \in Command
  BY EditCommand
<1>2. CASE e.op \in {"save", "simulate"}
  <2>1. CommandOf(e).id = e.id /\ CommandOf(e).def.summons = e.summons
    BY <1>2 DEF CommandOf
  <2>2. e.summons \in own[e.id]
    BY <1>2 DEF KeysApart
  <2> QED
    BY <1>1, <2>1, <2>2 DEF OwnCommands
<1>3. CASE e.op \notin {"save", "simulate"}
  <2>1. CommandOf(e).op # "save"
    BY <1>3 DEF CommandOf
  <2> QED
    BY <1>1, <2>1 DEF OwnCommands
<1> QED
  BY <1>2, <1>3

LEMMA RegistryNext ==
  ASSUME NEW own, KeysApart(own), InOrder, Readable, ConfigTypes, StaysUp,
         RegistryInv(own), [Next]_vars
  PROVE  RegistryInv(own)'
<1>1. CASE ForgeLoads
  <2>1. PICK e \in Edits, l \in Loaded :
          editing' = <<[cmd |-> CommandOf(e), ledger |-> l.ledger, read |-> l.read]>>
    BY <1>1 DEF ForgeLoads
  <2>2. CommandOf(e) \in OwnCommands(own)
    BY <1>1, EditOwned DEF ForgeLoads
  <2>3. editing'[1].cmd = CommandOf(e) /\ editing'[1].ledger = disk
    BY <2>1, ReadableLoads
  <2>4. UNCHANGED <<disk, intended, registry, sending, forgeQ, handling>>
    BY <1>1 DEF ForgeLoads, engineVars
  <2>5. /\ Pending' = Pending
        /\ (\A id \in DOMAIN intended :
              Answers(Pending, About(id), Right(id), Registered(id)))'
    BY <2>4 DEF RegistryInv, Pending, InHand, Right, Makes, Registered
  <2> QED
    BY <2>2, <2>3, <2>4, <2>5 DEF RegistryInv
<1>2. CASE ForgeSaves
  <2> DEFINE c == editing[1].cmd
             l == editing[1].ledger
  <2>1. c \in OwnCommands(own) /\ Owned(own, l.decrees)
    BY <1>2 DEF ForgeSaves, RegistryInv
  <2>2. /\ disk' = disk \/ disk'.decrees = DecreesAfter(l.decrees, c)
        /\ intended' = DecreesAfter(intended, c) /\ sending' = Append(sending, c)
    BY <1>2, ForgeSaved
  <2>3. UNCHANGED <<forgeQ, handling, registry>> /\ editing' = <<>>
    BY <1>2 DEF ForgeSaves, engineVars
  <2>4. Owned(own, disk'.decrees)
    BY <2>1, <2>2, OwnedAfter DEF RegistryInv
  <2>5. /\ (\A id \in DOMAIN intended :
              Answers(Pending, About(id), Right(id), Registered(id)))'
        /\ Pending' \in Seq(OwnCommands(own)) /\ Owned(own, intended')
    BY <2>1, <2>2, <2>3, RegistryGrows
  <2>6. handling' # <<>> => Owned(own, handling'[1].ledger.decrees)
    BY <2>3 DEF RegistryInv
  <2> QED
    BY <2>3, <2>4, <2>5, <2>6 DEF RegistryInv
<1>3. CASE ForgeSends
  <2>1. PICK e \in Edits : /\ sending' = Append(sending, CommandOf(e))
                           /\ Intend(CommandOf(e))
    BY <1>3 DEF ForgeSends
  <2>2. CommandOf(e) \in OwnCommands(own)
    BY <1>3, EditOwned DEF ForgeSends
  <2>3. UNCHANGED <<disk, forgeQ, handling, registry, editing>> /\ editing = <<>>
    BY <1>3 DEF ForgeSends, engineVars
  <2>4. /\ (\A id \in DOMAIN intended :
              Answers(Pending, About(id), Right(id), Registered(id)))'
        /\ Pending' \in Seq(OwnCommands(own)) /\ Owned(own, intended')
    BY <2>1, <2>2, <2>3, RegistryGrows DEF Intend
  <2> QED
    BY <2>3, <2>4 DEF RegistryInv
<1>4. CASE CommandDelivered \/ AtlasLoads
  <2>1. Pending' = Pending
    BY <1>4, PendingMoves
  <2>2. UNCHANGED <<disk, intended, registry, editing>>
    BY <1>4 DEF CommandDelivered, AtlasLoads, engineVars, userVars
  <2>3. handling' # <<>> => Owned(own, handling'[1].ledger.decrees)
    <3>1. CASE CommandDelivered
      BY <3>1 DEF CommandDelivered, engineVars, RegistryInv
    <3>2. CASE AtlasLoads
      <4>1. PICK l \in Loaded :
              handling' = <<[cmd |-> Head(forgeQ), ledger |-> l.ledger, read |-> l.read]>>
        BY <3>2 DEF AtlasLoads
      <4>2. handling'[1].ledger = disk
        BY <4>1, ReadableLoads
      <4> QED
        BY <4>2 DEF RegistryInv
    <3> QED
      BY <1>4, <3>1, <3>2
  <2>4. (\A id \in DOMAIN intended :
           Answers(Pending, About(id), Right(id), Registered(id)))'
    BY <2>1, <2>2 DEF RegistryInv, Right, Makes, Registered
  <2> QED
    BY <2>1, <2>2, <2>3, <2>4 DEF RegistryInv
<1>5. ~CommandLost
  BY DEF CommandLost, InOrder, StaysUp
<1>6. CASE AtlasHandles
  <2> DEFINE c == handling[1].cmd
             l == handling[1].ledger
  <2>1. /\ Pending \in Seq(Command) /\ Pending # <<>> /\ Head(Pending) = c
        /\ Pending' = Tail(Pending)
    BY <1>6, PendingShrinks, PendingTyped
  <2>2. c \in OwnCommands(own) /\ Pending' \in Seq(OwnCommands(own))
    BY <2>1, HeadTailProperties DEF RegistryInv
  <2>3. handling # <<>> /\ handling' = <<>> /\ UNCHANGED <<intended, editing>>
    BY <1>6 DEF AtlasHandles, SaveDecree, RemoveDecree, SaveWards, RenameDecree,
                Handles, userVars
  <2>4. Owned(own, disk'.decrees)
    <3>1. Owned(own, DecreesAfter(l.decrees, c))
      BY <2>2, <2>3, OwnedAfter DEF RegistryInv
    <3>2. Owned(own, disk.decrees)
      BY DEF RegistryInv
    <3> QED
      BY <1>6, <3>1, <3>2, HandledDecrees
  <2>5. ASSUME NEW id \in DOMAIN intended
        PROVE  Answers(Pending', About(id), Right(id), Registered(id)')
    <3>1. /\ c \in Right(id) => Registered(id)'
          /\ c \notin About(id) /\ Registered(id) => Registered(id)'
      BY <1>6, RegistryHandled
    <3>2. Registered(id)' \in BOOLEAN /\ Registered(id) \in BOOLEAN
      BY DEF Registered
    <3>3. Answers(Pending, About(id), Right(id), Registered(id))
      BY DEF RegistryInv
    <3> QED
      BY <2>1, <3>1, <3>2, <3>3, AnswersTail
  <2>6. (\A id \in DOMAIN intended :
           Answers(Pending, About(id), Right(id), Registered(id)))'
    BY <2>3, <2>5 DEF Right, Makes
  <2> QED
    BY <2>2, <2>3, <2>4, <2>6 DEF RegistryInv
<1>7. ~AppStops
  <2>1. ~(0 < 0)
    OBVIOUS
  <2> QED
    BY <2>1 DEF AppStops, StaysUp, InOrder
<1>8. ~AppStarts
  BY DEF AppStarts, StaysUp
<1>9. CASE UNCHANGED vars
  <2>1. UNCHANGED <<disk, intended, registry, editing, sending, forgeQ, handling>>
    BY <1>9 DEF vars, engineVars, userVars
  <2>2. /\ Pending' = Pending
        /\ (\A id \in DOMAIN intended :
              Answers(Pending, About(id), Right(id), Registered(id)))'
    BY <2>1 DEF RegistryInv, Pending, InHand, Right, Makes, Registered
  <2> QED
    BY <2>1, <2>2 DEF RegistryInv
<1> QED
  BY <1>1, <1>2, <1>3, <1>4, <1>5, <1>6, <1>7, <1>8, <1>9
  DEF Next, ForgeSteps, Rest

(***************************************************************************)
(* Once all is quiet every decree the user has kept is registered as it    *)
(* was last saved, if the file can be read, the commands arrive as they    *)
(* are sent, the engine stays up, and no two decrees ever have one key:    *)
(* what the file lost of an earlier edit, or a failed save did not write,  *)
(* the registry has.                                                       *)
(***************************************************************************)
THEOREM SavedIsRegisteredHolds ==
  ASSUME InOrder, Readable, NEW own, KeysApart(own)
  PROVE  Spec => []SavedIsRegistered
<1>1. RegistryInv(own) => SavedIsRegistered
  <2>1. Quiet => Pending = <<>>
    <3>1. <<>> \in Seq({}) /\ (<<>> \o <<>>) \o <<>> = <<>>
      BY EmptySeq, ConcatEmptySeq
    <3> QED
      BY <3>1 DEF Quiet, Pending, InHand
  <2>2. Pending = <<>> => \A i \in 1 .. Len(Pending) : FALSE
    OBVIOUS
  <2> QED
    BY <2>1, <2>2 DEF RegistryInv, SavedIsRegistered, Answers, Registered
<1>2. Init => RegistryInv(own)
  BY RegistryInit
<1>3. ConfigTypes /\ StaysUp /\ RegistryInv(own) /\ [Next]_vars => RegistryInv(own)'
  BY RegistryNext
<1> QED
  BY <1>1, <1>2, <1>3, StaysUpHolds, TypesHold, PTL DEF Spec
=============================================================================
