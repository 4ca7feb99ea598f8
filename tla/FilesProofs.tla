---------------------------- MODULE FilesProofs -----------------------------
(***************************************************************************)
(* Theorems about files.  The program's own: LedgerFile implements         *)
(* LedgerStore except where saves overlap, for any processes, ledgers,     *)
(* edits and faults.  Those it watches (SteadyState, here Watch): a file   *)
(* that grows is summoned when its writing has stopped, and what the user  *)
(* writes is debounced away only for a namesake's sake, for any files,     *)
(* names, times and bounds.                                                *)
(***************************************************************************)
EXTENDS LedgerFile, Sequences, SequenceTheorems, TLAPS

CONSTANTS
  Files, Names, Name, Ignored, EngineFiles, Rewritten, CheckTicks, CooldownTicks, ExpiryTicks,
  MaxWrites, MaxTicks   \* as in SteadyState

VARIABLES
  size, events, checks, coolAge, markAge, writing, quietFor, unserved, firedBy,
  forgone, ownFired, writes, ticks   \* as in SteadyState

Watch == INSTANCE SteadyState

-----------------------------------------------------------------------------
(* The ledger's file *)

(***************************************************************************)
(* Each process that saves, saves an edit of what it loaded.  One whose    *)
(* save overlaps no other's is alone in it: what it has open is            *)
(* ledger.tmp, and once that is to be renamed it holds its edit.  So       *)
(* ledger.toml is a ledger or missing unless saves that overlapped have    *)
(* changed it last.                                                        *)
(***************************************************************************)
SaveInv ==
  \A p \in Procs :
    /\ pc[p] # "idle" => p \in Writers /\ held[p] \in Ledgers /\ new[p] \in Edited[held[p]]
    /\ opened[p] # "unlinked" => pc[p] = "write"
    /\ p \in mixed => pc[p] # "idle"

AloneInv ==
  \A p \in Procs :
    pc[p] # "idle" /\ p \notin mixed =>
      /\ \A q \in Procs \ {p} : pc[q] = "idle"
      /\ pc[p] = "write" => opened[p] = "tmp" /\ tmp = Torn
      /\ pc[p] = "rename" => tmp = new[p]

FileInv ==
  /\ TypeOK
  /\ SaveInv
  /\ AloneInv
  /\ ~spoilt => file # Torn

LEMMA InitFile == Init => FileInv
<1> SUFFICES ASSUME Init PROVE FileInv
  OBVIOUS
<1>1. TypeOK /\ (~spoilt => file # Torn)
  BY FileOK DEF Init, TypeOK, Content
<1>2. ASSUME NEW p \in Procs
      PROVE  pc[p] = "idle" /\ opened[p] = "unlinked" /\ p \notin mixed
  BY DEF Init
<1>3. SaveInv /\ AloneInv
  BY <1>2 DEF SaveInv, AloneInv
<1> QED
  BY <1>1, <1>3 DEF FileInv

LEMMA LoadInv ==
  ASSUME FileInv, NEW p \in Procs, Load(p)
  PROVE  FileInv'
BY FileOK DEF FileInv, SaveInv, AloneInv, TypeOK, Content, Load, Loaded

\* A save that begins is alone, or every save under way is mixed from now on.
LEMMA OpenInv ==
  ASSUME FileInv, NEW p \in Procs, OpenTmp(p)
  PROVE  FileInv'
<1>. USE FileOK DEF FileInv, OpenTmp, Saving
<1>1. TypeOK'
  BY DEF TypeOK, Content
<1>2. SaveInv'
  BY DEF SaveInv, TypeOK
<1>3. AloneInv'
  <2>1. CASE \A q \in Procs : pc[q] = "idle"
    BY <2>1 DEF SaveInv, AloneInv, TypeOK
  <2>2. CASE \E q \in Procs : pc[q] # "idle"
    <3>1. \A q \in Procs : pc'[q] # "idle" => q \in mixed'
      BY <2>2 DEF TypeOK
    <3>. QED BY <3>1 DEF AloneInv
  <2>. QED BY <2>1, <2>2
<1>. QED BY <1>1, <1>2, <1>3

\* What a write leaves is of the types, whatever it is.
LEMMA LandsTypes ==
  ASSUME FileInv, NEW p \in Procs, NEW inTmp \in SUBSET Content,
         NEW inFile \in SUBSET Content, Lands(p, inTmp, inFile)
  PROVE  /\ file' \in Content /\ tmp' \in Content /\ spoilt' \in BOOLEAN
         /\ ~spoilt' => file' = file /\ ~spoilt
BY DEF FileInv, TypeOK, Lands

LEMMA WriteInv ==
  ASSUME FileInv, NEW p \in Procs, WriteTmp(p)
  PROVE  FileInv'
<1>1. /\ file' \in Content /\ tmp' \in Content /\ spoilt' \in BOOLEAN
      /\ ~spoilt' => file' = file /\ ~spoilt
  <2>1. Written(p, tmp) \subseteq Content /\ Written(p, file) \subseteq Content
    BY DEF FileInv, TypeOK, Content, Written
  <2>. QED BY <2>1, LandsTypes DEF WriteTmp
<1>. USE DEF FileInv, WriteTmp
<1>2. TypeOK'
  BY <1>1 DEF TypeOK
<1>3. SaveInv'
  BY DEF SaveInv, TypeOK
<1>4. AloneInv'
  <2>1. SUFFICES ASSUME NEW q \in Procs, pc'[q] # "idle", q \notin mixed'
                 PROVE  /\ \A r \in Procs \ {q} : pc'[r] = "idle"
                        /\ pc'[q] = "write" => opened'[q] = "tmp" /\ tmp' = Torn
                        /\ pc'[q] = "rename" => tmp' = new'[q]
    BY DEF AloneInv
  <2>2. q = p
    BY <2>1 DEF AloneInv, TypeOK
  <2>3. tmp = Torn /\ opened[p] = "tmp" /\ \A r \in Procs \ {p} : pc[r] = "idle"
    BY <2>1, <2>2 DEF AloneInv
  <2>4. tmp' = new[p]
    BY <2>3 DEF Lands, Written
  <2>. QED BY <2>2, <2>3, <2>4 DEF TypeOK
<1>. QED BY <1>1, <1>2, <1>3, <1>4

\* A save of its own leaves a ledger; one that overlapped another spoils it.
LEMMA RenameInv ==
  ASSUME FileInv, NEW p \in Procs, RenameTmp(p)
  PROVE  FileInv'
<1>. USE FileOK DEF FileInv, RenameTmp
<1>1. TypeOK'
  BY DEF TypeOK, Content, SaveInv
<1>2. SaveInv'
  BY DEF SaveInv, TypeOK
<1>3. AloneInv'
  BY DEF AloneInv, TypeOK
<1>4. ~spoilt' => file' # Torn
  <2>1. new[p] \in Ledgers
    BY DEF TypeOK
  <2>2. ~spoilt' => tmp = new[p]
    BY DEF AloneInv
  <2>. QED BY <2>1, <2>2
<1>. QED BY <1>1, <1>2, <1>3, <1>4

LEMMA FailInv ==
  ASSUME FileInv, NEW p \in Procs, WriteFails(p) \/ RenameFails(p) \/ Ends(p)
  PROVE  FileInv'
<1>. USE DEF FileInv
<1>1. /\ file' \in Content /\ tmp' \in Content /\ spoilt' \in BOOLEAN
      /\ ~spoilt' => file' = file /\ ~spoilt
  <2>1. {tmp, Torn} \subseteq Content /\ {file, Torn} \subseteq Content
    BY DEF TypeOK, Content
  <2>2. CASE WriteFails(p)
    BY <2>1, <2>2, LandsTypes DEF WriteFails
  <2>3. CASE RenameFails(p) \/ Ends(p)
    BY <2>3 DEF RenameFails, Ends, TypeOK
  <2>. QED BY <2>2, <2>3
<1>2. /\ pc' = [pc EXCEPT ![p] = "idle"] /\ mixed' = mixed \ {p} /\ new' = new
      /\ opened' = [opened EXCEPT ![p] = "unlinked"] \/ opened' = opened
      /\ held' = [held EXCEPT ![p] = Nothing] \/ held' = held
      /\ (pc[p] = "rename" \/ opened' = [opened EXCEPT ![p] = "unlinked"])
  BY DEF WriteFails, RenameFails, Ends
<1>3. TypeOK'
  BY <1>1, <1>2 DEF TypeOK
<1>4. SaveInv'
  BY <1>2 DEF SaveInv, TypeOK
<1>5. AloneInv'
  <2>1. SUFFICES ASSUME NEW q \in Procs, pc'[q] # "idle", q \notin mixed'
                 PROVE  /\ \A r \in Procs \ {q} : pc'[r] = "idle"
                        /\ pc'[q] = "write" => opened'[q] = "tmp" /\ tmp' = Torn
                        /\ pc'[q] = "rename" => tmp' = new'[q]
    BY DEF AloneInv
  <2>2. q # p /\ pc[q] # "idle" /\ q \notin mixed /\ opened'[q] = opened[q]
    BY <1>2, <2>1 DEF TypeOK
  <2>3. pc[p] = "idle"
    BY <2>2 DEF AloneInv
  <2>4. Ends(p)
    BY <2>3 DEF WriteFails, RenameFails
  <2>. QED BY <1>2, <2>2, <2>4 DEF Ends, AloneInv, TypeOK
<1>. QED BY <1>1, <1>3, <1>4, <1>5

\* Everything that can happen keeps the invariant.
LEMMA NextFile == FileInv /\ [Next]_vars => FileInv'
<1>. SUFFICES ASSUME FileInv, [Next]_vars PROVE FileInv'
  OBVIOUS
<1>1. CASE Next
  <2>1. PICK p \in Procs :
          \/ Load(p) \/ OpenTmp(p) \/ WriteTmp(p) \/ WriteFails(p) \/ RenameTmp(p)
          \/ RenameFails(p) \/ Ends(p)
    BY <1>1 DEF Next
  <2>. QED BY <2>1, LoadInv, OpenInv, WriteInv, RenameInv, FailInv
<1>2. CASE UNCHANGED vars
  BY <1>2 DEF FileInv, SaveInv, AloneInv, TypeOK, vars
<1>. QED BY <1>1, <1>2

LEMMA Invariant == Spec => []FileInv
BY InitFile, NextFile, PTL DEF Spec

-----------------------------------------------------------------------------
(* Refinement *)

LEMMA InitStore == Init => Store!Init
BY FileOK DEF Init, Store!Init

\* A load returns the stored ledger, or the default one after a failed read.
LEMMA LoadStore ==
  ASSUME FileInv, NEW p \in Procs, Load(p), ~spoilt'
  PROVE  Store!Load(p)
BY FileOK DEF FileInv, TypeOK, Content, Load, Loaded, Store!Load

\* The rename is the save: of an edit of what the process holds.
LEMMA RenameStore ==
  ASSUME FileInv, NEW p \in Procs, RenameTmp(p), ~spoilt'
  PROVE  Store!Save(p)
<1>1. /\ p \in Writers /\ held[p] # Nothing /\ new[p] \in Edited[held[p]] /\ new[p] \in Ledgers
      /\ tmp = new[p]
  <2>1. p \in Writers /\ held[p] \in Ledgers /\ new[p] \in Edited[held[p]]
    BY DEF FileInv, SaveInv, RenameTmp
  <2>2. new[p] \in Ledgers /\ held[p] # Nothing
    BY <2>1, FileOK DEF FileInv, TypeOK
  <2>3. p \notin mixed
    BY DEF RenameTmp
  <2>4. tmp = new[p]
    BY <2>3 DEF FileInv, AloneInv, RenameTmp
  <2>. QED BY <2>1, <2>2, <2>4
<1>2. file' = new[p] /\ held' = [held EXCEPT ![p] = new[p]] /\ new[p] # Nothing
  BY <1>1, FileOK DEF RenameTmp
<1>. QED BY <1>1, <1>2 DEF Store!Save

\* A process that forgets or ends leaves the stored ledger alone.
LEMMA EndsStore ==
  ASSUME FileInv, NEW p \in Procs, Ends(p)
  PROVE  Store!Forget(p)
BY FileOK DEF FileInv, TypeOK, Content, Ends, Store!Forget

\* Of the other steps nothing is seen.
LEMMA HiddenStore ==
  ASSUME FileInv, NEW p \in Procs, ~spoilt',
         OpenTmp(p) \/ WriteTmp(p) \/ WriteFails(p) \/ RenameFails(p)
  PROVE  UNCHANGED Store!vars
BY DEF OpenTmp, WriteTmp, WriteFails, RenameFails, Lands, Store!vars

(***************************************************************************)
(* Whatever any number of processes load, edit and save, whichever calls   *)
(* fail and wherever processes end, the file of ledger.rs is an atomic     *)
(* store, except what saves that overlap do to it, until a save that       *)
(* overlaps no other is through: this is the property of LedgerCrash.      *)
(***************************************************************************)
THEOREM LedgerIsAtomic == Spec => StoreIsAtomic
<1>1. FileInv /\ [Next]_vars => [~spoilt' => Store!Next]_(Store!vars)
  <2>. SUFFICES ASSUME FileInv, [Next]_vars, ~spoilt'
                PROVE  Store!Next \/ UNCHANGED Store!vars
    OBVIOUS
  <2>1. CASE Next
    <3>1. PICK p \in Procs :
            \/ Load(p) \/ OpenTmp(p) \/ WriteTmp(p) \/ WriteFails(p) \/ RenameTmp(p)
            \/ RenameFails(p) \/ Ends(p)
      BY <2>1 DEF Next
    <3>. QED BY <3>1, LoadStore, RenameStore, EndsStore, HiddenStore DEF Store!Next
  <2>2. CASE UNCHANGED vars
    BY <2>2 DEF vars, Store!vars
  <2>. QED BY <2>1, <2>2
<1>. QED BY Invariant, InitStore, <1>1, PTL DEF Spec, StoreIsAtomic

-----------------------------------------------------------------------------
(* The watched files: types *)

\* A sequence without its element i: the others are all there, and no more.
LEMMA Removed ==
  ASSUME NEW S, NEW s \in Seq(S), NEW i \in DOMAIN s, NEW t, t = Watch!RemoveAt(s, i)
  PROVE  /\ t \in Seq(S)
         /\ \A k \in DOMAIN t : \E j \in DOMAIN s \ {i} : t[k] = s[j]
         /\ \A j \in DOMAIN s \ {i} : \E k \in DOMAIN t : t[k] = s[j]
<1>. DEFINE a == SubSeq(s, 1, i - 1)  b == SubSeq(s, i + 1, Len(s))
<1>1. i \in 1 .. Len(s) /\ DOMAIN s = 1 .. Len(s) /\ Len(s) \in Nat
  OBVIOUS
<1>2. /\ a \in Seq(S) /\ Len(a) = i - 1 /\ \A k \in 1 .. i - 1 : a[k] = s[k]
      /\ b \in Seq(S) /\ Len(b) = Len(s) - i
      /\ \A k \in 1 .. Len(s) - i : b[k] = s[i + k]
  BY <1>1
<1>3. t = a \o b
  BY DEF Watch!RemoveAt
<1>. HIDE DEF a, b
<1>4. /\ t \in Seq(S) /\ Len(t) = Len(s) - 1 /\ DOMAIN t = 1 .. Len(t)
      /\ \A k \in 1 .. i - 1 : t[k] = s[k]
      /\ \A k \in i .. Len(s) - 1 : t[k] = s[k + 1]
  <2>1. t \in Seq(S) /\ Len(t) = Len(s) - 1 /\ DOMAIN t = 1 .. Len(t)
    <3>1. t \in Seq(S) /\ Len(t) = Len(a) + Len(b)
      BY <1>2, <1>3, ConcatProperties
    <3>2. DOMAIN t = 1 .. Len(t)
      BY <3>1
    <3>. QED BY <1>1, <1>2, <3>1, <3>2
  <2>2. ASSUME NEW k \in 1 .. i - 1 PROVE t[k] = s[k]
    BY <1>1, <1>2, <1>3
  <2>3. ASSUME NEW k \in i .. Len(s) - 1 PROVE t[k] = s[k + 1]
    <3>1. t[k] = b[k - (i - 1)]
      BY <1>1, <1>2, <1>3
    <3>2. PICK n \in 1 .. Len(s) - i : n = k - (i - 1) /\ i + n = k + 1
      BY <1>1
    <3>3. b[n] = s[i + n]
      BY <1>2
    <3>. QED BY <3>1, <3>2, <3>3
  <2>. QED BY <2>1, <2>2, <2>3
<1>5. ASSUME NEW k \in DOMAIN t PROVE \E j \in DOMAIN s \ {i} : t[k] = s[j]
  <2>1. CASE k < i
    BY <1>1, <1>4, <2>1
  <2>2. CASE k >= i
    <3>1. t[k] = s[k + 1] /\ k + 1 \in DOMAIN s \ {i}
      BY <1>1, <1>4, <2>2
    <3>. QED BY <3>1
  <2>. QED BY <1>1, <1>4, <2>1, <2>2
<1>6. ASSUME NEW j \in DOMAIN s \ {i} PROVE \E k \in DOMAIN t : t[k] = s[j]
  <2>1. CASE j < i
    BY <1>1, <1>4, <2>1
  <2>2. CASE j > i
    <3>1. t[j - 1] = s[j] /\ j - 1 \in DOMAIN t
      BY <1>1, <1>4, <2>2
    <3>. QED BY <3>1
  <2>. QED BY <1>1, <2>1, <2>2
<1>. QED BY <1>4, <1>5, <1>6

\* A sequence with another element in the place of its element i.
LEMMA Replaced ==
  ASSUME NEW S, NEW s \in Seq(S), NEW i \in DOMAIN s, NEW d \in S,
         NEW t, t = [s EXCEPT ![i] = d]
  PROVE  /\ t \in Seq(S) /\ DOMAIN t = DOMAIN s /\ t[i] = d
         /\ \A k \in DOMAIN s : k # i => t[k] = s[k]
<1>1. /\ DOMAIN t = DOMAIN s /\ t[i] = d
      /\ \A k \in DOMAIN s : k # i => t[k] = s[k]
  OBVIOUS
<1>2. t \in Seq(S)
  OBVIOUS
<1>. QED BY <1>1, <1>2

\* What the assumption says of the numbers.
LEMMA Times ==
  ASSUME Watch!SteadyStateConstantsOK
  PROVE  /\ {CheckTicks, CooldownTicks, ExpiryTicks, MaxWrites, MaxTicks} \subseteq Nat
         /\ CheckTicks > 0 /\ CooldownTicks > 0 /\ CooldownTicks <= CheckTicks
         /\ ExpiryTicks > 0 /\ Name \in [Files -> Names]
BY DEF Watch!SteadyStateConstantsOK

\* No file is longer than there were writes.
WatchTypes == Watch!TypeOK /\ \A f \in Files : size[f] <= writes

LEMMA InitTypes ==
  ASSUME Watch!SteadyStateConstantsOK, Watch!Init PROVE WatchTypes
<1>1. events \in Seq(Watch!Event) /\ checks \in Seq(Watch!Check)
  BY EmptySeq DEF Watch!Init
<1>2. /\ size \in [Files -> 0 .. MaxWrites] /\ coolAge \in [Names -> 0 .. CooldownTicks]
      /\ markAge \in [Files -> 0 .. ExpiryTicks] /\ quietFor \in [Files -> 0 .. CheckTicks]
      /\ writes \in 0 .. MaxWrites /\ ticks \in 0 .. MaxTicks
      /\ \A f \in Files : size[f] <= writes
  BY Times DEF Watch!Init
<1>3. /\ writing \subseteq EngineFiles /\ unserved \subseteq Files /\ ownFired \in BOOLEAN
      /\ forgone \subseteq Files /\ firedBy \in [Names -> SUBSET Files]
  BY DEF Watch!Init
<1>. QED BY <1>1, <1>2, <1>3 DEF Watch!TypeOK, WatchTypes

\* A write, whoever writes.
LEMMA WrittenTypes ==
  ASSUME Watch!SteadyStateConstantsOK, WatchTypes,
         NEW f \in Files, NEW own \in BOOLEAN, Watch!Written(f, own)
  PROVE  /\ size' \in [Files -> 0 .. MaxWrites] /\ events' \in Seq(Watch!Event)
         /\ quietFor' \in [Files -> 0 .. CheckTicks]
         /\ writes' \in 0 .. MaxWrites /\ UNCHANGED <<checks, coolAge, firedBy, ownFired, ticks>>
         /\ \A g \in Files : size'[g] <= writes'
<1>1. writes' = writes + 1 /\ writes \in Nat /\ writes + 1 <= MaxWrites
  BY Times DEF Watch!Written, WatchTypes, Watch!TypeOK
<1>2. \A g \in Files : size[g] \in Nat /\ size[g] <= writes
  BY DEF WatchTypes, Watch!TypeOK
<1>3. size' = size \/ size' = [size EXCEPT ![f] = size[f] + 1]
  BY DEF Watch!Written
<1>4. /\ size' \in [Files -> 0 .. MaxWrites]
      /\ \A g \in Files : size'[g] <= writes'
  <2>1. size \in [Files -> 0 .. MaxWrites]
    BY DEF WatchTypes, Watch!TypeOK
  <2>. QED BY <1>1, <1>2, <1>3, <2>1, Times
<1>5. events' \in Seq(Watch!Event)
  <2>1. [file |-> f, own |-> own] \in Watch!Event /\ events \in Seq(Watch!Event)
    BY DEF Watch!Event, WatchTypes, Watch!TypeOK
  <2>. QED BY <2>1, AppendProperties DEF Watch!Written
<1>6. quietFor' \in [Files -> 0 .. CheckTicks]
  BY Times DEF Watch!Written, WatchTypes, Watch!TypeOK
<1>7. UNCHANGED <<checks, coolAge, firedBy, ownFired, ticks>>
  BY DEF Watch!Written
<1>. QED BY <1>1, <1>4, <1>5, <1>6, <1>7, Times

\* One tick later.
LEMMA OlderAge ==
  ASSUME NEW bound \in Nat, NEW age \in 0 .. bound
  PROVE  Watch!Older(age, bound) \in 0 .. bound
BY DEF Watch!Older

LEMMA NextTypes ==
  ASSUME Watch!SteadyStateConstantsOK, WatchTypes, [Watch!Next]_Watch!vars
  PROVE  WatchTypes'
<1>. USE DEF WatchTypes
<1>1. EngineFiles \subseteq Files
  BY DEF Watch!SteadyStateConstantsOK
<1>2. CASE Watch!UserWrites
  <2>1. PICK f \in Files :
          /\ Watch!Written(f, FALSE) /\ UNCHANGED <<markAge, writing>>
          /\ unserved' = unserved \cup ({f} \ Ignored) /\ forgone' = forgone \ {f}
    BY <1>2 DEF Watch!UserWrites, Watch!engineVars
  <2>2. unserved' \subseteq Files /\ forgone' \subseteq Files
    BY <2>1 DEF Watch!TypeOK
  <2>. QED BY <2>1, <2>2, WrittenTypes DEF Watch!TypeOK
<1>3. CASE Watch!EngineWrites
  <2>1. PICK f \in EngineFiles :
          /\ Watch!Written(f, TRUE) /\ writing' = {f}
          /\ UNCHANGED <<markAge, unserved, forgone>>
    BY <1>3 DEF Watch!EngineWrites
  <2>. QED BY <1>1, <2>1, WrittenTypes DEF Watch!TypeOK
<1>4. CASE Watch!EngineMarks
  <2>1. markAge' \in [Files -> 0 .. ExpiryTicks]
    BY <1>4, Times DEF Watch!EngineMarks, Watch!TypeOK
  <2>. QED
    BY <1>4, <2>1 DEF Watch!EngineMarks, Watch!TypeOK, Watch!watcherVars, Watch!historyVars
<1>5. CASE Watch!WatcherTakes
  <2>1. events' \in Seq(Watch!Event) /\ Head(events) \in Watch!Event
    BY <1>5, HeadTailProperties DEF Watch!WatcherTakes, Watch!TypeOK
  <2>2. checks' \in Seq(Watch!Check)
    <3>. DEFINE c == [file |-> Head(events).file, own |-> Head(events).own,
                      stage |-> "sleeping",
                      seen |-> size[Head(events).file], left |-> CheckTicks]
    <3>1. c \in Watch!Check /\ checks \in Seq(Watch!Check)
      BY <2>1, Times DEF Watch!Event, Watch!Check, Watch!TypeOK
    <3>2. checks' = checks \/ checks' = Append(checks, c)
      BY <1>5 DEF Watch!WatcherTakes
    <3>. QED BY <3>1, <3>2, AppendProperties
  <2>3. forgone' \subseteq Files
    BY <1>5, <2>1 DEF Watch!WatcherTakes, Watch!TypeOK, Watch!Event
  <2>. QED
    BY <1>5, <2>1, <2>2, <2>3 DEF Watch!WatcherTakes, Watch!TypeOK, Watch!engineVars
<1>6. CASE Watch!ThreadLooks
  <2>1. PICK i \in DOMAIN checks :
          /\ \/ checks' = [checks EXCEPT ![i].stage = "stable",
                                         ![i].seen = size[checks[i].file]]
             \/ checks' = Watch!RemoveAt(checks, i)
          /\ UNCHANGED <<size, events, coolAge, markAge, writing, quietFor, unserved,
                         firedBy, forgone, ownFired, writes, ticks>>
    BY <1>6 DEF Watch!ThreadLooks, Watch!engineVars, Watch!historyVars
  <2>2. checks[i] \in Watch!Check /\ size[checks[i].file] \in Nat
    <3>1. checks[i] \in Watch!Check /\ size \in [Files -> 0 .. MaxWrites]
      BY DEF Watch!TypeOK
    <3>. QED BY <3>1, Times DEF Watch!Check
  <2>3. PICK d \in Watch!Check :
          d = [checks[i] EXCEPT !.stage = "stable", !.seen = size[checks[i].file]]
    BY <2>2 DEF Watch!Check
  <2>4. checks' \in Seq(Watch!Check)
    <3>1. checks' = [checks EXCEPT ![i] = d] \/ checks' = Watch!RemoveAt(checks, i)
      BY <2>1, <2>3
    <3>. QED BY <3>1, Removed, Replaced DEF Watch!TypeOK
  <2>. QED BY <2>1, <2>4 DEF Watch!TypeOK
<1>6a. CASE Watch!ThreadFires
  <2>1. PICK i \in DOMAIN checks :
          /\ checks' = [checks EXCEPT ![i].stage = "sending"]
             \/ checks' = Watch!RemoveAt(checks, i)
          /\ coolAge' = [coolAge EXCEPT ![Name[checks[i].file]] = 0] \/ coolAge' = coolAge
          /\ \/ firedBy' = [firedBy EXCEPT ![Name[checks[i].file]] = {checks[i].file}]
             \/ firedBy' = firedBy
          /\ forgone' = forgone \/ forgone' = forgone \cup {checks[i].file}
          /\ UNCHANGED <<size, events, markAge, writing, quietFor, unserved, ownFired,
                         writes, ticks>>
    BY <1>6a DEF Watch!ThreadFires, Watch!engineVars
  <2>2. checks[i] \in Watch!Check /\ checks[i].file \in Files
    <3>1. checks[i] \in Watch!Check
      BY DEF Watch!TypeOK
    <3>. QED BY <3>1 DEF Watch!Check
  <2>3. PICK d \in Watch!Check : d = [checks[i] EXCEPT !.stage = "sending"]
    BY <2>2 DEF Watch!Check
  <2>4. checks' \in Seq(Watch!Check)
    <3>1. checks' = [checks EXCEPT ![i] = d] \/ checks' = Watch!RemoveAt(checks, i)
      BY <2>1, <2>3
    <3>. QED BY <3>1, Removed, Replaced DEF Watch!TypeOK
  <2>5. /\ coolAge' \in [Names -> 0 .. CooldownTicks] /\ firedBy' \in [Names -> SUBSET Files]
        /\ forgone' \subseteq Files
    <3>1. /\ coolAge \in [Names -> 0 .. CooldownTicks] /\ firedBy \in [Names -> SUBSET Files]
          /\ forgone \subseteq Files /\ Name[checks[i].file] \in Names
      BY <2>2, Times DEF Watch!TypeOK
    <3>2. coolAge' \in [Names -> 0 .. CooldownTicks]
      BY <2>1, <3>1, Times
    <3>3. firedBy' \in [Names -> SUBSET Files]
      BY <2>1, <2>2, <3>1
    <3>. QED BY <2>1, <2>2, <3>1, <3>2, <3>3
  <2>. QED BY <2>1, <2>4, <2>5 DEF Watch!TypeOK
<1>6b. CASE Watch!ThreadSends
  <2>1. PICK i \in DOMAIN checks :
          /\ checks' = Watch!RemoveAt(checks, i) /\ unserved' = unserved \ {checks[i].file}
          /\ ownFired' = (ownFired \/ checks[i].own)
          /\ UNCHANGED <<size, events, coolAge, markAge, writing, quietFor, firedBy,
                         forgone, writes, ticks>>
    BY <1>6b DEF Watch!ThreadSends, Watch!engineVars
  <2>2. checks' \in Seq(Watch!Check)
    BY <2>1, Removed DEF Watch!TypeOK
  <2>3. unserved' \subseteq Files
    BY <2>1 DEF Watch!TypeOK
  <2>4. ownFired' \in BOOLEAN
    BY <2>1 DEF Watch!TypeOK
  <2>. QED BY <2>1, <2>2, <2>3, <2>4 DEF Watch!TypeOK
<1>7. CASE Watch!Tick
  <2>1. checks' \in Seq(Watch!Check)
    <3>1. checks \in Seq(Watch!Check)
      BY DEF Watch!TypeOK
    <3>2. \A i \in DOMAIN checks :
            [checks[i] EXCEPT !.left = IF @ > 0 THEN @ - 1 ELSE 0] \in Watch!Check
      <4>1. SUFFICES ASSUME NEW c \in Watch!Check
                     PROVE  [c EXCEPT !.left = IF @ > 0 THEN @ - 1 ELSE 0] \in Watch!Check
        BY <3>1
      <4>2. c.left \in 0 .. CheckTicks
        BY DEF Watch!Check
      <4>3. (IF c.left > 0 THEN c.left - 1 ELSE 0) \in 0 .. CheckTicks
        BY <4>2, Times
      <4>. QED BY <4>3 DEF Watch!Check
    <3>. QED BY <1>7, <3>1, <3>2 DEF Watch!Tick
  <2>2. /\ coolAge' \in [Names -> 0 .. CooldownTicks]
        /\ markAge' \in [Files -> 0 .. ExpiryTicks]
        /\ quietFor' \in [Files -> 0 .. CheckTicks]
    BY <1>7, OlderAge, Times DEF Watch!Tick, Watch!TypeOK
  <2>3. writes' \in 0 .. MaxWrites /\ ticks' \in 0 .. MaxTicks /\ writes <= writes'
    BY <1>7, Times DEF Watch!Tick, Watch!TypeOK
  <2>4. \A f \in Files : size'[f] <= writes'
    BY <1>7, <2>3, Times DEF Watch!Tick, Watch!TypeOK
  <2>. QED
    BY <1>7, <2>1, <2>2, <2>3, <2>4 DEF Watch!Tick, Watch!TypeOK
<1>8. CASE UNCHANGED Watch!vars
  BY <1>8 DEF Watch!vars, Watch!watcherVars, Watch!engineVars, Watch!historyVars, Watch!TypeOK
<1>. QED
  BY <1>2, <1>3, <1>4, <1>5, <1>6, <1>6a, <1>6b, <1>7, <1>8 DEF Watch!Next, Watch!Rest

LEMMA Typed ==
  ASSUME Watch!SteadyStateConstantsOK
  PROVE  Watch!Spec => []WatchTypes
<1>1. Watch!Init => WatchTypes
  BY InitTypes
<1>2. WatchTypes /\ [Watch!Next]_Watch!vars => WatchTypes'
  BY NextTypes
<1>. QED BY <1>1, <1>2, PTL DEF Watch!Spec

-----------------------------------------------------------------------------
(* A file that grows is summoned when its writing has stopped *)

(***************************************************************************)
(* A thread has seen no more of a file than there is.  If that is all there*)
(* is, and the file can only grow, nobody has written it since the thread  *)
(* looked: at least for as long as the thread has slept.  A thread that    *)
(* has looked again has slept to the end.                                  *)
(***************************************************************************)
Unwritten(c) ==
  /\ c.seen <= size[c.file]
  /\ c.stage # "sleeping" => c.left = 0
  /\ c.file \notin Rewritten /\ c.seen = size[c.file] =>
       quietFor[c.file] + c.left >= CheckTicks

SeenInv == \A i \in DOMAIN checks : Unwritten(checks[i])

LEMMA NextSeen ==
  ASSUME Watch!SteadyStateConstantsOK, WatchTypes, SeenInv, [Watch!Next]_Watch!vars
  PROVE  SeenInv'
<1>0. /\ checks \in Seq(Watch!Check) /\ size \in [Files -> 0 .. MaxWrites]
      /\ quietFor \in [Files -> 0 .. CheckTicks]
  BY DEF WatchTypes, Watch!TypeOK
<1>1. ASSUME UNCHANGED <<checks, size, quietFor>> PROVE SeenInv'
  BY <1>1 DEF SeenInv, Unwritten
<1>2. CASE Watch!UserWrites \/ Watch!EngineWrites
  <2>1. PICK f \in Files, own \in BOOLEAN : Watch!Written(f, own)
    BY <1>2 DEF Watch!UserWrites, Watch!EngineWrites, Watch!SteadyStateConstantsOK
  <2>2. /\ size' = [size EXCEPT ![f] = size[f] + 1] \/ (f \in Rewritten /\ size' = size)
        /\ quietFor' = [quietFor EXCEPT ![f] = 0] /\ checks' = checks
    BY <2>1 DEF Watch!Written
  <2>3. ASSUME NEW c \in Watch!Check, Unwritten(c) PROVE Unwritten(c)'
    <3>1. c.file \in Files /\ c.seen \in Nat /\ size[c.file] \in Nat
      BY <1>0, <2>3, Times DEF Watch!Check
    <3>2. CASE c.file = f
      <4>1. size'[f] = size[f] + 1 \/ (f \in Rewritten /\ size'[f] = size[f])
        BY <1>0, <2>2
      <4>. QED BY <2>3, <3>1, <3>2, <4>1 DEF Unwritten
    <3>3. CASE c.file # f
      BY <1>0, <2>2, <2>3, <3>1, <3>3 DEF Unwritten
    <3>. QED BY <3>2, <3>3
  <2>. QED BY <1>0, <2>2, <2>3 DEF SeenInv
<1>3. CASE Watch!EngineMarks
  BY <1>1, <1>3 DEF Watch!EngineMarks, Watch!watcherVars, Watch!historyVars
<1>4. CASE Watch!WatcherTakes
  <2>. DEFINE e == Head(events)
              c == [file |-> e.file, own |-> e.own, stage |-> "sleeping",
                    seen |-> size[e.file], left |-> CheckTicks]
  <2>1. UNCHANGED <<size, quietFor>> /\ (checks' = checks \/ checks' = Append(checks, c))
    BY <1>4 DEF Watch!WatcherTakes
  <2>2. c \in Watch!Check /\ Unwritten(c)
    <3>1. e \in Watch!Event
      BY <1>4, HeadTailProperties DEF Watch!WatcherTakes, WatchTypes, Watch!TypeOK
    <3>2. e.file \in Files /\ size[e.file] \in Nat /\ quietFor[e.file] \in Nat
      BY <1>0, <3>1, Times DEF Watch!Event
    <3>. QED BY <3>1, <3>2, Times DEF Watch!Check, Watch!Event, Unwritten
  <2>. HIDE DEF c
  <2>3. CASE checks' = Append(checks, c)
    <3>1. \A i \in DOMAIN checks' :
            checks'[i] = c \/ (i \in DOMAIN checks /\ checks'[i] = checks[i])
      <4>1. /\ Len(checks') = Len(checks) + 1 /\ checks'[Len(checks) + 1] = c
            /\ \A i \in 1 .. Len(checks) : checks'[i] = checks[i]
            /\ DOMAIN checks' = 1 .. Len(checks') /\ DOMAIN checks = 1 .. Len(checks)
            /\ Len(checks) \in Nat
        BY <1>0, <2>2, <2>3, AppendProperties
      <4>. QED BY <4>1
    <3>. QED BY <2>1, <2>2, <3>1 DEF SeenInv, Unwritten
  <2>. QED BY <1>1, <2>1, <2>3
<1>5. CASE Watch!ThreadLooks \/ Watch!ThreadFires \/ Watch!ThreadSends
  <2>1. PICK i \in DOMAIN checks :
          \/ checks' = Watch!RemoveAt(checks, i)
          \/ /\ checks[i].left = 0 /\ checks[i].seen = size[checks[i].file]
             /\ checks' = [checks EXCEPT ![i].stage = "stable",
                                        ![i].seen = size[checks[i].file]]
          \/ /\ checks[i].stage = "stable"
             /\ checks' = [checks EXCEPT ![i].stage = "sending"]
    BY <1>5 DEF Watch!ThreadLooks, Watch!ThreadFires, Watch!ThreadSends, Watch!Stable
  <2>2. UNCHANGED <<size, quietFor>>
    BY <1>5 DEF Watch!ThreadLooks, Watch!ThreadFires, Watch!ThreadSends, Watch!historyVars
  <2>3. CASE checks' = Watch!RemoveAt(checks, i)
    <3>1. \A k \in DOMAIN checks' : \E n \in DOMAIN checks : checks'[k] = checks[n]
      BY <1>0, <2>3, Removed
    <3>. QED BY <2>2, <3>1 DEF SeenInv, Unwritten
  <2>4. CASE checks' # Watch!RemoveAt(checks, i)
    <3>1. checks[i] \in Watch!Check /\ Unwritten(checks[i])
      BY <1>0 DEF SeenInv
    <3>2. PICK d \in Watch!Check :
            /\ checks' = [checks EXCEPT ![i] = d]
            /\ d.file = checks[i].file /\ d.seen = checks[i].seen
            /\ d.left = checks[i].left /\ d.left = 0
      <4>1. CASE /\ checks[i].left = 0 /\ checks[i].seen = size[checks[i].file]
                 /\ checks' = [checks EXCEPT ![i].stage = "stable",
                                            ![i].seen = size[checks[i].file]]
        <5>1. PICK d : d = [checks[i] EXCEPT !.stage = "stable",
                                             !.seen = size[checks[i].file]]
          OBVIOUS
        <5>2. /\ d \in Watch!Check /\ d.file = checks[i].file /\ d.seen = checks[i].seen
              /\ d.left = checks[i].left
          BY <3>1, <4>1, <5>1 DEF Watch!Check
        <5>. QED BY <4>1, <5>1, <5>2
      <4>2. CASE checks[i].stage = "stable" /\ checks' = [checks EXCEPT ![i].stage = "sending"]
        <5>1. PICK d : d = [checks[i] EXCEPT !.stage = "sending"]
          OBVIOUS
        <5>2. /\ d \in Watch!Check /\ d.file = checks[i].file /\ d.seen = checks[i].seen
              /\ d.left = checks[i].left
          BY <3>1, <5>1 DEF Watch!Check
        <5>3. checks[i].left = 0
          BY <3>1, <4>2 DEF Unwritten
        <5>. QED BY <4>2, <5>1, <5>2, <5>3
      <4>. QED BY <2>1, <2>4, <4>1, <4>2
    <3>3. Unwritten(d)'
      BY <2>2, <3>1, <3>2 DEF Unwritten
    <3>4. \A k \in DOMAIN checks' :
            checks'[k] = d \/ (k \in DOMAIN checks /\ checks'[k] = checks[k])
      BY <1>0, <3>2, Replaced
    <3>. QED BY <2>2, <3>3, <3>4 DEF SeenInv, Unwritten
  <2>. QED BY <2>3, <2>4
<1>6. CASE Watch!Tick
  <2>1. /\ DOMAIN checks' = DOMAIN checks /\ size' = size
        /\ \A i \in DOMAIN checks :
             checks'[i] = [checks[i] EXCEPT !.left = IF @ > 0 THEN @ - 1 ELSE 0]
        /\ \A f \in Files : quietFor'[f] = Watch!Older(quietFor[f], CheckTicks)
    BY <1>6 DEF Watch!Tick
  <2>2. SUFFICES ASSUME NEW c \in Watch!Check, Unwritten(c),
                        NEW d, d = [c EXCEPT !.left = IF @ > 0 THEN @ - 1 ELSE 0]
                 PROVE  Unwritten(d)'
    BY <1>0, <2>1 DEF SeenInv
  <2>3. /\ d.file = c.file /\ d.seen = c.seen /\ d.stage = c.stage /\ c.file \in Files
        /\ d.left = IF c.left > 0 THEN c.left - 1 ELSE 0
        /\ c.left \in 0 .. CheckTicks /\ quietFor[c.file] \in 0 .. CheckTicks
    BY <1>0, <2>2 DEF Watch!Check
  <2>4. quietFor'[c.file] = IF quietFor[c.file] < CheckTicks THEN quietFor[c.file] + 1
                                                             ELSE quietFor[c.file]
    BY <2>1, <2>3 DEF Watch!Older
  <2>5. quietFor[c.file] + c.left >= CheckTicks => quietFor'[c.file] + d.left >= CheckTicks
    BY <2>3, <2>4, Times
  <2>. QED BY <2>1, <2>2, <2>3, <2>5 DEF Unwritten
<1>7. CASE UNCHANGED Watch!vars
  BY <1>1, <1>7 DEF Watch!vars, Watch!watcherVars, Watch!historyVars
<1>. QED
  BY <1>2, <1>3, <1>4, <1>5, <1>6, <1>7 DEF Watch!Next, Watch!Rest

LEMMA Seen ==
  ASSUME Watch!SteadyStateConstantsOK
  PROVE  Watch!Spec => []SeenInv
<1>1. Watch!Init => SeenInv
  <2>. SUFFICES ASSUME Watch!Init PROVE SeenInv
    OBVIOUS
  <2>1. DOMAIN checks = {}
    BY DEF Watch!Init
  <2>. QED BY <2>1 DEF SeenInv
<1>2. WatchTypes /\ SeenInv /\ [Watch!Next]_Watch!vars => SeenInv'
  BY NextSeen
<1>. QED BY <1>1, <1>2, Typed, PTL DEF Watch!Spec

(***************************************************************************)
(* Of a file that only grows, a thread that is about to summon it has found*)
(* that nobody had written it for the time of the check, whatever other    *)
(* threads of the file are on their way, or it was written after the       *)
(* thread's second look: for all files, names, times and writes.           *)
(***************************************************************************)
THEOREM SummonsAfterWritingHolds ==
  ASSUME Watch!SteadyStateConstantsOK
  PROVE  Watch!Spec => []Watch!SummonsAfterWriting
<1>1. WatchTypes /\ SeenInv => Watch!SummonsAfterWriting
  <2>. SUFFICES ASSUME WatchTypes, SeenInv, NEW i \in DOMAIN checks,
                       NEW c, c = checks[i], c.stage # "sleeping", c.file \notin Rewritten,
                       size[c.file] = c.seen
                PROVE  quietFor[c.file] >= CheckTicks
    BY DEF Watch!SummonsAfterWriting
  <2>1. quietFor[c.file] + 0 >= CheckTicks
    BY DEF SeenInv, Unwritten
  <2>2. quietFor[c.file] \in Nat
    <3>1. c \in Watch!Check
      BY DEF WatchTypes, Watch!TypeOK
    <3>. QED BY <3>1, Times DEF WatchTypes, Watch!TypeOK, Watch!Check
  <2>. QED BY <2>1, <2>2
<1>. QED BY <1>1, Typed, Seen, PTL

-----------------------------------------------------------------------------
(* What the user writes is not debounced away *)

\* What is to be summoned is there, and no filter drops it.
ComingInv ==
  /\ \A f \in unserved : size[f] > 0 /\ f \notin Ignored
  /\ Watch!SummonsComing

Serves(c) == Watch!WillFire(c) \/ c.stage = "sending"
EventOf(f) == \E i \in DOMAIN events : events[i].file = f
ThreadOf(f) == \E i \in DOMAIN checks : checks[i].file = f /\ Serves(checks[i])
Coming(f) == EventOf(f) \/ ThreadOf(f)

LEMMA ComingIs == Watch!SummonsComing <=> \A f \in unserved \ forgone : Coming(f)
BY DEF Watch!SummonsComing, Coming, EventOf, ThreadOf, Serves

\* A write leads to an event of its file and disturbs nothing of the others.
LEMMA WriteComing ==
  ASSUME Watch!SteadyStateConstantsOK, WatchTypes, ComingInv,
         NEW g \in Files, NEW own \in BOOLEAN, Watch!Written(g, own)
  PROVE  /\ size'[g] > 0 /\ \A f \in Files : size[f] > 0 => size'[f] > 0
         /\ Coming(g)' /\ \A f \in Files \ {g} : Coming(f) => Coming(f)'
<1>0. events \in Seq(Watch!Event) /\ size \in [Files -> 0 .. MaxWrites]
  BY DEF WatchTypes, Watch!TypeOK
<1>1. /\ \/ size' = [size EXCEPT ![g] = size[g] + 1]
         \/ size[g] > 0 /\ size' = size
      /\ events' = Append(events, [file |-> g, own |-> own])
      /\ UNCHANGED <<checks, coolAge, firedBy>>
  BY DEF Watch!Written
<1>2. size'[g] > 0 /\ \A f \in Files : size[f] > 0 => size'[f] > 0
  BY <1>0, <1>1, Times
<1>3. /\ \A i \in DOMAIN events : i \in DOMAIN events' /\ events'[i] = events[i]
      /\ Len(events) + 1 \in DOMAIN events' /\ events'[Len(events) + 1].file = g
  <2>1. /\ Len(events') = Len(events) + 1 /\ DOMAIN events' = 1 .. Len(events')
        /\ DOMAIN events = 1 .. Len(events) /\ Len(events) \in Nat
    BY <1>0, <1>1, AppendProperties
  <2>2. /\ \A i \in 1 .. Len(events) : events'[i] = events[i]
        /\ events'[Len(events) + 1] = [file |-> g, own |-> own]
    BY <1>0, <1>1, AppendProperties
  <2>. QED BY <2>1, <2>2
<1>4. Coming(g)'
  BY <1>3 DEF Coming, EventOf
<1>5. ASSUME NEW f \in Files \ {g}, Coming(f) PROVE Coming(f)'
  <2>1. size'[f] = size[f]
    BY <1>0, <1>1
  <2>2. EventOf(f) => EventOf(f)'
    BY <1>3 DEF EventOf
  <2>3. ThreadOf(f) => ThreadOf(f)'
    BY <1>1, <2>1 DEF ThreadOf, Serves, Watch!WillFire
  <2>. QED BY <1>5, <2>2, <2>3 DEF Coming
<1>. QED BY <1>2, <1>4, <1>5

\* An event becomes a thread, or it is forgone if no other of its file is left.
LEMMA TakeComing ==
  ASSUME Watch!SteadyStateConstantsOK, WatchTypes, ComingInv, Watch!WatcherTakes,
         NEW f \in unserved \ forgone'
  PROVE  Coming(f)'
<1>0. /\ checks \in Seq(Watch!Check) /\ events \in Seq(Watch!Event)
      /\ size \in [Files -> 0 .. MaxWrites] /\ unserved \subseteq Files
      /\ coolAge \in [Names -> 0 .. CooldownTicks]
  BY DEF WatchTypes, Watch!TypeOK
<1>1. PICK e : e = Head(events)
  OBVIOUS
<1>2. /\ e \in Watch!Event /\ Len(events) \in Nat \ {0} /\ e = events[1]
      /\ DOMAIN events = 1 .. Len(events) /\ DOMAIN events' = 1 .. Len(events) - 1
      /\ \A i \in 1 .. Len(events) - 1 : events'[i] = events[i + 1]
  BY <1>0, <1>1, HeadTailProperties DEF Watch!WatcherTakes
<1>3. PICK c : c = [file |-> e.file, own |-> e.own, stage |-> "sleeping",
                    seen |-> size[e.file], left |-> CheckTicks]
  OBVIOUS
<1>4. /\ UNCHANGED <<size, coolAge, firedBy, unserved>>
      /\ \/ /\ Watch!IsOwn(e.file) \/ e.file \in Ignored
            /\ checks' = checks
            /\ (\A i \in DOMAIN events' : events'[i].file # e.file) => e.file \in forgone'
            /\ forgone \subseteq forgone'
         \/ checks' = Append(checks, c) /\ forgone' = forgone
  BY <1>1, <1>3 DEF Watch!WatcherTakes
<1>5. c \in Watch!Check
  BY <1>0, <1>2, <1>3, Times DEF Watch!Event, Watch!Check
<1>6. checks' = Append(checks, c) =>
        /\ \A i \in DOMAIN checks : i \in DOMAIN checks' /\ checks'[i] = checks[i]
        /\ Len(checks) + 1 \in DOMAIN checks' /\ checks'[Len(checks) + 1] = c
  BY <1>0, <1>5, AppendProperties
<1>7. Coming(f)
  BY <1>4, ComingIs DEF ComingInv
<1>8. ThreadOf(f) => ThreadOf(f)'
  <2>1. \A d : Serves(d) => Serves(d)'
    BY <1>4 DEF Serves, Watch!WillFire
  <2>. QED BY <1>4, <1>6, <2>1 DEF ThreadOf
<1>9. ASSUME EventOf(f) PROVE Coming(f)'
  <2>1. PICK i \in 1 .. Len(events) : events[i].file = f
    BY <1>2, <1>9 DEF EventOf
  <2>2. CASE i > 1
    <3>1. i - 1 \in DOMAIN events' /\ events'[i - 1].file = f
      BY <1>2, <2>1, <2>2
    <3>. QED BY <3>1 DEF Coming, EventOf
  <2>3. CASE i = 1
    <3>1. e.file = f
      BY <1>2, <2>1, <2>3
    <3>2. CASE checks' = Append(checks, c)
      <4>1. c.file = f /\ c.seen = size[f] /\ c.left = CheckTicks /\ c.stage = "sleeping"
        BY <1>3, <3>1
      <4>2. coolAge[Name[f]] + CheckTicks >= CooldownTicks
        <5>1. coolAge[Name[f]] \in 0 .. CooldownTicks
          BY <1>0, Times
        <5>. QED BY <5>1, Times
      <4>3. Serves(c)'
        BY <1>4, <4>1, <4>2 DEF Serves, Watch!WillFire
      <4>. QED BY <1>6, <3>2, <4>1, <4>3 DEF Coming, ThreadOf
    <3>3. CASE checks' # Append(checks, c)
      <4>1. \E k \in DOMAIN events' : events'[k].file = f
        BY <1>4, <3>1, <3>3
      <4>. QED BY <4>1 DEF Coming, EventOf
    <3>. QED BY <3>2, <3>3
  <2>. QED BY <1>2, <2>1, <2>2, <2>3
<1>. QED BY <1>7, <1>8, <1>9 DEF Coming

\* A thread that is to summon its file finds it as it was.
LEMMA LookComing ==
  ASSUME Watch!SteadyStateConstantsOK, WatchTypes, ComingInv, Watch!ThreadLooks,
         NEW f \in unserved \ forgone
  PROVE  Coming(f)'
<1>0. checks \in Seq(Watch!Check)
  BY DEF WatchTypes, Watch!TypeOK
<1>1. PICK i \in DOMAIN checks :
        /\ checks[i].stage = "sleeping"
        /\ \/ checks' = [checks EXCEPT ![i].stage = "stable",
                                       ![i].seen = size[checks[i].file]]
           \/ ~Watch!Stable(checks[i]) /\ checks' = Watch!RemoveAt(checks, i)
        /\ UNCHANGED <<size, events, coolAge, firedBy>>
  BY DEF Watch!ThreadLooks, Watch!historyVars
<1>2. Coming(f) /\ (EventOf(f) => EventOf(f)')
  BY <1>1, ComingIs DEF ComingInv, EventOf
<1>3. \A d : Serves(d) => Serves(d)'
  BY <1>1 DEF Serves, Watch!WillFire
<1>4. ASSUME ThreadOf(f) PROVE ThreadOf(f)'
  <2>1. PICK j \in DOMAIN checks : checks[j].file = f /\ Serves(checks[j])
    BY <1>4 DEF ThreadOf
  <2>2. CASE checks' = Watch!RemoveAt(checks, i) /\ ~Watch!Stable(checks[i])
    <3>1. j # i
      <4>1. j = i => checks[i].seen = size[f] /\ size[f] > 0
        BY <1>1, <2>1 DEF Serves, Watch!WillFire, ComingInv
      <4>. QED BY <2>1, <2>2, <4>1 DEF Watch!Stable
    <3>2. PICK k \in DOMAIN checks' : checks'[k] = checks[j]
      BY <1>0, <2>1, <2>2, <3>1, Removed
    <3>. QED BY <1>3, <2>1, <3>2 DEF ThreadOf
  <2>3. CASE checks' = [checks EXCEPT ![i].stage = "stable", ![i].seen = size[checks[i].file]]
    <3>1. DOMAIN checks' = DOMAIN checks /\ (j # i => checks'[j] = checks[j])
      BY <2>1, <2>3
    <3>2. CASE j # i
      BY <1>3, <2>1, <3>1, <3>2 DEF ThreadOf
    <3>3. CASE j = i
      <4>1. checks[i] \in Watch!Check /\ checks[i].seen = size[f]
        BY <1>0, <1>1, <2>1, <3>3 DEF Serves, Watch!WillFire
      <4>2. /\ checks'[i].file = f /\ checks'[i].seen = checks[i].seen
            /\ checks'[i].left = checks[i].left /\ checks'[i].stage = "stable"
        BY <2>1, <2>3, <3>3, <4>1 DEF Watch!Check
      <4>3. Watch!WillFire(checks[i])
        BY <1>1, <2>1, <3>3 DEF Serves
      <4>4. Serves(checks[i])'
        BY <1>1, <2>1, <3>3, <4>2, <4>3 DEF Serves, Watch!WillFire
      <4>. QED BY <2>1, <3>1, <3>3, <4>2, <4>4 DEF ThreadOf
    <3>. QED BY <3>2, <3>3
  <2>. QED BY <1>1, <2>2, <2>3
<1>. QED BY <1>2, <1>4 DEF Coming

\* A cooldown that the file's own thread has begun comes with a summons, and
\* a thread that meets a namesake's leaves its file forgone.
LEMMA FireComing ==
  ASSUME Watch!SteadyStateConstantsOK, WatchTypes, SeenInv, ComingInv, Watch!ThreadFires,
         NEW f \in unserved \ forgone'
  PROVE  Coming(f)'
<1>0. /\ checks \in Seq(Watch!Check) /\ unserved \subseteq Files
      /\ coolAge \in [Names -> 0 .. CooldownTicks] /\ firedBy \in [Names -> SUBSET Files]
  BY DEF WatchTypes, Watch!TypeOK
<1>a. PICK i \in DOMAIN checks :
        /\ checks[i].stage = "stable"
        /\ \/ /\ coolAge' = [coolAge EXCEPT ![Name[checks[i].file]] = 0]
              /\ firedBy' = [firedBy EXCEPT ![Name[checks[i].file]] = {checks[i].file}]
              /\ checks' = [checks EXCEPT ![i].stage = "sending"]
           \/ /\ coolAge[Name[checks[i].file]] # CooldownTicks
              /\ checks' = Watch!RemoveAt(checks, i)
              /\ checks[i].seen = size[checks[i].file]
                   /\ checks[i].file \notin firedBy[Name[checks[i].file]]
                     => checks[i].file \in forgone'
              /\ UNCHANGED <<coolAge, firedBy>>
        /\ forgone \subseteq forgone' /\ UNCHANGED <<size, events>>
  BY DEF Watch!ThreadFires, Watch!Cool
<1>1. PICK c, n :
        /\ c = checks[i] /\ n = Name[c.file] /\ c.stage = "stable"
        /\ \/ /\ coolAge' = [coolAge EXCEPT ![n] = 0]
              /\ firedBy' = [firedBy EXCEPT ![n] = {c.file}]
              /\ checks' = [checks EXCEPT ![i].stage = "sending"]
           \/ /\ coolAge[n] # CooldownTicks
              /\ checks' = Watch!RemoveAt(checks, i)
              /\ c.seen = size[c.file] /\ c.file \notin firedBy[n] => c.file \in forgone'
              /\ UNCHANGED <<coolAge, firedBy>>
        /\ forgone \subseteq forgone' /\ UNCHANGED <<size, events>>
  BY <1>a
<1>2. Coming(f) /\ (EventOf(f) => EventOf(f)')
  BY <1>1, ComingIs DEF ComingInv, EventOf
<1>3. c \in Watch!Check /\ c.file \in Files /\ n \in Names /\ f \in Files /\ Name[f] \in Names
  <2>1. c \in Watch!Check /\ f \in Files
    BY <1>0, <1>1
  <2>2. c.file \in Files
    BY <2>1 DEF Watch!Check
  <2>. QED BY <1>1, <2>1, <2>2, Times
<1>4. ASSUME ThreadOf(f) PROVE ThreadOf(f)'
  <2>1. PICK j \in DOMAIN checks : checks[j].file = f /\ Serves(checks[j])
    BY <1>4 DEF ThreadOf
  <2>2. CASE coolAge[n] # CooldownTicks /\ UNCHANGED <<coolAge, firedBy>>
             /\ checks' = Watch!RemoveAt(checks, i)
             /\ (c.seen = size[c.file] /\ c.file \notin firedBy[n] => c.file \in forgone')
    <3>1. j # i
      <4>. SUFFICES ASSUME j = i PROVE FALSE
        OBVIOUS
      <4>1. c.file = f /\ Watch!WillFire(c) /\ c.left = 0
        BY <1>1, <2>1 DEF Serves, SeenInv, Unwritten
      <4>2. c.seen = size[f] /\ f \in firedBy[n] /\ n = Name[f] => FALSE
        <5>1. coolAge[n] \in 0 .. CooldownTicks /\ coolAge[n] # CooldownTicks
          BY <1>0, <1>3, <2>2
        <5>. QED BY <4>1, <5>1, Times DEF Watch!WillFire
      <4>. QED BY <1>1, <2>2, <4>1, <4>2 DEF Watch!WillFire
    <3>2. PICK k \in DOMAIN checks' : checks'[k] = checks[j]
      BY <1>0, <2>1, <2>2, <3>1, Removed
    <3>3. \A d : Serves(d) => Serves(d)'
      BY <1>1, <2>2 DEF Serves, Watch!WillFire
    <3>. QED BY <2>1, <3>2, <3>3 DEF ThreadOf
  <2>3. CASE /\ coolAge' = [coolAge EXCEPT ![n] = 0]
             /\ firedBy' = [firedBy EXCEPT ![n] = {c.file}]
             /\ checks' = [checks EXCEPT ![i].stage = "sending"]
    <3>1. /\ DOMAIN checks' = DOMAIN checks /\ (j # i => checks'[j] = checks[j])
          /\ checks'[i].file = c.file /\ checks'[i].stage = "sending"
      BY <1>1, <1>3, <2>1, <2>3 DEF Watch!Check
    <3>2. CASE c.file = f
      BY <3>1, <3>2 DEF ThreadOf, Serves
    <3>3. CASE c.file # f
      <4>1. PICK d : d = checks[j]
        OBVIOUS
      <4>2. d.file = f /\ checks'[j] = d /\ Serves(d)
        BY <1>1, <2>1, <3>1, <3>3, <4>1
      <4>3. /\ Name[f] = n => f \notin firedBy'[n]
            /\ Name[f] # n => coolAge'[Name[f]] = coolAge[Name[f]]
                              /\ firedBy'[Name[f]] = firedBy[Name[f]]
        BY <1>0, <1>3, <2>3, <3>3
      <4>4. Serves(d)'
        BY <1>1, <4>2, <4>3 DEF Serves, Watch!WillFire
      <4>. QED BY <2>1, <3>1, <4>2, <4>4 DEF ThreadOf
    <3>. QED BY <3>2, <3>3
  <2>. QED BY <1>1, <2>2, <2>3
<1>. QED BY <1>2, <1>4 DEF Coming

\* What is sent is of another file.
LEMMA SendComing ==
  ASSUME Watch!SteadyStateConstantsOK, WatchTypes, ComingInv, Watch!ThreadSends,
         NEW f \in unserved' \ forgone
  PROVE  Coming(f)'
<1>0. checks \in Seq(Watch!Check)
  BY DEF WatchTypes, Watch!TypeOK
<1>1. PICK i \in DOMAIN checks :
        /\ checks' = Watch!RemoveAt(checks, i) /\ unserved' = unserved \ {checks[i].file}
        /\ UNCHANGED <<size, events, coolAge, firedBy>>
  BY DEF Watch!ThreadSends
<1>2. Coming(f) /\ (EventOf(f) => EventOf(f)') /\ f # checks[i].file
  BY <1>1, ComingIs DEF ComingInv, EventOf
<1>3. \A d : Serves(d) => Serves(d)'
  BY <1>1 DEF Serves, Watch!WillFire
<1>4. ASSUME ThreadOf(f) PROVE ThreadOf(f)'
  <2>1. PICK j \in DOMAIN checks : checks[j].file = f /\ Serves(checks[j])
    BY <1>4 DEF ThreadOf
  <2>2. j \in DOMAIN checks \ {i}
    BY <1>2, <2>1
  <2>3. PICK k \in DOMAIN checks' : checks'[k] = checks[j]
    BY <1>0, <1>1, <2>2, Removed
  <2>. QED BY <1>3, <2>1, <2>3 DEF ThreadOf
<1>. QED BY <1>2, <1>4 DEF Coming

\* Time makes the cooldown older by as much as it takes from the sleep.
LEMMA TickComing ==
  ASSUME Watch!SteadyStateConstantsOK, WatchTypes, ComingInv, Watch!Tick,
         NEW f \in unserved \ forgone
  PROVE  Coming(f)'
<1>0. /\ checks \in Seq(Watch!Check) /\ unserved \subseteq Files
      /\ coolAge \in [Names -> 0 .. CooldownTicks]
  BY DEF WatchTypes, Watch!TypeOK
<1>1. /\ UNCHANGED <<size, events, firedBy>> /\ DOMAIN checks' = DOMAIN checks
      /\ \A i \in DOMAIN checks :
           checks'[i] = [checks[i] EXCEPT !.left = IF @ > 0 THEN @ - 1 ELSE 0]
      /\ \A n \in Names : coolAge'[n] = Watch!Older(coolAge[n], CooldownTicks)
  BY DEF Watch!Tick
<1>2. Coming(f) /\ (EventOf(f) => EventOf(f)')
  BY <1>1, ComingIs DEF ComingInv, EventOf
<1>3. ASSUME ThreadOf(f) PROVE ThreadOf(f)'
  <2>1. PICK i \in DOMAIN checks : checks[i].file = f /\ Serves(checks[i])
    BY <1>3 DEF ThreadOf
  <2>2. PICK c, d, n : c = checks[i] /\ d = checks'[i] /\ n = Name[f]
    OBVIOUS
  <2>3. /\ d.file = f /\ d.seen = c.seen /\ d.stage = c.stage /\ c.file = f
        /\ d.left = IF c.left > 0 THEN c.left - 1 ELSE 0
        /\ c.left \in 0 .. CheckTicks
    <3>1. c \in Watch!Check /\ c.file = f
      BY <1>0, <2>1, <2>2
    <3>2. d = [c EXCEPT !.left = IF @ > 0 THEN @ - 1 ELSE 0]
      BY <1>1, <2>2
    <3>. QED BY <3>1, <3>2 DEF Watch!Check
  <2>4. /\ coolAge[n] \in 0 .. CooldownTicks
        /\ coolAge'[n] = IF coolAge[n] < CooldownTicks THEN coolAge[n] + 1 ELSE coolAge[n]
    BY <1>0, <1>1, <2>2, Times DEF Watch!Older
  <2>5. coolAge[n] + c.left >= CooldownTicks => coolAge'[n] + d.left >= CooldownTicks
    BY <2>3, <2>4, Times
  <2>6. Serves(c)
    BY <2>1, <2>2
  <2>7. Serves(d)'
    BY <1>1, <2>2, <2>3, <2>5, <2>6 DEF Serves, Watch!WillFire
  <2>8. i \in DOMAIN checks' /\ checks'[i] = d
    BY <1>1, <2>2
  <2>. QED BY <2>3, <2>7, <2>8 DEF ThreadOf
<1>. QED BY <1>2, <1>3 DEF Coming

LEMMA NextComing ==
  ASSUME Watch!SteadyStateConstantsOK, WatchTypes, SeenInv, ComingInv,
         [Watch!Next]_Watch!vars
  PROVE  ComingInv'
<1>0. unserved \subseteq Files /\ EngineFiles \subseteq Files
  BY DEF WatchTypes, Watch!TypeOK, Watch!SteadyStateConstantsOK
<1>1. CASE Watch!UserWrites
  <2>1. PICK g \in Files : /\ Watch!Written(g, FALSE) /\ forgone' = forgone \ {g}
                           /\ unserved' = unserved \cup ({g} \ Ignored)
    BY <1>1 DEF Watch!UserWrites
  <2>2. \A f \in unserved' : size'[f] > 0 /\ f \notin Ignored
    BY <1>0, <2>1, WriteComing DEF ComingInv
  <2>3. ASSUME NEW f \in unserved' \ forgone' PROVE Coming(f)'
    <3>1. CASE f = g
      BY <2>1, <3>1, WriteComing
    <3>2. CASE f # g
      <4>1. f \in Files \ {g} /\ Coming(f)
        BY <1>0, <2>1, <2>3, <3>2, ComingIs DEF ComingInv
      <4>. QED BY <2>1, <4>1, WriteComing
    <3>. QED BY <3>1, <3>2
  <2>. QED
    BY <2>2, <2>3 DEF ComingInv, Watch!SummonsComing, Coming, EventOf, ThreadOf, Serves
<1>2. CASE Watch!EngineWrites
  <2>1. PICK g \in Files : Watch!Written(g, TRUE) /\ UNCHANGED <<unserved, forgone>>
    BY <1>0, <1>2 DEF Watch!EngineWrites
  <2>2. \A f \in unserved' : size'[f] > 0 /\ f \notin Ignored
    BY <1>0, <2>1, WriteComing DEF ComingInv
  <2>3. ASSUME NEW f \in unserved' \ forgone' PROVE Coming(f)'
    <3>1. CASE f = g
      BY <2>1, <3>1, WriteComing
    <3>2. CASE f # g
      <4>1. f \in Files \ {g} /\ Coming(f)
        BY <1>0, <2>1, <2>3, <3>2, ComingIs DEF ComingInv
      <4>. QED BY <2>1, <4>1, WriteComing
    <3>. QED BY <3>1, <3>2
  <2>. QED
    BY <2>2, <2>3 DEF ComingInv, Watch!SummonsComing, Coming, EventOf, ThreadOf, Serves
<1>3. CASE Watch!WatcherTakes
  <2>1. UNCHANGED <<size, unserved>>
    BY <1>3 DEF Watch!WatcherTakes
  <2>2. \A f \in unserved' \ forgone' : Coming(f)'
    BY <1>3, <2>1, TakeComing
  <2>. QED
    BY <2>1, <2>2 DEF ComingInv, Watch!SummonsComing, Coming, EventOf, ThreadOf, Serves
<1>4. CASE Watch!ThreadLooks
  <2>1. UNCHANGED <<size, unserved, forgone>>
    BY <1>4 DEF Watch!ThreadLooks, Watch!historyVars
  <2>2. \A f \in unserved' \ forgone' : Coming(f)'
    BY <1>4, <2>1, LookComing
  <2>. QED
    BY <2>1, <2>2 DEF ComingInv, Watch!SummonsComing, Coming, EventOf, ThreadOf, Serves
<1>5. CASE Watch!ThreadFires
  <2>1. UNCHANGED <<size, unserved>>
    BY <1>5 DEF Watch!ThreadFires
  <2>2. \A f \in unserved' \ forgone' : Coming(f)'
    BY <1>5, <2>1, FireComing
  <2>. QED
    BY <2>1, <2>2 DEF ComingInv, Watch!SummonsComing, Coming, EventOf, ThreadOf, Serves
<1>6. CASE Watch!ThreadSends
  <2>1. UNCHANGED <<size, forgone>> /\ unserved' \subseteq unserved
    BY <1>6 DEF Watch!ThreadSends
  <2>2. \A f \in unserved' \ forgone' : Coming(f)'
    BY <1>6, <2>1, SendComing
  <2>. QED
    BY <2>1, <2>2 DEF ComingInv, Watch!SummonsComing, Coming, EventOf, ThreadOf, Serves
<1>7. CASE Watch!Tick
  <2>1. UNCHANGED <<size, unserved, forgone>>
    BY <1>7 DEF Watch!Tick
  <2>2. \A f \in unserved' \ forgone' : Coming(f)'
    BY <1>7, <2>1, TickComing
  <2>. QED
    BY <2>1, <2>2 DEF ComingInv, Watch!SummonsComing, Coming, EventOf, ThreadOf, Serves
<1>8. CASE Watch!EngineMarks \/ UNCHANGED Watch!vars
  <2>1. UNCHANGED <<size, events, checks, coolAge, unserved, firedBy, forgone>>
    BY <1>8 DEF Watch!EngineMarks, Watch!vars, Watch!watcherVars, Watch!historyVars
  <2>. QED BY <2>1 DEF ComingInv, Watch!SummonsComing, Watch!WillFire
<1>. QED
  BY <1>1, <1>2, <1>3, <1>4, <1>5, <1>6, <1>7, <1>8 DEF Watch!Next, Watch!Rest

(***************************************************************************)
(* As long as a file the user has written is not summoned, an event or a   *)
(* thread is on its way that will, or it was forgone: no order of writes,  *)
(* threads and cooldowns drops the last of them, but a mark of the engine  *)
(* or the cooldown of a namesake; for all files, names, times and bounds.  *)
(***************************************************************************)
THEOREM SummonsComingHolds ==
  ASSUME Watch!SteadyStateConstantsOK
  PROVE  Watch!Spec => []Watch!SummonsComing
<1>1. Watch!Init => ComingInv
  BY DEF Watch!Init, ComingInv, Watch!SummonsComing
<1>2. WatchTypes /\ SeenInv /\ ComingInv /\ [Watch!Next]_Watch!vars => ComingInv'
  BY NextComing
<1>3. ComingInv => Watch!SummonsComing
  BY DEF ComingInv
<1>. QED BY <1>1, <1>2, <1>3, Typed, Seen, PTL DEF Watch!Spec
=============================================================================
