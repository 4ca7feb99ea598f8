---------------------------- MODULE EditorProofs ----------------------------
(***************************************************************************)
(* Theorems about the Forge's window for any first ledger, names, kinds of *)
(* steps, texts, paths and bounds: the types, that a decree is saved as it *)
(* was opened, that no step gets into two decrees, that what the ledger    *)
(* holds is listed and that a change of a ward finds its row.              *)
(***************************************************************************)
EXTENDS Editor, SequenceTheorems, FiniteSetTheorems, WellFoundedInduction, TLAPS

-----------------------------------------------------------------------------
(* What every variable holds *)

\* The labels there can be after n edits.
Seen(n) == {NoLabel} \cup 1 .. n \cup Names

DecreeOK(d, n) == Sound(d) /\ d.label \in Seen(n) /\ Len(d.nodes) <= MaxSteps

Table(t) ==
  IsFiniteSet(DOMAIN t) /\ DOMAIN t \subseteq Paths /\ \A p \in DOMAIN t : t[p] \in BOOLEAN

LedgerOK(l, n) ==
  /\ l = [decrees |-> l.decrees, wards |-> l.wards]
  /\ IsFiniteSet(DOMAIN l.decrees) /\ DOMAIN l.decrees \subseteq DecreeIds
  /\ \A id \in DOMAIN l.decrees : DecreeOK(l.decrees[id], n)
  /\ Table(l.wards)

RowSet(n) == [id: DecreeIds, label: Seen(n)]
WardSet == [id: WardIds, path: Paths \cup {""}, recursive: BOOLEAN]

EdOK(e, n) ==
  /\ e \in [id: DecreeIds \cup {NoId}, label: Seen(n), status: {0, 1}, type: Triggers,
             field: [Fields -> Paths \cup {"", "x"}], recursive: BOOLEAN, presence: BOOLEAN]
  /\ e.field["file"] \in Paths \cup {""}

CommandOK(cmd, n) ==
  \/ /\ cmd.kind = "save" /\ cmd.id \in DecreeIds
     /\ DecreeOK(cmd.decree, n) /\ Valid(cmd.decree)
  \/ cmd.kind = "remove"
  \/ cmd.kind = "rename" /\ cmd.label \in Names
  \/ cmd.kind = "wards" /\ Table(cmd.table)

EditorTypes ==
  /\ edits \in 0 .. MaxEdits
  /\ LedgerOK(ledger, edits)
  /\ rows \in Seq(RowSet(edits)) /\ wards \in Seq(WardSet) /\ EdOK(ed, edits)
  /\ steps \in Seq(Step) /\ Len(steps) <= MaxSteps
  /\ \A cmd \in commands : CommandOK(cmd, edits)
  /\ told \in BOOLEAN /\ dirty \in BOOLEAN /\ missed \in BOOLEAN

-----------------------------------------------------------------------------
(* Whose a step is *)

StepIds(nodes) == {nodes[i].id : i \in DOMAIN nodes}

\* The step is in the decree of this id: in the ledger, in a command, in the window.
InLedger(id, n) == id \in DOMAIN ledger.decrees /\ n \in StepIds(ledger.decrees[id].nodes)
Sent(id, n) ==
  \E cmd \in commands : cmd.kind = "save" /\ cmd.id = id /\ n \in StepIds(cmd.decree.nodes)
InWindow(id, n) == id = ed.id /\ n \in StepIds(steps)
Has(id, n) == InLedger(id, n) \/ Sent(id, n) \/ InWindow(id, n)

\* A step has one decree, the next to be appended has none yet, and without an
\* active decree there is no step.
OwnInv ==
  /\ \A a, b \in DecreeIds, n \in Nat : Has(a, n) /\ Has(b, n) => a = b
  /\ \A a \in DecreeIds, n \in Nat : Has(a, n) => n < edits \/ n > MaxEdits
  /\ ed.id = NoId => steps = <<>>

ListedInv == told \/ missed \/ DOMAIN ledger.decrees \subseteq {rows[i].id : i \in DOMAIN rows}

WardRowsInv ==
  /\ WardRowsDiffer
  /\ \A i \in DOMAIN wards, n \in Nat : wards[i].id = <<"id", n>> => n < edits

-----------------------------------------------------------------------------
(* Ranks, and the lists that show the ledger *)

\* How many elements of K are below i.
Rank(K, i) == Cardinality({j \in K : j < i})

\* The elements of a finite set of numbers are counted by their ranks.
LEMMA Ranks ==
  ASSUME NEW K \in SUBSET Nat, IsFiniteSet(K)
  PROVE  /\ Cardinality(K) \in Nat
         /\ \A i \in K : Rank(K, i) \in 0 .. Cardinality(K) - 1
         /\ \A i, j \in K : Rank(K, i) = Rank(K, j) => i = j
         /\ \A n \in 1 .. Cardinality(K) : \E i \in K : Rank(K, i) = n - 1
<1>1. Cardinality(K) \in Nat
  BY FS_CardinalityType
<1>2. \A i \in K : Rank(K, i) \in Nat /\ Rank(K, i) < Cardinality(K)
  <2>1. ASSUME NEW i \in K
        PROVE  Rank(K, i) \in Nat /\ Rank(K, i) < Cardinality(K)
    <3>. DEFINE below == {j \in K : j < i}
    <3>1. below \in SUBSET K /\ below # K
      OBVIOUS
    <3>. HIDE DEF below
    <3>2. IsFiniteSet(below) /\ Cardinality(below) <= Cardinality(K)
          /\ Cardinality(K) # Cardinality(below)
      BY <3>1, FS_Subset
    <3>3. Cardinality(below) \in Nat
      BY <3>2, FS_CardinalityType
    <3>4. Cardinality(below) < Cardinality(K)
      BY <1>1, <3>2, <3>3
    <3>. QED BY <3>3, <3>4 DEF Rank, below
  <2>. QED BY <2>1
<1>3. \A i, j \in K : i < j => Rank(K, i) < Rank(K, j)
  <2>1. ASSUME NEW i \in K, NEW j \in K, i < j
        PROVE  Rank(K, i) < Rank(K, j)
    <3>. DEFINE low == {k \in K : k < i}
               high == {k \in K : k < j}
    <3>1. i \in Nat /\ j \in Nat /\ \A k \in K : k \in Nat
      OBVIOUS
    <3>2. \A k \in K : k < i => k < j
      BY <2>1, <3>1
    <3>3. low \in SUBSET high /\ i \in high /\ i \notin low /\ high \in SUBSET K
      <4>1. low \in SUBSET high /\ high \in SUBSET K
        BY <3>2
      <4>2. i \in high /\ i \notin low
        BY <2>1, <3>1
      <4>. QED BY <4>1, <4>2
    <3>. HIDE DEF low, high
    <3>4. IsFiniteSet(high)
      BY <3>3, FS_Subset
    <3>5. Cardinality(low) <= Cardinality(high) /\ Cardinality(high) # Cardinality(low)
      BY <3>3, <3>4, FS_Subset
    <3>6. Rank(K, i) = Cardinality(low) /\ Rank(K, j) = Cardinality(high)
      BY DEF Rank, low, high
    <3>7. Rank(K, i) \in Nat /\ Rank(K, j) \in Nat
      BY <1>2
    <3>. QED BY <3>5, <3>6, <3>7
  <2>. QED BY <2>1
<1>4. \A i, j \in K : Rank(K, i) = Rank(K, j) => i = j
  <2>1. \A i \in K : i \in Nat
    OBVIOUS
  <2>2. \A m, n \in Nat : m = n => ~(m < n)
    OBVIOUS
  <2>. QED BY <1>2, <1>3, <2>1, <2>2
<1>5. ASSUME NEW n \in 1 .. Cardinality(K)
      PROVE  \E i \in K : Rank(K, i) = n - 1
  <2>. DEFINE c == Cardinality(K)
             f == [i \in K |-> Rank(K, i)]
  <2>1. f \in Injection(K, 0 .. c - 1)
    BY <1>1, <1>2, <1>4 DEF Injection, IsInjective
  <2>2. IsFiniteSet(0 .. c - 1) /\ Cardinality(0 .. c - 1) = c
    <3>1. 0 \in Int /\ c - 1 \in Int
      BY <1>1
    <3>. QED BY <1>1, <1>5, <3>1, FS_Interval
  <2>3. f \in Surjection(K, 0 .. c - 1)
    BY <2>1, <2>2, FS_Injection
  <2>4. n - 1 \in 0 .. c - 1
    BY <1>1
  <2>5. \E i \in K : f[i] = n - 1
    BY <2>3, <2>4 DEF Surjection
  <2>. QED BY <2>5
<1>. QED BY <1>1, <1>2, <1>4, <1>5

LEMMA SetSeq ==
  ASSUME NEW S, IsFiniteSet(S)
  PROVE  /\ SetToSeq(S) \in Seq(S) /\ IsInjective(SetToSeq(S))
         /\ \A x \in S : \E i \in DOMAIN SetToSeq(S) : SetToSeq(S)[i] = x
<1>. DEFINE c == Cardinality(S)
<1>1. c \in Nat /\ ExistsBijection(1 .. c, S)
  BY FS_CardinalityType
<1>2. \E f \in [1 .. c -> S] : IsInjective(f)
  BY <1>1 DEF ExistsBijection, Bijection, Injection
<1>3. SetToSeq(S) \in [1 .. c -> S] /\ IsInjective(SetToSeq(S))
  BY <1>2 DEF SetToSeq
<1>4. SetToSeq(S) \in Injection(1 .. c, S)
  BY <1>3 DEF Injection
<1>5. Cardinality(1 .. c) = c
  BY <1>1, FS_Interval
<1>6. SetToSeq(S) \in Surjection(1 .. c, S)
  BY <1>4, <1>5, FS_Injection
<1>. QED BY <1>1, <1>3, <1>6 DEF Surjection

Ids(list) == {list[i].id : i \in DOMAIN list}

Distinct(list) == IsInjective([i \in DOMAIN list |-> list[i].id])

\* Two lists, one after the other.
LEMMA Joined ==
  ASSUME NEW R, NEW s \in Seq(R), NEW t \in Seq(R)
  PROVE  /\ s \o t \in Seq(R) /\ Ids(s \o t) = Ids(s) \cup Ids(t)
         /\ Distinct(s) /\ Distinct(t) /\ Ids(s) \cap Ids(t) = {} => Distinct(s \o t)
<1>. DEFINE u == s \o t
<1>1. /\ u \in Seq(R) /\ Len(u) = Len(s) + Len(t) /\ Len(s) \in Nat /\ Len(t) \in Nat
      /\ DOMAIN u = 1 .. Len(u) /\ DOMAIN s = 1 .. Len(s) /\ DOMAIN t = 1 .. Len(t)
  OBVIOUS
<1>2. \A i \in DOMAIN s : i \in DOMAIN u /\ u[i] = s[i]
  OBVIOUS
<1>3. \A i \in DOMAIN t : Len(s) + i \in DOMAIN u /\ u[Len(s) + i] = t[i]
  OBVIOUS
<1>4. \A i \in DOMAIN u : \/ i \in DOMAIN s
                          \/ \E j \in DOMAIN t : i = Len(s) + j
  <2>1. ASSUME NEW i \in DOMAIN u, i \notin DOMAIN s
        PROVE  i - Len(s) \in DOMAIN t /\ i = Len(s) + (i - Len(s))
    BY <1>1, <2>1
  <2>. QED BY <2>1
<1>. HIDE DEF u
<1>5. Ids(u) = Ids(s) \cup Ids(t)
  BY <1>2, <1>3, <1>4 DEF Ids
<1>6. ASSUME Distinct(s), Distinct(t), Ids(s) \cap Ids(t) = {}
      PROVE  Distinct(u)
  <2>1. ASSUME NEW i \in DOMAIN u, NEW j \in DOMAIN u, u[i].id = u[j].id
        PROVE  i = j
    <3>1. CASE i \in DOMAIN s /\ j \in DOMAIN s
      BY <1>2, <1>6, <2>1, <3>1 DEF Distinct, IsInjective
    <3>2. CASE i \in DOMAIN s /\ j \notin DOMAIN s
      <4>1. u[i].id \in Ids(s)
        BY <1>2, <3>2 DEF Ids
      <4>2. u[j].id \in Ids(t)
        BY <1>3, <1>4, <3>2 DEF Ids
      <4>. QED BY <1>6, <2>1, <4>1, <4>2
    <3>3. CASE i \notin DOMAIN s /\ j \in DOMAIN s
      <4>1. u[j].id \in Ids(s)
        BY <1>2, <3>3 DEF Ids
      <4>2. u[i].id \in Ids(t)
        BY <1>3, <1>4, <3>3 DEF Ids
      <4>. QED BY <1>6, <2>1, <4>1, <4>2
    <3>4. CASE i \notin DOMAIN s /\ j \notin DOMAIN s
      BY <1>3, <1>4, <1>6, <2>1, <3>4 DEF Distinct, IsInjective
    <3>. QED BY <3>1, <3>2, <3>3, <3>4
  <2>. QED BY <2>1 DEF Distinct, IsInjective
<1>. QED BY <1>1, <1>5, <1>6 DEF u

\* Of a list that is read again: it shows what the ledger holds and nothing else, and its
\* rows keep different ids.
LEMMA SyncedRows ==
  ASSUME NEW R, NEW list \in Seq(R), NEW row, IsFiniteSet(DOMAIN row),
         \A id \in DOMAIN row : row[id] \in R /\ row[id].id = id
  PROVE  /\ Synced(list, row) \in Seq(R) /\ Ids(Synced(list, row)) = DOMAIN row
         /\ Distinct(list) => Distinct(Synced(list, row))
<1>. DEFINE kept == {i \in DOMAIN list : list[i].id \in DOMAIN row}
           at(n) == CHOOSE i \in kept : Cardinality({j \in kept : j < i}) = n - 1
           last(i) == \A j \in i + 1 .. Len(list) : list[j].id # list[i].id
           fresh == DOMAIN row \ {list[i].id : i \in DOMAIN list}
           new == SetToSeq(fresh)
           front == [n \in 1 .. Cardinality(kept) |->
                       IF last(at(n)) THEN row[list[at(n)].id] ELSE list[at(n)]]
           back == [n \in DOMAIN new |-> row[new[n]]]
<1>1. kept \in SUBSET Nat /\ IsFiniteSet(kept)
  <2>1. kept \in SUBSET (1 .. Len(list)) /\ Len(list) \in Nat
    OBVIOUS
  <2>. HIDE DEF kept
  <2>2. IsFiniteSet(1 .. Len(list)) /\ 1 .. Len(list) \in SUBSET Nat
    BY <2>1, FS_Interval
  <2>. QED BY <2>1, <2>2, FS_Subset
<1>2. /\ Cardinality(kept) \in Nat
      /\ \A i \in kept : Rank(kept, i) \in 0 .. Cardinality(kept) - 1
      /\ \A i, j \in kept : Rank(kept, i) = Rank(kept, j) => i = j
      /\ \A n \in 1 .. Cardinality(kept) : \E i \in kept : Rank(kept, i) = n - 1
  <2>. HIDE DEF kept
  <2>. QED BY <1>1, Ranks
<1>3. \A n \in 1 .. Cardinality(kept) : at(n) \in kept /\ Rank(kept, at(n)) = n - 1
  <2>. HIDE DEF kept
  <2>. QED BY <1>2 DEF Rank
<1>. HIDE DEF at
<1>4. \A i \in kept : \E n \in 1 .. Cardinality(kept) : at(n) = i
  <2>. HIDE DEF kept
  <2>1. ASSUME NEW i \in kept
        PROVE  Rank(kept, i) + 1 \in 1 .. Cardinality(kept) /\ at(Rank(kept, i) + 1) = i
    <3>1. /\ Rank(kept, i) + 1 \in 1 .. Cardinality(kept)
          /\ Rank(kept, i) + 1 - 1 = Rank(kept, i)
      BY <1>2
    <3>. QED BY <1>2, <1>3, <3>1
  <2>. QED BY <2>1
<1>5. \A m, n \in 1 .. Cardinality(kept) : at(m) = at(n) => m = n
  <2>. HIDE DEF kept
  <2>. QED BY <1>2, <1>3
<1>6. /\ front \in Seq(R) /\ DOMAIN front = 1 .. Cardinality(kept)
      /\ \A n \in DOMAIN front : front[n].id = list[at(n)].id
  <2>1. ASSUME NEW n \in 1 .. Cardinality(kept)
        PROVE  front[n] \in R /\ front[n].id = list[at(n)].id
    <3>1. at(n) \in DOMAIN list /\ list[at(n)].id \in DOMAIN row /\ list[at(n)] \in R
      BY <1>3
    <3>. HIDE DEF kept, last
    <3>. QED BY <3>1
  <2>. HIDE DEF kept, last
  <2>2. front \in [1 .. Cardinality(kept) -> R]
    BY <2>1
  <2>. QED BY <1>2, <2>1, <2>2
<1>. HIDE DEF front
<1>7. IsFiniteSet(fresh)
  <2>1. fresh \in SUBSET (DOMAIN row)
    OBVIOUS
  <2>. QED BY <2>1, FS_Subset
<1>8. /\ new \in Seq(fresh) /\ IsInjective(new)
      /\ \A x \in fresh : \E i \in DOMAIN new : new[i] = x
  <2>. HIDE DEF fresh
  <2>. QED BY <1>7, SetSeq
<1>. HIDE DEF new
<1>9. /\ back \in Seq(R) /\ DOMAIN back = DOMAIN new
      /\ \A n \in DOMAIN new : back[n].id = new[n] /\ new[n] \in fresh
  <2>1. \A n \in DOMAIN new : new[n] \in fresh /\ row[new[n]] \in R /\ row[new[n]].id = new[n]
    BY <1>8
  <2>2. DOMAIN new = 1 .. Len(new) /\ Len(new) \in Nat
    BY <1>8
  <2>3. back \in [1 .. Len(new) -> R]
    BY <2>1, <2>2
  <2>. QED BY <2>1, <2>2, <2>3
<1>. HIDE DEF back
<1>10. Synced(list, row) = front \o back
  BY DEF Synced, front, back, new, at
<1>11. Ids(front) = DOMAIN row \cap Ids(list)
  <2>1. Ids(front) \subseteq DOMAIN row \cap Ids(list)
    BY <1>3, <1>6 DEF Ids
  <2>2. DOMAIN row \cap Ids(list) \subseteq Ids(front)
    BY <1>4, <1>6 DEF Ids
  <2>. QED BY <2>1, <2>2
<1>12. Ids(back) = fresh
  <2>. HIDE DEF fresh
  <2>1. Ids(back) \subseteq fresh
    BY <1>9 DEF Ids
  <2>2. \A x \in fresh : \E i \in DOMAIN back : back[i].id = x
    BY <1>8, <1>9
  <2>. QED BY <2>1, <2>2 DEF Ids
<1>13. Distinct(back)
  <2>. HIDE DEF fresh
  <2>. QED BY <1>8, <1>9 DEF Distinct, IsInjective
<1>14. ASSUME Distinct(list)
       PROVE  Distinct(front)
  <2>1. \A n \in DOMAIN front : at(n) \in DOMAIN list
    BY <1>3, <1>6
  <2>. HIDE DEF kept
  <2>. QED BY <1>5, <1>6, <1>14, <2>1 DEF Distinct, IsInjective
<1>15. Ids(front) \cap Ids(back) = {} /\ Ids(front) \cup Ids(back) = DOMAIN row
  BY <1>11, <1>12 DEF Ids
<1>16. /\ front \o back \in Seq(R) /\ Ids(front \o back) = DOMAIN row
       /\ Distinct(front) /\ Distinct(back) => Distinct(front \o back)
  <2>. HIDE DEF kept, fresh
  <2>1. front \in Seq(R) /\ back \in Seq(R)
    BY <1>6, <1>9
  <2>2. /\ front \o back \in Seq(R) /\ Ids(front \o back) = Ids(front) \cup Ids(back)
        /\ Distinct(front) /\ Distinct(back) /\ Ids(front) \cap Ids(back) = {}
             => Distinct(front \o back)
    BY <2>1, Joined
  <2>. QED BY <1>15, <2>2
<1>. QED BY <1>10, <1>13, <1>14, <1>16

-----------------------------------------------------------------------------
(* The first row of an id, and the number of a new decree *)

\* Numbers have a least one.
LEMMA Least ==
  ASSUME NEW I \in SUBSET Nat, I # {}
  PROVE  Min(I) \in I /\ \A i \in I : Min(I) <= i
<1>1. IsWellFoundedOn(OpToRel(<, Nat), Nat)
  BY NatLessThanWellFounded
<1>2. PICK m \in I : \A i \in I : ~(<<i, m>> \in OpToRel(<, Nat))
  BY <1>1, WFMin
<1>3. \A i \in I : m <= i
  <2>1. \A a, b \in Nat : a < b => <<a, b>> \in OpToRel(<, Nat)
    BY DEF OpToRel
  <2>2. \A i \in I : ~(i < m)
    BY <1>2, <2>1
  <2>3. \A i \in I : i \in Nat /\ m \in Nat
    OBVIOUS
  <2>. QED BY <2>2, <2>3
<1>4. \E x \in I : \A y \in I : x <= y
  BY <1>3
<1>. QED BY <1>4 DEF Min

\* Numbers that are bounded have a greatest one.
LEMMA Greatest ==
  ASSUME NEW n \in Nat, NEW I \in SUBSET (0 .. n), I # {}
  PROVE  Max(I) \in I /\ \A i \in I : Max(I) >= i
<1>. DEFINE below == {k \in 0 .. n : n - k \in I}
<1>1. below \in SUBSET Nat /\ \A i \in I : n - i \in below
  <2>1. \A i \in I : n - i \in 0 .. n /\ n - (n - i) = i
    OBVIOUS
  <2>. QED BY <2>1
<1>2. below # {}
  BY <1>1
<1>3. \A k \in below : k \in 0 .. n /\ n - k \in I
  OBVIOUS
<1>. HIDE DEF below
<1>4. Min(below) \in below /\ \A k \in below : Min(below) <= k
  BY <1>1, <1>2, Least
<1>5. \A i \in I : n - Min(below) >= i
  <2>1. ASSUME NEW i \in I
        PROVE  n - Min(below) >= i
    <3>1. Min(below) <= n - i /\ Min(below) \in 0 .. n /\ i \in 0 .. n
      BY <1>1, <1>3, <1>4
    <3>. QED BY <3>1
  <2>. QED BY <2>1
<1>6. \E x \in I : \A y \in I : x >= y
  BY <1>3, <1>4, <1>5
<1>. QED BY <1>6 DEF Max

\* The first row of an id.
First(list, x) == SelectInSeq(list, LAMBDA r : r.id = x)

LEMMA FirstRow ==
  ASSUME NEW R, NEW list \in Seq(R), NEW x
  PROVE  LET at == First(list, x) IN
         /\ at \in 0 .. Len(list)
         /\ at # 0 => at \in DOMAIN list /\ list[at].id = x
         /\ at = 0 => x \notin Ids(list)
<1>. DEFINE I == {i \in 1 .. Len(list) : list[i].id = x}
<1>1. I \in SUBSET Nat /\ Len(list) \in Nat /\ DOMAIN list = 1 .. Len(list)
  OBVIOUS
<1>2. First(list, x) = IF I # {} THEN Min(I) ELSE 0
  BY DEF First, SelectInSeq
<1>3. I # {} => Min(I) \in I
  BY <1>1, Least
<1>4. I = {} => x \notin Ids(list)
  BY <1>1 DEF Ids
<1>5. \A i \in I : i # 0 /\ i \in DOMAIN list /\ list[i].id = x /\ i \in 0 .. Len(list)
  BY <1>1
<1>. HIDE DEF I
<1>6. CASE I # {}
  <2>1. First(list, x) \in I
    BY <1>2, <1>3, <1>6
  <2>. QED BY <1>5, <2>1
<1>7. CASE I = {}
  BY <1>1, <1>2, <1>4, <1>7
<1>. QED BY <1>6, <1>7

\* The first row of a path.
FirstOf(list, p) == SelectInSeq(list, LAMBDA w : w.path = p)

LEMMA FirstRowOf ==
  ASSUME NEW R, NEW list \in Seq(R), NEW i \in DOMAIN list
  PROVE  FirstOf(list, list[i].path) \in DOMAIN list
<1>. DEFINE I == {j \in 1 .. Len(list) : list[j].path = list[i].path}
<1>1. I \in SUBSET Nat /\ I # {} /\ I \subseteq DOMAIN list
  OBVIOUS
<1>2. FirstOf(list, list[i].path) = IF I # {} THEN Min(I) ELSE 0
  BY DEF FirstOf, SelectInSeq
<1>. HIDE DEF I
<1>. QED BY <1>1, <1>2, Least

-----------------------------------------------------------------------------
(* Steps and nodes, the editor and the decree it collects *)

LEMMA Bounds ==
  /\ MaxEdits \in Nat /\ MaxSteps \in Nat
  /\ \A label \in Names : label \in Nat /\ label \notin 0 .. MaxEdits
BY EditorConstantsOK

LEMMA NodeOfStep ==
  ASSUME NEW s \in Step
  PROVE  /\ NodeOf(s) \in Node /\ NodeOf(s).id = s.id
         /\ NodeOf(s).action = "Wait" => NodeOf(s).text # "words"
BY EditorConstantsOK DEF NodeOf, Node, Step, Modes, Actions

\* What the editor saves has no argument with a space.
LEMMA NodeOfWords ==
  ASSUME NEW s \in Step
  PROVE  NodeOf(s).text \in Texts
BY EditorConstantsOK DEF NodeOf, Step

LEMMA StepOfNode ==
  ASSUME NEW n \in Node
  PROVE  StepOf(n) \in Step /\ StepOf(n).id = n.id
BY EditorConstantsOK DEF StepOf, Node, Step, Modes, Actions

\* A node the editor can show is saved as it was.
LEMMA NodeAgain ==
  ASSUME NEW n \in Node, n.plain, n.action # "Other", n.text # "spaced",
         n.action = "Wait" => n.text # "words"
  PROVE  NodeOf(StepOf(n)) = n
<1>. DEFINE s == StepOf(n)
<1>1. n = [id |-> n.id, action |-> n.action, text |-> n.text, plain |-> TRUE]
  BY DEF Node
<1>2. n.action \in {"Move", "Copy", "Shell", "Wait"}
  BY DEF Node, Actions
<1>3. s.id = n.id /\ s.text = n.text
  BY <1>2 DEF StepOf
<1>4. s.kind = CASE n.action \in {"Move", "Copy"} -> "inscribe"
                 [] n.action = "Shell" -> "shell" [] n.action = "Wait" -> "wait"
                 [] OTHER -> "other"
  BY DEF StepOf
<1>5. s.mode = IF n.action \in {"Move", "Copy"} THEN n.action ELSE "none"
  BY DEF StepOf
<1>. HIDE DEF s
<1>6. NodeOf(s) = [id |-> n.id, action |-> n.action, text |-> n.text, plain |-> TRUE]
  BY <1>2, <1>3, <1>4, <1>5 DEF NodeOf
<1>. QED BY <1>1, <1>6 DEF s

LEMMA Nodes ==
  ASSUME NEW q \in Seq(Step)
  PROVE  LET nodes == MapSeq(q, NodeOf) IN
         /\ nodes \in Seq(Node) /\ Len(nodes) = Len(q) /\ DOMAIN nodes = DOMAIN q
         /\ \A i \in DOMAIN q : nodes[i] = NodeOf(q[i])
<1>. DEFINE nodes == MapSeq(q, NodeOf)
<1>1. nodes = [i \in 1 .. Len(q) |-> NodeOf(q[i])] /\ Len(q) \in Nat /\ DOMAIN q = 1 .. Len(q)
  BY DEF MapSeq
<1>2. \A i \in 1 .. Len(q) : NodeOf(q[i]) \in Node
  BY NodeOfStep
<1>. HIDE DEF nodes
<1>3. nodes \in [1 .. Len(q) -> Node]
  BY <1>1, <1>2
<1>. QED BY <1>1, <1>3 DEF nodes

LEMMA Steps ==
  ASSUME NEW q \in Seq(Node)
  PROVE  LET shown == MapSeq(q, StepOf) IN
         /\ shown \in Seq(Step) /\ Len(shown) = Len(q) /\ DOMAIN shown = DOMAIN q
         /\ \A i \in DOMAIN q : shown[i] = StepOf(q[i])
<1>. DEFINE shown == MapSeq(q, StepOf)
<1>1. shown = [i \in 1 .. Len(q) |-> StepOf(q[i])] /\ Len(q) \in Nat /\ DOMAIN q = 1 .. Len(q)
  BY DEF MapSeq
<1>2. \A i \in 1 .. Len(q) : StepOf(q[i]) \in Step
  BY StepOfNode
<1>. HIDE DEF shown
<1>3. shown \in [1 .. Len(q) -> Step]
  BY <1>1, <1>2
<1>. QED BY <1>1, <1>3 DEF shown

LEMMA SummonsOfEd ==
  ASSUME NEW e, NEW n, EdOK(e, n)
  PROVE  LET s == SummonsOf(e) IN
         /\ s \in Summons
         /\ s.type \in {"manual", "clipboard"} => s.value = ""
         /\ s.type = "file" => s.value \in Paths \cup {""}
         /\ s.type # "file" => ~s.recursive
BY DEF EdOK, SummonsOf, Summons, Triggers, Fields

LEMMA SeenLabels ==
  ASSUME NEW n \in 0 .. MaxEdits
  PROVE  Seen(n) \subseteq Labels
<1>1. 1 .. n \subseteq 1 .. MaxEdits
  BY Bounds
<1>. QED BY <1>1 DEF Seen, Labels, NewLabels

\* What is collected is a decree as the program reads it.
LEMMA CollectedOK ==
  ASSUME EditorTypes
  PROVE  /\ DecreeOK(Collected, edits) /\ CollectedId \in DecreeIds
         /\ DOMAIN Collected.nodes = DOMAIN steps
         /\ \A i \in DOMAIN steps : Collected.nodes[i] = NodeOf(steps[i])
<1>. DEFINE s == SummonsOf(ed)
            nodes == MapSeq(steps, NodeOf)
<1>. USE DEF EditorTypes
<1>1. /\ s \in Summons
      /\ s.type \in {"manual", "clipboard"} => s.value = ""
      /\ s.type = "file" => s.value \in Paths \cup {""}
      /\ s.type # "file" => ~s.recursive
  BY SummonsOfEd
<1>2. /\ nodes \in Seq(Node) /\ Len(nodes) = Len(steps) /\ DOMAIN nodes = DOMAIN steps
      /\ \A i \in DOMAIN steps : nodes[i] = NodeOf(steps[i])
  BY Nodes
<1>3. Collected = [label |-> ed.label, summons |-> s, presence |-> ed.presence, nodes |-> nodes]
  BY DEF Collected
<1>4. ed.label \in Seen(edits) /\ ed.presence \in BOOLEAN /\ ed.id \in DecreeIds \cup {NoId}
  BY DEF EdOK
<1>5. Seen(edits) \subseteq Labels
  BY SeenLabels
<1>6. Collected \in Decree
  BY <1>1, <1>2, <1>3, <1>4, <1>5 DEF Decree
<1>7. \A i \in DOMAIN nodes : /\ nodes[i].action = "Wait" => nodes[i].text # "words"
                              /\ nodes[i].text # "spaced"
  <2>1. \A i \in DOMAIN steps : steps[i] \in Step
    OBVIOUS
  <2>. HIDE DEF nodes
  <2>2. \A i \in DOMAIN nodes : nodes[i].action = "Wait" => nodes[i].text # "words"
    BY <1>2, <2>1, NodeOfStep
  <2>3. \A i \in DOMAIN nodes : nodes[i].text \in Texts
    BY <1>2, <2>1, NodeOfWords
  <2>. QED BY <2>2, <2>3, EditorConstantsOK
<1>. HIDE DEF s, nodes
<1>8. DecreeOK(Collected, edits)
  <2>1. Len(nodes) <= MaxSteps
    BY <1>2
  <2>. QED BY <1>1, <1>3, <1>4, <1>6, <1>7, <2>1 DEF DecreeOK, Sound
<1>9. CollectedId \in DecreeIds
  BY <1>4, <1>5 DEF CollectedId, DecreeIds, Slug
<1>. QED BY <1>2, <1>3, <1>8, <1>9

\* A decree that is opened and collected again.
LEMMA Reopened ==
  ASSUME NEW id, NEW d, Sound(d), Shown(d), NEW recursive
  PROVE  LET e == Loaded(id, d, recursive) IN
         d = [label |-> e.label, summons |-> SummonsOf(e), presence |-> e.presence,
              nodes |-> MapSeq(MapSeq(d.nodes, StepOf), NodeOf)]
<1>. DEFINE e == Loaded(id, d, recursive)
            shown == MapSeq(d.nodes, StepOf)
            again == MapSeq(shown, NodeOf)
<1>1. d \in Decree /\ d.summons \in Summons /\ d.nodes \in Seq(Node)
  BY DEF Sound, Decree
<1>2. d = [label |-> d.label, summons |-> d.summons, presence |-> d.presence, nodes |-> d.nodes]
  BY <1>1 DEF Decree
<1>3. SummonsOf(e) = d.summons
  <2>1. d.summons = [type |-> d.summons.type, value |-> d.summons.value,
                     recursive |-> d.summons.recursive]
    BY <1>1 DEF Summons
  <2>2. d.summons.type \in {"file", "hotkey", "process", "manual"}
    BY <1>1 DEF Summons, Triggers, Shown
  <2>3. e.type = d.summons.type
    BY DEF Loaded
  <2>4. d.summons.type \in Fields => e.field[d.summons.type] = d.summons.value
    BY DEF Loaded, Blank, Fields
  <2>5. d.summons.type = "file" => e.recursive = d.summons.recursive
    BY DEF Loaded
  <2>6. /\ d.summons.type = "manual" => d.summons.value = ""
        /\ d.summons.type # "file" => d.summons.recursive = FALSE
    BY <1>1 DEF Sound, Summons
  <2>. HIDE DEF e
  <2>. QED BY <2>1, <2>2, <2>3, <2>4, <2>5, <2>6 DEF SummonsOf, Fields
<1>4. again = d.nodes
  <2>1. /\ shown \in Seq(Step) /\ DOMAIN shown = DOMAIN d.nodes /\ Len(shown) = Len(d.nodes)
        /\ \A i \in DOMAIN d.nodes : shown[i] = StepOf(d.nodes[i])
    BY <1>1, Steps
  <2>. HIDE DEF shown
  <2>2. /\ again \in Seq(Node) /\ DOMAIN again = DOMAIN shown /\ Len(again) = Len(shown)
        /\ \A i \in DOMAIN shown : again[i] = NodeOf(shown[i])
    BY <2>1, Nodes
  <2>. HIDE DEF again
  <2>3. \A i \in DOMAIN d.nodes : again[i] = d.nodes[i]
    <3>1. ASSUME NEW i \in DOMAIN d.nodes
          PROVE  again[i] = d.nodes[i]
      <4>1. /\ d.nodes[i] \in Node /\ d.nodes[i].plain /\ d.nodes[i].action # "Other"
            /\ d.nodes[i].text # "spaced"
            /\ d.nodes[i].action = "Wait" => d.nodes[i].text # "words"
        <5>1. d.nodes[i] \in Node
          BY <1>1
        <5>2. /\ d.nodes[i].plain /\ d.nodes[i].action # "Other"
              /\ d.nodes[i].text # "spaced"
          BY DEF Shown
        <5>3. d.nodes[i].action = "Wait" => d.nodes[i].text # "words"
          BY DEF Sound
        <5>. QED BY <5>1, <5>2, <5>3
      <4>. QED BY <2>1, <2>2, <4>1, NodeAgain
    <3>. QED BY <3>1
  <2>. QED BY <1>1, <2>1, <2>2, <2>3
<1>5. e.label = d.label /\ e.presence = d.presence
  BY DEF Loaded
<1>. HIDE DEF e, again
<1>6. d = [label |-> e.label, summons |-> SummonsOf(e), presence |-> e.presence, nodes |-> again]
  BY <1>2, <1>3, <1>4, <1>5
<1>. QED BY <1>6 DEF e, again, shown

LEMMA BlankOK == Blank \in [Fields -> {""}] /\ Blank["file"] = ""
<1>1. Blank = [f \in {"file", "hotkey", "process"} |-> Blank[f]]
  BY DEF Blank
<1>2. Blank["file"] = "" /\ Blank["hotkey"] = "" /\ Blank["process"] = ""
  BY DEF Blank
<1>. QED BY <1>1, <1>2 DEF Fields

\* A decree that is opened.
LEMMA LoadedOK ==
  ASSUME NEW id \in DecreeIds, NEW d, NEW n, DecreeOK(d, n), NEW recursive \in BOOLEAN
  PROVE  EdOK(Loaded(id, d, recursive), n)
<1>1. d.summons \in Summons /\ d.presence \in BOOLEAN /\ d.label \in Seen(n)
  BY DEF DecreeOK, Sound, Decree
<1>2. [Blank EXCEPT ![IF d.summons.type \in Fields THEN d.summons.type ELSE "file"] =
         d.summons.value] \in [Fields -> Paths \cup {"", "x"}]
  <2>2. d.summons.value \in Paths \cup {"", "x"}
    BY <1>1 DEF Summons
  <2>. QED BY <2>2, BlankOK
<1>3. Loaded(id, d, recursive).field["file"] \in Paths \cup {""}
  <2>1. d.summons.type \in Triggers
    BY <1>1 DEF Summons
  <2>2. /\ d.summons.type \in {"manual", "clipboard"} => d.summons.value = ""
        /\ d.summons.type = "file" => d.summons.value \in Paths \cup {""}
    BY DEF DecreeOK, Sound
  <2>. QED BY <2>1, <2>2 DEF Loaded, Blank, Fields, Triggers
<1>. QED BY <1>1, <1>2, <1>3 DEF Loaded, EdOK, Summons

-----------------------------------------------------------------------------
(* The types *)

\* What may be there after n edits may be there after one more.
LEMMA Later ==
  ASSUME NEW n \in Nat
  PROVE  /\ Seen(n) \subseteq Seen(n + 1)
         /\ \A d : DecreeOK(d, n) => DecreeOK(d, n + 1)
         /\ \A l : LedgerOK(l, n) => LedgerOK(l, n + 1)
         /\ \A q \in Seq(RowSet(n)) : q \in Seq(RowSet(n + 1))
         /\ \A e : EdOK(e, n) => EdOK(e, n + 1)
         /\ \A cmd : CommandOK(cmd, n) => CommandOK(cmd, n + 1)
<1>1. Seen(n) \subseteq Seen(n + 1)
  BY DEF Seen
<1>2. \A d : DecreeOK(d, n) => DecreeOK(d, n + 1)
  BY <1>1 DEF DecreeOK
<1>3. \A l : LedgerOK(l, n) => LedgerOK(l, n + 1)
  BY <1>2 DEF LedgerOK
<1>4. ASSUME NEW q \in Seq(RowSet(n))
      PROVE  q \in Seq(RowSet(n + 1))
  <2>1. RowSet(n) \subseteq RowSet(n + 1)
    BY <1>1 DEF RowSet
  <2>. QED BY <2>1
<1>5. \A e : EdOK(e, n) => EdOK(e, n + 1)
  BY <1>1 DEF EdOK
<1>6. \A cmd : CommandOK(cmd, n) => CommandOK(cmd, n + 1)
  BY <1>2 DEF CommandOK
<1>. QED BY <1>1, <1>2, <1>3, <1>4, <1>5, <1>6

LEMMA DecreeRowsOK ==
  ASSUME NEW n, NEW l, LedgerOK(l, n), NEW list \in Seq(RowSet(n))
  PROVE  DecreeRows(list, l) \in Seq(RowSet(n)) /\ Ids(DecreeRows(list, l)) = DOMAIN l.decrees
<1>. DEFINE row == [id \in DOMAIN l.decrees |-> [id |-> id, label |-> l.decrees[id].label]]
<1>1. IsFiniteSet(DOMAIN row) /\ DOMAIN row = DOMAIN l.decrees
  BY DEF LedgerOK
<1>2. \A id \in DOMAIN row : row[id] \in RowSet(n) /\ row[id].id = id
  BY DEF LedgerOK, DecreeOK, RowSet
<1>3. DecreeRows(list, l) = Synced(list, row)
  BY DEF DecreeRows
<1>. HIDE DEF row
<1>. QED BY <1>1, <1>2, <1>3, SyncedRows

LEMMA WardRowsOK ==
  ASSUME NEW l, Table(l.wards), NEW list \in Seq(WardSet)
  PROVE  /\ WardRows(list, l) \in Seq(WardSet)
         /\ Ids(WardRows(list, l)) = {<<p>> : p \in DOMAIN l.wards}
         /\ Distinct(list) => Distinct(WardRows(list, l))
<1>. DEFINE row == WardsOf(l)
            f == [p \in DOMAIN l.wards |-> <<p>>]
<1>1. DOMAIN row = {<<p>> : p \in DOMAIN l.wards}
  BY DEF WardsOf
<1>2. IsFiniteSet(DOMAIN row)
  <2>1. f \in Surjection(DOMAIN l.wards, DOMAIN row)
    BY <1>1 DEF Surjection
  <2>. QED BY <2>1, FS_Surjection DEF Table
<1>3. \A id \in DOMAIN row : row[id] \in WardSet /\ row[id].id = id
  <2>1. ASSUME NEW p \in DOMAIN l.wards
        PROVE  row[<<p>>] \in WardSet /\ row[<<p>>].id = <<p>>
    <3>1. row[<<p>>] = [id |-> <<p>>, path |-> p, recursive |-> l.wards[p]]
      BY DEF WardsOf
    <3>2. p \in Paths /\ l.wards[p] \in BOOLEAN
      BY DEF Table
    <3>3. <<p>> \in WardIds
      BY <3>2 DEF WardIds
    <3>4. \A i \in WardIds, q \in Paths, r \in BOOLEAN :
            [id |-> i, path |-> q, recursive |-> r] \in WardSet
      BY DEF WardSet
    <3>. HIDE DEF row
    <3>. QED BY <3>1, <3>2, <3>3, <3>4
  <2>. QED BY <1>1, <2>1
<1>4. WardRows(list, l) = Synced(list, row)
  BY DEF WardRows
<1>. HIDE DEF row
<1>. QED BY <1>1, <1>2, <1>3, <1>4, SyncedRows

LEMMA PutTable ==
  ASSUME NEW t, Table(t), NEW p \in Paths, NEW r \in BOOLEAN
  PROVE  Table(Put(t, p, r))
<1>1. DOMAIN Put(t, p, r) = DOMAIN t \cup {p}
  BY DEF Put
<1>2. IsFiniteSet(DOMAIN t \cup {p})
  BY FS_AddElement DEF Table
<1>. QED BY <1>1, <1>2 DEF Put, Table

\* A decree that is put into the ledger.
LEMMA WithDecreeOK ==
  ASSUME NEW l, NEW n, LedgerOK(l, n), NEW id \in DecreeIds, NEW overwrite \in BOOLEAN,
         NEW d, DecreeOK(d, n), Valid(d), NEW m, m = WithDecree(l, id, d, overwrite)
  PROVE  LedgerOK(m, n)
<1>1. m.decrees = Put(l.decrees, id, d)
  BY DEF WithDecree
<1>2. /\ DOMAIN m.decrees = DOMAIN l.decrees \cup {id} /\ m.decrees[id] = d
      /\ \A x \in DOMAIN l.decrees : x # id => m.decrees[x] = l.decrees[x]
  BY <1>1 DEF Put
<1>3. IsFiniteSet(DOMAIN m.decrees)
  BY <1>2, FS_AddElement DEF LedgerOK
<1>4. Table(m.wards)
  <2>1. CASE d.summons.type = "file" /\ m.wards = Put(l.wards, d.summons.value, d.summons.recursive)
    <3>1. d.summons.value \in Paths
      BY <2>1 DEF DecreeOK, Sound, Valid, Fields
    <3>2. d.summons.recursive \in BOOLEAN
      BY DEF DecreeOK, Sound, Decree, Summons
    <3>. QED BY <2>1, <3>1, <3>2, PutTable DEF LedgerOK
  <2>2. CASE m.wards = l.wards
    BY <2>2 DEF LedgerOK
  <2>. QED BY <2>1, <2>2 DEF WithDecree
<1>5. m = [decrees |-> m.decrees, wards |-> m.wards]
  BY DEF WithDecree
<1>6. LedgerOK(m, n)
  <2>1. \A x \in DOMAIN m.decrees : DecreeOK(m.decrees[x], n)
    BY <1>2 DEF LedgerOK
  <2>2. DOMAIN m.decrees \subseteq DecreeIds
    BY <1>2 DEF LedgerOK
  <2>. QED BY <1>3, <1>4, <1>5, <2>1, <2>2 DEF LedgerOK
<1>. QED BY <1>6

\* A decree that leaves the ledger.
LEMMA WithoutOK ==
  ASSUME NEW l, NEW n, LedgerOK(l, n), NEW id, NEW m, m = [l EXCEPT !.decrees = Without(@, id)]
  PROVE  LedgerOK(m, n) /\ m.decrees = Without(l.decrees, id)
<1>1. m = [decrees |-> Without(l.decrees, id), wards |-> l.wards]
  BY DEF LedgerOK
<1>2. /\ DOMAIN m.decrees = DOMAIN l.decrees \ {id}
      /\ \A x \in DOMAIN m.decrees : m.decrees[x] = l.decrees[x]
  BY <1>1 DEF Without
<1>3. IsFiniteSet(DOMAIN m.decrees)
  BY <1>2, FS_RemoveElement DEF LedgerOK
<1>4. LedgerOK(m, n)
  BY <1>1, <1>2, <1>3 DEF LedgerOK
<1>. QED BY <1>1, <1>4

LEMMA InitTypes == Init => EditorTypes
<1>. SUFFICES ASSUME Init PROVE EditorTypes
  OBVIOUS
<1>1. edits = 0 /\ edits \in 0 .. MaxEdits
  <2>1. edits = 0
    BY DEF Init
  <2>. QED BY <2>1, Bounds
<1>2. /\ ledger.decrees = Shipped /\ ledger.wards = <<>>
      /\ ledger = [decrees |-> ledger.decrees, wards |-> ledger.wards]
  BY DEF Init
<1>3. LedgerOK(ledger, edits)
  <2>1. Table(ledger.wards)
    BY <1>2, FS_EmptySet DEF Table
  <2>2. \A l \in Names : Slug(l) \in DecreeIds /\ l \in Seen(edits)
    BY DEF DecreeIds, Labels, Seen
  <2>3. \A id \in DOMAIN Shipped : DecreeOK(Shipped[id], edits)
    BY <2>2, ShippedOK DEF DecreeOK
  <2>4. IsFiniteSet(DOMAIN Shipped) /\ DOMAIN Shipped \subseteq DecreeIds
    BY <2>2, ShippedOK
  <2>. QED BY <1>2, <2>1, <2>3, <2>4 DEF LedgerOK
<1>4. rows \in Seq(RowSet(edits)) /\ Ids(rows) = DOMAIN Shipped
  BY <1>2, <1>3, DecreeRowsOK, EmptySeq DEF Init
<1>5. wards \in Seq(WardSet)
  BY DEF Init
<1>6. CASE rows = <<>>
  <2>1. ed = Nothing /\ steps = <<>>
    BY <1>6 DEF Init
  <2>2. EdOK(ed, edits)
    BY <2>1, BlankOK DEF Nothing, Blank, EdOK, Seen, Triggers
  <2>3. steps \in Seq(Step) /\ Len(steps) <= MaxSteps
    BY <2>1, Bounds
  <2>. QED BY <1>1, <1>3, <1>4, <1>5, <2>2, <2>3 DEF Init, EditorTypes
<1>7. CASE rows # <<>>
  <2>. DEFINE id == rows[1].id
  <2>1. 1 \in DOMAIN rows
    BY <1>4, <1>7
  <2>2. id \in DOMAIN Shipped
    BY <1>4, <2>1 DEF Ids
  <2>3. ed = Loaded(id, Shipped[id], TRUE) /\ steps = MapSeq(Shipped[id].nodes, StepOf)
    BY <1>7 DEF Init
  <2>. HIDE DEF id
  <2>4. DecreeOK(Shipped[id], edits) /\ id \in DecreeIds
    BY <1>2, <1>3, <2>2 DEF LedgerOK
  <2>5. EdOK(ed, edits)
    BY <2>3, <2>4, LoadedOK
  <2>6. steps \in Seq(Step) /\ Len(steps) <= MaxSteps
    BY <2>3, <2>4, Steps DEF DecreeOK, Sound, Decree
  <2>. QED BY <1>1, <1>3, <1>4, <1>5, <2>5, <2>6 DEF Init, EditorTypes
<1>. QED BY <1>6, <1>7

\* What an edit leaves alone.
LEMMA UserTypes ==
  ASSUME EditorTypes, User
  PROVE  /\ edits' = edits + 1 /\ edits' \in 0 .. MaxEdits
         /\ told' = told /\ missed' = missed
         /\ LedgerOK(ledger, edits') /\ rows \in Seq(RowSet(edits')) /\ EdOK(ed, edits')
         /\ \A cmd \in commands : CommandOK(cmd, edits')
         /\ \A d : DecreeOK(d, edits) => DecreeOK(d, edits')
<1>1. edits \in Nat /\ edits < MaxEdits /\ MaxEdits \in Nat /\ edits' = edits + 1
  BY Bounds DEF EditorTypes, User
<1>2. edits' \in 0 .. MaxEdits
  BY <1>1
<1>3. /\ LedgerOK(ledger, edits + 1) /\ rows \in Seq(RowSet(edits + 1)) /\ EdOK(ed, edits + 1)
      /\ \A cmd \in commands : CommandOK(cmd, edits + 1)
      /\ \A d : DecreeOK(d, edits) => DecreeOK(d, edits + 1)
  BY <1>1, Later DEF EditorTypes
<1>. QED BY <1>1, <1>2, <1>3 DEF User

LEMMA NewDecreeTypes == ASSUME EditorTypes, NewDecree PROVE EditorTypes'
<1>. DEFINE used == {0} \cup (NewLabels \cap {rows[i].label : i \in DOMAIN rows})
            label == 1 + Max(used)
<1>1. /\ User /\ ledger' = ledger /\ wards' = wards /\ commands' = commands
      /\ steps' = <<>> /\ dirty' = FALSE
      /\ rows' = Append(rows, [id |-> Slug(label), label |-> label])
      /\ ed' = [ed EXCEPT !.id = Slug(label), !.label = label, !.status = 0, !.type = "file",
                          !.field = Blank, !.presence = FALSE]
  BY DEF NewDecree
<1>2. edits \in Nat /\ edits' = edits + 1 /\ edits' \in 0 .. MaxEdits /\ MaxEdits \in Nat
  BY <1>1, UserTypes, Bounds DEF EditorTypes
<1>3. used \in SUBSET (0 .. edits) /\ used # {}
  <2>1. ASSUME NEW i \in DOMAIN rows, rows[i].label \in NewLabels
        PROVE  rows[i].label \in 0 .. edits
    <3>1. rows \in Seq(RowSet(edits))
      BY DEF EditorTypes
    <3>2. rows[i].label \in Seen(edits)
      <4>1. rows[i] \in RowSet(edits)
        BY <3>1
      <4>. QED BY <4>1 DEF RowSet
    <3>3. rows[i].label \notin Names
      BY <2>1, Bounds DEF NewLabels
    <3>. QED BY <1>2, <3>2, <3>3 DEF Seen, NoLabel
  <2>. QED BY <1>2, <2>1
<1>. HIDE DEF used
<1>4. Max(used) \in 0 .. edits
  BY <1>2, <1>3, Greatest
<1>5. label \in 1 .. edits'
  BY <1>2, <1>4
<1>. HIDE DEF label
<1>6. label \in Seen(edits') /\ Slug(label) \in DecreeIds
  BY <1>2, <1>5 DEF Seen, DecreeIds, Labels, NewLabels
<1>7. rows' \in Seq(RowSet(edits'))
  <2>1. [id |-> Slug(label), label |-> label] \in RowSet(edits')
    BY <1>6 DEF RowSet
  <2>. QED BY <1>1, <2>1, UserTypes
<1>8. EdOK(ed', edits')
  BY <1>1, <1>6, UserTypes, BlankOK DEF EdOK, Triggers
<1>9. steps' \in Seq(Step) /\ Len(steps') <= MaxSteps
  BY <1>1, Bounds
<1>. QED BY <1>1, <1>2, <1>7, <1>8, <1>9, UserTypes DEF EditorTypes

LEMMA SelectTypes == ASSUME EditorTypes, NEW id \in DecreeIds, Select(id) PROVE EditorTypes'
<1>. DEFINE d == ledger.decrees[id]
<1>1. /\ User /\ ledger' = ledger /\ rows' = rows /\ wards' = wards /\ commands' = commands
      /\ dirty' = FALSE /\ id \in DOMAIN ledger.decrees
      /\ ed' = Loaded(id, d, ed.recursive) /\ steps' = MapSeq(d.nodes, StepOf)
  BY DEF Select
<1>2. DecreeOK(d, edits')
  BY <1>1, UserTypes DEF LedgerOK
<1>. HIDE DEF d
<1>3. EdOK(ed', edits')
  BY <1>1, <1>2, LoadedOK DEF EditorTypes, EdOK
<1>4. steps' \in Seq(Step) /\ Len(steps') <= MaxSteps
  BY <1>1, <1>2, Steps DEF DecreeOK, Sound, Decree
<1>. QED BY <1>1, <1>3, <1>4, UserTypes DEF EditorTypes

LEMMA StepEditedTypes ==
  ASSUME EditorTypes, NEW i \in DOMAIN steps, NEW text \in Texts, StepEdited(i, text)
  PROVE  EditorTypes'
<1>1. /\ User /\ dirty' = TRUE /\ UNCHANGED <<ledger, wards, rows, ed, commands>>
      /\ steps' = [steps EXCEPT ![i] =
           IF steps[i].kind = "inscribe" /\ steps[i].text = text
             THEN [@ EXCEPT !.mode = IF @ = "Move" THEN "Copy" ELSE "Move"]
             ELSE [@ EXCEPT !.text = text]]
  BY DEF StepEdited, Edited, Changed
<1>2. steps' \in Seq(Step) /\ Len(steps') <= MaxSteps
  <2>1. steps[i] \in Step /\ steps \in Seq(Step)
    BY DEF EditorTypes
  <2>2. PICK s \in Step : steps' = [steps EXCEPT ![i] = s]
    BY <1>1, <2>1 DEF Step, Modes
  <2>. QED BY <2>1, <2>2 DEF EditorTypes
<1>. QED BY <1>1, <1>2, UserTypes DEF EditorTypes

LEMMA AppendStepTypes ==
  ASSUME EditorTypes, NEW kind \in Kinds, AppendStep(kind) PROVE EditorTypes'
<1>. DEFINE s == [id |-> edits, kind |-> kind, text |-> "1000",
                  mode |-> IF kind = "inscribe" THEN "new" ELSE "none"]
<1>1. /\ User /\ dirty' = TRUE /\ UNCHANGED <<ledger, wards, rows, ed, commands>>
      /\ Len(steps) < MaxSteps /\ steps' = Append(steps, s)
  BY DEF AppendStep, Edited, Changed
<1>2. s \in Step
  <2>1. edits \in Nat /\ kind \in {"inscribe", "shell", "wait", "other"} /\ "1000" \in Texts
    <3>1. edits \in Nat
      BY DEF EditorTypes
    <3>. QED BY <3>1, EditorConstantsOK
  <2>. QED BY <2>1 DEF Step, Modes
<1>. HIDE DEF s
<1>3. steps' \in Seq(Step) /\ Len(steps') = Len(steps) + 1 /\ Len(steps) \in Nat
  BY <1>1, <1>2 DEF EditorTypes
<1>4. Len(steps') <= MaxSteps
  BY <1>1, <1>3, Bounds
<1>. QED BY <1>1, <1>3, <1>4, UserTypes DEF EditorTypes

\* A list that loses an element.
LEMMA Removed ==
  ASSUME NEW R, NEW q \in Seq(R), NEW i \in DOMAIN q
  PROVE  /\ RemoveAt(q, i) \in Seq(R) /\ Len(RemoveAt(q, i)) = Len(q) - 1
         /\ \A k \in DOMAIN RemoveAt(q, i) :
              /\ k < i => k \in DOMAIN q /\ RemoveAt(q, i)[k] = q[k]
              /\ k >= i => k + 1 \in DOMAIN q /\ RemoveAt(q, i)[k] = q[k + 1]
<1>. DEFINE s == SubSeq(q, 1, i - 1)
            t == SubSeq(q, i + 1, Len(q))
<1>1. Len(q) \in Nat /\ i \in 1 .. Len(q) /\ DOMAIN q = 1 .. Len(q)
  OBVIOUS
<1>2. s \in Seq(R) /\ Len(s) = i - 1 /\ \A k \in 1 .. i - 1 : s[k] = q[k]
  BY <1>1
<1>3. t \in Seq(R) /\ Len(t) = Len(q) - i /\ \A k \in 1 .. Len(q) - i : t[k] = q[k + i]
  <2>1. /\ t \in Seq(R) /\ Len(t) = IF i + 1 <= Len(q) THEN Len(q) - (i + 1) + 1 ELSE 0
        /\ \A k \in 1 .. Len(q) - (i + 1) + 1 : t[k] = q[i + 1 + k - 1]
    BY <1>1, SubSeqProperties
  <2>2. \A k \in 1 .. Len(q) - i : k \in 1 .. Len(q) - (i + 1) + 1 /\ i + 1 + k - 1 = k + i
    BY <1>1
  <2>. HIDE DEF t
  <2>. QED BY <1>1, <2>1, <2>2
<1>. HIDE DEF s, t
<1>4. RemoveAt(q, i) = s \o t
  BY DEF RemoveAt, s, t
<1>5. /\ s \o t \in Seq(R) /\ Len(s \o t) = Len(s) + Len(t)
      /\ DOMAIN (s \o t) = 1 .. Len(s \o t)
      /\ \A k \in 1 .. Len(s) : (s \o t)[k] = s[k]
      /\ \A k \in 1 .. Len(t) : (s \o t)[Len(s) + k] = t[k]
  <2>1. s \in Seq(R) /\ t \in Seq(R)
    BY <1>2, <1>3
  <2>. QED BY <2>1
<1>6. Len(s \o t) = Len(q) - 1
  BY <1>1, <1>2, <1>3, <1>5
<1>7. ASSUME NEW k \in 1 .. Len(q) - 1
      PROVE  /\ k < i => k \in DOMAIN q /\ (s \o t)[k] = q[k]
             /\ k >= i => k + 1 \in DOMAIN q /\ (s \o t)[k] = q[k + 1]
  <2>1. CASE k < i
    <3>1. k \in 1 .. i - 1 /\ k \in DOMAIN q /\ ~(k >= i)
      BY <1>1, <2>1
    <3>. QED BY <1>2, <1>5, <3>1
  <2>2. CASE k >= i
    <3>. DEFINE m == k - (i - 1)
    <3>1. /\ m \in 1 .. Len(q) - i /\ m + i = k + 1 /\ (i - 1) + m = k
          /\ k + 1 \in DOMAIN q /\ ~(k < i)
      BY <1>1, <2>2
    <3>. HIDE DEF m
    <3>2. (s \o t)[k] = t[m] /\ t[m] = q[k + 1]
      BY <1>2, <1>3, <1>5, <3>1
    <3>. QED BY <3>1, <3>2
  <2>. QED BY <1>1, <2>1, <2>2
<1>. QED BY <1>4, <1>5, <1>6, <1>7

LEMMA RemoveStepTypes ==
  ASSUME EditorTypes, NEW i \in DOMAIN steps, RemoveStep(i) PROVE EditorTypes'
<1>1. /\ User /\ dirty' = TRUE /\ UNCHANGED <<ledger, wards, rows, ed, commands>>
      /\ steps' = RemoveAt(steps, i)
  BY DEF RemoveStep, Edited, Changed
<1>2. steps' \in Seq(Step) /\ Len(steps') <= MaxSteps
  <2>1. steps \in Seq(Step) /\ Len(steps) \in Nat /\ Len(steps) <= MaxSteps
    BY DEF EditorTypes
  <2>2. steps' \in Seq(Step) /\ Len(steps') = Len(steps) - 1
    BY <1>1, <2>1, Removed
  <2>. QED BY <2>1, <2>2, Bounds
<1>. QED BY <1>1, <1>2, UserTypes DEF EditorTypes

LEMMA RenameTypes ==
  ASSUME EditorTypes, NEW label \in Names, Rename(label) PROVE EditorTypes'
<1>. DEFINE at == First(rows, ed.id)
            cmd == [kind |-> "rename", id |-> ed.id, label |-> label]
<1>1. /\ User /\ dirty' = TRUE /\ UNCHANGED <<ledger, wards, steps>>
      /\ ed' = [ed EXCEPT !.label = label]
  BY DEF Rename, Changed
<1>2. commands' = commands \/ commands' = commands \cup {cmd}
  BY DEF Rename, Send
<1>3. rows' = rows \/ (at # 0 /\ rows' = [rows EXCEPT ![at].label = label])
  BY DEF Rename, First
<1>4. label \in Seen(edits')
  BY DEF Seen
<1>5. rows' \in Seq(RowSet(edits'))
  <2>1. rows \in Seq(RowSet(edits'))
    BY <1>1, UserTypes
  <2>2. at # 0 => at \in DOMAIN rows
    BY <2>1, FirstRow
  <2>. HIDE DEF at
  <2>3. CASE at # 0 /\ rows' = [rows EXCEPT ![at].label = label]
    <3>1. rows[at] \in RowSet(edits')
      BY <2>1, <2>2, <2>3
    <3>2. [rows[at] EXCEPT !.label = label] \in RowSet(edits')
      BY <1>4, <3>1 DEF RowSet
    <3>. QED BY <2>1, <2>2, <2>3, <3>2
  <2>. QED BY <1>3, <2>1, <2>3
<1>6. EdOK(ed', edits')
  BY <1>1, <1>4, UserTypes DEF EdOK
<1>7. \A c \in commands' : CommandOK(c, edits')
  BY <1>1, <1>2, UserTypes DEF CommandOK
<1>. QED BY <1>1, <1>5, <1>6, <1>7, UserTypes DEF EditorTypes

LEMMA SetSummonsTypes ==
  ASSUME EditorTypes, NEW type \in Fields, NEW recursive \in BOOLEAN,
         NEW value \in Paths \cup {"x"}, type = "file" => value \in Paths,
         SetSummons(type, value, recursive)
  PROVE  EditorTypes'
<1>1. /\ User /\ dirty' = TRUE /\ UNCHANGED <<ledger, wards, rows, steps, commands>>
      /\ ed' = [ed EXCEPT !.type = type, !.field[type] = value, !.recursive = recursive]
  BY DEF SetSummons, Edited, Changed
<1>2. EdOK(ed', edits')
  <2>1. EdOK(ed, edits')
    BY <1>1, UserTypes
  <2>2. type \in Triggers
    BY DEF Triggers, Fields
  <2>3. /\ [ed.field EXCEPT ![type] = value] \in [Fields -> Paths \cup {"", "x"}]
        /\ [ed.field EXCEPT ![type] = value]["file"] \in Paths \cup {""}
    BY <2>1 DEF EdOK, Fields
  <2>4. ed' = [[[ed EXCEPT !.type = type] EXCEPT !.field = [ed.field EXCEPT ![type] = value]]
                 EXCEPT !.recursive = recursive]
    BY <1>1, <2>1 DEF EdOK
  <2>. QED BY <2>1, <2>2, <2>3, <2>4 DEF EdOK
<1>. QED BY <1>1, <1>2, UserTypes DEF EditorTypes

LEMMA SetPresenceTypes == ASSUME EditorTypes, SetPresence PROVE EditorTypes'
<1>1. /\ User /\ dirty' = TRUE /\ UNCHANGED <<ledger, wards, rows, steps, commands>>
      /\ ed' = [ed EXCEPT !.presence = ~@]
  BY DEF SetPresence, Edited, Changed
<1>2. EdOK(ed', edits')
  BY <1>1, UserTypes DEF EdOK
<1>. QED BY <1>1, <1>2, UserTypes DEF EditorTypes

\* The two lists are read again.
LEMMA SyncTypes ==
  ASSUME EditorTypes, NEW l, NEW n, LedgerOK(l, n), rows \in Seq(RowSet(n)), Sync(l)
  PROVE  /\ rows' \in Seq(RowSet(n)) /\ Ids(rows') = DOMAIN l.decrees
         /\ wards' \in Seq(WardSet) /\ Ids(wards') = {<<p>> : p \in DOMAIN l.wards}
         /\ Distinct(wards) => Distinct(wards')
<1>1. rows' = DecreeRows(rows, l) /\ wards' = WardRows(wards, l)
  BY DEF Sync
<1>2. wards \in Seq(WardSet) /\ Table(l.wards)
  BY DEF EditorTypes, LedgerOK
<1>. QED BY <1>1, <1>2, DecreeRowsOK, WardRowsOK

LEMMA SaveDecreeTypes == ASSUME EditorTypes, SaveDecree PROVE EditorTypes'
<1>. DEFINE cmd == [kind |-> "save", id |-> CollectedId, decree |-> Collected]
<1>1. User /\ ed' = [ed EXCEPT !.id = CollectedId] /\ steps' = steps
  BY DEF SaveDecree
<1>2. DecreeOK(Collected, edits') /\ CollectedId \in DecreeIds
  BY <1>1, CollectedOK, UserTypes
<1>3. EdOK(ed', edits')
  BY <1>1, <1>2, UserTypes DEF EdOK
<1>4. CASE Valid(Collected)
  <2>1. /\ ledger' = WithDecree(ledger, CollectedId, Collected, TRUE) /\ Sync(ledger')
        /\ commands' = commands \cup {cmd} /\ dirty' = FALSE
    BY <1>4 DEF SaveDecree, Send
  <2>2. LedgerOK(ledger', edits')
    BY <1>1, <1>2, <1>4, <2>1, UserTypes, WithDecreeOK
  <2>3. rows' \in Seq(RowSet(edits')) /\ wards' \in Seq(WardSet)
    BY <1>1, <2>1, <2>2, UserTypes, SyncTypes
  <2>4. \A c \in commands' : CommandOK(c, edits')
    BY <1>1, <1>2, <1>4, <2>1, UserTypes DEF CommandOK
  <2>. QED BY <1>1, <1>3, <2>1, <2>2, <2>3, <2>4, UserTypes DEF EditorTypes
<1>5. CASE ~Valid(Collected)
  <2>1. UNCHANGED <<ledger, rows, wards, commands, selected, dirty>>
    BY <1>5 DEF SaveDecree
  <2>. QED BY <1>1, <1>3, <2>1, UserTypes DEF EditorTypes
<1>. QED BY <1>4, <1>5

LEMMA SimulateDecreeTypes == ASSUME EditorTypes, SimulateDecree PROVE EditorTypes'
<1>. DEFINE cmd == [kind |-> "save", id |-> CollectedId, decree |-> Collected]
<1>1. /\ User /\ Valid(Collected) /\ commands' = commands \cup {cmd}
      /\ UNCHANGED <<ledger, rows, wards, ed, steps, dirty>>
  BY DEF SimulateDecree, Send
<1>2. DecreeOK(Collected, edits') /\ CollectedId \in DecreeIds
  BY <1>1, CollectedOK, UserTypes
<1>3. \A c \in commands' : CommandOK(c, edits')
  BY <1>1, <1>2, UserTypes DEF CommandOK
<1>. QED BY <1>1, <1>3, UserTypes DEF EditorTypes

LEMMA RemoveDecreeTypes ==
  ASSUME EditorTypes, NEW id \in DecreeIds, RemoveDecree(id) PROVE EditorTypes'
<1>1. /\ User /\ UNCHANGED <<rows, wards>>
      /\ ledger' = [ledger EXCEPT !.decrees = Without(@, id)]
      /\ commands' = commands \cup {[kind |-> "remove", id |-> id]}
  BY DEF RemoveDecree, Send
<1>2. LedgerOK(ledger', edits')
  BY <1>1, UserTypes, WithoutOK
<1>3. \A c \in commands' : CommandOK(c, edits')
  BY <1>1, UserTypes DEF CommandOK
<1>4. CASE ed.id = id
  <2>1. /\ ed' = [ed EXCEPT !.id = NoId, !.label = NoLabel, !.status = 0]
        /\ steps' = <<>> /\ dirty' = FALSE
    BY <1>4 DEF RemoveDecree
  <2>2. EdOK(ed', edits')
    BY <1>1, <2>1, UserTypes DEF EdOK, Seen
  <2>3. steps' \in Seq(Step) /\ Len(steps') <= MaxSteps
    BY <2>1, Bounds
  <2>. QED BY <1>1, <1>2, <1>3, <2>1, <2>2, <2>3, UserTypes DEF EditorTypes
<1>5. CASE ed.id # id
  <2>1. UNCHANGED <<ed, steps, selected, dirty>>
    BY <1>5 DEF RemoveDecree
  <2>. QED BY <1>1, <1>2, <1>3, <2>1, UserTypes DEF EditorTypes
<1>. QED BY <1>4, <1>5

\* What only changes the table of wards.
LEMMA WardsTypes ==
  ASSUME EditorTypes, OfWards, wards' \in Seq(WardSet), LedgerOK(ledger', edits'),
         \A c \in commands' : CommandOK(c, edits')
  PROVE  EditorTypes'
<1>1. User /\ UNCHANGED <<rows, ed, steps, dirty>>
  BY DEF OfWards
<1>. QED BY <1>1, UserTypes DEF EditorTypes

LEMMA AddWardTypes == ASSUME EditorTypes, AddWard PROVE EditorTypes'
<1>. DEFINE w == [id |-> <<"id", edits>>, path |-> "", recursive |-> TRUE]
<1>1. /\ OfWards /\ User /\ ledger' = ledger /\ commands' = commands
      /\ wards' = Append(wards, w)
  BY DEF AddWard, OfWards
<1>2. wards' \in Seq(WardSet)
  <2>1. edits \in 0 .. MaxEdits /\ wards \in Seq(WardSet)
    BY DEF EditorTypes
  <2>2. w \in WardSet
    BY <2>1 DEF WardSet, WardIds
  <2>. HIDE DEF w
  <2>. QED BY <1>1, <2>1, <2>2
<1>. QED BY <1>1, <1>2, UserTypes, WardsTypes

\* A row that is named by its id is found.
LEMMA RowFound ==
  ASSUME wards \in Seq(WardSet), NEW i \in DOMAIN wards
  PROVE  RowOf(wards[i].id) \in DOMAIN wards /\ wards[RowOf(wards[i].id)].id = wards[i].id
<1>1. RowOf(wards[i].id) = First(wards, wards[i].id)
  BY DEF RowOf, First
<1>2. wards[i].id \in Ids(wards)
  BY DEF Ids
<1>. QED BY <1>1, <1>2, FirstRow

\* A change of a ward leaves its row's id, or takes the row away.
LEMMA WardChanged ==
  ASSUME wards \in Seq(WardSet), NEW i \in DOMAIN wards, ChangeWard(wards[i].id)
  PROVE  \/ wards' = RemoveAt(wards, RowOf(wards[i].id))
         \/ \E w \in WardSet : /\ w.id = wards[i].id
                               /\ wards' = [wards EXCEPT ![RowOf(wards[i].id)] = w]
<1>. DEFINE k == RowOf(wards[i].id)
<1>1. k \in DOMAIN wards /\ wards[k].id = wards[i].id
  BY RowFound
<1>. HIDE DEF k
<1>2. wards[k] \in WardSet
  BY <1>1
<1>3. \/ wards' = RemoveAt(wards, k)
      \/ wards' = [wards EXCEPT ![k].recursive = ~@]
      \/ \E p \in Paths : wards' = [wards EXCEPT ![k].path = p]
  BY DEF ChangeWard, k
<1>4. CASE wards' = [wards EXCEPT ![k].recursive = ~@]
  <2>. DEFINE w == [wards[k] EXCEPT !.recursive = ~@]
  <2>1. w \in WardSet /\ w.id = wards[i].id
    BY <1>1, <1>2 DEF WardSet
  <2>2. wards' = [wards EXCEPT ![k] = w]
    BY <1>4
  <2>. HIDE DEF w
  <2>. QED BY <2>1, <2>2 DEF k
<1>5. ASSUME NEW p \in Paths, wards' = [wards EXCEPT ![k].path = p]
      PROVE  \E w \in WardSet : w.id = wards[i].id /\ wards' = [wards EXCEPT ![k] = w]
  <2>. DEFINE w == [wards[k] EXCEPT !.path = p]
  <2>1. w \in WardSet /\ w.id = wards[i].id
    BY <1>1, <1>2 DEF WardSet
  <2>2. wards' = [wards EXCEPT ![k] = w]
    BY <1>5
  <2>. HIDE DEF w
  <2>. QED BY <2>1, <2>2
<1>. QED BY <1>3, <1>4, <1>5 DEF k

LEMMA ChangeWardTypes ==
  ASSUME EditorTypes, NEW i \in DOMAIN wards, ChangeWard(wards[i].id) PROVE EditorTypes'
<1>. DEFINE k == RowOf(wards[i].id)
<1>1. OfWards /\ User /\ ledger' = ledger /\ commands' = commands
  BY DEF ChangeWard, OfWards
<1>2. wards \in Seq(WardSet)
  BY DEF EditorTypes
<1>3. k \in DOMAIN wards
  BY <1>2, RowFound
<1>4. wards' = RemoveAt(wards, k) \/ \E w \in WardSet : wards' = [wards EXCEPT ![k] = w]
  BY <1>2, WardChanged
<1>. HIDE DEF k
<1>5. wards' \in Seq(WardSet)
  <2>1. CASE wards' = RemoveAt(wards, k)
    BY <1>2, <1>3, <2>1, Removed
  <2>2. ASSUME NEW w \in WardSet, wards' = [wards EXCEPT ![k] = w]
        PROVE  wards' \in Seq(WardSet)
    BY <1>2, <1>3, <2>2
  <2>. QED BY <1>4, <2>1, <2>2
<1>. QED BY <1>1, <1>5, UserTypes, WardsTypes

LEMMA SaveWardsTypes == ASSUME EditorTypes, SaveWards PROVE EditorTypes'
<1>. DEFINE paths == {wards[i].path : i \in DOMAIN wards} \ {""}
            table == [p \in paths |-> wards[FirstOf(wards, p)].recursive]
<1>1. /\ OfWards /\ User /\ wards' = wards /\ ledger' = [ledger EXCEPT !.wards = table]
      /\ commands' = commands \cup {[kind |-> "wards", table |-> table]}
  BY DEF SaveWards, OfWards, FirstOf, Send
<1>2. wards \in Seq(WardSet) /\ DOMAIN wards = 1 .. Len(wards) /\ Len(wards) \in Nat
  BY DEF EditorTypes
<1>3. IsFiniteSet(paths)
  <2>. DEFINE f == [i \in DOMAIN wards |-> wards[i].path]
              all == {wards[i].path : i \in DOMAIN wards}
  <2>1. f \in Surjection(DOMAIN wards, all)
    BY DEF Surjection
  <2>2. IsFiniteSet(DOMAIN wards)
    BY <1>2, FS_Interval
  <2>. HIDE DEF f, all
  <2>3. IsFiniteSet(all)
    BY <2>1, <2>2, FS_Surjection
  <2>4. paths = all \ {""}
    BY DEF all
  <2>. QED BY <2>3, <2>4, FS_RemoveElement
<1>4. \A i \in DOMAIN wards : wards[i] \in WardSet
  BY <1>2
<1>5. paths \subseteq Paths
  BY <1>4 DEF WardSet
<1>6. \A p \in paths : wards[FirstOf(wards, p)].recursive \in BOOLEAN
  <2>1. ASSUME NEW i \in DOMAIN wards
        PROVE  wards[FirstOf(wards, wards[i].path)].recursive \in BOOLEAN
    <3>1. FirstOf(wards, wards[i].path) \in DOMAIN wards
      BY <1>2, FirstRowOf
    <3>. QED BY <1>4, <3>1 DEF WardSet
  <2>. QED BY <2>1
<1>. HIDE DEF paths
<1>7. Table(table)
  BY <1>3, <1>5, <1>6 DEF Table
<1>. HIDE DEF table
<1>8. LedgerOK(ledger', edits')
  <2>1. LedgerOK(ledger, edits')
    BY <1>1, UserTypes
  <2>2. ledger' = [decrees |-> ledger.decrees, wards |-> table]
    BY <1>1, <2>1 DEF LedgerOK
  <2>. QED BY <1>7, <2>1, <2>2 DEF LedgerOK
<1>9. \A c \in commands' : CommandOK(c, edits')
  BY <1>1, <1>7, UserTypes DEF CommandOK
<1>. QED BY <1>1, <1>2, <1>8, <1>9, WardsTypes

\* A command that is taken is not kept, and what only the engine changes.
LEMMA TakeTypes ==
  ASSUME EditorTypes, NEW cmd \in commands, Take(cmd), LedgerOK(ledger', edits), told' \in BOOLEAN
  PROVE  EditorTypes'
BY DEF Take, EditorTypes

LEMMA EngineSavesTypes ==
  ASSUME EditorTypes, NEW cmd \in commands, EngineSaves(cmd) PROVE EditorTypes'
<1>1. /\ Take(cmd) /\ cmd.kind = "save" /\ told' = TRUE
      /\ ledger' = WithDecree(ledger, cmd.id, cmd.decree, FALSE)
  BY DEF EngineSaves
<1>2. cmd.id \in DecreeIds /\ DecreeOK(cmd.decree, edits) /\ Valid(cmd.decree)
  BY <1>1 DEF EditorTypes, CommandOK
<1>3. LedgerOK(ledger', edits)
  BY <1>1, <1>2, WithDecreeOK DEF EditorTypes
<1>. QED BY <1>1, <1>3, TakeTypes

LEMMA EngineRemovesTypes ==
  ASSUME EditorTypes, NEW cmd \in commands, EngineRemoves(cmd) PROVE EditorTypes'
<1>1. /\ Take(cmd) /\ ledger' = [ledger EXCEPT !.decrees = Without(@, cmd.id)]
      /\ told' = (told \/ cmd.id \in DOMAIN ledger.decrees)
  BY DEF EngineRemoves
<1>2. LedgerOK(ledger', edits)
  BY <1>1, WithoutOK DEF EditorTypes
<1>3. told' \in BOOLEAN
  BY <1>1 DEF EditorTypes
<1>. QED BY <1>1, <1>2, <1>3, TakeTypes

\* A decree that is renamed keeps the rest.
LEMMA Renamed ==
  ASSUME EditorTypes, NEW cmd \in commands, EngineRenames(cmd)
  PROVE  /\ LedgerOK(ledger', edits) /\ DOMAIN ledger'.decrees = DOMAIN ledger.decrees
         /\ ledger'.wards = ledger.wards
         /\ \A id \in DOMAIN ledger.decrees :
              ledger'.decrees[id].nodes = ledger.decrees[id].nodes
<1>1. LedgerOK(ledger, edits)
  BY DEF EditorTypes
<1>2. CASE cmd.id \in DOMAIN ledger.decrees
  <2>. DEFINE old == ledger.decrees[cmd.id]
              new == [old EXCEPT !.label = cmd.label]
              decrees == [ledger.decrees EXCEPT ![cmd.id] = new]
  <2>1. ledger' = [ledger EXCEPT !.decrees[cmd.id].label = cmd.label] /\ cmd.kind = "rename"
    BY <1>2 DEF EngineRenames
  <2>2. cmd.label \in Names
    BY <2>1 DEF EditorTypes, CommandOK
  <2>3. ledger' = [decrees |-> decrees, wards |-> ledger.wards]
    BY <1>1, <2>1 DEF LedgerOK
  <2>4. Sound(old) /\ old \in Decree /\ Len(old.nodes) <= MaxSteps
    BY <1>1, <1>2 DEF LedgerOK, DecreeOK, Sound
  <2>5. /\ new \in Decree /\ new.label = cmd.label
        /\ new.summons = old.summons /\ new.nodes = old.nodes
    BY <2>2, <2>4 DEF Decree, Labels
  <2>. HIDE DEF new, old
  <2>6. Sound(new)
    BY <2>4, <2>5 DEF Sound
  <2>7. DecreeOK(new, edits)
    BY <2>2, <2>4, <2>5, <2>6 DEF DecreeOK, Seen
  <2>8. /\ DOMAIN decrees = DOMAIN ledger.decrees /\ decrees[cmd.id] = new
        /\ \A id \in DOMAIN ledger.decrees : id # cmd.id => decrees[id] = ledger.decrees[id]
    BY <1>2
  <2>. HIDE DEF decrees
  <2>9. LedgerOK(ledger', edits)
    BY <1>1, <2>3, <2>7, <2>8 DEF LedgerOK
  <2>. QED BY <2>3, <2>5, <2>8, <2>9 DEF old
<1>3. CASE cmd.id \notin DOMAIN ledger.decrees
  <2>1. ledger' = ledger
    BY <1>3 DEF EngineRenames
  <2>. QED BY <1>1, <2>1
<1>. QED BY <1>2, <1>3

LEMMA EngineSavesWardsTypes ==
  ASSUME EditorTypes, NEW cmd \in commands, EngineSavesWards(cmd) PROVE EditorTypes'
<1>1. /\ Take(cmd) /\ cmd.kind = "wards" /\ told' = told
      /\ ledger' = [ledger EXCEPT !.wards = cmd.table]
  BY DEF EngineSavesWards
<1>2. Table(cmd.table)
  BY <1>1 DEF EditorTypes, CommandOK
<1>3. LedgerOK(ledger, edits)
  BY DEF EditorTypes
<1>4. ledger' = [decrees |-> ledger.decrees, wards |-> cmd.table]
  BY <1>1, <1>3 DEF LedgerOK
<1>5. LedgerOK(ledger', edits)
  BY <1>2, <1>3, <1>4 DEF LedgerOK
<1>. QED BY <1>1, <1>5, TakeTypes DEF EditorTypes

LEMMA EngineTypes == ASSUME EditorTypes, OfEngine PROVE EditorTypes'
<1>1. PICK cmd \in commands : \/ EngineSaves(cmd) \/ EngineRemoves(cmd) \/ EngineRenames(cmd)
                              \/ EngineSavesWards(cmd) \/ CommandLost(cmd)
  BY DEF OfEngine
<1>2. CASE EngineSaves(cmd)
  BY <1>2, EngineSavesTypes
<1>3. CASE EngineRemoves(cmd)
  BY <1>3, EngineRemovesTypes
<1>4. CASE EngineRenames(cmd)
  <2>1. Take(cmd) /\ told' = told
    BY <1>4 DEF EngineRenames
  <2>2. LedgerOK(ledger', edits)
    BY <1>4, Renamed
  <2>. QED BY <2>1, <2>2, TakeTypes DEF EditorTypes
<1>5. CASE EngineSavesWards(cmd)
  BY <1>5, EngineSavesWardsTypes
<1>6. CASE CommandLost(cmd)
  BY <1>6, TakeTypes DEF CommandLost, EditorTypes
<1>. QED BY <1>1, <1>2, <1>3, <1>4, <1>5, <1>6

LEMMA ToldTypes == ASSUME EditorTypes, Told \/ EntryLost PROVE EditorTypes'
<1>1. CASE Told
  <2>1. /\ Sync(ledger) /\ told' = FALSE
        /\ UNCHANGED <<ledger, ed, steps, commands, selected, dirty, missed, edits>>
    BY <1>1 DEF Told
  <2>2. rows' \in Seq(RowSet(edits)) /\ wards' \in Seq(WardSet)
    BY <2>1, SyncTypes DEF EditorTypes
  <2>. QED BY <2>1, <2>2 DEF EditorTypes
<1>2. CASE EntryLost
  BY <1>2 DEF EntryLost, EditorTypes
<1>. QED BY <1>1, <1>2

LEMMA OnDecreesTypes == ASSUME EditorTypes, OnDecrees PROVE EditorTypes'
BY NewDecreeTypes, SaveDecreeTypes, SimulateDecreeTypes, SelectTypes, RemoveDecreeTypes
  DEF OnDecrees

LEMMA OnEditorTypes == ASSUME EditorTypes, OnEditor PROVE EditorTypes'
<1>1. ASSUME NEW i \in DOMAIN steps, PressMode(i) \/ PressEnter(i) PROVE EditorTypes'
  <2>1. steps[i].text \in Texts
    <3>1. steps \in Seq(Step)
      BY DEF EditorTypes
    <3>2. steps[i] \in Step
      BY <3>1
    <3>. QED BY <3>2 DEF Step
  <2>. QED BY <1>1, <2>1, StepEditedTypes DEF PressMode, PressEnter
<1>2. ASSUME NEW i \in DOMAIN steps, NEW text \in Texts, TypeText(i, text) PROVE EditorTypes'
  BY <1>2, StepEditedTypes DEF TypeText
<1>3. ASSUME NEW recursive \in BOOLEAN, NEW p \in Paths, SetSummons("file", p, recursive)
      PROVE  EditorTypes'
  BY <1>3, SetSummonsTypes DEF Fields
<1>4. ASSUME NEW type \in {"hotkey", "process"}, SetSummons(type, "x", ed.recursive)
      PROVE  EditorTypes'
  <2>1. ed.recursive \in BOOLEAN
    BY DEF EditorTypes, EdOK
  <2>. QED BY <1>4, <2>1, SetSummonsTypes DEF Fields
<1>. QED BY <1>1, <1>2, <1>3, <1>4, RemoveStepTypes, AppendStepTypes, RenameTypes, SetPresenceTypes
  DEF OnEditor

LEMMA OnWardsTypes == ASSUME EditorTypes, OnWards PROVE EditorTypes'
BY AddWardTypes, SaveWardsTypes, ChangeWardTypes DEF OnWards

LEMMA NextTypes == ASSUME EditorTypes, [Next]_vars PROVE EditorTypes'
<1>1. CASE UNCHANGED vars
  BY <1>1 DEF vars, EditorTypes
<1>. QED BY <1>1, OnDecreesTypes, OnEditorTypes, OnWardsTypes, EngineTypes, ToldTypes DEF Next

LEMMA AllTypes == Spec => []EditorTypes
BY InitTypes, NextTypes, PTL DEF Spec

(***************************************************************************)
(* Every variable of the window has its type, for any first ledger and any *)
(* edits: a label the user types, or one of those that were given out; no  *)
(* ward without a path in the ledger; no more steps than can be appended.  *)
(***************************************************************************)
THEOREM TypeOKHolds == Spec => []TypeOK
<1>1. EditorTypes => TypeOK
  <2>. SUFFICES ASSUME EditorTypes PROVE TypeOK
    OBVIOUS
  <2>1. edits \in 0 .. MaxEdits /\ Seen(edits) \subseteq Labels
    BY SeenLabels DEF EditorTypes
  <2>2. \A id \in DOMAIN ledger.decrees : ledger.decrees[id] \in Decree
    BY DEF EditorTypes, LedgerOK, DecreeOK, Sound
  <2>3. rows \in Seq([id: DecreeIds, label: Labels])
    <3>. DEFINE R == [id: DecreeIds, label: Labels]
    <3>1. RowSet(edits) \subseteq R
      BY <2>1 DEF RowSet
    <3>2. rows \in Seq(RowSet(edits))
      BY DEF EditorTypes
    <3>. HIDE DEF R
    <3>3. rows \in Seq(R)
      BY <3>1, <3>2
    <3>. QED BY <3>3 DEF R
  <2>4. ed \in [id: DecreeIds \cup {NoId}, label: Labels, status: {0, 1}, type: Triggers,
                field: [Fields -> Paths \cup {"", "x"}], recursive: BOOLEAN, presence: BOOLEAN]
    BY <2>1 DEF EditorTypes, EdOK
  <2>. QED BY <2>1, <2>2, <2>3, <2>4 DEF EditorTypes, TypeOK, LedgerOK, Table, WardSet
<1>. QED BY <1>1, AllTypes, PTL

-----------------------------------------------------------------------------
(* What is opened is saved as it was *)

\* The editor, and what was selected, are as they were.
EditorKept == UNCHANGED <<ed, steps, selected, dirty>>

LEMMA FaithfulKept ==
  ASSUME OpenIsFaithful, EditorKept PROVE OpenIsFaithful'
<1>1. Collected' = Collected
  BY DEF EditorKept, Collected, SummonsOf
<1>. QED BY <1>1 DEF OpenIsFaithful, EditorKept

\* The id is no part of what is collected.
LEMMA CollectedAgain ==
  ASSUME EditorTypes, NEW id, ed' = [ed EXCEPT !.id = id], steps' = steps
  PROVE  Collected' = Collected
<1>1. /\ ed'.label = ed.label /\ ed'.presence = ed.presence /\ ed'.type = ed.type
      /\ ed'.field = ed.field /\ ed'.recursive = ed.recursive
  BY DEF EditorTypes, EdOK
<1>. QED BY <1>1 DEF Collected, SummonsOf

LEMMA InitFaithful == Init => OpenIsFaithful
<1>. SUFFICES ASSUME Init PROVE OpenIsFaithful
  OBVIOUS
<1>1. CASE rows = <<>>
  <2>1. selected = <<>>
    BY <1>1 DEF Init
  <2>. QED BY <2>1 DEF OpenIsFaithful
<1>2. CASE rows # <<>>
  <2>. DEFINE id == rows[1].id
  <2>1. /\ ed = Loaded(id, Shipped[id], TRUE) /\ steps = MapSeq(Shipped[id].nodes, StepOf)
        /\ selected = <<Shipped[id]>>
    BY <1>2 DEF Init
  <2>2. EditorTypes
    BY InitTypes
  <2>3. id \in DOMAIN Shipped
    <3>1. rows \in Seq(RowSet(edits)) /\ ledger.decrees = Shipped /\ LedgerOK(ledger, edits)
      BY <2>2 DEF Init, EditorTypes
    <3>2. Ids(rows) = DOMAIN Shipped
      BY <3>1, DecreeRowsOK, EmptySeq DEF Init
    <3>3. 1 \in DOMAIN rows
      BY <1>2, <3>1
    <3>. QED BY <3>2, <3>3 DEF Ids
  <2>. HIDE DEF id
  <2>4. Sound(Shipped[id])
    BY <2>3, ShippedOK
  <2>. DEFINE d == Shipped[id]
  <2>5. PICK r \in BOOLEAN : r = TRUE
    OBVIOUS
  <2>6. ed = Loaded(id, d, r) /\ steps = MapSeq(d.nodes, StepOf) /\ Sound(d)
    BY <2>1, <2>4, <2>5
  <2>. HIDE DEF d
  <2>7. Shown(d) => Collected = d
    BY <2>6, Reopened DEF Collected
  <2>. QED BY <2>1, <2>7 DEF OpenIsFaithful, d
<1>. QED BY <1>1, <1>2

LEMMA SelectFaithful ==
  ASSUME EditorTypes, NEW id \in DecreeIds, Select(id) PROVE OpenIsFaithful'
<1>. DEFINE d == ledger.decrees[id]
<1>1. /\ ed' = Loaded(id, d, ed.recursive) /\ steps' = MapSeq(d.nodes, StepOf)
      /\ selected' = <<d>> /\ id \in DOMAIN ledger.decrees
  BY DEF Select
<1>2. Sound(d)
  BY <1>1 DEF EditorTypes, LedgerOK, DecreeOK
<1>. HIDE DEF d
<1>3. Shown(d) => Collected' = d
  BY <1>1, <1>2, Reopened DEF Collected
<1>. QED BY <1>1, <1>3 DEF OpenIsFaithful

LEMMA SaveFaithful ==
  ASSUME EditorTypes, OpenIsFaithful, SaveDecree PROVE OpenIsFaithful'
<1>1. ed' = [ed EXCEPT !.id = CollectedId] /\ steps' = steps
  BY DEF SaveDecree
<1>2. Collected' = Collected
  BY <1>1, CollectedAgain
<1>3. \/ selected' = <<Collected>>
      \/ UNCHANGED <<selected, dirty>>
  BY DEF SaveDecree
<1>. QED BY <1>2, <1>3 DEF OpenIsFaithful

\* The editor is changed, or is closed.
LEMMA ChangedFaithful ==
  ASSUME dirty' = TRUE \/ selected' = <<>> PROVE OpenIsFaithful'
BY DEF OpenIsFaithful

LEMMA NextFaithful ==
  ASSUME EditorTypes, OpenIsFaithful, [Next]_vars PROVE OpenIsFaithful'
<1>1. CASE OnDecrees
  <2>1. ASSUME NEW id \in DecreeIds, RemoveDecree(id) PROVE OpenIsFaithful'
    <3>1. selected' = <<>> \/ EditorKept
      BY <2>1 DEF RemoveDecree, EditorKept
    <3>. QED BY <3>1, ChangedFaithful, FaithfulKept
  <2>2. CASE NewDecree
    BY <2>2, ChangedFaithful DEF NewDecree
  <2>3. CASE SimulateDecree
    BY <2>3, FaithfulKept DEF SimulateDecree, EditorKept
  <2>. QED BY <1>1, <2>1, <2>2, <2>3, SelectFaithful, SaveFaithful DEF OnDecrees
<1>2. CASE OnEditor
  <2>1. dirty' = TRUE
    BY <1>2 DEF OnEditor, PressMode, PressEnter, TypeText, StepEdited, RemoveStep, AppendStep,
                Rename, SetSummons, SetPresence, Edited, Changed
  <2>. QED BY <2>1, ChangedFaithful
<1>3. CASE OnWards
  BY <1>3, FaithfulKept DEF OnWards, AddWard, SaveWards, ChangeWard, OfWards, EditorKept
<1>4. CASE OfEngine
  BY <1>4, FaithfulKept DEF OfEngine, EngineSaves, EngineRemoves, EngineRenames,
                            EngineSavesWards, CommandLost, Take, EditorKept
<1>5. CASE Told \/ EntryLost
  BY <1>5, FaithfulKept DEF Told, EntryLost, EditorKept
<1>6. CASE UNCHANGED vars
  BY <1>6, FaithfulKept DEF vars, EditorKept
<1>. QED BY <1>1, <1>2, <1>3, <1>4, <1>5, <1>6 DEF Next

(***************************************************************************)
(* A decree that is opened and not touched is saved as it was, whatever    *)
(* was edited, appended, removed, renamed or saved before.  It is inductive*)
(* with the types, which say of every decree in the ledger and on its way  *)
(* to the engine that the editor could have made it or shows it.           *)
(***************************************************************************)
THEOREM OpenIsFaithfulHolds == Spec => []OpenIsFaithful
BY InitFaithful, NextFaithful, AllTypes, PTL DEF Spec

-----------------------------------------------------------------------------
(* What the ledger holds is listed *)

\* The ledger has no new decree, the list has lost none.
LEMMA ListedKept ==
  ASSUME ListedInv, told => told', missed => missed',
         DOMAIN ledger'.decrees \subseteq DOMAIN ledger.decrees, Ids(rows) \subseteq Ids(rows')
  PROVE  ListedInv'
BY DEF ListedInv, Ids

LEMMA NewDecreeListed ==
  ASSUME EditorTypes, NewDecree PROVE Ids(rows) \subseteq Ids(rows')
<1>1. \E r : rows' = Append(rows, r)
  BY DEF NewDecree
<1>2. rows \in Seq(RowSet(edits))
  BY DEF EditorTypes
<1>3. \A i \in DOMAIN rows : i \in DOMAIN rows' /\ rows'[i] = rows[i]
  BY <1>1, <1>2
<1>. QED BY <1>3 DEF Ids

LEMMA RenameListed ==
  ASSUME EditorTypes, NEW label \in Names, Rename(label) PROVE Ids(rows) \subseteq Ids(rows')
<1>. DEFINE at == First(rows, ed.id)
<1>1. rows' = rows \/ (at # 0 /\ rows' = [rows EXCEPT ![at].label = label])
  BY DEF Rename, First
<1>2. rows \in Seq(RowSet(edits))
  BY DEF EditorTypes
<1>. HIDE DEF at
<1>3. ASSUME rows' = [rows EXCEPT ![at].label = label]
      PROVE  \A i \in DOMAIN rows : i \in DOMAIN rows' /\ rows'[i].id = rows[i].id
  <2>1. \A i \in DOMAIN rows : rows[i] \in RowSet(edits)
    BY <1>2
  <2>. QED BY <1>2, <1>3, <2>1 DEF RowSet
<1>. QED BY <1>1, <1>3 DEF Ids

\* Both were read from one ledger.
LEMMA SyncedListed ==
  ASSUME EditorTypes, EditorTypes', Sync(ledger'), rows \in Seq(RowSet(edits')) PROVE ListedInv'
<1>1. LedgerOK(ledger', edits')
  BY DEF EditorTypes
<1>2. Ids(rows') = DOMAIN ledger'.decrees
  BY <1>1, SyncTypes
<1>. QED BY <1>2 DEF ListedInv, Ids

LEMMA NextListed ==
  ASSUME EditorTypes, ListedInv, [Next]_vars PROVE ListedInv'
<1>1. ASSUME NEW id \in DecreeIds, Select(id) PROVE ListedInv'
  BY <1>1, ListedKept DEF Select, User
<1>2. ASSUME NEW id \in DecreeIds, RemoveDecree(id) PROVE ListedInv'
  <2>1. /\ ledger' = [ledger EXCEPT !.decrees = Without(@, id)] /\ rows' = rows
        /\ told' = told /\ missed' = missed
    BY <1>2 DEF RemoveDecree, User
  <2>2. DOMAIN ledger'.decrees = DOMAIN ledger.decrees \ {id}
    BY <2>1, WithoutOK DEF EditorTypes, Without
  <2>. QED BY <2>1, <2>2, ListedKept
<1>3. CASE SaveDecree
  <2>1. CASE Valid(Collected)
    <3>1. Sync(ledger') /\ User
      BY <1>3, <2>1 DEF SaveDecree
    <3>2. EditorTypes'
      BY <1>3, SaveDecreeTypes
    <3>. QED BY <3>1, <3>2, UserTypes, SyncedListed
  <2>2. CASE ~Valid(Collected)
    BY <1>3, <2>2, ListedKept DEF SaveDecree, User
  <2>. QED BY <2>1, <2>2
<1>4. CASE NewDecree
  BY <1>4, NewDecreeListed, ListedKept DEF NewDecree, User
<1>5. CASE SimulateDecree
  BY <1>5, ListedKept DEF SimulateDecree, User
<1>6. CASE OnEditor
  <2>1. ledger' = ledger /\ told' = told /\ missed' = missed
    BY <1>6 DEF OnEditor, PressMode, PressEnter, TypeText, StepEdited, RemoveStep, AppendStep,
                Rename, SetSummons, SetPresence, Edited, Changed, User
  <2>2. rows' = rows \/ \E label \in Names : Rename(label)
    BY <1>6 DEF OnEditor, PressMode, PressEnter, TypeText, StepEdited, RemoveStep, AppendStep,
                SetSummons, SetPresence
  <2>3. Ids(rows) \subseteq Ids(rows')
    BY <2>2, RenameListed
  <2>. QED BY <2>1, <2>3, ListedKept
<1>7. CASE OnWards
  <2>1. rows' = rows /\ told' = told /\ missed' = missed
    BY <1>7 DEF OnWards, AddWard, SaveWards, ChangeWard, OfWards, User
  <2>2. ledger' = ledger \/ \E t : ledger' = [ledger EXCEPT !.wards = t]
    BY <1>7 DEF OnWards, AddWard, SaveWards, ChangeWard
  <2>3. ledger'.decrees = ledger.decrees
    BY <2>2 DEF EditorTypes, LedgerOK
  <2>. QED BY <2>1, <2>3, ListedKept
<1>8. ASSUME NEW cmd \in commands,
             \/ EngineSaves(cmd) \/ EngineRemoves(cmd) \/ EngineRenames(cmd)
             \/ EngineSavesWards(cmd) \/ CommandLost(cmd)
      PROVE  ListedInv'
  <2>1. CASE EngineSaves(cmd)
    BY <2>1 DEF EngineSaves, ListedInv
  <2>2. CASE EngineRemoves(cmd)
    <3>1. /\ ledger' = [ledger EXCEPT !.decrees = Without(@, cmd.id)] /\ rows' = rows
          /\ (told => told') /\ missed' = missed
      BY <2>2 DEF EngineRemoves, Take
    <3>2. DOMAIN ledger'.decrees = DOMAIN ledger.decrees \ {cmd.id}
      BY <3>1, WithoutOK DEF EditorTypes, Without
    <3>3. Ids(rows) \subseteq Ids(rows')
      BY <3>1
    <3>4. DOMAIN ledger'.decrees \subseteq DOMAIN ledger.decrees
      BY <3>2
    <3>5. (told => told') /\ (missed => missed')
      BY <3>1
    <3>. QED BY <3>3, <3>4, <3>5, ListedKept
  <2>3. CASE EngineRenames(cmd)
    <3>1. DOMAIN ledger'.decrees = DOMAIN ledger.decrees
      BY <2>3, Renamed
    <3>. QED BY <2>3, <3>1, ListedKept DEF EngineRenames, Take
  <2>4. CASE EngineSavesWards(cmd)
    <3>1. ledger'.decrees = ledger.decrees
      BY <2>4 DEF EngineSavesWards, EditorTypes, LedgerOK
    <3>. QED BY <2>4, <3>1, ListedKept DEF EngineSavesWards, Take
  <2>5. CASE CommandLost(cmd)
    BY <2>5, ListedKept DEF CommandLost, Take
  <2>. QED BY <1>8, <2>1, <2>2, <2>3, <2>4, <2>5
<1>9. CASE Told
  <2>1. Sync(ledger') /\ edits' = edits
    BY <1>9 DEF Told
  <2>2. EditorTypes'
    BY <1>9, ToldTypes
  <2>. QED BY <2>1, <2>2, SyncedListed DEF EditorTypes
<1>10. CASE EntryLost
  BY <1>10 DEF EntryLost, ListedInv
<1>11. CASE UNCHANGED vars
  BY <1>11, ListedKept DEF vars
<1>. QED BY <1>1, <1>2, <1>3, <1>4, <1>5, <1>6, <1>7, <1>8, <1>9, <1>10, <1>11
  DEF Next, OnDecrees, OfEngine

(***************************************************************************)
(* Every decree the ledger holds is in the list, or an entry that makes the*)
(* Forge read the ledger is on its way, or one was lost; so at rest all are*)
(* listed, also those the engine put back after they were removed.         *)
(***************************************************************************)
THEOREM LedgerIsListedHolds == Spec => []LedgerIsListed
<1>1. Init => ListedInv
  <2>. SUFFICES ASSUME Init PROVE ListedInv
    OBVIOUS
  <2>1. rows = DecreeRows(<<>>, ledger) /\ LedgerOK(ledger, edits)
    BY InitTypes DEF Init, EditorTypes
  <2>2. Ids(rows) = DOMAIN ledger.decrees
    BY <2>1, DecreeRowsOK, EmptySeq
  <2>. QED BY <2>2 DEF ListedInv, Ids
<1>2. ListedInv => LedgerIsListed
  BY DEF ListedInv, LedgerIsListed
<1>. QED BY <1>1, <1>2, NextListed, AllTypes, PTL DEF Spec

-----------------------------------------------------------------------------
(* The rows of the wards *)

\* A list that is a part of another, or that changes a row and not its id.
LEMMA PartsDistinct ==
  ASSUME NEW q, NEW r, Distinct(q), NEW f \in [DOMAIN r -> DOMAIN q], IsInjective(f),
         \A k \in DOMAIN r : r[k].id = q[f[k]].id
  PROVE  Distinct(r)
BY DEF Distinct, IsInjective

LEMMA RemovedDistinct ==
  ASSUME NEW R, NEW q \in Seq(R), Distinct(q), NEW i \in DOMAIN q
  PROVE  Distinct(RemoveAt(q, i)) /\ Ids(RemoveAt(q, i)) \subseteq Ids(q)
<1>. DEFINE r == RemoveAt(q, i)
            f == [k \in DOMAIN r |-> IF k < i THEN k ELSE k + 1]
<1>1. /\ r \in Seq(R) /\ i \in Nat /\ DOMAIN r \subseteq Nat
      /\ \A k \in DOMAIN r : /\ k < i => k \in DOMAIN q /\ r[k] = q[k]
                             /\ k >= i => k + 1 \in DOMAIN q /\ r[k] = q[k + 1]
  <2>1. r \in Seq(R)
    BY Removed
  <2>2. i \in Nat /\ DOMAIN r \subseteq Nat
    BY <2>1
  <2>. QED BY <2>1, <2>2, Removed
<1>. HIDE DEF r
<1>2. f \in [DOMAIN r -> DOMAIN q] /\ \A k \in DOMAIN r : r[k] = q[f[k]]
  BY <1>1
<1>3. IsInjective(f)
  BY <1>1 DEF IsInjective
<1>. HIDE DEF f
<1>4. Distinct(r)
  BY <1>2, <1>3, PartsDistinct
<1>5. Ids(r) \subseteq Ids(q)
  BY <1>2 DEF Ids
<1>. QED BY <1>4, <1>5 DEF r

LEMMA ChangedDistinct ==
  ASSUME NEW R, NEW q \in Seq(R), Distinct(q), NEW i \in DOMAIN q, NEW w, w.id = q[i].id
  PROVE  Distinct([q EXCEPT ![i] = w]) /\ Ids([q EXCEPT ![i] = w]) = Ids(q)
<1>. DEFINE r == [q EXCEPT ![i] = w]
<1>1. DOMAIN r = DOMAIN q /\ \A k \in DOMAIN q : r[k].id = q[k].id
  OBVIOUS
<1>. HIDE DEF r
<1>2. Distinct(r)
  BY <1>1 DEF Distinct, IsInjective
<1>3. Ids(r) = Ids(q)
  BY <1>1 DEF Ids
<1>. QED BY <1>2, <1>3 DEF r

WardIdsBelow(list, n) == \A m \in Nat : <<"id", m>> \in Ids(list) => m < n

\* WardRowsInv, of the ids.
LEMMA WardRowsSet ==
  WardRowsInv <=> Distinct(wards) /\ WardIdsBelow(wards, edits)
BY DEF WardRowsInv, WardRowsDiffer, Distinct, WardIdsBelow, Ids

LEMMA WardRowsNext ==
  WardRowsInv' <=> Distinct(wards') /\ WardIdsBelow(wards', edits')
BY DEF WardRowsInv, WardRowsDiffer, Distinct, WardIdsBelow, Ids

LEMMA WardRowsStay ==
  ASSUME EditorTypes, WardRowsInv, Distinct(wards'), Ids(wards') \subseteq Ids(wards),
         edits' = edits \/ edits' = edits + 1
  PROVE  WardRowsInv'
<1>1. WardIdsBelow(wards, edits) /\ edits \in Nat
  BY WardRowsSet DEF EditorTypes
<1>2. WardIdsBelow(wards', edits')
  BY <1>1 DEF WardIdsBelow
<1>. QED BY <1>2, WardRowsNext

LEMMA SyncWardRows ==
  ASSUME EditorTypes, WardRowsInv, NEW l, NEW n, LedgerOK(l, n), rows \in Seq(RowSet(n)), Sync(l)
  PROVE  WardRowsInv'
<1>1. Distinct(wards') /\ Ids(wards') = {<<p>> : p \in DOMAIN l.wards}
  BY SyncTypes, WardRowsSet
<1>2. WardIdsBelow(wards', edits')
  BY <1>1 DEF WardIdsBelow
<1>. QED BY <1>1, <1>2, WardRowsNext

LEMMA AddWardRows ==
  ASSUME EditorTypes, WardRowsInv, AddWard PROVE WardRowsInv'
<1>. DEFINE w == [id |-> <<"id", edits>>, path |-> "", recursive |-> TRUE]
<1>1. wards' = Append(wards, w) /\ edits' = edits + 1
  BY DEF AddWard, OfWards, User
<1>2. wards \in Seq(WardSet) /\ edits \in Nat
  BY DEF EditorTypes
<1>3. Distinct(wards) /\ WardIdsBelow(wards, edits)
  BY WardRowsSet
<1>4. w.id = <<"id", edits>>
  OBVIOUS
<1>. HIDE DEF w
<1>5. /\ DOMAIN wards' = 1 .. Len(wards) + 1 /\ wards'[Len(wards) + 1] = w
      /\ DOMAIN wards = 1 .. Len(wards) /\ Len(wards) \in Nat
      /\ \A i \in DOMAIN wards : wards'[i] = wards[i]
  BY <1>1, <1>2
<1>6. w.id \notin Ids(wards)
  BY <1>2, <1>3, <1>4 DEF WardIdsBelow
<1>7. Ids(wards') = Ids(wards) \cup {w.id}
  <2>1. \A i \in DOMAIN wards' : i \in DOMAIN wards \/ i = Len(wards) + 1
    BY <1>5
  <2>2. \A i \in DOMAIN wards : i \in DOMAIN wards'
    BY <1>5
  <2>3. Len(wards) + 1 \in DOMAIN wards'
    BY <1>5
  <2>. QED BY <1>5, <2>1, <2>2, <2>3 DEF Ids
<1>8. Distinct(wards')
  <2>1. \A i \in DOMAIN wards' : i \in DOMAIN wards \/ i = Len(wards) + 1
    BY <1>5
  <2>2. \A i \in DOMAIN wards : wards[i].id # w.id
    BY <1>6 DEF Ids
  <2>. QED BY <1>3, <1>5, <2>1, <2>2 DEF Distinct, IsInjective
<1>9. WardIdsBelow(wards', edits')
  <2>1. \A m \in Nat : <<"id", m>> = <<"id", edits>> => m < edits + 1
    BY <1>2
  <2>2. \A m \in Nat : m < edits => m < edits + 1
    BY <1>2
  <2>. QED BY <1>1, <1>3, <1>4, <1>7, <2>1, <2>2 DEF WardIdsBelow
<1>. QED BY <1>8, <1>9, WardRowsNext

LEMMA ChangeWardRows ==
  ASSUME EditorTypes, WardRowsInv, NEW i \in DOMAIN wards, ChangeWard(wards[i].id)
  PROVE  WardRowsInv'
<1>. DEFINE k == RowOf(wards[i].id)
<1>1. wards \in Seq(WardSet) /\ edits' = edits + 1
  BY DEF EditorTypes, ChangeWard, OfWards, User
<1>2. k \in DOMAIN wards /\ wards[k].id = wards[i].id
  BY <1>1, RowFound
<1>3. \/ wards' = RemoveAt(wards, k)
      \/ \E w \in WardSet : w.id = wards[i].id /\ wards' = [wards EXCEPT ![k] = w]
  BY <1>1, WardChanged
<1>4. Distinct(wards)
  BY WardRowsSet
<1>. HIDE DEF k
<1>5. Distinct(wards') /\ Ids(wards') \subseteq Ids(wards)
  <2>1. CASE wards' = RemoveAt(wards, k)
    BY <1>1, <1>2, <1>4, <2>1, RemovedDistinct
  <2>2. ASSUME NEW w \in WardSet, w.id = wards[i].id, wards' = [wards EXCEPT ![k] = w]
        PROVE  Distinct(wards') /\ Ids(wards') \subseteq Ids(wards)
    <3>1. w.id = wards[k].id
      BY <1>2, <2>2
    <3>. QED BY <1>1, <1>2, <1>4, <2>2, <3>1, ChangedDistinct
  <2>. QED BY <1>3, <2>1, <2>2
<1>. QED BY <1>1, <1>5, WardRowsStay

LEMMA NextWardRows ==
  ASSUME EditorTypes, WardRowsInv, [Next]_vars PROVE WardRowsInv'
<1>1. ASSUME wards' = wards, edits' = edits \/ edits' = edits + 1
      PROVE  WardRowsInv'
  BY <1>1, WardRowsStay, WardRowsSet
<1>2. ASSUME NEW id \in DecreeIds, Select(id) \/ RemoveDecree(id) PROVE WardRowsInv'
  BY <1>1, <1>2 DEF Select, RemoveDecree, User
<1>3. CASE NewDecree \/ SimulateDecree
  BY <1>1, <1>3 DEF NewDecree, SimulateDecree, User
<1>4. CASE SaveDecree
  <2>1. User
    BY <1>4 DEF SaveDecree
  <2>2. CASE Valid(Collected)
    <3>1. Sync(ledger')
      BY <1>4, <2>2 DEF SaveDecree
    <3>2. LedgerOK(ledger', edits')
      BY <1>4, SaveDecreeTypes DEF EditorTypes
    <3>. QED BY <2>1, <3>1, <3>2, UserTypes, SyncWardRows
  <2>3. CASE ~Valid(Collected)
    BY <1>1, <1>4, <2>1, <2>3 DEF SaveDecree, User
  <2>. QED BY <2>2, <2>3
<1>5. CASE OnEditor
  <2>1. wards' = wards /\ edits' = edits + 1
    BY <1>5 DEF OnEditor, PressMode, PressEnter, TypeText, StepEdited, RemoveStep, AppendStep,
                Rename, SetSummons, SetPresence, Edited, Changed, User
  <2>. QED BY <1>1, <2>1
<1>6. CASE SaveWards
  BY <1>1, <1>6 DEF SaveWards, OfWards, User
<1>7. CASE OfEngine
  BY <1>1, <1>7 DEF OfEngine, EngineSaves, EngineRemoves, EngineRenames, EngineSavesWards,
                    CommandLost, Take
<1>8. CASE Told
  <2>1. Sync(ledger) /\ LedgerOK(ledger, edits) /\ rows \in Seq(RowSet(edits))
    BY <1>8 DEF Told, EditorTypes
  <2>. QED BY <2>1, SyncWardRows
<1>9. CASE EntryLost \/ UNCHANGED vars
  BY <1>1, <1>9 DEF EntryLost, vars
<1>. QED BY <1>2, <1>3, <1>4, <1>5, <1>6, <1>7, <1>8, <1>9, AddWardRows, ChangeWardRows
  DEF Next, OnDecrees, OnWards

(***************************************************************************)
(* No two rows of wards have one id, whatever paths the user gives them and*)
(* whenever the ledger is read again: the ids of new rows are numbers that *)
(* were not given out, those of the others are the paths of the ledger.    *)
(***************************************************************************)
THEOREM WardRowsDifferHolds == Spec => []WardRowsDiffer
<1>1. Init => WardRowsInv
  <2>. SUFFICES ASSUME Init PROVE WardRowsInv
    OBVIOUS
  <2>1. wards = <<>>
    BY DEF Init
  <2>2. DOMAIN wards = {}
    BY <2>1
  <2>. QED BY <2>2 DEF WardRowsInv, WardRowsDiffer, IsInjective
<1>2. WardRowsInv => WardRowsDiffer
  BY DEF WardRowsInv
<1>. QED BY <1>1, <1>2, NextWardRows, AllTypes, PTL DEF Spec

-----------------------------------------------------------------------------
(* Every step has one decree *)

\* No step comes to a decree.
LEMMA OwnKept ==
  ASSUME EditorTypes, OwnInv, edits' = edits \/ edits' = edits + 1,
         \A a \in DecreeIds, n \in Nat :
           /\ InLedger(a, n)' => Has(a, n)
           /\ Sent(a, n)' => Has(a, n)
           /\ InWindow(a, n)' => Has(a, n),
         ed'.id = NoId => steps' = <<>>
  PROVE  OwnInv'
<1>1. \A a \in DecreeIds, n \in Nat : Has(a, n)' => Has(a, n)
  BY DEF Has
<1>2. \A n \in Nat : n < edits => n < edits'
  BY DEF EditorTypes
<1>. QED BY <1>1, <1>2 DEF OwnInv

LEMMA NoSteps == StepIds(<<>>) = {}
BY DEF StepIds

LEMMA NoIdIsNone == NoId \notin DecreeIds
BY DEF NoId, DecreeIds, Slug

\* What is shown of a decree has the ids of its nodes.
LEMMA MapIds ==
  ASSUME NEW q \in Seq(Node)
  PROVE  StepIds(MapSeq(q, StepOf)) = StepIds(q)
<1>. DEFINE shown == MapSeq(q, StepOf)
<1>1. DOMAIN shown = DOMAIN q /\ \A i \in DOMAIN q : shown[i] = StepOf(q[i])
  BY Steps
<1>. HIDE DEF shown
<1>2. \A i \in DOMAIN q : shown[i].id = q[i].id
  <2>1. \A i \in DOMAIN q : q[i] \in Node
    OBVIOUS
  <2>. QED BY <1>1, <2>1, StepOfNode
<1>3. StepIds(shown) = StepIds(q)
  BY <1>1, <1>2 DEF StepIds
<1>. QED BY <1>3 DEF shown

\* The steps that are collected are those in the window, and have a decree.
LEMMA CollectedSteps ==
  ASSUME EditorTypes, OwnInv, NEW n \in StepIds(Collected.nodes)
  PROVE  ed.id # NoId /\ CollectedId = ed.id /\ InWindow(ed.id, n)
<1>1. /\ DOMAIN Collected.nodes = DOMAIN steps
      /\ \A i \in DOMAIN steps : Collected.nodes[i] = NodeOf(steps[i])
  BY CollectedOK
<1>2. PICK i \in DOMAIN steps : n = NodeOf(steps[i]).id
  BY <1>1 DEF StepIds
<1>3. steps[i] \in Step
  BY DEF EditorTypes
<1>4. n \in StepIds(steps)
  BY <1>2, <1>3, NodeOfStep DEF StepIds
<1>5. ed.id # NoId
  BY <1>4, NoSteps DEF OwnInv
<1>. QED BY <1>4, <1>5 DEF CollectedId, InWindow

LEMMA InitOwn == Init => OwnInv
<1>. SUFFICES ASSUME Init PROVE OwnInv
  OBVIOUS
<1>1. ledger.decrees = Shipped /\ commands = {} /\ edits = 0
  BY DEF Init
<1>2. EditorTypes
  BY InitTypes
<1>3. \/ ed.id = NoId /\ steps = <<>>
      \/ /\ ed.id \in DOMAIN Shipped
         /\ steps = MapSeq(Shipped[ed.id].nodes, StepOf)
  <2>1. CASE rows = <<>>
    <3>1. ed = Nothing /\ steps = <<>>
      BY <2>1 DEF Init
    <3>. QED BY <3>1 DEF Nothing
  <2>2. CASE rows # <<>>
    <3>1. rows \in Seq(RowSet(edits)) /\ LedgerOK(ledger, edits)
      BY <1>2 DEF EditorTypes
    <3>2. Ids(rows) = DOMAIN Shipped
      BY <1>1, <3>1, DecreeRowsOK, EmptySeq DEF Init
    <3>3. rows[1].id \in DOMAIN Shipped
      BY <2>2, <3>1, <3>2 DEF Ids
    <3>4. ed.id = rows[1].id /\ steps = MapSeq(Shipped[rows[1].id].nodes, StepOf)
      BY <2>2 DEF Init, Loaded
    <3>. QED BY <3>3, <3>4
  <2>. QED BY <2>1, <2>2
<1>4. ASSUME NEW a \in DOMAIN Shipped
      PROVE  StepIds(MapSeq(Shipped[a].nodes, StepOf)) = StepIds(Shipped[a].nodes)
  <2>1. Shipped[a].nodes \in Seq(Node)
    BY ShippedOK DEF Sound, Decree
  <2>. QED BY <2>1, MapIds
<1>5. \A a \in DecreeIds, n \in Nat :
        Has(a, n) => a \in DOMAIN Shipped /\ n \in StepIds(Shipped[a].nodes)
  BY <1>1, <1>3, <1>4, NoSteps DEF Has, InLedger, Sent, InWindow
<1>6. ASSUME NEW a \in DOMAIN Shipped, NEW n \in StepIds(Shipped[a].nodes)
      PROVE  n > MaxEdits /\ \A b \in DOMAIN Shipped : n \in StepIds(Shipped[b].nodes) => a = b
  BY ShippedOK DEF StepIds
<1>7. \A a, b \in DecreeIds, n \in Nat : Has(a, n) /\ Has(b, n) => a = b
  BY <1>5, <1>6
<1>8. \A a \in DecreeIds, n \in Nat : Has(a, n) => n > MaxEdits
  BY <1>5, <1>6
<1>9. ed.id = NoId => steps = <<>>
  <2>1. DOMAIN Shipped \subseteq DecreeIds
    BY <1>1, <1>2 DEF EditorTypes, LedgerOK
  <2>. QED BY <1>3, <2>1, NoIdIsNone
<1>. QED BY <1>7, <1>8, <1>9 DEF OwnInv

LEMMA NewDecreeOwn ==
  ASSUME EditorTypes, OwnInv, NewDecree PROVE OwnInv'
<1>1. ledger' = ledger /\ commands' = commands /\ steps' = <<>> /\ edits' = edits + 1
  BY DEF NewDecree, User
<1>. QED BY <1>1, NoSteps, OwnKept DEF Has, InLedger, Sent, InWindow

LEMMA SelectOwn ==
  ASSUME EditorTypes, OwnInv, NEW id \in DecreeIds, Select(id) PROVE OwnInv'
<1>1. /\ ledger' = ledger /\ commands' = commands /\ edits' = edits + 1
      /\ id \in DOMAIN ledger.decrees /\ steps' = MapSeq(ledger.decrees[id].nodes, StepOf)
      /\ ed'.id = id
  BY DEF Select, User, Loaded
<1>2. ledger.decrees[id].nodes \in Seq(Node)
  BY <1>1 DEF EditorTypes, LedgerOK, DecreeOK, Sound, Decree
<1>3. StepIds(steps') = StepIds(ledger.decrees[id].nodes)
  BY <1>1, <1>2, MapIds
<1>4. id # NoId
  BY NoIdIsNone
<1>. QED BY <1>1, <1>3, <1>4, OwnKept DEF Has, InLedger, Sent, InWindow

\* The steps in the window lose some, or change and keep their ids.
LEMMA FewerStepsOwn ==
  ASSUME EditorTypes, OwnInv, UNCHANGED <<ledger, commands, ed>>, edits' = edits + 1,
         ed.id # NoId, StepIds(steps') \subseteq StepIds(steps)
  PROVE  OwnInv'
BY OwnKept DEF Has, InLedger, Sent, InWindow

LEMMA StepEditedOwn ==
  ASSUME EditorTypes, OwnInv, NEW i \in DOMAIN steps, NEW text, StepEdited(i, text)
  PROVE  OwnInv'
<1>1. /\ UNCHANGED <<ledger, commands, ed>> /\ edits' = edits + 1 /\ ed.id # NoId
      /\ steps' = [steps EXCEPT ![i] =
           IF steps[i].kind = "inscribe" /\ steps[i].text = text
             THEN [@ EXCEPT !.mode = IF @ = "Move" THEN "Copy" ELSE "Move"]
             ELSE [@ EXCEPT !.text = text]]
  BY DEF StepEdited, Edited, Changed, User
<1>2. steps \in Seq(Step) /\ steps[i] \in Step
  BY DEF EditorTypes
<1>3. \E s : s.id = steps[i].id /\ steps' = [steps EXCEPT ![i] = s]
  BY <1>1, <1>2 DEF Step
<1>4. DOMAIN steps' = DOMAIN steps /\ \A k \in DOMAIN steps : steps'[k].id = steps[k].id
  BY <1>2, <1>3
<1>5. StepIds(steps') \subseteq StepIds(steps)
  BY <1>4 DEF StepIds
<1>. QED BY <1>1, <1>5, FewerStepsOwn

LEMMA RemoveStepOwn ==
  ASSUME EditorTypes, OwnInv, NEW i \in DOMAIN steps, RemoveStep(i) PROVE OwnInv'
<1>1. /\ UNCHANGED <<ledger, commands, ed>> /\ edits' = edits + 1 /\ ed.id # NoId
      /\ steps' = RemoveAt(steps, i)
  BY DEF RemoveStep, Edited, Changed, User
<1>2. /\ steps' \in Seq(Step) /\ i \in Nat /\ DOMAIN steps' \subseteq Nat
      /\ \A k \in DOMAIN steps' : /\ k < i => k \in DOMAIN steps /\ steps'[k] = steps[k]
                                  /\ k >= i => k + 1 \in DOMAIN steps /\ steps'[k] = steps[k + 1]
  <2>1. steps \in Seq(Step)
    BY DEF EditorTypes
  <2>2. steps' \in Seq(Step)
    BY <1>1, <2>1, Removed
  <2>3. i \in Nat /\ DOMAIN steps' \subseteq Nat
    BY <2>1, <2>2
  <2>. QED BY <1>1, <2>1, <2>2, <2>3, Removed
<1>3. \A k \in DOMAIN steps' : \E j \in DOMAIN steps : steps'[k] = steps[j]
  BY <1>2
<1>4. StepIds(steps') \subseteq StepIds(steps)
  BY <1>3 DEF StepIds
<1>. QED BY <1>1, <1>4, FewerStepsOwn

\* The step that is appended gets an id nobody has.
LEMMA AppendStepOwn ==
  ASSUME EditorTypes, OwnInv, NEW kind \in Kinds, AppendStep(kind) PROVE OwnInv'
<1>. DEFINE s == [id |-> edits, kind |-> kind, text |-> "1000",
                  mode |-> IF kind = "inscribe" THEN "new" ELSE "none"]
<1>1. /\ UNCHANGED <<ledger, commands, ed>> /\ edits < MaxEdits /\ edits' = edits + 1
      /\ ed.id # NoId /\ steps' = Append(steps, s)
  BY DEF AppendStep, Edited, Changed, User
<1>2. s.id = edits
  OBVIOUS
<1>. HIDE DEF s
<1>3. edits \in Nat /\ MaxEdits \in Nat /\ steps \in Seq(Step)
  BY Bounds DEF EditorTypes
<1>4. StepIds(steps') \subseteq StepIds(steps) \cup {edits}
  <2>1. \A i \in DOMAIN steps' : (i \in DOMAIN steps /\ steps'[i] = steps[i]) \/ steps'[i] = s
    BY <1>1, <1>3
  <2>. QED BY <1>2, <2>1 DEF StepIds
<1>5. \A a \in DecreeIds, n \in Nat : Has(a, n)' => Has(a, n) \/ (a = ed.id /\ n = edits)
  BY <1>1, <1>4 DEF Has, InLedger, Sent, InWindow
<1>6. \A a \in DecreeIds : ~Has(a, edits)
  BY <1>1, <1>3 DEF OwnInv
<1>7. \A a, b \in DecreeIds, n \in Nat : Has(a, n)' /\ Has(b, n)' => a = b
  BY <1>5, <1>6 DEF OwnInv
<1>8. \A a \in DecreeIds, n \in Nat : Has(a, n)' => n < edits' \/ n > MaxEdits
  <2>1. \A n \in Nat : n < edits => n < edits'
    BY <1>1, <1>3
  <2>2. edits < edits'
    BY <1>1, <1>3
  <2>. QED BY <1>5, <2>1, <2>2 DEF OwnInv
<1>9. ed'.id # NoId
  BY <1>1
<1>. QED BY <1>7, <1>8, <1>9 DEF OwnInv

LEMMA RenameOwn ==
  ASSUME EditorTypes, OwnInv, NEW label \in Names, Rename(label) PROVE OwnInv'
<1>1. /\ ledger' = ledger /\ edits' = edits + 1 /\ steps' = steps
      /\ ed' = [ed EXCEPT !.label = label]
      /\ \A c \in commands' : c \in commands \/ c.kind = "rename"
  <2>1. \/ commands' = commands
        \/ commands' = commands \cup {[kind |-> "rename", id |-> ed.id, label |-> label]}
    BY DEF Rename, Send
  <2>. QED BY <2>1 DEF Rename, Changed, User
<1>2. ed'.id = ed.id
  BY <1>1 DEF EditorTypes, EdOK
<1>3. \A a \in DecreeIds, n \in Nat : Sent(a, n)' => Sent(a, n)
  BY <1>1 DEF Sent
<1>. QED BY <1>1, <1>2, <1>3, OwnKept DEF OwnInv, Has, InLedger, InWindow

LEMMA FieldsOwn ==
  ASSUME EditorTypes, OwnInv,
         SetPresence \/ \E type, value, recursive : SetSummons(type, value, recursive)
  PROVE  OwnInv'
<1>1. /\ UNCHANGED <<ledger, commands, steps>> /\ edits' = edits + 1
  BY DEF SetPresence, SetSummons, Edited, Changed, User
<1>2. ed'.id = ed.id
  BY DEF SetPresence, SetSummons, EditorTypes, EdOK
<1>. QED BY <1>1, <1>2, OwnKept DEF OwnInv, Has, InLedger, Sent, InWindow

\* A command to save what is collected.
LEMMA SentOwn ==
  ASSUME EditorTypes, OwnInv,
         commands' = commands \cup {[kind |-> "save", id |-> CollectedId, decree |-> Collected]},
         NEW a, NEW n, Sent(a, n)'
  PROVE  Has(a, n)
<1>. DEFINE new == [kind |-> "save", id |-> CollectedId, decree |-> Collected]
<1>1. PICK c \in commands' : c.kind = "save" /\ c.id = a /\ n \in StepIds(c.decree.nodes)
  BY DEF Sent
<1>2. CASE c = new
  <2>1. n \in StepIds(Collected.nodes) /\ a = CollectedId
    BY <1>1, <1>2
  <2>. QED BY <2>1, CollectedSteps DEF Has
<1>3. CASE c \in commands
  BY <1>1, <1>3 DEF Has, Sent
<1>. QED BY <1>2, <1>3

LEMMA SaveDecreeOwn ==
  ASSUME EditorTypes, OwnInv, SaveDecree PROVE OwnInv'
<1>1. User /\ edits' = edits + 1 /\ steps' = steps /\ ed' = [ed EXCEPT !.id = CollectedId]
  BY DEF SaveDecree, User
<1>2. ed'.id = CollectedId /\ CollectedId \in DecreeIds
  BY <1>1, CollectedOK DEF EditorTypes, EdOK
<1>3. ed'.id # NoId
  BY <1>2, NoIdIsNone
<1>4. \A a \in DecreeIds, n \in Nat : InWindow(a, n)' => Has(a, n)
  <2>1. CASE ed.id = NoId
    BY <1>1, <2>1, NoSteps DEF OwnInv, InWindow
  <2>2. CASE ed.id # NoId
    BY <1>1, <1>2, <2>2 DEF InWindow, CollectedId, Has
  <2>. QED BY <2>1, <2>2
<1>5. CASE Valid(Collected)
  <2>1. /\ ledger' = WithDecree(ledger, CollectedId, Collected, TRUE)
        /\ commands' = commands \cup {[kind |-> "save", id |-> CollectedId, decree |-> Collected]}
    BY <1>5 DEF SaveDecree, Send
  <2>2. /\ DOMAIN ledger'.decrees = DOMAIN ledger.decrees \cup {CollectedId}
        /\ ledger'.decrees[CollectedId] = Collected
        /\ \A x \in DOMAIN ledger.decrees :
             x # CollectedId => ledger'.decrees[x] = ledger.decrees[x]
    <3>1. ledger'.decrees = Put(ledger.decrees, CollectedId, Collected)
      BY <2>1 DEF WithDecree
    <3>. QED BY <3>1 DEF Put
  <2>3. \A a \in DecreeIds, n \in Nat : InLedger(a, n)' => Has(a, n)
    BY <2>2, CollectedSteps DEF InLedger, Has
  <2>4. \A a \in DecreeIds, n \in Nat : Sent(a, n)' => Has(a, n)
    BY <2>1, SentOwn
  <2>. QED BY <1>1, <1>3, <1>4, <2>3, <2>4, OwnKept
<1>6. CASE ~Valid(Collected)
  <2>1. ledger' = ledger /\ commands' = commands
    BY <1>6 DEF SaveDecree
  <2>2. \A a \in DecreeIds, n \in Nat : (InLedger(a, n)' => Has(a, n)) /\ (Sent(a, n)' => Has(a, n))
    BY <2>1 DEF InLedger, Sent, Has
  <2>. QED BY <1>1, <1>3, <1>4, <2>2, OwnKept
<1>. QED BY <1>5, <1>6

LEMMA SimulateDecreeOwn ==
  ASSUME EditorTypes, OwnInv, SimulateDecree PROVE OwnInv'
<1>1. /\ UNCHANGED <<ledger, ed, steps>> /\ edits' = edits + 1
      /\ commands' = commands \cup {[kind |-> "save", id |-> CollectedId, decree |-> Collected]}
  BY DEF SimulateDecree, User, Send
<1>2. \A a \in DecreeIds, n \in Nat : Sent(a, n)' => Has(a, n)
  BY <1>1, SentOwn
<1>3. \A a \in DecreeIds, n \in Nat :
        (InLedger(a, n)' => Has(a, n)) /\ (InWindow(a, n)' => Has(a, n))
  BY <1>1 DEF InLedger, InWindow, Has
<1>. QED BY <1>1, <1>2, <1>3, OwnKept DEF OwnInv

LEMMA RemoveDecreeOwn ==
  ASSUME EditorTypes, OwnInv, NEW id \in DecreeIds, RemoveDecree(id) PROVE OwnInv'
<1>1. /\ ledger' = [ledger EXCEPT !.decrees = Without(@, id)] /\ edits' = edits + 1
      /\ \A c \in commands' : c \in commands \/ c.kind = "remove"
  BY DEF RemoveDecree, User, Send
<1>2. /\ DOMAIN ledger'.decrees = DOMAIN ledger.decrees \ {id}
      /\ \A x \in DOMAIN ledger'.decrees : ledger'.decrees[x] = ledger.decrees[x]
  <2>1. LedgerOK(ledger, edits)
    BY DEF EditorTypes
  <2>2. ledger'.decrees = Without(ledger.decrees, id)
    BY <1>1, <2>1, WithoutOK
  <2>. QED BY <2>2 DEF Without
<1>3. \/ steps' = <<>>
      \/ steps' = steps /\ ed' = ed
  BY DEF RemoveDecree
<1>4. \A a \in DecreeIds, n \in Nat : InLedger(a, n)' => Has(a, n)
  BY <1>2 DEF InLedger, Has
<1>5. \A a \in DecreeIds, n \in Nat : Sent(a, n)' => Has(a, n)
  BY <1>1 DEF Sent, Has
<1>6. \A a \in DecreeIds, n \in Nat : InWindow(a, n)' => Has(a, n)
  BY <1>3, NoSteps DEF InWindow, Has
<1>7. ed'.id = NoId => steps' = <<>>
  BY <1>3 DEF OwnInv
<1>. QED BY <1>1, <1>4, <1>5, <1>6, <1>7, OwnKept

\* The engine takes a command.
LEMMA TakeOwn ==
  ASSUME EditorTypes, OwnInv, NEW cmd \in commands, Take(cmd),
         \A a \in DecreeIds, n \in Nat : InLedger(a, n)' => Has(a, n)
  PROVE  OwnInv'
<1>1. commands' \subseteq commands /\ UNCHANGED <<ed, steps, edits>>
  BY DEF Take
<1>2. \A a \in DecreeIds, n \in Nat : (Sent(a, n)' => Has(a, n)) /\ (InWindow(a, n)' => Has(a, n))
  BY <1>1 DEF Sent, InWindow, Has
<1>. QED BY <1>1, <1>2, OwnKept DEF OwnInv

LEMMA EngineOwn == ASSUME EditorTypes, OwnInv, OfEngine PROVE OwnInv'
<1>1. PICK cmd \in commands : \/ EngineSaves(cmd) \/ EngineRemoves(cmd) \/ EngineRenames(cmd)
                              \/ EngineSavesWards(cmd) \/ CommandLost(cmd)
  BY DEF OfEngine
<1>2. CASE EngineSaves(cmd)
  <2>1. /\ Take(cmd) /\ cmd.kind = "save"
        /\ ledger' = WithDecree(ledger, cmd.id, cmd.decree, FALSE)
    BY <1>2 DEF EngineSaves
  <2>2. /\ DOMAIN ledger'.decrees = DOMAIN ledger.decrees \cup {cmd.id}
        /\ ledger'.decrees[cmd.id] = cmd.decree
        /\ \A x \in DOMAIN ledger.decrees : x # cmd.id => ledger'.decrees[x] = ledger.decrees[x]
    <3>1. ledger'.decrees = Put(ledger.decrees, cmd.id, cmd.decree)
      BY <2>1 DEF WithDecree
    <3>. QED BY <3>1 DEF Put
  <2>3. \A a \in DecreeIds, n \in Nat : InLedger(a, n)' => Has(a, n)
    BY <2>1, <2>2 DEF InLedger, Sent, Has
  <2>. QED BY <2>1, <2>3, TakeOwn
<1>3. CASE EngineRemoves(cmd)
  <2>1. Take(cmd) /\ ledger' = [ledger EXCEPT !.decrees = Without(@, cmd.id)]
    BY <1>3 DEF EngineRemoves
  <2>2. /\ DOMAIN ledger'.decrees = DOMAIN ledger.decrees \ {cmd.id}
        /\ \A x \in DOMAIN ledger'.decrees : ledger'.decrees[x] = ledger.decrees[x]
    <3>1. LedgerOK(ledger, edits)
      BY DEF EditorTypes
    <3>2. ledger'.decrees = Without(ledger.decrees, cmd.id)
      BY <2>1, <3>1, WithoutOK
    <3>. QED BY <3>2 DEF Without
  <2>3. \A a \in DecreeIds, n \in Nat : InLedger(a, n)' => Has(a, n)
    BY <2>2 DEF InLedger, Has
  <2>. QED BY <2>1, <2>3, TakeOwn
<1>4. CASE EngineRenames(cmd)
  <2>1. Take(cmd)
    BY <1>4 DEF EngineRenames
  <2>2. /\ DOMAIN ledger'.decrees = DOMAIN ledger.decrees
        /\ \A id \in DOMAIN ledger.decrees :
             ledger'.decrees[id].nodes = ledger.decrees[id].nodes
    BY <1>4, Renamed
  <2>3. \A a \in DecreeIds, n \in Nat : InLedger(a, n)' => Has(a, n)
    BY <2>2 DEF InLedger, Has
  <2>. QED BY <2>1, <2>3, TakeOwn
<1>5. CASE EngineSavesWards(cmd) \/ CommandLost(cmd)
  <2>1. Take(cmd)
    BY <1>5 DEF EngineSavesWards, CommandLost
  <2>2. ledger'.decrees = ledger.decrees
    BY <1>5 DEF EngineSavesWards, CommandLost, EditorTypes, LedgerOK
  <2>3. \A a \in DecreeIds, n \in Nat : InLedger(a, n)' => Has(a, n)
    BY <2>2 DEF InLedger, Has
  <2>. QED BY <2>1, <2>3, TakeOwn
<1>. QED BY <1>1, <1>2, <1>3, <1>4, <1>5

LEMMA OnWardsOwn == ASSUME EditorTypes, OwnInv, OnWards PROVE OwnInv'
<1>1. /\ UNCHANGED <<ed, steps>> /\ edits' = edits + 1
      /\ \A c \in commands' : c \in commands \/ c.kind = "wards"
  <2>1. UNCHANGED <<ed, steps>> /\ edits' = edits + 1
    BY DEF OnWards, AddWard, SaveWards, ChangeWard, OfWards, User
  <2>2. commands' = commands \/ \E t : commands' = commands \cup {[kind |-> "wards", table |-> t]}
    BY DEF OnWards, AddWard, SaveWards, ChangeWard, Send
  <2>. QED BY <2>1, <2>2
<1>2. ledger' = ledger \/ \E t : ledger' = [ledger EXCEPT !.wards = t]
  BY DEF OnWards, AddWard, SaveWards, ChangeWard
<1>3. ledger'.decrees = ledger.decrees
  BY <1>2 DEF EditorTypes, LedgerOK
<1>4. \A a \in DecreeIds, n \in Nat :
        /\ InLedger(a, n)' => Has(a, n)
        /\ Sent(a, n)' => Has(a, n)
        /\ InWindow(a, n)' => Has(a, n)
  BY <1>1, <1>3 DEF InLedger, Sent, InWindow, Has
<1>. QED BY <1>1, <1>4, OwnKept DEF OwnInv

LEMMA NextOwn == ASSUME EditorTypes, OwnInv, [Next]_vars PROVE OwnInv'
<1>1. CASE OnDecrees
  BY <1>1, NewDecreeOwn, SaveDecreeOwn, SimulateDecreeOwn, SelectOwn, RemoveDecreeOwn DEF OnDecrees
<1>2. CASE OnEditor
  <2>1. ASSUME NEW i \in DOMAIN steps,
               PressMode(i) \/ PressEnter(i) \/ \E text \in Texts : TypeText(i, text)
        PROVE  OwnInv'
    BY <2>1, StepEditedOwn DEF PressMode, PressEnter, TypeText
  <2>. QED BY <1>2, <2>1, RemoveStepOwn, AppendStepOwn, RenameOwn, FieldsOwn DEF OnEditor
<1>3. CASE Told \/ EntryLost \/ UNCHANGED vars
  <2>1. UNCHANGED <<ledger, ed, steps, commands, edits>>
    BY <1>3 DEF Told, EntryLost, vars
  <2>. QED BY <2>1, OwnKept DEF OwnInv, Has, InLedger, Sent, InWindow
<1>. QED BY <1>1, <1>2, <1>3, OnWardsOwn, EngineOwn DEF Next

(***************************************************************************)
(* No step ends up in two decrees of the ledger, whatever is appended,     *)
(* removed, saved or simulated, and however late the engine takes it: each *)
(* step has one decree, in the ledger, in a command and in the window, and *)
(* without an active decree the window has none.                           *)
(***************************************************************************)
THEOREM StepsStayHolds == Spec => []StepsStay
<1>1. EditorTypes /\ OwnInv => StepsStay
  <2>. SUFFICES ASSUME EditorTypes, OwnInv,
                       NEW a \in DOMAIN ledger.decrees, NEW b \in DOMAIN ledger.decrees,
                       NEW n \in StepIds(ledger.decrees[a].nodes),
                       n \in StepIds(ledger.decrees[b].nodes)
                PROVE  a = b
    BY DEF StepsStay, StepIds
  <2>1. a \in DecreeIds /\ b \in DecreeIds /\ ledger.decrees[a].nodes \in Seq(Node)
    BY DEF EditorTypes, LedgerOK, DecreeOK, Sound, Decree
  <2>2. n \in Nat
    <3>1. PICK i \in DOMAIN ledger.decrees[a].nodes : n = ledger.decrees[a].nodes[i].id
      BY DEF StepIds
    <3>2. ledger.decrees[a].nodes[i] \in Node
      BY <2>1
    <3>. QED BY <3>1, <3>2 DEF Node
  <2>3. Has(a, n) /\ Has(b, n)
    BY DEF Has, InLedger
  <2>. QED BY <2>1, <2>2, <2>3 DEF OwnInv
<1>. QED BY <1>1, InitOwn, NextOwn, AllTypes, PTL DEF Spec
=============================================================================
