------------------------------- MODULE Editor -------------------------------
(***************************************************************************)
(* The Forge's window (arbiter-forge/src/main.rs): the list of decrees,    *)
(* the editor of the active one, the table of wards; the ledger they are   *)
(* saved to, and the engine, which is sent every save and writes the       *)
(* ledger as well.  The Forge reads the ledger again (sync_ledger_to_ui)   *)
(* after its own saves and when the engine logs one of some.  Every        *)
(* callback runs to its end on the thread of the user interface.  The      *)
(* ledger can be read and written (Config has the calls that fail).        *)
(*                                                                         *)
(* Labels are numbers: "New Decree n" is n, the names a user types come    *)
(* after these; an id is the slug of a label.  Paths are in normal form, a *)
(* ward is its path and its recursion, a step has one text (the paths, the *)
(* delay or the arguments), and its title, the patterns and the second     *)
(* presence flag are left out.                                             *)
(***************************************************************************)
EXTENDS Naturals, Sequences, FiniteSets, SequencesExt

CONSTANTS
  Names,        \* labels the user may type, numbers above MaxEdits
  Kinds,        \* of the steps the user appends
  Texts,        \* of a step in the editor: numbers, or "words"
  Paths,        \* of wards and of the summons
  Shipped,      \* decrees written by hand into the first ledger
  MaxEdits,     \* bound on what the user does
  MaxSteps      \* bound on the steps of the active decree

NoLabel == 0    \* "No Decree Selected"
NewLabels == 1 .. MaxEdits
Labels == {NoLabel} \cup NewLabels \cup Names
Slug(label) == <<label>>
NoId == <<>>
DecreeIds == {Slug(l) : l \in Labels}
WardIds == {<<p>> : p \in Paths} \cup {<<"id", n>> : n \in 0 .. MaxEdits}
Triggers == {"file", "hotkey", "process", "manual", "clipboard"}
Fields == {"file", "hotkey", "process"}
Modes == {"none", "new", "Move", "Copy"}

ASSUME EditorConstantsOK ==
  /\ Kinds \subseteq {"inscribe", "shell", "wait"}
  /\ {"1000", "words"} \subseteq Texts /\ "spaced" \notin Texts /\ "" \notin Paths
  /\ Names \subseteq Nat \ (0 .. MaxEdits)
  /\ MaxEdits \in Nat /\ MaxSteps \in Nat

VARIABLES
  ledger,     \* [decrees |-> their ids' decrees, wards |-> their paths' attributes]
  rows,       \* DECREE_MODEL: sequence of [id, label]
  wards,      \* WARD_MODEL: sequence of [id, path, attr]
  ed,         \* the active decree's fields
  steps,      \* STEP_MODEL
  commands,   \* sent to the engine, each by a task of its own
  told,       \* an entry that makes the Forge read the ledger is on its way
  selected,   \* history: the decree as last read from the ledger or saved
  dirty,      \* history: the user has changed the editor since
  missed,     \* history: such an entry was lost
  edits       \* history: what the user has done so far

vars == <<ledger, rows, wards, ed, steps, commands, told, selected, dirty, missed, edits>>

-----------------------------------------------------------------------------
(* Decrees and their steps *)

Actions == {"Move", "Copy", "Shell", "Wait", "Other"}

\* The editor shows neither a point or delay nor that a program is attached,
\* and takes each node to lead to the next one: a node that is or has anything
\* else is not plain.  As arguments, the text "words" is two words and "spaced"
\* is one that holds a space; as a delay, "words" is no number.
Node == [id: Nat, action: Actions, text: Texts \cup {"spaced"}, plain: BOOLEAN]
Step == [id: Nat, kind: {"inscribe", "shell", "wait", "other"}, mode: Modes, text: Texts]
Summons == [type: Triggers, value: Paths \cup {"", "x"}, recursive: BOOLEAN]

\* A step as collect_decree_from_ui saves it, its arguments split at spaces.
NodeOf(step) ==
  [id |-> step.id, plain |-> TRUE,
   action |-> CASE step.kind = "inscribe" -> IF step.mode = "Copy" THEN "Copy" ELSE "Move"
                [] step.kind = "shell" -> "Shell"
                [] step.kind \in {"wait", "other"} -> "Wait",
   text |-> IF step.kind = "other" \/ (step.kind = "wait" /\ step.text = "words")
              THEN "1000" ELSE step.text]

\* A node as on_select_decree shows it, its arguments joined by spaces.
StepOf(node) ==
  [id |-> node.id,
   kind |-> CASE node.action \in {"Move", "Copy"} -> "inscribe"
              [] node.action = "Shell" -> "shell"
              [] node.action = "Wait" -> "wait"
              [] OTHER -> "other",
   mode |-> IF node.action \in {"Move", "Copy"} THEN node.action ELSE "none",
   text |-> IF node.action = "Other" THEN "1000"
            ELSE IF node.text = "spaced" THEN "words" ELSE node.text]

MapSeq(seq, Op(_)) == [i \in DOMAIN seq |-> Op(seq[i])]

\* The trigger tabs offer the types of Fields; what else was loaded is manual.
SummonsOf(e) ==
  CASE e.type = "file" -> [type |-> "file", value |-> e.field["file"], recursive |-> e.recursive]
    [] e.type \in {"hotkey", "process"} ->
         [type |-> e.type, value |-> e.field[e.type], recursive |-> FALSE]
    [] OTHER -> [type |-> "manual", value |-> "", recursive |-> FALSE]

Collected ==
  [label |-> ed.label, summons |-> SummonsOf(ed), presence |-> ed.presence,
   nodes |-> MapSeq(steps, NodeOf)]

CollectedId == IF ed.id = NoId THEN <<ed.label>> ELSE ed.id

\* DecreeDef::validate; the sequence the editor makes is always linked.
Valid(d) == d.summons.type \in Fields => d.summons.value # ""

Put(f, k, v) == [x \in DOMAIN f \cup {k} |-> IF x = k THEN v ELSE f[x]]
Without(f, k) == [x \in DOMAIN f \ {k} |-> f[x]]

Decree == [label: Labels, summons: Summons, presence: BOOLEAN, nodes: Seq(Node)]

\* As the program reads it from a file: a summons has the fields of its type,
\* a delay is a number, only a program has arguments.
Sound(d) ==
  /\ d \in Decree
  /\ d.summons.type \in {"manual", "clipboard"} => d.summons.value = ""
  /\ d.summons.type = "file" => d.summons.value \in Paths \cup {""}
  /\ d.summons.type # "file" => ~d.summons.recursive
  /\ \A i \in DOMAIN d.nodes :
       /\ d.nodes[i].action = "Wait" => d.nodes[i].text # "words"
       /\ d.nodes[i].action # "Shell" => d.nodes[i].text # "spaced"

\* The decrees of the first ledger share no step, and have names of the user's.
ASSUME ShippedOK ==
  /\ IsFiniteSet(DOMAIN Shipped) /\ DOMAIN Shipped \subseteq {Slug(l) : l \in Names}
  /\ \A id \in DOMAIN Shipped :
       /\ Sound(Shipped[id]) /\ Shipped[id].label \in Names
       /\ Len(Shipped[id].nodes) <= MaxSteps
       /\ \A i \in DOMAIN Shipped[id].nodes : Shipped[id].nodes[i].id > MaxEdits
  /\ \A a, b \in DOMAIN Shipped : a # b =>
       \A i \in DOMAIN Shipped[a].nodes, j \in DOMAIN Shipped[b].nodes :
         Shipped[a].nodes[i].id # Shipped[b].nodes[j].id

TypeOK ==
  /\ DOMAIN ledger.decrees \subseteq DecreeIds
  /\ \A id \in DOMAIN ledger.decrees : ledger.decrees[id] \in Decree
  /\ DOMAIN ledger.wards \subseteq Paths
  /\ \A p \in DOMAIN ledger.wards : ledger.wards[p] \in BOOLEAN
  /\ rows \in Seq([id: DecreeIds, label: Labels])
  /\ wards \in Seq([id: WardIds, path: Paths \cup {""}, recursive: BOOLEAN])
  /\ ed \in [id: DecreeIds \cup {NoId}, label: Labels, status: {0, 1}, type: Triggers,
             field: [Fields -> Paths \cup {"", "x"}], recursive: BOOLEAN, presence: BOOLEAN]
  /\ steps \in Seq(Step) /\ Len(steps) <= MaxSteps
  /\ told \in BOOLEAN /\ dirty \in BOOLEAN /\ missed \in BOOLEAN
  /\ edits \in 0 .. MaxEdits

-----------------------------------------------------------------------------
(* The ledger and the lists that show it *)

\* row is a function of the ids the ledger holds.  Rows of other ids go, the
\* last row of each of these takes its values; what is new comes last.
Synced(list, row) ==
  LET kept == {i \in DOMAIN list : list[i].id \in DOMAIN row}
      at(n) == CHOOSE i \in kept : Cardinality({j \in kept : j < i}) = n - 1
      last(i) == \A j \in i + 1 .. Len(list) : list[j].id # list[i].id
      new == SetToSeq(DOMAIN row \ {list[i].id : i \in DOMAIN list})
  IN [n \in 1 .. Cardinality(kept) |->
        IF last(at(n)) THEN row[list[at(n)].id] ELSE list[at(n)]]
     \o [n \in DOMAIN new |-> row[new[n]]]

DecreeRows(list, l) ==
  Synced(list, [id \in DOMAIN l.decrees |-> [id |-> id, label |-> l.decrees[id].label]])

WardsOf(l) ==
  [id \in {<<p>> : p \in DOMAIN l.wards} |->
     [id |-> id, path |-> id[1], recursive |-> l.wards[id[1]]]]

\* Mutant: the rows of new wards stay beside those of the ledger.
WardRows_Keeps(list, l) == list \o Synced(<<>>, WardsOf(l))

WardRows(list, l) == Synced(list, WardsOf(l))

Sync(l) == rows' = DecreeRows(rows, l) /\ wards' = WardRows(wards, l)

\* A decree put into the ledger, with the ward of its summons.
WithDecree(l, id, d, overwrite) ==
  [decrees |-> Put(l.decrees, id, d),
   wards |-> IF /\ d.summons.type = "file"
                /\ overwrite \/ d.summons.value \notin DOMAIN l.wards
               THEN Put(l.wards, d.summons.value, d.summons.recursive)
               ELSE l.wards]

Blank == [file |-> "", hotkey |-> "", process |-> ""]

\* What on_select_decree sets; the recursion is set by a file summons only.
Loaded(id, d, recursive) ==
  [id |-> id, label |-> d.label, status |-> 1, type |-> d.summons.type,
   field |-> [Blank EXCEPT ![IF d.summons.type \in Fields THEN d.summons.type ELSE "file"] =
                d.summons.value],
   recursive |-> IF d.summons.type = "file" THEN d.summons.recursive ELSE recursive,
   presence |-> d.presence]

Nothing == [id |-> NoId, label |-> NoLabel, status |-> 0, type |-> "file", field |-> Blank,
            recursive |-> TRUE, presence |-> FALSE]

\* The window opens with the ledger's first decree.
Init ==
  /\ ledger = [decrees |-> Shipped, wards |-> <<>>]
  /\ rows = DecreeRows(<<>>, ledger) /\ wards = <<>>
  /\ IF rows = <<>>
       THEN ed = Nothing /\ steps = <<>> /\ selected = <<>>
       ELSE LET id == rows[1].id IN
            /\ ed = Loaded(id, Shipped[id], TRUE)
            /\ steps = MapSeq(Shipped[id].nodes, StepOf) /\ selected = <<Shipped[id]>>
  /\ commands = {} /\ told = FALSE /\ dirty = FALSE /\ missed = FALSE /\ edits = 0

-----------------------------------------------------------------------------
(* The callbacks *)

User == edits < MaxEdits /\ edits' = edits + 1 /\ UNCHANGED <<told, missed>>

Send(cmd) == commands' = commands \cup {cmd}

\* Mutant: the list of steps is not cleared.
NewDecree_KeepsSteps ==
  /\ User
  /\ LET label == 1 + Max({0} \cup (NewLabels \cap {rows[i].label : i \in DOMAIN rows})) IN
     /\ rows' = Append(rows, [id |-> Slug(label), label |-> label])
     /\ ed' = [ed EXCEPT !.id = Slug(label), !.label = label, !.status = 0, !.type = "file",
                         !.field = Blank, !.presence = FALSE]
  /\ selected' = <<>> /\ dirty' = FALSE
  /\ UNCHANGED <<ledger, wards, steps, commands>>

NewDecree ==
  /\ User
  /\ LET label == 1 + Max({0} \cup (NewLabels \cap {rows[i].label : i \in DOMAIN rows})) IN
     /\ rows' = Append(rows, [id |-> Slug(label), label |-> label])
     /\ ed' = [ed EXCEPT !.id = Slug(label), !.label = label, !.status = 0, !.type = "file",
                         !.field = Blank, !.presence = FALSE]
  /\ steps' = <<>> /\ selected' = <<>> /\ dirty' = FALSE
  /\ UNCHANGED <<ledger, wards, commands>>

\* Mutant: the steps beyond those of the selected decree stay.
Select_KeepsSurplus(id) ==
  /\ User /\ id \in {rows[i].id : i \in DOMAIN rows}
  /\ ~(ed.id = id /\ ed.status # 0)
  /\ id \in DOMAIN ledger.decrees
  /\ ed' = Loaded(id, ledger.decrees[id], ed.recursive)
  /\ LET loaded == MapSeq(ledger.decrees[id].nodes, StepOf) IN
     steps' = loaded \o SubSeq(steps, Len(loaded) + 1, Len(steps))
  /\ selected' = <<ledger.decrees[id]>> /\ dirty' = FALSE
  /\ UNCHANGED <<ledger, rows, wards, commands>>

\* A decree the ledger does not have is not selected.
Select(id) ==
  /\ User /\ id \in {rows[i].id : i \in DOMAIN rows}
  /\ ~(ed.id = id /\ ed.status # 0)
  /\ id \in DOMAIN ledger.decrees
  /\ ed' = Loaded(id, ledger.decrees[id], ed.recursive)
  /\ steps' = MapSeq(ledger.decrees[id].nodes, StepOf)
  /\ selected' = <<ledger.decrees[id]>> /\ dirty' = FALSE
  /\ UNCHANGED <<ledger, rows, wards, commands>>

Changed == User /\ dirty' = TRUE /\ UNCHANGED <<ledger, wards, selected>>

\* Without an active decree the editor is not shown, but for the label.
Edited == Changed /\ ed.id # NoId

\* on_step_edited cannot tell the mode's button from an edit of nothing.
StepEdited(i, text) ==
  /\ Edited /\ UNCHANGED <<rows, ed, commands>>
  /\ steps' = [steps EXCEPT ![i] =
       IF steps[i].kind = "inscribe" /\ steps[i].text = text
         THEN [@ EXCEPT !.mode = IF @ = "Move" THEN "Copy" ELSE "Move"]
         ELSE [@ EXCEPT !.text = text]]

TypeText(i, text) == text # steps[i].text /\ StepEdited(i, text)

PressMode(i) == steps[i].kind = "inscribe" /\ StepEdited(i, steps[i].text)

\* Enter in a field of the step "commits" the text that was typed before.
PressEnter(i) == steps[i].kind = "inscribe" /\ StepEdited(i, steps[i].text)

AppendStep(kind) ==
  /\ Edited /\ Len(steps) < MaxSteps
  /\ steps' = Append(steps, [id |-> edits, kind |-> kind, text |-> "1000",
                             mode |-> IF kind = "inscribe" THEN "new" ELSE "none"])
  /\ UNCHANGED <<rows, ed, commands>>

RemoveStep(i) ==
  /\ Edited /\ steps' = RemoveAt(steps, i)
  /\ UNCHANGED <<rows, ed, commands>>

\* Every keystroke in the label is sent to the engine.
Rename(label) ==
  /\ Changed /\ label # ed.label /\ ed' = [ed EXCEPT !.label = label]
  /\ IF ed.id = NoId
       THEN UNCHANGED <<rows, commands>>
       ELSE /\ Send([kind |-> "rename", id |-> ed.id, label |-> label])
            /\ LET at == SelectInSeq(rows, LAMBDA r : r.id = ed.id) IN
               rows' = IF at = 0 THEN rows ELSE [rows EXCEPT ![at].label = label]
  /\ UNCHANGED steps

SetSummons(type, value, recursive) ==
  /\ Edited
  /\ ed' = [ed EXCEPT !.type = type, !.field[type] = value, !.recursive = recursive]
  /\ UNCHANGED <<rows, steps, commands>>

SetPresence ==
  /\ Edited /\ ed' = [ed EXCEPT !.presence = ~@]
  /\ UNCHANGED <<rows, steps, commands>>

\* on_save_decree: the id is set even if what was collected is not valid.
SaveDecree ==
  /\ User /\ ed' = [ed EXCEPT !.id = CollectedId]
  /\ IF Valid(Collected)
       THEN /\ ledger' = WithDecree(ledger, CollectedId, Collected, TRUE)
            /\ Sync(ledger')
            /\ Send([kind |-> "save", id |-> CollectedId, decree |-> Collected])
            /\ selected' = <<Collected>> /\ dirty' = FALSE
       ELSE UNCHANGED <<ledger, rows, wards, commands, selected, dirty>>
  /\ UNCHANGED steps

\* A simulation leaves the saving to the engine.
SimulateDecree ==
  /\ User /\ Valid(Collected)
  /\ Send([kind |-> "save", id |-> CollectedId, decree |-> Collected])
  /\ UNCHANGED <<ledger, rows, wards, ed, steps, selected, dirty>>

RemoveDecree(id) ==
  /\ User /\ id \in {rows[i].id : i \in DOMAIN rows}
  /\ ledger' = [ledger EXCEPT !.decrees = Without(@, id)]
  /\ Send([kind |-> "remove", id |-> id])
  /\ IF ed.id = id
       THEN /\ ed' = [ed EXCEPT !.id = NoId, !.label = NoLabel, !.status = 0]
            /\ steps' = <<>> /\ selected' = <<>> /\ dirty' = FALSE
       ELSE UNCHANGED <<ed, steps, selected, dirty>>
  /\ UNCHANGED <<rows, wards>>

-----------------------------------------------------------------------------
(* The table of wards *)

OfWards == User /\ UNCHANGED <<rows, ed, steps, selected, dirty>>

AddWard ==
  /\ OfWards /\ wards' = Append(wards, [id |-> <<"id", edits>>, path |-> "", recursive |-> TRUE])
  /\ UNCHANGED <<ledger, commands>>

\* A change names its row by the id: the first such row is changed.
RowOf(id) == SelectInSeq(wards, LAMBDA w : w.id = id)

ChangeWard(id) ==
  /\ OfWards
  /\ \/ wards' = RemoveAt(wards, RowOf(id))
     \/ wards' = [wards EXCEPT ![RowOf(id)].recursive = ~@]
     \/ \E p \in Paths : wards' = [wards EXCEPT ![RowOf(id)].path = p]
  /\ UNCHANGED <<ledger, commands>>

\* Mutant: rows without a path are saved.
SaveWards_Empty ==
  /\ OfWards
  /\ LET paths == {wards[i].path : i \in DOMAIN wards}
         first(p) == SelectInSeq(wards, LAMBDA w : w.path = p)
         table == [p \in paths |-> wards[first(p)].recursive]
     IN /\ ledger' = [ledger EXCEPT !.wards = table]
        /\ Send([kind |-> "wards", table |-> table])
  /\ UNCHANGED wards

\* The first row of each path that is not empty.
SaveWards ==
  /\ OfWards
  /\ LET paths == {wards[i].path : i \in DOMAIN wards} \ {""}
         first(p) == SelectInSeq(wards, LAMBDA w : w.path = p)
         table == [p \in paths |-> wards[first(p)].recursive]
     IN /\ ledger' = [ledger EXCEPT !.wards = table]
        /\ Send([kind |-> "wards", table |-> table])
  /\ UNCHANGED wards

-----------------------------------------------------------------------------
(* The engine, and what comes back from it *)

Take(cmd) == commands' = commands \ {cmd} /\ UNCHANGED <<rows, wards, ed, steps, selected, dirty,
                                                         missed, edits>>

\* Mutant: the entry is not one the Forge looks for.
EngineSaves_Untold(cmd) ==
  /\ Take(cmd) /\ cmd.kind = "save" /\ UNCHANGED told
  /\ ledger' = WithDecree(ledger, cmd.id, cmd.decree, FALSE)

EngineSaves(cmd) ==
  /\ Take(cmd) /\ cmd.kind = "save"
  /\ ledger' = WithDecree(ledger, cmd.id, cmd.decree, FALSE) /\ told' = TRUE

\* A decree that is already gone is not reported.
EngineRemoves(cmd) ==
  /\ Take(cmd) /\ cmd.kind = "remove"
  /\ ledger' = [ledger EXCEPT !.decrees = Without(@, cmd.id)]
  /\ told' = (told \/ cmd.id \in DOMAIN ledger.decrees)

\* "renamed and saved" does not make the Forge read the ledger.
EngineRenames(cmd) ==
  /\ Take(cmd) /\ cmd.kind = "rename" /\ UNCHANGED told
  /\ ledger' = IF cmd.id \in DOMAIN ledger.decrees
                 THEN [ledger EXCEPT !.decrees[cmd.id].label = cmd.label] ELSE ledger

EngineSavesWards(cmd) ==
  /\ Take(cmd) /\ cmd.kind = "wards" /\ UNCHANGED told
  /\ ledger' = [ledger EXCEPT !.wards = cmd.table]

\* The pipe was between two connections.
CommandLost(cmd) == Take(cmd) /\ UNCHANGED <<ledger, told>>

Told ==
  /\ told /\ told' = FALSE /\ Sync(ledger)
  /\ UNCHANGED <<ledger, ed, steps, commands, selected, dirty, missed, edits>>

EntryLost ==
  /\ told /\ told' = FALSE /\ missed' = TRUE
  /\ UNCHANGED <<ledger, rows, wards, ed, steps, commands, selected, dirty, edits>>

-----------------------------------------------------------------------------

OnDecrees ==
  \/ NewDecree \/ SaveDecree \/ SimulateDecree
  \/ \E id \in DecreeIds : Select(id) \/ RemoveDecree(id)

OnEditor ==
  \/ \E i \in DOMAIN steps :
       PressMode(i) \/ PressEnter(i) \/ RemoveStep(i) \/ \E text \in Texts : TypeText(i, text)
  \/ \E kind \in Kinds : AppendStep(kind)
  \/ \E label \in Names : Rename(label)
  \/ \E recursive \in BOOLEAN, p \in Paths : SetSummons("file", p, recursive)
  \/ \E type \in {"hotkey", "process"} : SetSummons(type, "x", ed.recursive)
  \/ SetPresence

OnWards == AddWard \/ SaveWards \/ \E i \in DOMAIN wards : ChangeWard(wards[i].id)

OfEngine ==
  \E cmd \in commands :
    \/ EngineSaves(cmd) \/ EngineRemoves(cmd) \/ EngineRenames(cmd) \/ EngineSavesWards(cmd)
    \/ CommandLost(cmd)

Next == OnDecrees \/ OnEditor \/ OnWards \/ OfEngine \/ Told \/ EntryLost

Spec == Init /\ [][Next]_vars

-----------------------------------------------------------------------------

(***************************************************************************)
(* What was selected and not touched is saved as it was, step by step and  *)
(* whatever was selected, appended or removed before: only a clipboard     *)
(* summons, arguments that hold a space and nodes with what the editor     *)
(* does not show are changed.                                              *)
(***************************************************************************)
Shown(d) ==
  /\ d.summons.type # "clipboard"
  /\ \A i \in DOMAIN d.nodes :
       d.nodes[i].plain /\ d.nodes[i].action # "Other" /\ d.nodes[i].text # "spaced"

OpenIsFaithful ==
  ~dirty /\ selected # <<>> /\ Shown(selected[1]) => Collected = selected[1]

(***************************************************************************)
(* No step ends up in two decrees of the ledger: neither the list of steps *)
(* that all decrees share in the window, nor a command the engine takes    *)
(* late, carries it over.                                                  *)
(***************************************************************************)
StepsStay ==
  LET ids(d) == {d.nodes[i].id : i \in DOMAIN d.nodes} IN
  \A a, b \in DOMAIN ledger.decrees :
    a # b => ids(ledger.decrees[a]) \cap ids(ledger.decrees[b]) = {}

(***************************************************************************)
(* When all commands are taken and all entries have come, every decree the *)
(* ledger holds is listed, also one the engine has put back after it was   *)
(* removed.                                                                *)
(***************************************************************************)
LedgerIsListed ==
  commands = {} /\ ~told /\ ~missed
    => DOMAIN ledger.decrees \subseteq {rows[i].id : i \in DOMAIN rows}

(***************************************************************************)
(* A change of a ward names its row: no two rows have the same id,         *)
(* whatever the paths in them are and whenever the ledger is read again.   *)
(***************************************************************************)
WardRowsDiffer == IsInjective([i \in DOMAIN wards |-> wards[i].id])

(***************************************************************************)
(* "Unique identifier for a decree."  The code does not keep this: the     *)
(* number of a new decree is found among the labels, its id is the slug of *)
(* the label, and a decree that was renamed keeps its id.                  *)
(***************************************************************************)
DecreeIdsUnique == [][NewDecree => ed'.id \notin DOMAIN ledger.decrees]_vars

(***************************************************************************)
(* "If this is already the active decree, don't reload from disk (prevents *)
(* wiping unsaved edits)".  The code does not keep this for a new decree:  *)
(* its status stays 0 when it is saved.                                    *)
(***************************************************************************)
ReselectKeeps == [][dirty /\ Select(ed.id) => UNCHANGED <<ed, steps>>]_vars

(***************************************************************************)
(* "toggling the mode via the button should flip the subtext."  The code   *)
(* does more: Enter in a field of the step flips it too.                   *)
(***************************************************************************)
EnterKeepsMode == [][\A i \in DOMAIN steps : PressEnter(i) => steps'[i].mode = steps[i].mode]_vars

(***************************************************************************)
(* A removed decree leaves the list.  The code does not keep this: the     *)
(* Forge has removed it from the ledger before the engine looks.           *)
(***************************************************************************)
RemovedIsUnlisted ==
  commands = {} /\ ~told /\ ~missed
    => \A i \in DOMAIN rows : rows[i].id \in DOMAIN ledger.decrees \cup {ed.id}

=============================================================================
