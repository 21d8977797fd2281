------------------------------ MODULE Filters ------------------------------
(***************************************************************************)
(* The filter bar (components/reui/filters): the root and its actions      *)
(* (filters.tsx), the chip row and its popovers (filters-chip.tsx), the    *)
(* advanced builder (filters-advanced.tsx), the draft of the Add filter    *)
(* popover (filters-draft.tsx, filters-builder.tsx), the stores of         *)
(* filters-context.tsx and the drag of a row (filters-dnd.tsx).            *)
(*                                                                         *)
(* A handler is an operator from a state of the bar to the states it may   *)
(* leave: the consumer may refuse a write, when the handler goes on or not *)
(* as its code does.  Handlers read ref, the newest tree; what is drawn is *)
(* query, the tree the consumer holds.  React's effects run between two    *)
(* events: a user event waits until they have.                             *)
(***************************************************************************)
EXTENDS FilterTree

CONSTANTS
    FiTrees,     \* the queries a scene may begin with or be reset to
    FiItems,     \* values an editor offers
    FiExclusive, \* those that stand alone in a multiple choice
    FiRefused,   \* those the field's validate turns down
    FiScenes     \* bounds: the chrome, the consumer, the actions and their number

VARIABLES
    fi,       \* the bar: query, ref, ids, draft, stores, popovers
    fiDrag,   \* the row drag under way
    fiLeft    \* the scene, less what happened of it

fiVars == <<fi, fiDrag, fiLeft>>

None == -2
Silent == -3     \* a write that announces nothing
Otherwise == -1  \* an announcement that names no count

NoDraft == [step |-> "closed"]
NoFocus == [id |-> None, segment |-> "", auto |-> FALSE]
NoPopover == [id |-> None, segment |-> ""]
NoText == [id |-> None]
NoHit == [parent |-> None]
NoDrag == [node |-> None]

Advanced == fiLeft.chrome = "advanced"

(* ------------------------------- the stores --------------------------- *)

Focused(s, id, segment, auto) == [s EXCEPT !.focus = [id |-> id, segment |-> segment, auto |-> auto]]
Mark(s, id) == [s EXCEPT !.touched = @ \cup {id}]
Unmark(s, id) == [s EXCEPT !.touched = @ \ {id}]
MarkPending(s, id) == [s EXCEPT !.pending = @ \cup {id}]
ResolvePending(s, id) == [s EXCEPT !.pending = @ \ {id}]
Announce(s, told) == IF told = Silent THEN s ELSE [s EXCEPT !.said = told, !.due = TRUE]

(* ----------------------------- the actions ---------------------------- *)

DragLanded(s) == [ok |-> TRUE, s |-> s]
Lost(s) == [ok |-> FALSE, s |-> s]
States(outcomes) == {o.s : o \in outcomes}

\* setQuery of useControllableQuery: the newest tree at once, the drawn one when
\* the consumer takes it.
SetQuery(s, next) ==
    IF next = s.ref THEN s
    ELSE IF fiLeft.consumer = "ignores" THEN [s EXCEPT !.ref = next]
    ELSE [s EXCEPT !.ref = next, !.query = next, !.due = TRUE]

\* The one point every write passes: the lock, the veto, the write.
EmitQuery(s, next, told) ==
    IF s.locked THEN {Lost(s)}
    ELSE {DragLanded(Announce(SetQuery(s, next), told))}
           \cup {Lost([s EXCEPT !.vetoes = @ - 1]) : v \in {w \in {s.vetoes} : w > 0}}

\* A write that the tree does not notice is none.
Changed(s, next, told) == IF s.locked \/ next = s.ref THEN {Lost(s)} ELSE EmitQuery(s, next, told)

AddRule(s, id, rule, parent) ==
    LET next == InsertFilterNode(s.ref, RuleNode(id, rule), id, parent, Len(KidsOf(s.ref, parent)))
    IN  IF s.locked THEN {Lost(s)} ELSE EmitQuery(s, next, CountFilterRules(next))

AddGroup(s, parent, comb) ==
    LET id == s.next + 1
        next == InsertFilterNode(s.ref, GroupNode(id, comb, <<>>), id, parent, Len(KidsOf(s.ref, parent)))
    IN  IF s.locked THEN {Lost(s)} ELSE EmitQuery([s EXCEPT !.next = id], next, Otherwise)

\* The row is marked before the write is known to land.
UpdateRule(s, id, updates) ==
    LET t == IF "path" \in DOMAIN updates THEN Unmark(s, id)
             ELSE IF "value" \in DOMAIN updates THEN Mark(s, id) ELSE s
    IN  IF s.locked \/ id \notin DOMAIN s.ref.rule THEN {Lost(s)}
        ELSE EmitQuery(t, UpdateFilterRule(s.ref, id, updates), Silent)

RemoveNode(s, id) ==
    LET next == RemoveFilterNode(s.ref, id)
    IN  Changed(s, next, IF id \in DOMAIN s.ref.rule THEN CountFilterRules(next) ELSE Otherwise)

\* Fresh ids are burnt by the copy, whether or not it lands.
Burn(s, n) == [s EXCEPT !.next = @ + n]
Copies(q, id) == IF id \in FilterNodes(q) THEN Len(Preorder(q, id)) ELSE 0
DuplicateNode(s, id) ==
    LET next == DuplicateFilterNode(s.ref, id, s.next)
    IN  IF s.locked THEN {Lost(s)} ELSE Changed(Burn(s, Copies(s.ref, id)), next, CountFilterRules(next))
CopyNodeTo(s, id, parent, gap) ==
    LET next == CopyFilterNodeTo(s.ref, id, parent, gap, s.next)
    IN  IF s.locked THEN {Lost(s)} ELSE Changed(Burn(s, Copies(s.ref, id)), next, CountFilterRules(next))

NegateRule(s, id) ==
    IF s.locked \/ id \notin DOMAIN s.ref.rule \/ ~HasField(s.ref.rule[id].path) THEN {Lost(s)}
    ELSE EmitQuery(s, [s.ref EXCEPT !.rule[id] = NegateFilterOperator(@)], Silent)

\* A move is announced unless the tree it left cannot place the node.
AnnounceReorder(next, id) == IF Holders(next, id) = {} THEN Silent ELSE Otherwise
MoveNode(s, id, delta) ==
    LET next == MoveFilterNode(s.ref, id, delta) IN Changed(s, next, AnnounceReorder(next, id))
MoveNodeTo(s, id, parent, gap) ==
    LET next == MoveFilterNodeTo(s.ref, id, parent, gap)
    IN  IF id \notin FilterNodes(s.ref) THEN {Lost(s)}
        ELSE Changed(s, next, AnnounceReorder(next, id))

WrapNodeInGroup(s, id) ==
    IF s.locked THEN {Lost(s)}
    ELSE Changed(Burn(s, 1), WrapFilterNode(s.ref, id, s.next + 1, "or"), Otherwise)
UnwrapGroup(s, id) == Changed(s, UnwrapFilterGroup(s.ref, id), Otherwise)
ToggleCombinatorAction(s, id) == Changed(s, ToggleFilterCombinator(s.ref, id), Otherwise)
ClearQueryAction(s) == Changed(s, ClearFilterQuery(s.ref), 0)

(* ------------------------------ the draft ----------------------------- *)

CreateFilterDraft ==
    [step |-> "field", ready |-> FALSE, rule |-> None, path |-> NoPath, browse |-> NoPath,
     operator |-> "", value |-> Nothing]
AmendDraft(id, rule, step) ==
    [step |-> step, ready |-> FALSE, rule |-> id, path |-> rule.path,
     browse |-> SubSeq(rule.path, 1, Len(rule.path) - 1), operator |-> rule.operator,
     value |-> rule.value]
SelectField(d, path) ==
    [d EXCEPT !.path = path, !.operator = DefaultOperator(path), !.ready = TRUE,
              !.value = Nothing, !.step = "operator"]
SelectOperator(d, operator) ==
    LET ops == OperatorsOf(d.path)
        value == CoerceFilterValue(d.value, ArityIn(ops, d.operator), ArityIn(ops, operator))
    IN  IF ArityIn(ops, operator) = "none"
        THEN [d EXCEPT !.operator = operator, !.value = Nothing, !.ready = TRUE]
        ELSE [d EXCEPT !.operator = operator, !.value = value, !.step = "value", !.ready = FALSE]
CommitDraft(d, value) == [d EXCEPT !.value = value, !.ready = TRUE]
PreviousStep(step) == IF step = "value" THEN "operator" ELSE IF step = "operator" THEN "field" ELSE "closed"
BackDraft(d) ==
    IF PreviousStep(d.step) = "closed" THEN NoDraft
    ELSE [d EXCEPT !.step = PreviousStep(@), !.ready = FALSE]
GotoDraft(d, step) == IF d.step = step THEN d ELSE [d EXCEPT !.step = step, !.ready = FALSE]

\* A draft is a write under way: a locked bar lets go of it only by closing.
DispatchDraft(s, d) ==
    IF s.locked /\ d # NoDraft THEN s ELSE [s EXCEPT !.draft = d, !.due = TRUE]

\* The draft becomes a rule once it is ready.
IsCommittable(d) == d # NoDraft /\ d.path # NoPath
CommitReady(s) ==
    LET d == s.draft
        closed(t) == [t EXCEPT !.draft = NoDraft, !.due = TRUE]
        id == s.next + 1
    IN  IF ~IsCommittable(d) THEN {s}
        ELSE IF ~d.ready THEN {s}
        ELSE IF d.rule # None
             THEN {closed(t) : t \in States(UpdateRule(s, d.rule,
                      [path |-> d.path, operator |-> d.operator, value |-> d.value]))}
        ELSE IF s.locked THEN {closed(s)}
        ELSE {closed(Focused(t, id, "operator", TRUE)) :
                t \in States(AddRule(Burn(s, 1), id, FilterRule(d.path, "", Nothing), FiRoot))}

(* ------------------------------ what is drawn ------------------------- *)

\* The cells of a row in DOM order; a pending row asks for its field only.
CombinatorSlot(s, n) == IF Gap(s.query, n) = 1 THEN <<"combinator">> ELSE <<>>
CanMove(s, n) == fiLeft.reorderable /\ (ParentIn(s.query, n) # FiRoot \/ Len(s.query.kids[FiRoot]) > 1)
DragCell(s, n) == IF CanMove(s, n) THEN <<"drag">> ELSE <<>>
RuleCells(s, n) ==
    CombinatorSlot(s, n) \o <<"field">>
      \o (IF n \in s.pending THEN <<>>
          ELSE <<"operator">> \o (IF TakesValue(s.query.rule[n]) THEN <<"value">> ELSE <<>>))
      \o DragCell(s, n) \o <<"menu">>
GroupCells(s, n) == CombinatorSlot(s, n) \o <<"add">> \o DragCell(s, n) \o <<"menu">>
\* A rule whose field the schema lost has a button outside the roving scheme.
CellsOf(s, n) ==
    IF n \in DOMAIN s.query.kids THEN GroupCells(s, n)
    ELSE IF HasField(s.query.rule[n].path) THEN RuleCells(s, n) ELSE <<>>

\* The segments of a chip that open.
ChipCells(s, n) ==
    LET rule == s.query.rule[n] IN
    IF ~HasField(rule.path) THEN {}
    ELSE {"operator", "menu"} \cup (IF TakesValue(rule) THEN {"value"} ELSE {})

\* Free text of one value is typed in the row itself.
UsesInlineText(rule) ==
    HasField(rule.path) /\ FieldAt(rule.path).type \in {"text", "number"} /\ TakesValue(rule)
      /\ ArityOf(rule) = "one"

\* The complaints of validate a row may draw: only after a value was committed.
Drawn(s) ==
    LET issues == CollectFilterIssues(s.query) IN
    {r \in s.touched \cap DOMAIN s.query.rule :
       /\ r \notin DOMAIN issues /\ HasField(s.query.rule[r].path)
       /\ ArityOf(s.query.rule[r]) # "none"
       /\ ToSet(s.query.rule[r].value.items) \cap FiRefused # {}}

(* ------------------------------- effects ------------------------------ *)

\* What unmounts with the nodes the tree no longer has.
Unmounted(s) ==
    LET live == FilterNodes(s.query) IN
    [s EXCEPT !.open = IF @.id \in live \cup {None} THEN @ ELSE NoPopover,
              !.parked = IF @ \in live THEN @ ELSE None,
              !.text = IF @.id \notin live THEN NoText
                       ELSE IF @.seed # s.query.rule[@.id].value
                       THEN [id |-> @.id, seed |-> s.query.rule[@.id].value,
                             typed |-> s.query.rule[@.id].value, caret |-> @.caret]
                       ELSE @]

\* The tab stop is given up when the tree changed and no longer has its node.
RepairFocus(s) ==
    IF s.seen = s.query THEN s
    ELSE [s EXCEPT !.seen = s.query,
                   !.focus = IF @.id \in FilterNodes(s.query) THEN @ ELSE NoFocus]

\* A visible complaint more than before is announced, unless something was.
AnnounceIssues(s) ==
    LET t == [s EXCEPT !.flags = Cardinality(Drawn(s))]
    IN  IF Advanced /\ t.flags > s.flags /\ s.said = Silent THEN Announce(t, Otherwise) ELSE t

Effects ==
    /\ fi.due
    /\ \E s \in {RepairFocus(Unmounted([fi EXCEPT !.due = FALSE, !.ref = fi.query]))} :
       \E t \in CommitReady(AnnounceIssues(s)) : fi' = [t EXCEPT !.said = IF t.due THEN @ ELSE Silent]
    /\ UNCHANGED <<fiDrag, fiLeft>>

\* A cell the store names opens itself, or takes the caret; a locked bar spends the
\* request all the same.
Mounted(s, id, segment) ==
    /\ id \in FilterNodes(s.query)
    /\ IF Advanced THEN segment \in ToSet(CellsOf(s, id))
       ELSE id \in DOMAIN s.query.rule /\ segment \in ChipCells(s, id)
HandoffDue(s) ==
    /\ s.focus.auto /\ Mounted(s, s.focus.id, s.focus.segment)
    /\ s.open # [id |-> s.focus.id, segment |-> s.focus.segment]
TakesCaret(s, id) == Advanced /\ UsesInlineText(s.query.rule[id])
TextAt(s, id) == [id |-> id, seed |-> s.query.rule[id].value, typed |-> s.query.rule[id].value,
                  caret |-> TRUE]
HonourHandoff ==
    /\ ~fi.due /\ HandoffDue(fi)
    /\ LET id == fi.focus.id
           spent == Focused(fi, id, fi.focus.segment, FALSE)
       IN  fi' = IF fi.locked THEN spent
                 ELSE IF fi.focus.segment = "value" /\ TakesCaret(fi, id)
                 THEN [spent EXCEPT !.text = TextAt(fi, id)]
                 ELSE [spent EXCEPT !.open = [id |-> id, segment |-> fi.focus.segment], !.parked = None]
    /\ UNCHANGED <<fiDrag, fiLeft>>

\* The condition menu has left the DOM: the step it parked is handed to the value.
Release ==
    /\ ~fi.due /\ fi.parked # None
    /\ fi' = [Focused(fi, fi.parked, "value", TRUE) EXCEPT !.parked = None]
    /\ UNCHANGED <<fiDrag, fiLeft>>

(* ----------------------------- user events ---------------------------- *)

Caret(s) == s.text # NoText /\ s.text.caret

\* An event of a scene, when the effects of the one before it have run; pressing
\* anything takes the caret out of a text cell first.
Ready(kind) ==
    /\ ~fi.due /\ ~HandoffDue(fi) /\ fiDrag = NoDrag
    /\ kind \in fiLeft.kinds /\ fiLeft.acts > 0
    /\ fiLeft' = [fiLeft EXCEPT !.acts = @ - 1]
Event(kind) == Ready(kind) /\ fiDrag' = fiDrag
PressBar(kind) == Event(kind) /\ ~Caret(fi)
FilterBecame(states) == fi' \in states

OpenCreate ==
    /\ PressBar("create") /\ ~Advanced /\ fi.draft = NoDraft /\ fi.open = NoPopover
    /\ FilterBecame({DispatchDraft(fi, IF fi.locked THEN NoDraft ELSE CreateFilterDraft)})
BrowseFields(path) ==
    PressBar("create") /\ fi.draft # NoDraft /\ fi.draft.browse # path
    /\ FilterBecame({DispatchDraft(fi, [fi.draft EXCEPT !.browse = path])})
ChooseField(path) ==
    PressBar("create") /\ fi.draft # NoDraft /\ Pickable(FieldAt(path))
    /\ FilterBecame({DispatchDraft(fi, SelectField(fi.draft, path))})
CloseDraft == PressBar("create") /\ fi.draft # NoDraft /\ FilterBecame({DispatchDraft(fi, NoDraft)})

\* A panel of the consumer's own walks the steps of an amendment, to a value only
\* under a condition that reads one.
HasStep(rule, step) == step = "value" => TakesValue(rule)
OpenAmend(id, step) ==
    PressBar("amend") /\ fi.draft = NoDraft /\ ~fi.locked /\ HasStep(fi.ref.rule[id], step)
    /\ FilterBecame({DispatchDraft(fi, AmendDraft(id, fi.ref.rule[id], step))})
Amending == PressBar("amend") /\ fi.draft # NoDraft
AmendOperator(name) == Amending /\ FilterBecame({DispatchDraft(fi, SelectOperator(fi.draft, name))})
AmendValue(value) == Amending /\ fi.draft.step = "value" /\ FilterBecame({DispatchDraft(fi, CommitDraft(fi.draft, value))})
AmendBack == Amending /\ FilterBecame({DispatchDraft(fi, BackDraft(fi.draft))})
AmendGoto(step) ==
    /\ Amending /\ fi.draft.step # step /\ HasStep(fi.draft, step)
    /\ FilterBecame({DispatchDraft(fi, GotoDraft(fi.draft, step))})

\* A popover or a menu refuses to open while locked; opening retires a parked step.
OpenCell(id, segment) ==
    /\ PressBar("open") /\ segment \in {"field", "operator", "value", "menu"}
    /\ Mounted(fi, id, segment) /\ fi.open.id # id
    /\ LET there == Focused(fi, id, segment, FALSE) IN
       FilterBecame({IF segment = "value" /\ TakesCaret(fi, id) THEN [there EXCEPT !.text = TextAt(fi, id)]
               ELSE IF fi.locked THEN there
               ELSE [there EXCEPT !.open = [id |-> id, segment |-> segment], !.parked = None]})
DismissCell ==
    /\ PressBar("open") /\ fi.open # NoPopover
    /\ FilterBecame({[fi EXCEPT !.open = NoPopover]})

In(segment) == fi.open.segment = segment
Shut(s) == [s EXCEPT !.open = NoPopover]

\* The field of a row: picking it again is a dismissal, and on a new row the
\* condition is asked next.
PickField(path) ==
    /\ PressBar("pick") /\ In("field") /\ Pickable(FieldAt(path))
    /\ LET id == fi.open.id
           new == id \in fi.pending
           t == ResolvePending(Focused(Shut(fi), id, IF new THEN "operator" ELSE "field", new), id)
       IN  IF path = fi.query.rule[id].path THEN FilterBecame({t})
           ELSE FilterBecame(States(UpdateRule(t, id,
                  [path |-> path, operator |-> IF new THEN "" ELSE DefaultOperator(path),
                   value |-> Nothing])))

\* The condition: the value moves with it, and a rule being built goes on to it.
PickOperator(name) ==
    /\ PressBar("pick") /\ In("operator")
    /\ LET id == fi.open.id
           rule == fi.query.rule[id]
           ops == OperatorsOf(rule.path)
           value == CoerceFilterValue(rule.value, ArityOf(rule), ArityIn(ops, name))
           next(s) == IF rule.operator = "" /\ ArityIn(ops, name) # "none"
                      THEN [Shut(s) EXCEPT !.parked = id]
                      ELSE Focused(Shut(s), id, "operator", FALSE)
       IN  IF name = rule.operator THEN FilterBecame({Focused(Shut(fi), id, "operator", FALSE)})
           ELSE FilterBecame({next(s) : s \in States(UpdateRule(fi, id, [operator |-> name, value |-> value]))})

\* What an editor of the rule may commit.
EditorValues(rule) ==
    IF ArityOf(rule) = "range" THEN {Array(<<a, b>>) : a, b \in FiItems}
    ELSE IF ArityOf(rule) = "one" THEN {Scalar(a) : a \in FiItems}
    ELSE {Array(ApplyExclusive(
            IF a \in ToSet(rule.value.items) THEN SelectSeq(rule.value.items, LAMBDA v : v # a)
            ELSE Append(rule.value.items, a), rule.value.items, FiExclusive)) : a \in FiItems}
CommitValue(value) ==
    /\ PressBar("pick") /\ In("value")
    /\ LET id == fi.open.id
           stays == ArityOf(fi.query.rule[id]) = "many"
       IN  FilterBecame({IF stays THEN s ELSE Focused(Shut(s), id, "value", FALSE) :
                     s \in States(UpdateRule(fi, id, [value |-> value]))})

\* A text cell commits on blur and Enter; Escape puts the committed text back.
TypeText(value) ==
    /\ Event("type") /\ Caret(fi) /\ ~fi.locked /\ value # fi.text.typed
    /\ FilterBecame({[fi EXCEPT !.text.typed = value]})
CommitText ==
    /\ Caret(fi) /\ ~fi.due
    /\ LET id == fi.text.id
           still == [fi EXCEPT !.text.caret = FALSE]
           number == FieldAt(fi.query.rule[id].path).type = "number"
       IN  IF fi.text.typed = fi.text.seed THEN FilterBecame({still})
           ELSE FilterBecame(States(UpdateRule(still, id,
                  [value |-> IF number /\ fi.text.typed = Scalar(Blank) THEN Nothing ELSE fi.text.typed])))
    /\ UNCHANGED <<fiDrag, fiLeft>>
RevertText ==
    /\ Event("type") /\ Caret(fi) /\ fi.text.typed # fi.text.seed
    /\ FilterBecame({[fi EXCEPT !.text.typed = fi.text.seed]})

\* The kebab of a rule or of a group.
MenuItem(kind) == PressBar(kind) /\ In("menu") /\ ~fi.locked
FromMenu(outcomes) == FilterBecame({Shut(s) : s \in States(outcomes)})
MenuRule == fi.open.id \in DOMAIN fi.query.rule
MenuDuplicate == MenuItem("menu") /\ FromMenu(DuplicateNode(fi, fi.open.id))
MenuNegate == MenuItem("menu") /\ MenuRule /\ FromMenu(NegateRule(fi, fi.open.id))
MenuRemove == MenuItem("menu") /\ FromMenu(RemoveNode(fi, fi.open.id))
MenuWrap == MenuItem("group") /\ Advanced /\ MenuRule /\ FromMenu(WrapNodeInGroup(fi, fi.open.id))
MenuUnwrap == MenuItem("group") /\ ~MenuRule /\ FromMenu(UnwrapGroup(fi, fi.open.id))
MenuMoveTo(g) ==
    /\ MenuItem("group") /\ Advanced /\ fiLeft.reorderable /\ g \in MoveDestinations(fi.ref, fi.open.id)
    /\ FromMenu(MoveNodeTo(fi, fi.open.id, g, Len(fi.ref.kids[g])))

\* The keys of a focused chip or row.
Keyed(kind, id) == PressBar(kind) /\ fi.open = NoPopover /\ fi.focus.id = id
KeyMove(id, delta) ==
    Keyed("key", id) /\ ~fi.locked /\ (Advanced => fiLeft.reorderable) /\ FilterBecame(States(MoveNode(fi, id, delta)))
KeyRemove(id) == Keyed("key", id) /\ ~fi.locked /\ FilterBecame(States(RemoveNode(fi, id)))
\* Enter resumes a chip at the step it has not reached.
KeyResume(id) ==
    /\ Keyed("key", id) /\ ~Advanced /\ ~fi.locked
    /\ id \in DOMAIN fi.ref.rule /\ HasField(fi.ref.rule[id].path)
    /\ FilterBecame({Focused(fi, id, IF TakesValue(fi.ref.rule[id]) THEN "value" ELSE "operator", TRUE)})
\* The arrows and Tab put the focus on a row.
FocusRow(id) ==
    /\ PressBar("key") /\ fi.open = NoPopover /\ fi.focus.id # id
    /\ (~Advanced => id \in DOMAIN fi.query.rule) /\ id # FiRoot
    /\ FilterBecame({Focused(fi, id, IF Advanced /\ CellsOf(fi, id) # <<>> THEN Head(CellsOf(fi, id)) ELSE "", FALSE)})

\* Add condition: a row on the first field, pending, its picker opening itself -
\* whether or not the row was let in.
AddFilterRow(parent) ==
    /\ PressBar("add") /\ Advanced /\ ~fi.locked /\ fi.open = NoPopover /\ FirstPickable # NoPath
    /\ LET id == fi.next + 1 IN
       FilterBecame({Focused(MarkPending(s, id), id, "field", TRUE) :
                 s \in States(AddRule(Burn(fi, 1), id, FilterRule(FirstPickable, "", Nothing), parent))})
AddGroupRow ==
    /\ PressBar("add") /\ Advanced /\ ~fi.locked /\ fi.open = NoPopover
    /\ FilterBecame({IF o.ok THEN Focused(o.s, fi.next + 1, "add", FALSE) ELSE o.s :
                 o \in AddGroup(fi, FiRoot, "or")})
PressCombinator(g) ==
    /\ PressBar("add") /\ Advanced /\ fi.open = NoPopover /\ Len(fi.query.kids[g]) > 1
    /\ FilterBecame(States(ToggleCombinatorAction(fi, g)))
PressClear ==
    /\ PressBar("clear") /\ fi.open = NoPopover /\ CountFilterRules(fi.query) > 0
    /\ FilterBecame(States(ClearQueryAction(fi)))

(* ------------------------------- the drag ----------------------------- *)

\* What a pointer may be over: a half of a row, or a strip of a group; nothing
\* under the row dragged.  The boxes are those of the moment the drag began.
RowBoxes(q, n) ==
    {[parent |-> ParentIn(q, r), gap |-> Gap(q, r) + half, row |-> r, half |-> half] :
       r \in FilterNodes(q) \ ({FiRoot} \cup (Contained(q, n) \ {n})), half \in {0, 1}}
ZoneBoxes(q, n) ==
    {[parent |-> g, gap |-> gap, row |-> FiRoot, half |-> 0] :
       g \in DOMAIN q.kids \ Contained(q, n), gap \in 0..Cardinality(FilterNodes(q))}
Zones(q, n) == {z \in ZoneBoxes(q, n) : z.gap = Len(q.kids[z.parent]) \/ (z.gap = 0 /\ z.parent # FiRoot)}

IsDropNoop(d, box) ==
    ~d.copy /\ box.parent = d.parent /\ (box.gap = d.gap \/ box.gap = d.gap + 1)
Hit(d, box) == IF box = NoHit \/ IsDropNoop(d, box) THEN NoHit ELSE box

StartDrag(n) ==
    /\ Ready("drag") /\ ~Caret(fi) /\ Advanced /\ ~fi.locked /\ fi.open = NoPopover /\ CanMove(fi, n)
    /\ fiDrag' = [node |-> n, parent |-> ParentIn(fi.query, n), gap |-> Gap(fi.query, n),
                  copy |-> FALSE, box |-> NoHit, hit |-> NoHit, tree |-> fi.query]
    /\ fi' = Focused(fi, n, "drag", FALSE)
DragSteps == fiDrag # NoDrag /\ ~fi.due /\ fiLeft.steps > 0
             /\ fiLeft' = [fiLeft EXCEPT !.steps = @ - 1] /\ UNCHANGED fi
HitTest(box) ==
    /\ DragSteps /\ box # fiDrag.box
    /\ fiDrag' = [fiDrag EXCEPT !.box = box, !.hit = Hit(fiDrag, box)]
SetCopy ==
    /\ DragSteps
    /\ LET d == [fiDrag EXCEPT !.copy = ~@] IN fiDrag' = [d EXCEPT !.hit = Hit(d, d.box)]
Drop ==
    /\ fiDrag # NoDrag /\ ~fi.due
    /\ LET hit == fiDrag.hit IN
       FilterBecame(IF hit = NoHit THEN {fi}
              ELSE IF fiDrag.copy THEN States(CopyNodeTo(fi, fiDrag.node, hit.parent, hit.gap))
              ELSE States(MoveNodeTo(fi, fiDrag.node, hit.parent, hit.gap)))
    /\ fiDrag' = NoDrag /\ UNCHANGED fiLeft
\* Escape, a lost window, a cancelled pointer; the panel unmounting with its rows.
CancelDrag == fiDrag # NoDrag /\ fiDrag' = NoDrag /\ UNCHANGED <<fi, fiLeft>>

(* ----------------------------- the consumer --------------------------- *)

\* A saved view or a Reset; the lock turned on and off, also under an open popover,
\* a caret or a drag.
Swaps == fiLeft.swaps > 0 /\ fiLeft' = [fiLeft EXCEPT !.swaps = @ - 1] /\ UNCHANGED fiDrag
Replace(tree) ==
    /\ Swaps /\ ~fi.due /\ tree # fi.query
    /\ fi' = [fi EXCEPT !.query = tree, !.due = TRUE]
ToggleLock == Swaps /\ ~fi.due /\ fi' = [fi EXCEPT !.locked = ~@, !.due = TRUE]

(* ---------------------------- specification --------------------------- *)

FiInit ==
    /\ fiLeft \in FiScenes
    /\ \E tree \in FiTrees :
         /\ tree = fiLeft.tree
         /\ fi = [query |-> tree, ref |-> tree, seen |-> tree, next |-> fiLeft.next,
                  draft |-> NoDraft, focus |-> NoFocus, touched |-> {}, pending |-> {},
                  said |-> Silent, flags |-> 0, open |-> NoPopover, parked |-> None,
                  text |-> NoText, locked |-> FALSE, vetoes |-> fiLeft.vetoes, due |-> FALSE]
    /\ fiDrag = NoDrag

FiPaths == {FieldIndex[i].path : i \in DOMAIN FieldIndex}
FiNodes == FilterNodes(fi.query) \ {FiRoot}
Editing(segment) == In(segment) /\ fi.open.id \in DOMAIN fi.query.rule
Names(id) == {o.name : o \in ToSet(OperatorsOf(fi.query.rule[id].path))}

FiEdits ==
    \/ \E path \in FiPaths : PickField(path)
    \/ Editing("operator") /\ \E name \in Names(fi.open.id) : PickOperator(name)
    \/ Editing("value") /\ \E v \in EditorValues(fi.query.rule[fi.open.id]) : CommitValue(v)
    \/ \E v \in FiItems \cup {Blank} : TypeText(Scalar(v))
    \/ CommitText \/ RevertText
FiMenus ==
    \/ MenuDuplicate \/ MenuNegate \/ MenuRemove \/ MenuWrap \/ MenuUnwrap
    \/ \E g \in DOMAIN fi.query.kids : MenuMoveTo(g)
FiDrafts ==
    \/ OpenCreate \/ CloseDraft \/ AmendBack
    \/ \E path \in FiPaths : BrowseFields(path) \/ ChooseField(path)
    \/ \E id \in DOMAIN fi.query.rule, step \in {"operator", "value"} : OpenAmend(id, step)
    \/ \E step \in {"operator", "value"} : AmendGoto(step)
    \/ fi.draft # NoDraft /\ \E o \in ToSet(OperatorsOf(fi.draft.path)) : AmendOperator(o.name)
    \/ fi.draft # NoDraft /\ \E v \in EditorValues(FilterRule(fi.draft.path, fi.draft.operator, fi.draft.value)) :
         AmendValue(v)
FiRows ==
    \/ \E id \in FiNodes, segment \in {"field", "operator", "value", "menu"} : OpenCell(id, segment)
    \/ DismissCell
    \/ \E id \in FiNodes : KeyMove(id, 1) \/ KeyMove(id, -1) \/ KeyRemove(id) \/ KeyResume(id) \/ FocusRow(id)
    \/ \E g \in DOMAIN fi.query.kids : AddFilterRow(g) \/ PressCombinator(g)
    \/ AddGroupRow \/ PressClear
FiDragging ==
    \/ \E n \in FiNodes : StartDrag(n)
    \/ fiDrag # NoDrag /\ \E box \in RowBoxes(fiDrag.tree, fiDrag.node) \cup Zones(fiDrag.tree, fiDrag.node)
                                       \cup {NoHit} : HitTest(box)
    \/ fiDrag # NoDrag /\ SetCopy
    \/ Drop \/ CancelDrag
FiConsumer == (\E tree \in FiTrees : Replace(tree)) \/ ToggleLock

FiNext ==
    \/ Effects \/ HonourHandoff \/ Release
    \/ FiEdits \/ FiMenus \/ FiDrafts \/ FiRows \/ FiDragging \/ FiConsumer
FiSpec == FiInit /\ [][FiNext]_fiVars

(* ----------------------------- properties ----------------------------- *)

\* Every node of the tree is in one place, held by the root: copies, moves, wraps and
\* removals of any order leave no id twice and no condition out of reach, and what is
\* saved of it, without empty and needless groups, keeps every condition in its order.
OneTree ==
    LET q == fi.ref IN
    /\ FlattenFilterRules(PruneFilterQuery(q)) = FlattenFilterRules(q)
    /\ \A n \in FilterNodes(q) \ {FiRoot} :
         /\ Cardinality(Holders(q, n)) = 1
         /\ Cardinality({i \in DOMAIN q.kids[ParentIn(q, n)] : q.kids[ParentIn(q, n)][i] = n}) = 1
         /\ n \in Contained(q, FiRoot)

\* A row lands beside the row whose edge was lit, on that side, unless the consumer
\* changed the tree under the drag; a group's own zone lights no row's edge.
LandsWhereShown ==
    [][fiDrag # NoDrag /\ fiDrag' = NoDrag /\ fiDrag.tree = fi.ref /\ fi'.ref # fi.ref
         /\ fiDrag.hit.row # FiRoot =>
         LET n == IF fiDrag.copy THEN fi.next + 1 ELSE fiDrag.node
             kids == fi'.ref.kids[fiDrag.hit.parent]
             pair == IF fiDrag.hit.half = 1 THEN <<fiDrag.hit.row, n>> ELSE <<n, fiDrag.hit.row>>
         IN  \E i \in 1..Len(kids) - 1 : SubSeq(kids, i, i + 1) = pair]_fiVars

=============================================================================
