----------------------------- MODULE FilterTree -----------------------------
(***************************************************************************)
(* The query of the filter bar (components/reui/filters): a tree of groups *)
(* and rules, the edits of filters-query.tsx, the field index of           *)
(* filters-lib.tsx and the operators of filters-operators.tsx.             *)
(*                                                                         *)
(* A query is a record of three functions on node ids: kids and comb of    *)
(* its groups, rule of its rules; the root is group 0.  An index is a gap: *)
(* the number of siblings before it.  A value is a record of its shape     *)
(* (nothing, a scalar or an array) and its items.                          *)
(***************************************************************************)
EXTENDS Integers, Sequences, FiniteSets, SequencesExt, TLC

CONSTANTS
    FiSchema     \* the field schema in document order: [path, type, branch, disabled]

Blank == -1      \* a slot nobody has filled
FiRoot == 0
NoPath == <<>>

(* ----------------------------- the schema ----------------------------- *)

\* Fields after the first of a path are ignored.
FieldIndex ==
    LET first(i) == \A j \in 1..i - 1 : FiSchema[j].path # FiSchema[i].path
    IN  [i \in {j \in DOMAIN FiSchema : first(j)} |-> FiSchema[i]]
HasField(path) == \E i \in DOMAIN FieldIndex : FieldIndex[i].path = path
FieldAt(path) == CHOOSE f \in {FieldIndex[i] : i \in DOMAIN FieldIndex} : f.path = path
Pickable(f) == ~f.disabled /\ ~f.branch
FirstPickable ==
    LET at == {i \in DOMAIN FieldIndex : Pickable(FieldIndex[i])}
    IN  IF at = {} THEN NoPath ELSE FieldIndex[CHOOSE i \in at : \A j \in at : i <= j].path

(* ---------------------------- the operators --------------------------- *)

Operator(name, arity, inverse) == [name |-> name, arity |-> arity, inverse |-> inverse]
Emptiness == <<Operator("empty", "none", "not_empty"), Operator("not_empty", "none", "empty")>>
Equality == <<Operator("is", "one", "is_not"), Operator("is_not", "one", "is")>>
Catalog == [
    text |-> <<Operator("contains", "one", "not_contains"), Operator("not_contains", "one", "contains"),
               Operator("starts_with", "one", ""), Operator("ends_with", "one", "")>>
             \o Equality \o Emptiness,
    number |-> <<Operator("eq", "one", "neq"), Operator("neq", "one", "eq"),
                 Operator("gt", "one", "lte"), Operator("gte", "one", "lt"),
                 Operator("lt", "one", "gte"), Operator("lte", "one", "gt"),
                 Operator("between", "range", "not_between"),
                 Operator("not_between", "range", "between")>> \o Emptiness,
    range |-> <<Operator("between", "range", "not_between"),
                Operator("not_between", "range", "between")>> \o Emptiness,
    select |-> Equality \o <<Operator("is_any_of", "many", "is_none_of"),
                             Operator("is_none_of", "many", "is_any_of")>> \o Emptiness,
    multiselect |-> <<Operator("has_any_of", "many", "has_none_of"), Operator("has_all_of", "many", ""),
                      Operator("has_none_of", "many", "has_any_of")>> \o Emptiness,
    boolean |-> Equality \o Emptiness]

OperatorsOf(path) == IF HasField(path) THEN Catalog[FieldAt(path).type] ELSE <<>>
Named(ops, name) == {o \in ToSet(ops) : o.name = name}
ArityIn(ops, name) ==
    IF Named(ops, name) = {} THEN "one" ELSE (CHOOSE o \in Named(ops, name) : TRUE).arity
ArityOf(rule) == ArityIn(OperatorsOf(rule.path), rule.operator)
TakesValue(rule) == rule.operator # "" /\ ArityOf(rule) # "none"
DefaultOperator(path) == OperatorsOf(path)[1].name

Nothing == [shape |-> "none", items |-> <<>>]
Scalar(v) == [shape |-> "one", items |-> <<v>>]
Array(s) == [shape |-> "many", items |-> s]

\* The value a rule keeps when its operator changes.
CoerceFilterValue(value, before, after) ==
    LET item(i) == IF i \in DOMAIN value.items THEN value.items[i] ELSE Blank IN
    IF after = "none" \/ value = Nothing THEN Nothing
    ELSE IF before = after THEN value
    ELSE IF after = "many" THEN Array(value.items)
    ELSE IF after = "range" THEN Array(<<item(1), item(2)>>)
    ELSE IF item(1) = Blank THEN Nothing ELSE Scalar(item(1))

\* The inverse the operator declares, or the flag.
NegateFilterOperator(rule) ==
    LET ops == OperatorsOf(rule.path)
        inverses == UNION {Named(ops, o.inverse) : o \in Named(ops, rule.operator)}
    IN  IF inverses # {} THEN [rule EXCEPT !.operator = (CHOOSE o \in inverses : TRUE).name]
        ELSE [rule EXCEPT !.negated = ~@]

\* A pick in an option list with rows that stand alone.
ApplyExclusive(next, previous, exclusive) ==
    LET added == SelectSeq(next, LAMBDA v : v \notin ToSet(previous))
        alone == SelectSeq(added, LAMBDA v : v \in exclusive)
    IN  IF added = <<>> THEN next
        ELSE IF alone # <<>> THEN <<Last(alone)>>
        ELSE SelectSeq(next, LAMBDA v : v \notin exclusive)

(* ------------------------------- the tree ----------------------------- *)

FilterRule(path, operator, value) ==
    [path |-> path, operator |-> operator, value |-> value, negated |-> FALSE]
FilterNodes(q) == DOMAIN q.kids \cup DOMAIN q.rule
KidsOf(q, n) == IF n \in DOMAIN q.kids THEN q.kids[n] ELSE <<>>
Holders(q, n) == {g \in DOMAIN q.kids : n \in ToSet(q.kids[g])}
ParentIn(q, n) == CHOOSE g \in Holders(q, n) : TRUE
Gap(q, n) == (CHOOSE i \in DOMAIN q.kids[ParentIn(q, n)] : q.kids[ParentIn(q, n)][i] = n) - 1

\* A node and all beneath it, in document order.
Preorder(q, n) ==
    LET f[m \in FilterNodes(q)] ==
            <<m>> \o FlattenSeq([i \in DOMAIN KidsOf(q, m) |-> f[KidsOf(q, m)[i]]])
    IN  f[n]
Contained(q, n) == ToSet(Preorder(q, n))
FlattenFilterRules(q) == SelectSeq(Preorder(q, FiRoot), LAMBDA n : n \in DOMAIN q.rule)
CountFilterRules(q) == Len(FlattenFilterRules(q))

\* The nodes the root holds; what an edit leaves out is forgotten.
Held(q) ==
    LET live == Contained(q, FiRoot)
    IN  [kids |-> [g \in DOMAIN q.kids \cap live |-> q.kids[g]],
         comb |-> [g \in DOMAIN q.kids \cap live |-> q.comb[g]],
         rule |-> [r \in DOMAIN q.rule \cap live |-> q.rule[r]]]

PutAt(s, gap, n) == InsertAt(s, (IF gap > Len(s) THEN Len(s) ELSE gap) + 1, n)

\* The tree with the nodes of another beside its own.
Merged(q, other) == [kids |-> other.kids @@ q.kids, comb |-> other.comb @@ q.comb,
                     rule |-> other.rule @@ q.rule]

NoNodes == [kids |-> <<>>, comb |-> <<>>, rule |-> <<>>]
RuleNode(n, rule) == [NoNodes EXCEPT !.rule = n :> rule]
GroupNode(n, comb, kids) == [NoNodes EXCEPT !.kids = n :> kids, !.comb = n :> comb]

InsertFilterNode(q, nodes, top, parent, gap) ==
    IF parent \notin DOMAIN q.kids THEN q
    ELSE [Merged(q, nodes) EXCEPT !.kids[parent] = PutAt(@, gap, top)]

UpdateFilterRule(q, n, updates) ==
    IF n \in DOMAIN q.rule THEN [q EXCEPT !.rule[n] = updates @@ @] ELSE q

\* Each ancestor drops the node and every group then empty in it.
RemoveFilterNode(q, n) ==
    LET left[g \in DOMAIN q.kids] ==
            IF n \notin Contained(q, g) THEN q.kids[g]
            ELSE SelectSeq(q.kids[g], LAMBDA k : k # n /\ ~(k \in DOMAIN q.kids /\ left[k] = <<>>))
    IN  IF Holders(q, n) = {} THEN q ELSE Held([q EXCEPT !.kids = left])

\* A copy under fresh ids, numbered in document order.
\* Mutant of CloneFilterNode: the children keep their ids.
CloneTopOnly(q, n, next) ==
    IF n \in DOMAIN q.rule THEN RuleNode(next + 1, q.rule[n])
    ELSE GroupNode(next + 1, q.comb[n], q.kids[n])
CloneFilterNode(q, n, next) ==
    LET order == Preorder(q, n)
        fresh(m) == next + (CHOOSE i \in DOMAIN order : order[i] = m)
        old(m) == order[m - next]
        ids(S) == {fresh(m) : m \in S \cap ToSet(order)}
    IN  [kids |-> [g \in ids(DOMAIN q.kids) |->
                     [i \in DOMAIN q.kids[old(g)] |-> fresh(q.kids[old(g)][i])]],
         comb |-> [g \in ids(DOMAIN q.kids) |-> q.comb[old(g)]],
         rule |-> [r \in ids(DOMAIN q.rule) |-> q.rule[old(r)]]]

DuplicateFilterNode(q, n, next) ==
    IF Holders(q, n) = {} THEN q
    ELSE InsertFilterNode(q, CloneFilterNode(q, n, next), next + 1, ParentIn(q, n), Gap(q, n) + 1)
CopyFilterNodeTo(q, n, parent, gap, next) ==
    IF Holders(q, n) = {} THEN q
    ELSE InsertFilterNode(q, CloneFilterNode(q, n, next), next + 1, parent, gap)

SetFilterCombinator(q, g, comb) == IF g \in DOMAIN q.comb THEN [q EXCEPT !.comb[g] = comb] ELSE q
ToggleFilterCombinator(q, g) ==
    IF g \notin DOMAIN q.comb THEN q
    ELSE SetFilterCombinator(q, g, IF q.comb[g] = "and" THEN "or" ELSE "and")

DetachFilterNode(q, n) == [q EXCEPT !.kids[ParentIn(q, n)] = SelectSeq(@, LAMBDA k : k # n)]

MoveFilterNode(q, n, delta) ==
    IF Holders(q, n) = {} THEN q
    ELSE LET g == ParentIn(q, n)
             to == Gap(q, n) + delta
         IN  IF to < 0 \/ to >= Len(q.kids[g]) THEN q
             ELSE [q EXCEPT !.kids[g] = PutAt(DetachFilterNode(q, n).kids[g], to, n)]

\* Within one parent the node's own slot closes before it lands.
\* Mutant of MoveFilterNodeTo: the slot is not accounted for.
MoveUnshifted(q, n, parent, gap) ==
    IF Holders(q, n) = {} \/ parent \in Contained(q, n) \/ parent \notin DOMAIN q.kids THEN q
    ELSE [q EXCEPT !.kids = [DetachFilterNode(q, n).kids EXCEPT ![parent] = PutAt(@, gap, n)]]
MoveFilterNodeTo(q, n, parent, gap) ==
    IF Holders(q, n) = {} \/ parent \in Contained(q, n) \/ parent \notin DOMAIN q.kids THEN q
    ELSE LET same == ParentIn(q, n) = parent
             to == IF same /\ Gap(q, n) < gap THEN gap - 1 ELSE gap
         IN  IF same /\ to = Gap(q, n) THEN q
             ELSE [q EXCEPT !.kids = [DetachFilterNode(q, n).kids EXCEPT ![parent] = PutAt(@, to, n)]]

WrapFilterNode(q, n, g, comb) ==
    IF Holders(q, n) = {} THEN q
    ELSE Merged([q EXCEPT !.kids[ParentIn(q, n)] = [i \in DOMAIN @ |-> IF @[i] = n THEN g ELSE @[i]]],
                GroupNode(g, comb, <<n>>))
UnwrapFilterGroup(q, g) ==
    IF g \notin DOMAIN q.kids \/ Holders(q, g) = {} THEN q
    ELSE LET p == ParentIn(q, g) IN
         Held([q EXCEPT !.kids[p] = SubSeq(@, 1, Gap(q, g)) \o q.kids[g]
                                      \o SubSeq(@, Gap(q, g) + 2, Len(@))])
ClearFilterQuery(q) == IF q.kids[FiRoot] = <<>> THEN q ELSE Held([q EXCEPT !.kids[FiRoot] = <<>>])

\* What a saved query keeps: no empty group, no group around one group.
PruneFilterQuery(q) ==
    LET rest[n \in FilterNodes(q)] ==    \* what stands where the node stood
            IF n \in DOMAIN q.rule THEN <<n>>
            ELSE LET kept == FlattenSeq([i \in DOMAIN q.kids[n] |-> rest[q.kids[n][i]]])
                 IN  IF kept = <<>> THEN <<>>
                     ELSE IF Len(kept) = 1 /\ kept[1] \in DOMAIN q.kids THEN kept ELSE <<n>>
        over(g) == FlattenSeq([i \in DOMAIN q.kids[g] |-> rest[q.kids[g][i]]])
    IN  Held([q EXCEPT !.kids = [g \in DOMAIN q.kids |-> over(g)]])

\* Where the Move menu of a node offers to put it: the top level and the groups
\* outside it, each at its end.
MoveDestinations(q, n) ==
    {g \in DOMAIN q.kids \ Contained(q, n) : g # ParentIn(q, n)}

\* Every reason a query cannot be run as written.
Complaint(rule) ==
    LET items == rule.value.items IN
    IF rule.operator = "" THEN "missing-operator"
    ELSE IF ArityOf(rule) = "none" THEN ""
    ELSE IF ArityOf(rule) = "range"
         THEN IF Len(items) < 2 \/ Blank \in ToSet(items) THEN "incomplete-range"
              ELSE IF items[1] > items[2] THEN "reversed-range" ELSE ""
    ELSE IF ToSet(items) \subseteq {Blank} THEN "missing-value" ELSE ""
CollectFilterIssues(q) ==
    LET known == {r \in DOMAIN q.rule : HasField(q.rule[r].path)} IN
    [n \in {r \in known : Complaint(q.rule[r]) # ""}
           \cup {g \in DOMAIN q.kids \ {FiRoot} : q.kids[g] = <<>>} |->
       IF n \in DOMAIN q.rule THEN Complaint(q.rule[n]) ELSE "empty-group"]

=============================================================================
