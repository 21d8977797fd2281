----------------------------- MODULE MCFilters -----------------------------
(* Filter bars small enough for TLC: the schema, the queries and the scenes. *)
EXTENDS Filters

(* A text and a number field, a group of fields, a disabled field. *)
Field(path, type, branch, disabled) ==
    [path |-> path, type |-> type, branch |-> branch, disabled |-> disabled]
MCSchema ==
    <<Field(<<"t">>, "text", FALSE, FALSE), Field(<<"b">>, "text", TRUE, FALSE),
      Field(<<"b", "s">>, "select", FALSE, FALSE), Field(<<"t">>, "select", FALSE, TRUE),
      Field(<<"n">>, "number", FALSE, FALSE)>>
IsOne == FilterRule(<<"b", "s">>, "is", Scalar(1))
Holds2 == FilterRule(<<"t">>, "contains", Scalar(2))
Over1 == FilterRule(<<"n">>, "gt", Scalar(1))
Tree(kids, comb, rules) == [kids |-> kids, comb |-> comb, rule |-> rules]
MCNoRules == Tree(0 :> <<>>, 0 :> "and", <<>>)
MCOneRule == Tree(0 :> <<1>>, 0 :> "and", 1 :> IsOne)
MCNumber  == Tree(0 :> <<1>>, 0 :> "and", 1 :> Over1)
MCGrouped == Tree((0 :> <<1, 2>>) @@ (2 :> <<3, 4>>), (0 :> "and") @@ (2 :> "or"),
                  (1 :> IsOne) @@ (3 :> Holds2) @@ (4 :> IsOne))
MCFiTrees == {MCNoRules, MCOneRule, MCNumber, MCGrouped}
FiScene(chrome, consumer, tree, kinds, acts, steps, vetoes, swaps) ==
    [chrome |-> chrome, consumer |-> consumer, tree |-> tree, next |-> 4, kinds |-> kinds,
     acts |-> acts, steps |-> steps, vetoes |-> vetoes, swaps |-> swaps, reorderable |-> TRUE]
MCFiScenes ==
    {FiScene("basic", "own", MCOneRule, {"create", "open", "pick"}, 5, 0, 1, 1),
     FiScene("basic", "own", MCGrouped, {"open", "menu", "key"}, 4, 0, 0, 0),
     FiScene("basic", "own", MCNumber, {"amend"}, 5, 0, 0, 1),
     FiScene("basic", "ignores", MCGrouped, {"key"}, 3, 0, 0, 0),
     FiScene("advanced", "own", MCNumber, {"open", "pick", "type"}, 4, 0, 0, 1),
     FiScene("advanced", "own", MCNoRules, {"add", "open", "pick", "type", "clear"}, 5, 0, 0, 0),
     FiScene("advanced", "own", MCGrouped, {"open", "menu", "group"}, 4, 0, 0, 0),
     FiScene("advanced", "own", MCGrouped, {"drag"}, 2, 2, 0, 1)}

=============================================================================
