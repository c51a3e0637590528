------------------------------- MODULE Conditions -------------------------------
(* The condition trees of workflow rules (internal/workflow/rules.go): what          *)
(* ValidateExpressionTree lets into the database and what Evaluate makes of it.      *)
(*                                                                                    *)
(* A tree is the sequence of its nodes, the children of a node before it and the root  *)
(* last; a node names its children by their places.  It is grown one logic node at a    *)
(* time, so that a run meets every tree of at most Depth levels over LeafTests; a        *)
(* context is a payload and the answer of the database to a leaf that asks it.            *)
EXTENDS Naturals, Sequences, FiniteSets, FiniteSetsExt

CONSTANTS
    Fields,     \* names of payload fields
    Unset,      \* a name that is not set
    Absent,     \* what a payload has for a field it does not hold
    LeafTests,     \* the condition leaves trees are built from
    Depth       \* bound: levels of logic nodes

LeafTypes == {"field", "field_compare", "state", "edge_event"}
ASSUME LeafTestsAssumption == LeafTests # {} /\ \A l \in LeafTests : l.type \in LeafTypes

VARIABLE tree

\* JSON values: a string of length n, a number n, an array of n elements.
Kinds == {"number", "string", "array"}
Value == [kind : Kinds, n : 0 .. 1]

\* EvalContext: the instance's payload, and what a query of a state or edge_event
\* leaf finds.
Context == [payload : [Fields -> Value \cup {Absent}], found : {"true", "false", "fails"}]

\* Verdicts; "invalid" is ErrInvalidRule, "fails" ErrConditionEvaluation.
Verdict == {"true", "false", "fails", "invalid", "panics"}
Truth(b) == IF b THEN "true" ELSE "false"
Negation(v) == CASE v = "true" -> "false" [] v = "false" -> "true" [] OTHER -> v

CompareOps == {"eq", "neq", "lt", "gt", "lte", "gte"}
IsKnownCompareOp(op, allowContains) == op \in CompareOps \/ (op = "contains" /\ allowContains)

\* Go's == on two interface values: different types are unequal, two slices panic.
ValuesEqual(a, b) == IF a.kind = "array" /\ b.kind = "array" THEN "panics" ELSE Truth(a = b)

CompareValues(op, a, b) ==
    CASE op = "eq"  -> ValuesEqual(a, b)
      [] op = "neq" -> Negation(ValuesEqual(a, b))
      [] op = "contains" ->
            IF a.kind = "string" /\ b.kind = "string" THEN Truth(b.n <= a.n) ELSE "fails"
      [] op \in {"lt", "gt", "lte", "gte"} ->
            IF a.kind = "number" /\ b.kind = "number"
            THEN Truth(CASE op = "lt"  -> a.n < b.n
                         [] op = "gt"  -> a.n > b.n
                         [] op = "lte" -> a.n <= b.n
                         [] op = "gte" -> a.n >= b.n)
            ELSE "fails"
      [] OTHER -> "invalid"

\* The leaves.  A leaf that queries the database is incomplete when one of the names
\* it needs is unset.
EvaluateField(leaf, ec) ==
    IF leaf.a = Unset THEN "invalid"
    ELSE IF ec.payload[leaf.a] = Absent THEN "fails"
    ELSE CompareValues(leaf.op, ec.payload[leaf.a], leaf.value)

EvaluateFieldCompare(leaf, ec) ==
    IF leaf.a = Unset \/ leaf.b = Unset THEN "invalid"
    ELSE IF ec.payload[leaf.a] = Absent \/ ec.payload[leaf.b] = Absent THEN "fails"
    ELSE CompareValues(leaf.op, ec.payload[leaf.a], ec.payload[leaf.b])

EvaluateState(leaf, ec) ==
    IF leaf.a = Unset \/ leaf.b = Unset THEN "invalid"
    ELSE IF ec.payload[leaf.a] = Absent THEN "fails"
    ELSE ec.found

EvaluateEdgeEvent(leaf, ec) == IF leaf.a = Unset \/ leaf.b = Unset THEN "invalid" ELSE ec.found

EvaluateLeaf(leaf, ec) ==
    CASE leaf.type = "field"         -> EvaluateField(leaf, ec)
      [] leaf.type = "field_compare" -> EvaluateFieldCompare(leaf, ec)
      [] leaf.type = "state"         -> EvaluateState(leaf, ec)
      [] leaf.type = "edge_event"    -> EvaluateEdgeEvent(leaf, ec)
      [] OTHER                       -> "invalid"

IsLogicNode(t) == t.type = ""

\* The first child, in order, that settles the matter, or the verdict of a node whose
\* children are all neutral.
FirstOther(verdicts, neutral) ==
    LET others == {k \in DOMAIN verdicts : verdicts[k] # neutral} IN
    IF others = {} THEN neutral ELSE verdicts[Min(others)]

\* Every child is asked, and one that errs counts as false.
ErringIsFalse(op, verdicts) ==
    LET bools == {verdicts[k] = "true" : k \in DOMAIN verdicts} IN
    CASE op = "and" -> IF verdicts = <<>> THEN "invalid" ELSE Truth(FALSE \notin bools)
      [] op = "or"  -> IF verdicts = <<>> THEN "invalid" ELSE Truth(TRUE \in bools)
      [] op = "not" -> IF Len(verdicts) # 1 THEN "invalid" ELSE Truth(bools = {FALSE})
      [] OTHER      -> "invalid"

\* evaluateLogicNode: the children in order, up to the first that settles the matter
\* or errs; what a later child would say is never asked.
EvaluateLogicNode(op, verdicts) ==
    CASE op = "and" -> IF verdicts = <<>> THEN "invalid" ELSE FirstOther(verdicts, "true")
      [] op = "or"  -> IF verdicts = <<>> THEN "invalid" ELSE FirstOther(verdicts, "false")
      [] op = "not" -> IF Len(verdicts) # 1 THEN "invalid" ELSE Negation(verdicts[1])
      [] OTHER      -> "invalid"

\* The verdict on the node at i asks for those on its children.
Evaluate(t, ec) ==
    LET verdict[i \in 1 .. Len(t)] ==
          IF IsLogicNode(t[i])
          THEN EvaluateLogicNode(t[i].op, [k \in 1 .. Len(t[i].children) |-> verdict[t[i].children[k]]])
          ELSE EvaluateLeaf(t[i], ec)
    IN verdict[Len(t)]

ValidLeaf(leaf) ==
    CASE leaf.type = "field"         -> leaf.a # Unset /\ IsKnownCompareOp(leaf.op, TRUE)
      [] leaf.type = "field_compare" ->
            leaf.a # Unset /\ leaf.b # Unset /\ IsKnownCompareOp(leaf.op, FALSE)
      [] leaf.type \in {"state", "edge_event"} -> leaf.a # Unset /\ leaf.b # Unset
      [] OTHER                       -> FALSE

ValidArity(op, n) == (op \in {"and", "or"} /\ n > 0) \/ (op = "not" /\ n = 1)

ValidateExpressionTree(t) ==
    \A i \in 1 .. Len(t) :
        IF IsLogicNode(t[i]) THEN ValidArity(t[i].op, Len(t[i].children)) ELSE ValidLeaf(t[i])

--------------------------------------------------------------------------------
(* Growing trees.                                                                 *)

LogicNode(op, children) == [type |-> "", op |-> op, children |-> children]
LogicOps == {"and", "or", "not", "xor"}

\* Levels of logic nodes that have children.
Levels(t) ==
    LET level[i \in 1 .. Len(t)] ==
          IF IsLogicNode(t[i]) /\ t[i].children # <<>>
          THEN 1 + Max({level[t[i].children[k]] : k \in 1 .. Len(t[i].children)})
          ELSE 0
    IN level[Len(t)]

ConditionsInit == tree \in {<<l>> : l \in LeafTests}

\* The tree becomes the only child, or one of two, of a new logic node, or makes way for one
\* that has none.
Wrap(op) ==
    LET root == Len(tree) IN
    /\ Levels(tree) < Depth
    /\ \/ tree' = <<LogicNode(op, <<>>)>>
       \/ tree' = Append(tree, LogicNode(op, <<root>>))
       \/ \E l \in LeafTests, children \in {<<root, root + 1>>, <<root + 1, root>>} :
            tree' = Append(Append(tree, l), LogicNode(op, children))

ConditionsNext == \E op \in LogicOps : Wrap(op)

ConditionsSpec == ConditionsInit /\ [][ConditionsNext]_tree

--------------------------------------------------------------------------------
(* Properties.                                                                   *)

\* The classical value of a logic node whose children have truth values.
Classical(node, value) ==
    LET child(k) == value[node.children[k]] IN
    CASE node.op = "and" -> \A k \in 1 .. Len(node.children) : child(k)
      [] node.op = "or"  -> \E k \in 1 .. Len(node.children) : child(k)
      [] OTHER           -> ~child(1)

\* The truth values the nodes can have, given the leaves that can be evaluated.
Completions(t, ec) ==
    {value \in [1 .. Len(t) -> BOOLEAN] :
        \A i \in 1 .. Len(t) :
            IF IsLogicNode(t[i]) THEN value[i] <=> Classical(t[i], value)
            ELSE EvaluateLeaf(t[i], ec) \in {"true", "false"}
                    => (value[i] <=> EvaluateLeaf(t[i], ec) = "true")}

\* A rule that passed validation never fails as malformed when it is evaluated
\* (ValidateExpressionTree, rules.go:550-555), and a verdict never rests on a leaf
\* that could not be evaluated: it is the tree's value whatever that leaf would have
\* said (fail-closed: no error is turned into a match, under a "not" either).
VerdictsAreSound ==
    ValidateExpressionTree(tree) =>
        \A ec \in Context :
            LET v == Evaluate(tree, ec) IN
            /\ v # "invalid"
            /\ v \in {"true", "false"} =>
                \A value \in Completions(tree, ec) : value[Len(tree)] <=> v = "true"

================================================================================
