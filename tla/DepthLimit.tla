----------------------------- MODULE DepthLimit -----------------------------
(***************************************************************************)
(* The depth rule of the GraphQL endpoint.  A document is a graph: its     *)
(* selection sets, and in each of them fields, inline fragments and        *)
(* spreads that lead to further ones.                                      *)
(***************************************************************************)
EXTENDS Integers, FiniteSetsExt

CONSTANTS
  Leaf,     \* in place of the selection set of a field that has none
  MaxDepth  \* the argument of createDepthLimitRule

Field(set) == [kind |-> "field", to |-> set]
Inline(set) == [kind |-> "inline", to |-> set]
Spread(name) == [kind |-> "spread", to |-> name]

\* Mutant: the spread of a fragment counts as a level.
BelowSpreads(x, current) == IF x.kind = "inline" THEN current ELSE current + 1

\* The depth of what a selection leads to.
Below(x, current) == IF x.kind = "field" THEN current + 1 ELSE current

\* selectionDepth: a fragment is entered once on each way down.
SelectionDepth(doc, operation) ==
  LET depth[set \in DOMAIN doc.selections, current \in Nat,
            visited \in SUBSET DOMAIN doc.fragments] ==
        Max({current} \cup
            { CASE x.kind = "spread" ->
                     IF x.to \in (DOMAIN doc.fragments) \ visited
                       THEN depth[doc.fragments[x.to], Below(x, current), visited \cup {x.to}]
                       ELSE current
                [] x.to = Leaf -> Below(x, current)
                [] OTHER -> depth[x.to, Below(x, current), visited]
              : x \in doc.selections[set] })
  IN  depth[operation, 0, {}]

\* The rule reports an error for every operation that is too deep.
TooDeep(doc) == \E operation \in doc.operations : SelectionDepth(doc, operation) > MaxDepth

-----------------------------------------------------------------------------
(* What the depth should be, without a walk: the selection sets that lie   *)
(* under n fields, for each n.                                             *)

\* The selection sets that the selections of these kinds lead to.
Targets(doc, sets, kinds) ==
  UNION { IF x.kind = "spread"
            THEN {doc.fragments[name] : name \in {x.to} \cap DOMAIN doc.fragments}
            ELSE {x.to} \ {Leaf}
          : x \in {y \in UNION {doc.selections[set] : set \in sets} : y.kind \in kinds} }

\* The sets and all that these kinds lead to from them.
Closure(doc, sets, kinds) ==
  LET within[n \in Nat] ==
        IF n = 0 THEN sets ELSE within[n - 1] \cup Targets(doc, within[n - 1], kinds)
  IN  within[Cardinality(DOMAIN doc.selections)]

Under(doc, operation, depth) ==
  LET level[n \in Nat] ==
        Closure(doc, IF n = 0 THEN {operation} ELSE Targets(doc, level[n - 1], {"field"}),
                {"inline", "spread"})
  IN  level[depth]

\* No field lies under MaxDepth others.
Shallow(doc) ==
  \A operation \in doc.operations, set \in DOMAIN doc.selections :
    set \in Under(doc, operation, MaxDepth) => \A x \in doc.selections[set] : x.kind # "field"

\* The standard rules: fragments are defined and do not contain themselves.
Sound(doc) ==
  \A set \in DOMAIN doc.selections :
    LET kinds == {"field", "inline", "spread"}
    IN  /\ set \notin Closure(doc, Targets(doc, {set}, kinds), kinds)
        /\ \A x \in doc.selections[set] : x.kind = "spread" => x.to \in DOMAIN doc.fragments

=============================================================================
