-------------------------- MODULE MCPackageScripts --------------------------
(***************************************************************************)
(* An instance of PackageScripts for TLC.                                  *)
(***************************************************************************)
EXTENDS PackageScripts, TLC

At(path, package, version) == [path |-> path, package |-> package, version |-> version]

Root == At(<<>>, "a", "1")

\* One package twice in different versions, a link without a version, and b
\* installed under the name a.
MCEntrySets ==
  { {Root, At(<<"a">>, "a", "1"), At(<<"b">>, "b", "1"), At(<<"b", "a">>, "a", "2")},
    {Root, At(<<"a">>, "a", "2"), At(<<"b">>, "b", Absent)},
    {Root, At(<<"a">>, "b", "1")},
    {Root} }

MCLockfiles ==
  {[wellFormed |-> TRUE, entries |-> e] : e \in MCEntrySets}
    \cup {[wellFormed |-> FALSE, entries |-> {}]}

MCAdvisories ==
  { [package |-> "a", version |-> "1", severity |-> "moderate"],
    [package |-> "a", version |-> "2", severity |-> "critical"],
    [package |-> "b", version |-> "1", severity |-> "high"] }
=============================================================================
