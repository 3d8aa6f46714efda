--------------------------- MODULE MCPortLifecycle ---------------------------
(***************************************************************************)
(* PortLifecycle on two structures, two COM numbers and a few handles.     *)
(***************************************************************************)
EXTENDS PortLifecycle, TLC

CONSTANTS p1, p2, h1, h2, h3

MCOnePair == {p1}
MCPairs == {p1, p2}
MCNumbers == {3, 4}
MCOneNumber == {3}
MCNothing == {}
MCAll == Resource
MCCompanionRest == {"CompanionRest"}
MCOneHandle == {h1}
MCTwoHandles == {h1, h2}
MCThreeHandles == {h1, h2, h3}

\* Structures and handles are compared only for equality.
MCSymmetry == Permutations(Pair) \union Permutations(Handle)

=============================================================================
