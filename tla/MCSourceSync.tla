---------------------------- MODULE MCSourceSync ----------------------------
(***************************************************************************)
(* Small instances of SourceSync for TLC.                                  *)
(***************************************************************************)
EXTENDS SourceSync, TLC

CONSTANTS d1, d2, d3, m1, m2

Places(first, second, third) ==
  [d \in Docs |-> CASE d = d1 -> first [] d = d2 -> second [] d = d3 -> third]

\* Every document has its own place in the order of the cursor column.
Distinct == [m \in Mappings |-> Places(1, 2, 3)]

\* Two documents share a place: a cursor on a date, say.
Tied == [m \in Mappings |-> Places(1, 1, 2)]

\* The second mapping orders the documents by another column.
Reordered == [m \in Mappings |-> IF m = m1 THEN Places(1, 2, 3)
                                          ELSE Places(2, 1, 3)]

Actors == Permutations(Syncers)

=============================================================================
