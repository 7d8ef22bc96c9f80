----------------------------- MODULE MCAgtQueue -----------------------------
(***************************************************************************)
(* Small instances of AgtQueue for TLC.                                    *)
(***************************************************************************)
EXTENDS AgtQueue, TLC

CONSTANTS c1, c2

\* With one company every document is its own; with two, the documents are
\* dealt out so that each company has one.
OneCompany == [d \in Docs |-> c1]

TwoCompanies ==
  LET first == CHOOSE d \in Docs : TRUE
  IN  [d \in Docs |-> IF d = first THEN c1 ELSE c2]

Actors == Permutations(Workers) \cup Permutations(Threads)

=============================================================================
