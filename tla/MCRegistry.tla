----------------------------- MODULE MCRegistry ------------------------------
(***************************************************************************)
(* A small instance of Registry for TLC: two sources of a company that     *)
(* bring the same documents, and a code to which one may be renamed.       *)
(***************************************************************************)
EXTENDS Registry

CONSTANTS sA, sB, X, cA, cB, i1, i2, n1, v1, v2

TwoSources == {sA, sB}

OneCompany == [s \in TwoSources |-> X]

OwnCodes == [s \in TwoSources |-> IF s = sA THEN cA ELSE cB]

Doc(i, n, v) == [id |-> i, number |-> n, content |-> v]

\* A document, its correction, another with the same number, and one that
\* cannot be read.
ReadablePayloads == {Doc(i1, n1, v1), Doc(i1, n1, v2), Doc(i2, n1, v1)}
UnreadablePayloads == {Doc(i2, n1, v2)}
AllPayloads == ReadablePayloads \cup UnreadablePayloads

=============================================================================
