----------------------------- MODULE MCLspServer -----------------------------
(* Small instances of LspServer for TLC.                                    *)
EXTENDS LspServer, TLC

CONSTANTS f0, f1, a, b

\* From f0 only module a is reached, from any other files only module b.
MCReached == [f \in Files |-> IF f = f0 THEN {a} ELSE {b}]

\* Queries differ only in their ids.
Interchangeable == Permutations(QueryIds)
=============================================================================
