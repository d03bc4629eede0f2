--------------------------- MODULE MCExportImport ---------------------------
(***************************************************************************)
(* A small instance of module ExportImport for TLC.                        *)
(***************************************************************************)
EXTENDS ExportImport

OneRow == <<1, 2>>
OtherSize == {<<2, 1>>}
TwoNames == {"red", "blue"}

\* Nothing is searched for in this instance.
Whole == [n \in TwoNames |-> <<n>>]
None == {}

\* A file that the user uploads: two cells, not in the order of an export, one
\* with an item that has both tags.
OneItem == [named |-> TRUE, rows |-> 2, cols |-> 1,
            containers |-> <<<<1, 2>>, <<1, 1>>>>,
            items |-> <<[at |-> 1, tags |-> <<"red", "blue">>]>>]

OneFile == {OneItem}

Symmetry == Permutations(Request) \cup Permutations(Token)
=============================================================================
