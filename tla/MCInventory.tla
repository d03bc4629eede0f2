---------------------------- MODULE MCInventory ----------------------------
(***************************************************************************)
(* Small instances of module Inventory for TLC.                            *)
(***************************************************************************)
EXTENDS Queries, TLC

SmallGrid == <<1, 2>>
SmallSizes == {<<1, 1>>, <<1, 2>>, <<2, 1>>}

\* What clients of this instance use, one name with the separator of
\* GROUP_CONCAT, and two names that only files bring, an empty one among them.
Lower == {"red", "red|blue"}
Names == Lower \cup {"blue", ""}

SplitAtBar ==
    [n \in Names |-> IF n = "red|blue" THEN <<"red", "blue">> ELSE <<n>>]

\* What is asked for: no filter, two, one twice, and one with a comma.
SplitAtComma ==
    [n \in Lower \cup {"red,blue"} |->
        IF n = "red,blue" THEN <<"red", "blue">> ELSE <<n>>]
Lists == {<<>>, <<"red", "red|blue">>, <<"red", "red">>, <<"red,blue">>}

\* The file that an export of a 2 x 1 shelf writes, with an item that has two
\* tags and one whose tags were removed.
Complete ==
    [named |-> TRUE, rows |-> 2, cols |-> 1, containers |-> <<<<1, 1>>, <<1, 2>>>>,
     items |-> <<[at |-> 1, tags |-> <<>>], [at |-> 2, tags |-> <<"blue", "red">>]>>]

\* Files that pass handleImportValidate although no export writes them.
NoContainers == [named |-> TRUE, rows |-> 1, cols |-> 2, containers |-> <<>>, items |-> <<>>]
OffGrid == [named |-> TRUE, rows |-> 1, cols |-> 1, containers |-> <<<<1, 1>>, <<3, 7>>>>,
            items |-> <<[at |-> 2, tags |-> <<"">>]>>]
TwicePlaced == [named |-> TRUE, rows |-> 1, cols |-> 2,
                containers |-> <<<<1, 1>>, <<1, 1>>>>, items |-> <<>>]
TwiceTagged == [named |-> TRUE, rows |-> 1, cols |-> 1, containers |-> <<<<1, 1>>>>,
                items |-> <<[at |-> 1, tags |-> <<"red", "red">>]>>]

AnyFiles == {Complete, NoContainers, OffGrid, TwicePlaced, TwiceTagged}
Limits == {1, 2}
=============================================================================
