----------------------------- MODULE MCRequests -----------------------------
(***************************************************************************)
(* Small instances of module Requests for TLC.                             *)
(***************************************************************************)
EXTENDS Requests, TLC

CONSTANTS r1, r2, red, blue

TwoRequests == {r1, r2}
Interchangeable == Permutations(Request)

OneCell  == <<1, 1>>
TwoCells == <<1, 2>>
Sizes == {<<1, 1>>, <<1, 2>>}
OneName == {red}
TwoNames == {red, blue}
OneList == {<<red>>}
TwoLists == {<<red>>, <<blue, red>>}

ShelfKinds == {"create", "update", "resize", "delitem", "import"}
AnyName == {"kept", "empty", "text"}
Names == {"kept", "empty"}
Kept  == {"kept"}

TagKinds   == {"create", "delitem", "addtag", "untag", "rename", "merge", "deltag"}
MergeKinds == {"create", "rename", "merge", "deltag"}
LiveKinds  == {"create", "update", "resize", "delitem"}

None == {}
File == [named |-> TRUE, rows |-> 1, cols |-> 2, containers |-> <<<<1, 1>>, <<2, 1>>>>,
         items |-> <<[at |-> 2, tags |-> <<blue, red>>]>>]
BadFile == [named |-> TRUE, rows |-> 1, cols |-> 1, containers |-> <<<<1, 1>>>>,
            items |-> <<[at |-> 1, tags |-> <<red, red>>]>>]
Files == {File, BadFile}
=============================================================================
