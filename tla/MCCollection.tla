---------------------------- MODULE MCCollection ----------------------------
(* A small instance of Collection.  The ministry lists two files under the *)
(* number na, one of which belongs to nb; the portal lists a number nd     *)
(* whose link is dead, nb with the file the ministry has under na, and ne; *)
(* a sample document carries the number nd.                                *)
EXTENDS Collection, TLC

CONSTANTS daily, manual, d1, d2, d3, d4, na, nb, nd, ne, fa, ga, fd, fe, fs

SixItems == 1 .. 6
FirstTwo == {1, 2}
Listing == <<na, na, nd, nb, ne, nd>>
Serves == <<fa, ga, fd, ga, fe, fs>>
Titled == <<"weak", "tax", "other", "other", "tax", "other">>
Renumbering == {[from |-> na, to |-> nb, items |-> {2}]}
ByHand == daily :> {"government"} @@ manual :> {"mof", "seed"}
=============================================================================
