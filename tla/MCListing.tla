----------------------------- MODULE MCListing -----------------------------
(***************************************************************************)
(* Instances of Listing for TLC: a purchase, and one that is split, so     *)
(* that two of its entries are of one account and may fall on two pages,   *)
(* and paid in part from an account of another user.                       *)
(***************************************************************************)
EXTENDS Listing, TLC

Line(account, n) == [account |-> account, amount |-> n]
MCAccounts   == {"bank", "food", "till"}
MCOwner      == [a \in MCAccounts |-> IF a = "till" THEN "other" ELSE "user"]
MCEntryLists == { << Line("food", 2), Line("bank", -2) >>,
                  << Line("food", 1), Line("food", 2), Line("bank", -2), Line("till", -1) >> }
Symmetry == Permutations(Ids)
=============================================================================
