------------------------------ MODULE MCReports ------------------------------
(***************************************************************************)
(* Instances of Reports for TLC: one account of each type that matters,    *)
(* and one of another user; a purchase, a salary, a refund and a purchase  *)
(* on credit that another user's account shares, over two months; requests *)
(* for a listing with and without filters.                                 *)
(***************************************************************************)
EXTENDS Reports, TLC

MCAccounts == {"bank", "loan", "salary", "food", "till"}
MCType == ("bank" :> "asset") @@ ("loan" :> "liability") @@ ("till" :> "asset")
            @@ ("salary" :> "income") @@ ("food" :> "expense")
MCOwner == [a \in MCAccounts |-> IF a = "till" THEN "other" ELSE "user"]

Line(account, n) == [account |-> account, amount |-> n]
Pair(debit, credit, n) == << Line(debit, n), Line(credit, -n) >>

Shared     == << Line("food", 2), Line("loan", -1), Line("till", -1) >>
Unbalanced == << Line("food", 2), Line("bank", -1) >>

MCEntryLists == { Pair("food", "bank", 2), Pair("bank", "salary", 3),
                  Pair("bank", "food", 1), Shared, Unbalanced }

MCMonth == [d \in 1 .. MaxDay |-> IF d <= 2 THEN 1 ELSE 2]

Filter == [from |-> NULL, to |-> NULL, category |-> NULL, account |-> NULL]
MCFilters == { Filter, [Filter EXCEPT !.account = "food"],
               [Filter EXCEPT !.category = CHOOSE c \in Categories : TRUE],
               [Filter EXCEPT !.from = 2], [Filter EXCEPT !.to = 2, !.account = "bank"] }
==============================================================================
