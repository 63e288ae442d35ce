------------------------------ MODULE Postings ------------------------------
(***************************************************************************)
(* What Reports and Listing have in common: the users and the accounts     *)
(* they own, the entry lists that clients send, the dates they give to     *)
(* journals, and the sizes of pages that they ask for.  A line of a        *)
(* journal names any account: that the account exists is all that is       *)
(* checked, not whose it is.                                               *)
(***************************************************************************)
EXTENDS Amounts, FiniteSets, FiniteSetsExt

CONSTANTS Users,
          Owner,        \* account -> user
          User,         \* the user whose figures are asked for
          EntryLists,   \* the entry lists of the journals
          MaxDay,       \* bound: dates are the days 1 .. MaxDay
          Sizes,        \* the values of page_size in requests
          NULL          \* no value

ASSUME AccountsAssumption == IsFiniteSet(Accounts)
ASSUME OwnerAssumption == User \in Users /\ Owner \in [Accounts -> Users]
ASSUME EntriesAssumption == EntryLists \subseteq Seq(Lines)
ASSUME DaysAssumption == MaxDay \in Nat \ {0}
ASSUME SizesAssumption == Sizes \subseteq Int
ASSUME NullAssumption == NULL \notin Nat /\ NULL \notin Accounts

Days == 1 .. MaxDay

\* WHERE a.user_id = $1
Own == {a \in Accounts : Owner[a] = User}

PageSize(size) == IF size < 1 \/ size > 100 THEN 20 ELSE size
=============================================================================
