-------------------------------- MODULE Book --------------------------------
(***************************************************************************)
(* What the ledger promises: a book to which balanced journals are added   *)
(* and in which nothing that was written is ever changed or removed.  A    *)
(* journal is either posted by a user or is the mirror of a journal the    *)
(* same user posted before.  The book says nothing of transactions,        *)
(* failures or processes; Ledger implements it.                            *)
(***************************************************************************)
EXTENDS Amounts

CONSTANTS Ids,     \* journal ids
          Users,   \* user ids
          NULL     \* no value

VARIABLE book      \* book[id] is the journal with that id, or NULL

Journals == [user : Users, of : Ids \cup {NULL}, lines : Seq(Lines)]

TypeOK == book \in [Ids -> Journals \cup {NULL}]

Init == book = [id \in Ids |-> NULL]

\* Journal id is added and the rest of the book stays as it is.
Add(id) == /\ book[id] = NULL
           /\ book'[id] \in Journals
           /\ book' = [book EXCEPT ![id] = book'[id]]

Post(id) == /\ Add(id)
            /\ book'[id].of = NULL
            /\ IsBalanced(book'[id].lines)

Reverse(id, j) == /\ book[j] # NULL
                  /\ book[j].of = NULL
                  /\ Add(id)
                  /\ book'[id].of = j
                  /\ book'[id].user = book[j].user
                  /\ book'[id].lines = Negate(book[j].lines)

Next == \E id \in Ids : Post(id) \/ \E j \in Ids : Reverse(id, j)

Spec == Init /\ [][Next]_book
=============================================================================
