------------------------------ MODULE MCAccess ------------------------------
(***************************************************************************)
(* Instances of Access for TLC.                                            *)
(***************************************************************************)
EXTENDS Access, TLC

MCKeys == Replicas \X Routes \X Origins
MCLimit == [k \in Keys |-> IF k[2] = "login" THEN 2 ELSE 1]
MCDuration == [k \in Keys |-> 1]
Symmetry == Permutations(Tabs) \cup Permutations(Replicas) \cup Permutations(Origins)
              \cup Permutations(Emails) \cup Permutations(Passwords)
=============================================================================
