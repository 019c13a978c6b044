----------------------------- MODULE MC_HTable -----------------------------
(***************************************************************************)
(* Instances of the hash table for TLC.  The keys k1 and k1b are two       *)
(* pointers to the same text, the hash codes of k1 and k2 are equal, and   *)
(* those of k1, k2 and k3 fall into one bucket of every table up to 4.     *)
(***************************************************************************)
EXTENDS HTable, TLC

CONSTANTS k1, k1b, k2, k3, k4

AllTexts  == k1 :> 1 @@ k1b :> 1 @@ k2 :> 2 @@ k3 :> 3 @@ k4 :> 4
AllHashes == k1 :> 1 @@ k1b :> 1 @@ k2 :> 1 @@ k3 :> 5 @@ k4 :> 2

MCText == [k \in Key |-> AllTexts[k]]
MCHash == [k \in Key |-> AllHashes[k]]
\* Besides the default one, one that makes a table of 8 full with 3 entries.
MCLoads == {<<3, 4>>, <<3, 8>>}
MCDefaultLoad == {<<3, 4>>}
=============================================================================
