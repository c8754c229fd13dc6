---------------------------- MODULE MCIngestion ----------------------------
(***************************************************************************)
(* Instances of Ingestion for TLC.  Documents, people, keys, requests and  *)
(* workers are interchangeable: no definition names one of them.           *)
(***************************************************************************)
EXTENDS Ingestion, TLC

Interchangeable ==
    Permutations(Docs) \cup Permutations(People) \cup Permutations(Keys)
        \cup Permutations(Requests) \cup Permutations(Workers)

=============================================================================
