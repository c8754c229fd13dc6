----------------------------- MODULE MCPassport -----------------------------
(***************************************************************************)
(* Instances of Passport for TLC.  People and requests are                 *)
(* interchangeable: no definition names one of them.                       *)
(***************************************************************************)
EXTENDS Passport, TLC

PeopleAndRequests == Permutations(Persons) \cup Permutations(Requests)

=============================================================================
