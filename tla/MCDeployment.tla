---------------------------- MODULE MCDeployment ----------------------------
(* Instances of Deployment for TLC: people, documents and requests are interchangeable. *)
EXTENDS Deployment, TLC

\* Everything durable, everything in memory, and contents or keys alone durable.
MCConfigs == {c \in [s3 : BOOLEAN, kms : BOOLEAN, redis : BOOLEAN] : c.redis = c.s3}

MCSymmetry ==
    Permutations(People) \cup Permutations(Docs) \cup Permutations(Calls) \cup Permutations(Works)
=============================================================================
