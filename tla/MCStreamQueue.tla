---------------------------- MODULE MCStreamQueue ----------------------------
(* Instances of StreamQueue for TLC. *)
EXTENDS StreamQueue

CONSTANTS i1, i2

\* Two instances that both reclaim while one of them reads.
MCThreads == {<<i1, "loop">>, <<i1, "reclaim">>, <<i2, "reclaim">>}

\* One instance, reading and reclaiming.
MCOneInstance == {<<i1, "loop">>, <<i1, "reclaim">>}
=============================================================================
