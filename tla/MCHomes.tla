------------------------------ MODULE MCHomes ------------------------------
(* One address for everybody, and registers that are down or know the address only. *)
EXTENDS Homes, TLC

Answers(resolve, configured) ==
    [longEnough |-> TRUE, suggestions |-> <<[head |-> "0a3f", rest |-> 1]>>,
     resolve |-> resolve, configured |-> configured,
     dar |-> <<[named |-> TRUE, numeric |-> TRUE, value |-> "0007"]>>,
     grundInUse |-> [kind |-> "array", rows |-> <<[id |-> "g"]>>],
     bygInUse |-> [kind |-> "array", rows |-> <<[year |-> 1950, area |-> 90, use |-> "120"]>>]]

MCFewServices == {Answers(Down, TRUE), Answers("found", FALSE)}

MCOneAddress == [head : {"Laer"}, rest : {1}]
MCSymmetry == Permutations(Requests)
=============================================================================
