------------------------------ MODULE Outside ------------------------------
(***************************************************************************)
(* How answers from outside the program look to it: the public registers,  *)
(* the language model, the MitID broker.                                   *)
(***************************************************************************)
EXTENDS Integers

CONSTANTS
    Null,   \* JSON null, JavaScript undefined
    Down    \* a failing call: no connection, a status that is not 2xx, no JSON

\* Neither is a value an answer can have.
ASSUME OutsideAssumption ==
    Null # Down /\ {Null, Down} \cap (Int \cup {<<>>}) = {}

Given(x) == x # Null
=============================================================================
