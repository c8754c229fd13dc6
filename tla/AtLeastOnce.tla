----------------------------- MODULE AtLeastOnce -----------------------------
(***************************************************************************)
(* What the stream promises whoever publishes to it: an entry is owed to   *)
(* the handlers until one of them has returned, or it has become a dead    *)
(* letter, or MaxLen younger entries have been published.  An entry may be *)
(* handled any number of times, also after it is a dead letter.            *)
(***************************************************************************)
EXTENDS Naturals

CONSTANT MaxLen   \* entries the stream keeps at least

VARIABLES
    published,    \* entries published so far; their ids are 1..published
    owed,         \* entries somebody has still to handle
    handled,      \* entries for which a handler has returned
    buried        \* entries that have become dead letters

vars == <<published, owed, handled, buried>>

Init == published = 0 /\ owed = {} /\ handled = {} /\ buried = {}

Publish ==
    /\ published' = published + 1
    /\ \E trimmed \in SUBSET {n \in 1..published : published + 1 - n >= MaxLen} :
           owed' = (owed \cup {published'}) \ trimmed
    /\ UNCHANGED <<handled, buried>>

Handle(n) ==
    /\ handled' = handled \cup {n}
    /\ UNCHANGED <<published, owed, buried>>

Bury(n) ==
    /\ buried' = buried \cup {n}
    /\ UNCHANGED <<published, owed, handled>>

Settle(n) ==
    /\ n \in handled \cup buried
    /\ owed' = owed \ {n}
    /\ UNCHANGED <<published, handled, buried>>

Next ==
    \/ Publish
    \/ \E n \in 1..published : Handle(n) \/ Bury(n) \/ Settle(n)

Spec == Init /\ [][Next]_vars
=============================================================================
