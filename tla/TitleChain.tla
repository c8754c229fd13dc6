----------------------------- MODULE TitleChain -----------------------------
(***************************************************************************)
(* What the service promises about title to a home, whatever its requests  *)
(* do: a home always has one owner; it changes hands only from the owner   *)
(* to somebody that owner offered it to while verified; and a new owner    *)
(* begins unverified.                                                      *)
(***************************************************************************)
CONSTANTS Persons, Properties

VARIABLES
    owner,      \* who holds each home
    verified,   \* has the holder proved it with MitID
    promised    \* the offers made by verified owners

titleVars == <<owner, verified, promised>>

Promise == [property: Properties, from: Persons, to: Persons]

TitleInit ==
    /\ owner \in [Properties -> Persons]
    /\ verified \in [Properties -> BOOLEAN]
    /\ promised = {}

Prove(p) ==
    /\ verified' = [verified EXCEPT ![p] = TRUE]
    /\ UNCHANGED <<owner, promised>>

MakeOffer(p, to) ==
    /\ verified[p]
    /\ to # owner[p]
    /\ promised' = promised \cup {[property |-> p, from |-> owner[p], to |-> to]}
    /\ UNCHANGED <<owner, verified>>

\* Requests that fail take the offers they were about to record with them.
Withdraw ==
    /\ \E kept \in SUBSET promised : promised' = kept
    /\ UNCHANGED <<owner, verified>>

HandOver(o) ==
    /\ owner[o.property] = o.from
    /\ owner' = [owner EXCEPT ![o.property] = o.to]
    /\ verified' = [verified EXCEPT ![o.property] = FALSE]
    /\ UNCHANGED promised

TitleNext ==
    \/ \E p \in Properties : Prove(p)
    \/ \E p \in Properties, to \in Persons : MakeOffer(p, to)
    \/ Withdraw
    \/ \E o \in promised : HandOver(o)

TitleSpec == TitleInit /\ [][TitleNext]_titleVars

=============================================================================
