------------------------------ MODULE Deployment ------------------------------
(***************************************************************************)
(* One server process with its accounts and its vault: administrators      *)
(* retry documents, a restart takes what the process remembers with it.    *)
(***************************************************************************)
EXTENDS Accounts, Vault

CONSTANTS
    MaxInFlight,   \* bound on what is handled at the same time
    MaxRows        \* bound on the persons and documents there are together

ASSUME DeploymentAssumption == MaxInFlight \in Nat \ {0} /\ MaxRows \in Nat

vars == <<accounts, vault>>

TypeOK == AccountsTypeOK /\ VaultTypeOK

Init == AccountsInit /\ VaultInit

InFlight == {c \in Calls : call[c] # Quiet} \cup {r \in Works : work[r] # Resting}

Admits == Cardinality(InFlight) < MaxInFlight

Stored == objects \cup Known \cup {work[r].doc : r \in {q \in Works : work[q] # Resting}}

Room == Cardinality(Persons) + Cardinality(Stored) < MaxRows

\* AdminService.retryDocument, for whom the guards let through.
RetryAsAdmin(d) ==
    /\ \E p \in tokens : resolveAdmin(p)
    /\ retryDocument(d)
    /\ UNCHANGED accounts

\* The connections of calls are gone; rows and tokens are not the process's.
Restart ==
    /\ VaultRestart
    /\ call' = [c \in Calls |-> Quiet]
    /\ UNCHANGED <<account, tokens>>

Next ==
    \/ /\ \/ \E c \in Calls : (Admits /\ CallBegins(c)) \/ CallGoesOn(c) \/ CallFails(c)
          \/ \E p \in People : Guest(p) \/ Expire(p)
          \/ \E e \in Email, w \in Passwords : Login(e, w)
       /\ UNCHANGED vault
       /\ Persons' # Persons => Room
    \/ /\ \/ \E r \in Works : (Admits /\ WorkBegins(r)) \/ WorkGoesOn(r) \/ WorkFails(r)
          \/ \E d \in Docs : DemoDocument(d) \/ Handle(d)
       /\ UNCHANGED accounts
       /\ Stored' \subseteq Stored \/ Room
    \/ \E d \in Docs : RetryAsAdmin(d)
    \/ Restart

Spec == Init /\ [][Next]_vars
=============================================================================
