--------------------------- MODULE PassportTables ---------------------------
(***************************************************************************)
(* The shared state of House Passport's access core: the PostgreSQL tables *)
(* that say who owns a property, who it is shared with and to whom it is   *)
(* offered, the row-level-security policies over them, the in-memory store *)
(* of MitID sessions, and the requests the API is serving.                 *)
(*                                                                         *)
(* A table is a sequence in insertion order, so a row's id is its position *)
(* and is never used again; a deleted grant stays as a tombstone that no   *)
(* query returns.  A person's e-mail address is the person itself: e-mail  *)
(* is unique and never changed.  valid_to is abstracted to open / closed,  *)
(* all that the policies and the unique index ask of it.                   *)
(*                                                                         *)
(* A request is a record whose field "at" names the statement it runs      *)
(* next, with what the handler has read so far.  Transactions run at READ  *)
(* COMMITTED: every statement sees the rows committed when it starts, what *)
(* a transaction wrote appears when it commits, and the rows it wrote stay *)
(* locked until then.                                                      *)
(*                                                                         *)
(* A definition whose name ends in _ and a capital is a mutant of the one  *)
(* that follows it.                                                        *)
(***************************************************************************)
EXTENDS Naturals, Sequences, FiniteSets

CONSTANTS
    Persons,      \* people, and so the e-mail addresses
    Properties,   \* homes, the rows of "property"
    Requests,     \* requests the server handles at the same time
    Roles,        \* roles an owner may share with
    NoOne,        \* SQL null where a person is expected
    Configured,   \* is the MitID broker configured, or simulated
    MaxPeriods,   \* bounds on the number of rows ever inserted
    MaxGrants,
    MaxOffers,
    MaxSessions   \* bound on the MitID sessions open at a time

ASSUME ConstantsAssumption ==
    /\ NoOne \notin Persons
    /\ IsFiniteSet(Properties)
    /\ Roles \subseteq {"read", "write"}
    /\ Configured \in BOOLEAN
    /\ MaxPeriods \in Nat /\ MaxGrants \in Nat
    /\ MaxOffers \in Nat /\ MaxSessions \in Nat

VARIABLES
    period,       \* ownership_period
    grant,        \* access_grant
    offer,        \* property_transfer
    registered,   \* people with an account
    mitid,        \* people with person.is_mitid_verified
    sessions,     \* PendingVerificationStore
    req           \* what each request is doing

vars == <<period, grant, offer, registered, mitid, sessions, req>>

-----------------------------------------------------------------------------
(* Rows *)

Period == [property: Properties, person: Persons, open: BOOLEAN, verified: BOOLEAN]

Grant == [property: Properties, subject: Persons, permission: Roles,
          by: Persons, state: {"open", "closed", "deleted"}]

Offer == [property: Properties, from: Persons, toEmail: Persons,
          toPersonId: Persons \cup {NoOne},
          status: {"pending", "accepted", "cancelled", "superseded"}]

Session == [person: Persons, property: Properties]

(* Requests *)

Idle == [at |-> "idle"]

InitiateReq == [at: {"initiate.supersede", "initiate.create"}, me: Persons,
                property: Properties, toEmail: Persons,
                toPersonId: Persons \cup {NoOne}]
AcceptReq   == [at: {"accept.tx"}, me: Persons, offer: Nat]
HandoverReq == [at: {"accept.commit"}, me: Persons, offer: Nat, closing: SUBSET Nat]
CancelReq   == [at: {"cancel.write"}, offer: Nat]
\* existing is 0 when no open grant for the subject was found.
ShareReq    == [at: {"share.write", "share.commit"}, me: Persons,
                property: Properties, subject: Persons, permission: Roles,
                existing: Nat]
RevokeReq   == [at: {"revoke.delete"}, me: Persons, grant: Nat]
VerifyReq   == [at: {"verify.write"}, me: Persons, property: Properties]

Request == {Idle} \cup InitiateReq \cup AcceptReq \cup HandoverReq \cup CancelReq
           \cup ShareReq \cup RevokeReq \cup VerifyReq

\* The requests at one of the given statements.
InFlight(labels) == {r \in Requests : req[r].at \in labels}

Finish(r) == req' = [req EXCEPT ![r] = Idle]

-----------------------------------------------------------------------------
(* Policies: what the person "me" of a transaction may see and do *)

OpenPeriods(p) == {n \in DOMAIN period : period[n].property = p /\ period[n].open}

is_current_owner(me, p) == \E n \in OpenPeriods(p) : period[n].person = me

can_read_property(me, p) ==
    \/ is_current_owner(me, p)
    \/ \E g \in DOMAIN grant :
          /\ grant[g].property = p /\ grant[g].state = "open"
          /\ grant[g].subject = me

grant_select(me, g) ==
    /\ grant[g].state # "deleted"
    /\ \/ grant[g].by = me
       \/ grant[g].subject = me
       \/ is_current_owner(me, grant[g].property)

grant_insert_Anyone(me, p) == TRUE

grant_insert(me, p) == is_current_owner(me, p)

grant_delete(me, g) ==
    /\ grant[g].state # "deleted"
    /\ grant[g].by = me \/ is_current_owner(me, grant[g].property)

-----------------------------------------------------------------------------
(* Row locks held by transactions that have written and not committed *)

\* A sharing transaction holds the grant it replaces, a hand-over those it closes.
DeletedBy(g, r) == req[r].at = "share.commit" /\ req[r].existing = g
ClosedBy(g, r)  == req[r].at = "accept.commit" /\ g \in req[r].closing
GrantLocked(g)  == \E r \in Requests : DeletedBy(g, r) \/ ClosedBy(g, r)

\* A hand-over holds the seller's period and the key of the unique index.
HandoverOf(p, r) == req[r].at = "accept.commit" /\ offer[req[r].offer].property = p
HandoverRunning_Unlocked(p) == FALSE

HandoverRunning(p) == \E r \in Requests : HandoverOf(p, r)

=============================================================================
