------------------------------ MODULE Passport ------------------------------
(***************************************************************************)
(* The access core of House Passport: transfers, sharing, verification and *)
(* registration served at the same time over the tables of PassportTables, *)
(* with requests that fail half-way and a server that restarts.            *)
(***************************************************************************)
EXTENDS Transfer, Sharing, Verification

\* Homes as onboarding leaves them: one owner each, verified or not.
Init ==
    /\ period \in [1..Cardinality(Properties) -> Period]
    /\ \A p \in Properties : \E n \in DOMAIN period : OpenPeriods(p) = {n}
    /\ grant = <<>>
    /\ offer = <<>>
    /\ registered = {period[n].person : n \in DOMAIN period}
    /\ mitid = {period[n].person : n \in {m \in DOMAIN period : period[m].verified}}
    /\ sessions = {}
    /\ req = [r \in Requests |-> Idle]

Register(me) ==
    /\ me \notin registered
    /\ registered' = registered \cup {me}
    /\ UNCHANGED <<period, grant, offer, mitid, sessions, req>>

\* A statement fails, the connection is lost or the transaction times out: an open
\* transaction is rolled back, autocommitted statements stay.
Fail(r) ==
    /\ req[r] # Idle
    /\ Finish(r)
    /\ UNCHANGED <<period, grant, offer, registered, mitid, sessions>>

\* The server process restarts: every request fails and the sessions are lost.
Restart ==
    /\ req' = [r \in Requests |-> Idle]
    /\ sessions' = {}
    /\ UNCHANGED <<period, grant, offer, registered, mitid>>

Start(r) == TransferStart(r) \/ SharingStart(r) \/ VerificationStart(r)

Continue(r) == TransferContinue(r) \/ SharingContinue(r) \/ VerificationContinue(r)

Next ==
    \/ \E r \in Requests : Start(r) \/ Continue(r) \/ Fail(r)
    \/ \E me \in Persons : Register(me)
    \/ \E me \in Persons, p \in Properties : VerifyInitiate(me, p)
    \/ Restart

Spec == Init /\ [][Next]_vars

\* The statements that wait for a row another transaction has locked.
Locking(r) ==
    AcceptTx(r) \/ AcceptCommit(r) \/ ShareWrite(r) \/ RevokeDelete(r) \/ VerifyWrite(r)

\* The event loop keeps resolving the promises of every request it has begun, and
\* PostgreSQL hands a released row lock to the transactions queued for it.
FairSpec ==
    /\ Spec
    /\ \A r \in Requests : WF_vars(Continue(r)) /\ SF_vars(Locking(r))

-----------------------------------------------------------------------------
(* Types *)

\* The rows a request refers to exist.
ReqRefersTo(q) ==
    /\ q.at \in {"accept.tx", "accept.commit", "cancel.write"} => q.offer \in DOMAIN offer
    /\ q.at = "accept.commit" => q.closing \subseteq DOMAIN grant
    /\ q.at \in {"share.write", "share.commit"} => q.existing \in {0} \cup DOMAIN grant
    /\ q.at = "revoke.delete" => q.grant \in DOMAIN grant

TypeOK ==
    /\ period \in Seq(Period)
    /\ grant \in Seq(Grant)
    /\ offer \in Seq(Offer)
    /\ registered \subseteq Persons
    /\ mitid \subseteq Persons
    /\ sessions \subseteq Session
    /\ req \in [Requests -> Request]
    /\ \A r \in Requests : ReqRefersTo(req[r])

-----------------------------------------------------------------------------
(* What holds whatever the requests do *)

\* A home has exactly one open ownership period: one_active_owner allows no second,
\* and a hand-over never leaves the home without an owner.
OneOwner == \A p \in Properties : \E n \in DOMAIN period : OpenPeriods(p) = {n}

\* Two hand-overs of a home are never about to commit together, and one that is
\* about to commit closes the only open period: the lock on the seller's period
\* and the unique index order them.
HandoversAreExclusive ==
    \A r \in Requests : req[r].at = "accept.commit" =>
        LET o == offer[req[r].offer]
        IN  /\ \A n \in OpenPeriods(o.property) : period[n].person = o.from
            /\ \A q \in Requests : HandoverOf(o.property, q) => q = r

\* Nobody who has never held a home has ever shared it: a grant's grantor has, or
\* had, an ownership period of the home.
GrantsComeFromOwners ==
    \A g \in DOMAIN grant : \E n \in DOMAIN period :
        period[n].property = grant[g].property /\ period[n].person = grant[g].by

\* A verified period belongs to a person who has passed MitID: a new owner never
\* inherits the seller's verification.
VerifiedPeriodsHaveVerifiedPersons ==
    \A n \in DOMAIN period : period[n].verified => period[n].person \in mitid

\* The abstract state of TitleChain: the open period of each home, and the offers
\* recorded or checked and about to be recorded.
OpenPeriod(p) == period[CHOOSE n \in DOMAIN period : OpenPeriods(p) = {n}]

Title == INSTANCE TitleChain WITH
    owner    <- [p \in Properties |-> OpenPeriod(p).person],
    verified <- [p \in Properties |-> OpenPeriod(p).verified],
    promised <- {[property |-> offer[o].property, from |-> offer[o].from,
                  to |-> offer[o].toEmail] : o \in DOMAIN offer}
                \cup
                {[property |-> req[r].property, from |-> req[r].me,
                  to |-> req[r].toEmail] :
                     r \in InFlight({"initiate.supersede", "initiate.create"})}

\* Title passes only along offers made by verified owners, from the owner to the
\* person named, under every interleaving of offers, acceptances and sharings.
ImplementsTitleChain == Title!TitleSpec

\* Every request that begins ends: no two transactions wait for each other's locks.
RequestsFinish == \A r \in Requests : req[r] # Idle ~> req[r] = Idle

-----------------------------------------------------------------------------
(* Promises that overlapping requests can break, and the races that break them. *)
(* A promise is "in order" at a home when it is kept and the requests in flight *)
(* there still rely on what is so; at first everything is.                      *)

Pending(p) == {o \in DOMAIN offer : offer[o].property = p /\ offer[o].status = "pending"}

\* The requests about to make an offer of the home.
Offering(p) ==
    {r \in InFlight({"initiate.supersede", "initiate.create"}) : req[r].property = p}

\* One open offer, the present and verified owner's, and the way clear for the next.
OffersInOrder(p) ==
    /\ \A m, n \in Pending(p) : m = n
    /\ \A o \in Pending(p) : VerifiedOwner(offer[o].from, p)
    /\ \A r \in Offering(p) :
          /\ VerifiedOwner(req[r].me, p)
          /\ req[r].at = "initiate.create" => Pending(p) = {}

\* Two offers of a home are made at once, or one while the home is handed over, or it
\* is handed over for an offer that has been cancelled or superseded meanwhile.
OffersRace(p) ==
    \/ \E q, r \in Offering(p) : q # r /\ {req[q].at, req[r].at} = {"initiate.create"}
    \/ \E r \in Requests :
          /\ HandoverOf(p, r)
          /\ Offering(p) # {} \/ req[r].offer \notin Pending(p)

\* A home has at most one open offer, a new one replacing it, and that is an offer of
\* the present, verified owner, until offers and a sale race (transfer.service.ts:47-59).
OnlyRacesBreakOffers ==
    [][\A p \in Properties : OffersInOrder(p) => OffersInOrder(p)' \/ OffersRace(p)]_vars

\* The requests that have found an offer pending and not yet written.
Deciding(o) ==
    {r \in InFlight({"accept.tx", "accept.commit", "cancel.write"}) : req[r].offer = o}

Settled(o) == offer[o].status # "pending" /\ Deciding(o) = {}

\* Only an open offer is active: one that was accepted, cancelled or superseded is never
\* accepted or cancelled again, whatever happens to the home, once the requests that
\* found it pending have ended (transfer.service.ts:110-116).
SettledOffersStaySettled ==
    [][\A o \in DOMAIN offer :
          Settled(o) => Settled(o)' /\ offer'[o].status = offer[o].status]_vars

SalesMatchOffers(p) ==
    Cardinality({o \in DOMAIN offer : offer[o].property = p /\ offer[o].status = "accepted"})
      = Cardinality({n \in DOMAIN period : period[n].property = p /\ ~period[n].open})

\* An accepted offer is about to be accepted again, or cancelled.
AcceptedInFlight(p) ==
    \E o \in DOMAIN offer, r \in Requests :
        /\ offer[o].property = p /\ offer[o].status = "accepted"
        /\ r \in Deciding(o) /\ req[r].at # "accept.tx"

\* Each sale consumes an offer of its own: a home has as many accepted offers as closed
\* periods, until a request writes on an offer that was accepted since it looked
\* (transfer.service.ts:80-116).
OnlyRacesUnmatchSales ==
    [][\A p \in Properties :
          SalesMatchOffers(p) => SalesMatchOffers(p)' \/ AcceptedInFlight(p)]_vars

OpenGrants(p) == {g \in DOMAIN grant : grant[g].property = p /\ grant[g].state = "open"}

\* A hand-over about to commit will close every open grant.
AllClosing(p) ==
    \A r \in Requests : HandoverOf(p, r) => OpenGrants(p) \subseteq req[r].closing

GrantsInOrder(p) ==
    /\ AllClosing(p)
    /\ \A g \in OpenGrants(p) : is_current_owner(grant[g].by, p)

\* A sharing is about to commit while the home is handed over, or after it was.
SharedDuringSale(p) ==
    \E r \in InFlight({"share.commit"}) :
        /\ req[r].property = p
        /\ HandoverRunning(p) \/ ~is_current_owner(req[r].me, p)

\* A new owner starts with a clean slate: only a sharing that commits during or after the
\* sale leaves a grant of anybody but the present owner; and every sale during which
\* none commits leaves none at all, whatever earlier sales left (transfer.service.ts:94-98).
OnlyRacesLeaveGrants ==
    [][\A p \in Properties :
          /\ GrantsInOrder(p) => GrantsInOrder(p)' \/ SharedDuringSale(p)
          /\ AllClosing(p) /\ OpenPeriods(p)' # OpenPeriods(p) => OpenGrants(p)' = {}]_vars

GrantsTo(subject, p) == {g \in OpenGrants(p) : grant[g].subject = subject}

SharingWith(subject, p) ==
    {r \in InFlight({"share.write", "share.commit"}) :
        req[r].property = p /\ req[r].subject = subject}

\* At most one grant, and each sharing that will not be rolled back replaces it.
SharesInOrder(subject, p) ==
    /\ \A g, h \in GrantsTo(subject, p) : g = h
    /\ \A r \in SharingWith(subject, p) :
          \/ GrantsTo(subject, p) \subseteq {req[r].existing}
          \/ /\ req[r].at = "share.write"
             /\ \/ ~is_current_owner(req[r].me, p)
                \/ req[r].existing # 0 /\ grant[req[r].existing].state = "deleted"

ReplacesNone(r, p) == req[r].existing \notin OpenGrants(p)

\* Two sharings with the same person have no grant to replace, or somebody who shares
\* the home is about to become its owner.
SharesRace(subject, p) ==
    \/ \E q, r \in SharingWith(subject, p) : q # r /\ ReplacesNone(q, p) /\ ReplacesNone(r, p)
    \/ \E r \in SharingWith(subject, p), q \in Requests :
          req[r].at = "share.write" /\ HandoverOf(p, q) /\ req[q].me = req[r].me

\* Sharing again replaces the earlier grant: one open grant per home and person, until
\* the first two sharings overlap, or somebody who shares the home is becoming its owner;
\* once there is a grant the lock on it orders them (sharing.service.ts:36-47).
OnlyRacesDoubleGrants ==
    [][\A p \in Properties, s \in Persons :
          SharesInOrder(s, p) => SharesInOrder(s, p)' \/ SharesRace(s, p)]_vars

=============================================================================
