------------------------------ MODULE Transfer ------------------------------
(***************************************************************************)
(* TransferService: a verified owner offers a home to an e-mail address,   *)
(* the recipient accepts, the sender may cancel.  It runs on the admin     *)
(* connection, so no policy applies: the handler's own checks are all the  *)
(* authorization there is.  initiate and cancel issue separate autocommit  *)
(* statements; accept checks first and writes in one transaction.          *)
(*                                                                         *)
(* A definition whose name ends in _ and a capital is a mutant of the one  *)
(* that follows: the same with one mistake, which a property must detect.  *)
(***************************************************************************)
EXTENDS PassportTables

VerifiedOwner(me, p) == \E n \in OpenPeriods(p) : period[n].person = me /\ period[n].verified

\* The checks of initiate: me holds the home, verified, and is not the buyer.
InitiateCheck(r, me, p, mail) ==
    /\ req[r] = Idle
    /\ me \in registered
    /\ Len(offer) + Cardinality(InFlight({"initiate.supersede", "initiate.create"}))
         < MaxOffers
    /\ VerifiedOwner(me, p)
    /\ mail # me
    /\ req' = [req EXCEPT ![r] =
          [at |-> "initiate.supersede", me |-> me, property |-> p, toEmail |-> mail,
           toPersonId |-> IF mail \in registered THEN mail ELSE NoOne]]
    /\ UNCHANGED <<period, grant, offer, registered, mitid, sessions>>

ToSupersede_AnyStatus(o, p) == o.property = p

ToSupersede(o, p) == o.property = p /\ o.status = "pending"

\* updateMany: every pending offer of the home becomes superseded.
InitiateSupersede(r) ==
    /\ req[r].at = "initiate.supersede"
    /\ offer' = [n \in DOMAIN offer |->
                    IF ToSupersede(offer[n], req[r].property)
                    THEN [offer[n] EXCEPT !.status = "superseded"] ELSE offer[n]]
    /\ req' = [req EXCEPT ![r].at = "initiate.create"]
    /\ UNCHANGED <<period, grant, registered, mitid, sessions>>

InitiateCreate(r) ==
    /\ req[r].at = "initiate.create"
    /\ offer' = Append(offer,
          [property |-> req[r].property, from |-> req[r].me,
           toEmail |-> req[r].toEmail, toPersonId |-> req[r].toPersonId,
           status |-> "pending"])
    /\ Finish(r)
    /\ UNCHANGED <<period, grant, registered, mitid, sessions>>

isRecipient_Anyone(me, o) == o.toPersonId # NoOne => o.toPersonId = me

isRecipient(me, o) == IF o.toPersonId # NoOne THEN o.toPersonId = me ELSE o.toEmail = me

\* The checks of accept, before its transaction begins.
AcceptCheck(r, me, n) ==
    /\ req[r] = Idle
    /\ me \in registered
    /\ Len(period) + Cardinality(InFlight({"accept.tx", "accept.commit"})) < MaxPeriods
    /\ offer[n].status = "pending"
    /\ isRecipient(me, offer[n])
    /\ offer[n].from # me
    /\ req' = [req EXCEPT ![r] = [at |-> "accept.tx", me |-> me, offer |-> n]]
    /\ UNCHANGED <<period, grant, offer, registered, mitid, sessions>>

OnlySellerHolds_NoIndex(o) == TRUE

\* The index one_active_owner lets the buyer's period in.
OnlySellerHolds(o) == \A n \in OpenPeriods(o.property) : period[n].person = o.from

\* The statements of the transaction up to the one that selects the grants to
\* close.  They wait for another hand-over of the same home; the index may roll
\* the transaction back.
AcceptTx(r) ==
    /\ req[r].at = "accept.tx"
    /\ LET o == offer[req[r].offer]
       IN  /\ ~HandoverRunning(o.property)
           /\ IF OnlySellerHolds(o)
              THEN req' = [req EXCEPT ![r] =
                      [at |-> "accept.commit", me |-> req[r].me, offer |-> req[r].offer,
                       closing |-> {g \in DOMAIN grant : grant[g].property = o.property
                                                           /\ grant[g].state = "open"}]]
              ELSE Finish(r)
    /\ UNCHANGED <<period, grant, offer, registered, mitid, sessions>>

Sold(row, o) == row.property = o.property /\ row.person = o.from /\ row.open

NewPeriod_Inherits(o, me) ==
    [property |-> o.property, person |-> me, open |-> TRUE, verified |-> TRUE]

NewPeriod(o, me) ==
    [property |-> o.property, person |-> me, open |-> TRUE, verified |-> FALSE]

GrantsAfterSale_Kept(closing) == grant

\* The grants the statement selected are closed, but those deleted since.
GrantsAfterSale(closing) ==
    [g \in DOMAIN grant |-> IF g \in closing /\ grant[g].state = "open"
                            THEN [grant[g] EXCEPT !.state = "closed"] ELSE grant[g]]

OffersAfterSale_Unmarked(n, me) == offer
OffersAfterSale_Misspelt(n, me) == [offer EXCEPT ![n].status = "completed"]

OffersAfterSale(n, me) == [offer EXCEPT ![n].status = "accepted", ![n].toPersonId = me]

\* As if the grants were closed on another connection than the transaction's.
MayCommit_OtherConnection(r) == \A g \in req[r].closing : ~GrantLocked(g)

\* No grant the hand-over closes is locked by a sharing.
MayCommit(r) == \A g \in req[r].closing, q \in Requests : ~DeletedBy(g, q)

\* The transaction commits.  A grant that a sharing deleted meanwhile is gone, and
\* the one it inserted is not among the rows the statement selected.
AcceptCommit(r) ==
    /\ req[r].at = "accept.commit"
    /\ MayCommit(r)
    /\ LET o == offer[req[r].offer]
       IN  period' = Append([n \in DOMAIN period |->
                                IF Sold(period[n], o)
                                THEN [period[n] EXCEPT !.open = FALSE] ELSE period[n]],
                            NewPeriod(o, req[r].me))
    /\ grant' = GrantsAfterSale(req[r].closing)
    /\ offer' = OffersAfterSale(req[r].offer, req[r].me)
    /\ Finish(r)
    /\ UNCHANGED <<registered, mitid, sessions>>

MayCancel_AnyStatus(me, o) == o.from = me

MayCancel(me, o) == o.from = me /\ o.status = "pending"

CancelCheck(r, me, n) ==
    /\ req[r] = Idle
    /\ MayCancel(me, offer[n])
    /\ req' = [req EXCEPT ![r] = [at |-> "cancel.write", offer |-> n]]
    /\ UNCHANGED <<period, grant, offer, registered, mitid, sessions>>

CancelWrite(r) ==
    /\ req[r].at = "cancel.write"
    /\ offer' = [offer EXCEPT ![req[r].offer].status = "cancelled"]
    /\ Finish(r)
    /\ UNCHANGED <<period, grant, registered, mitid, sessions>>

TransferStart(r) ==
    \/ \E me \in Persons, p \in Properties, mail \in Persons : InitiateCheck(r, me, p, mail)
    \/ \E me \in Persons, n \in DOMAIN offer : AcceptCheck(r, me, n) \/ CancelCheck(r, me, n)

TransferContinue(r) ==
    \/ InitiateSupersede(r) \/ InitiateCreate(r)
    \/ AcceptTx(r) \/ AcceptCommit(r)
    \/ CancelWrite(r)

=============================================================================
