------------------------------ MODULE TitleProofs ------------------------------
(***************************************************************************)
(* Passport implements TitleChain: title to a home passes only along       *)
(* offers of verified owners, to the people they name.  The invariants of  *)
(* PassportProofs say that there is one open period to speak of; what the  *)
(* refinement needs besides is that whoever accepts is whom the offer      *)
(* names.                                                                  *)
(***************************************************************************)
EXTENDS PassportProofs

-----------------------------------------------------------------------------
(* Who holds, or has held, a home *)

HasHeld(me, p) == \E n \in DOMAIN period : period[n].property = p /\ period[n].person = me

\* Whoever is about to commit a grant has held the home.
SharersHaveHeld ==
    \A r \in Requests : req[r].at = "share.commit" => HasHeld(req[r].me, req[r].property)

\* An offer is found by the address it names or by the person of that address, and so is
\* who accepts it.
AddressedOffers ==
    /\ \A n \in DOMAIN offer : offer[n].toPersonId \in {NoOne, offer[n].toEmail}
    /\ \A r \in Requests :
          req[r].at \in {"initiate.supersede", "initiate.create"} =>
              req[r].toPersonId \in {NoOne, req[r].toEmail}
    /\ \A r \in Requests :
          req[r].at \in {"accept.tx", "accept.commit"} => req[r].me = offer[req[r].offer].toEmail

TitleInv ==
    /\ OwnershipInv
    /\ VerifiedPeriodsHaveVerifiedPersons
    /\ GrantsComeFromOwners
    /\ SharersHaveHeld
    /\ AddressedOffers

-----------------------------------------------------------------------------
(* Who writes what *)

WritesPeriod(r) == AcceptCommit(r) \/ VerifyWrite(r)
WritesGrant(r)  == AcceptCommit(r) \/ ShareCommit(r) \/ RevokeDelete(r)
WritesOffer(r)  == InitiateSupersede(r) \/ InitiateCreate(r) \/ AcceptCommit(r) \/ CancelWrite(r)

\* Every step is a step of one request, of a person who registers or begins to verify, or
\* of the process that ends; the tables are written by the requests named above.
LEMMA Writers ==
    ASSUME [Next]_vars
    PROVE  /\ UNCHANGED period \/ \E r \in Requests : WritesPeriod(r)
           /\ UNCHANGED grant \/ \E r \in Requests : WritesGrant(r)
           /\ UNCHANGED offer \/ \E r \in Requests : WritesOffer(r)
           /\ UNCHANGED mitid \/ \E r \in Requests : VerifyWrite(r)
<1>1. ASSUME NEW r \in Requests, TransferStart(r) PROVE UNCHANGED <<period, grant, offer, mitid>>
  BY <1>1 DEF TransferStart, InitiateCheck, AcceptCheck, CancelCheck
<1>2. ASSUME NEW r \in Requests, SharingStart(r) PROVE UNCHANGED <<period, grant, offer, mitid>>
  BY <1>2 DEF SharingStart, ShareFind, RevokeRead
<1>3. ASSUME NEW r \in Requests, VerificationStart(r) \/ Fail(r) \/ AcceptTx(r) \/ ShareWrite(r)
                                 \/ VerifyMismatch(r)
      PROVE  UNCHANGED <<period, grant, offer, mitid>>
  BY <1>3 DEF VerificationStart, VerifyCallback, Fail, AcceptTx, ShareWrite, VerifyMismatch
<1>4. ASSUME NEW r \in Requests, InitiateSupersede(r) \/ InitiateCreate(r) \/ CancelWrite(r)
      PROVE  UNCHANGED <<period, grant, mitid>>
  BY <1>4 DEF InitiateSupersede, InitiateCreate, CancelWrite
<1>5. ASSUME NEW r \in Requests, ShareCommit(r) \/ RevokeDelete(r)
      PROVE  UNCHANGED <<period, offer, mitid>>
  BY <1>5 DEF ShareCommit, RevokeDelete
<1>6. ASSUME NEW r \in Requests, VerifyWrite(r) PROVE UNCHANGED <<grant, offer>>
  BY <1>6 DEF VerifyWrite
<1>7. ASSUME NEW r \in Requests, AcceptCommit(r) PROVE UNCHANGED mitid
  BY <1>7 DEF AcceptCommit
<1>8. ASSUME Restart \/ UNCHANGED vars \/ (\E me \in Persons : Register(me))
             \/ (\E me \in Persons, p \in Properties : VerifyInitiate(me, p))
      PROVE  UNCHANGED <<period, grant, offer, mitid>>
  BY <1>8 DEF Restart, vars, Register, VerifyInitiate
<1>9. CASE \E r \in Requests : Start(r) \/ Continue(r) \/ Fail(r)
  <2>1. PICK r \in Requests : Start(r) \/ Continue(r) \/ Fail(r)
    BY <1>9
  <2>2. CASE AcceptCommit(r)
    BY <1>7, <2>2 DEF WritesPeriod, WritesGrant, WritesOffer
  <2>3. CASE VerifyWrite(r)
    BY <1>6, <2>3 DEF WritesPeriod
  <2>4. CASE ShareCommit(r) \/ RevokeDelete(r)
    BY <1>5, <2>4 DEF WritesGrant
  <2>5. CASE InitiateSupersede(r) \/ InitiateCreate(r) \/ CancelWrite(r)
    BY <1>4, <2>5 DEF WritesOffer
  <2> QED BY <1>1, <1>2, <1>3, <2>1, <2>2, <2>3, <2>4, <2>5
          DEF Start, Continue, TransferContinue, SharingContinue, VerificationContinue
<1> QED BY <1>8, <1>9 DEF Next

\* A period's home and person are never rewritten, and no period is deleted.
LEMMA PeriodsLast ==
    ASSUME TypeOK, [Next]_vars
    PROVE  \A n \in DOMAIN period : /\ n \in DOMAIN period'
                                    /\ period'[n].property = period[n].property
                                    /\ period'[n].person = period[n].person
<1>1. CASE UNCHANGED period
  BY <1>1
<1>2. ASSUME NEW r \in Requests, AcceptCommit(r)
      PROVE  \A n \in DOMAIN period : /\ n \in DOMAIN period'
                                      /\ period'[n].property = period[n].property
                                      /\ period'[n].person = period[n].person
  BY <1>2, CommittedPeriods
<1>3. ASSUME NEW r \in Requests, VerifyWrite(r)
      PROVE  \A n \in DOMAIN period : /\ n \in DOMAIN period'
                                      /\ period'[n].property = period[n].property
                                      /\ period'[n].person = period[n].person
  <2>1. \A n \in DOMAIN period : period[n] \in Period
    BY RowType DEF TypeOK
  <2> QED BY <1>3, <2>1 DEF VerifyWrite, Period
<1> QED BY <1>1, <1>2, <1>3, Writers DEF WritesPeriod

\* A grant is as it was, as far as home and grantor go, or has just been committed.
LEMMA GrantOrigins ==
    ASSUME TypeOK, [Next]_vars, NEW g \in DOMAIN grant'
    PROVE  \/ /\ g \in DOMAIN grant
              /\ grant'[g].property = grant[g].property /\ grant'[g].by = grant[g].by
           \/ \E r \in Requests : /\ req[r].at = "share.commit"
                                  /\ grant'[g].property = req[r].property
                                  /\ grant'[g].by = req[r].me
<1>1. \A h \in DOMAIN grant : grant[h] \in Grant
  BY RowType DEF TypeOK
<1>2. CASE UNCHANGED grant
  BY <1>2
<1>3. ASSUME NEW r \in Requests, AcceptCommit(r)
      PROVE  /\ g \in DOMAIN grant
             /\ grant'[g].property = grant[g].property /\ grant'[g].by = grant[g].by
  BY <1>1, <1>3 DEF AcceptCommit, GrantsAfterSale, Grant
<1>4. ASSUME NEW r \in Requests, RevokeDelete(r)
      PROVE  /\ g \in DOMAIN grant
             /\ grant'[g].property = grant[g].property /\ grant'[g].by = grant[g].by
  BY <1>1, <1>4 DEF RevokeDelete, Grant
<1>5. ASSUME NEW r \in Requests, ShareCommit(r)
      PROVE  \/ /\ g \in DOMAIN grant
                /\ grant'[g].property = grant[g].property /\ grant'[g].by = grant[g].by
             \/ /\ req[r].at = "share.commit"
                /\ grant'[g].property = req[r].property /\ grant'[g].by = req[r].me
  <2> DEFINE kept == GrantsReplacing(req[r].existing)
             new == [property |-> req[r].property, subject |-> req[r].subject,
                     permission |-> req[r].permission, by |-> req[r].me, state |-> "open"]
  <2>1. req[r].at = "share.commit" /\ req[r] \in ShareReq /\ grant' = Append(kept, new)
    BY <1>5, RequestKinds DEF ShareCommit, TypeOK
  <2>2. new \in Grant /\ new.property = req[r].property /\ new.by = req[r].me
    BY <2>1 DEF ShareReq, Grant
  <2>3. \A h \in DOMAIN grant : /\ kept[h] \in Grant /\ kept[h].property = grant[h].property
                                /\ kept[h].by = grant[h].by
    BY <1>1 DEF GrantsReplacing, Grant
  <2>4. kept \in Seq(Grant) /\ DOMAIN kept = DOMAIN grant
    <3>1. grant \in Seq(Grant) /\ kept = [h \in DOMAIN grant |-> kept[h]]
      BY DEF GrantsReplacing, TypeOK
    <3> HIDE DEF kept
    <3> QED BY <2>3, <3>1, RewrittenTable
  <2> HIDE DEF kept, new
  <2>5. /\ DOMAIN grant' = DOMAIN kept \cup {Len(kept) + 1} /\ grant'[Len(kept) + 1] = new
        /\ \A h \in DOMAIN kept : grant'[h] = kept[h]
    BY <2>1, <2>2, <2>4, InsertedRow
  <2>6. CASE g \in DOMAIN grant
    BY <2>3, <2>4, <2>5, <2>6
  <2>7. CASE g = Len(kept) + 1
    BY <2>1, <2>2, <2>5, <2>7
  <2> QED BY <2>4, <2>5, <2>6, <2>7
<1> QED BY <1>2, <1>3, <1>4, <1>5, Writers DEF WritesGrant

-----------------------------------------------------------------------------
(* Steps of one request *)

\* A step of one request leaves the others alone.
LEMMA OtherRequests ==
    ASSUME TypeOK, NEW r \in Requests, Start(r) \/ Continue(r) \/ Fail(r)
    PROVE  \A q \in Requests : q # r => req'[q] = req[q]
<1>1. req \in [Requests -> Request]
  BY DEF TypeOK
<1>2. CASE TransferStart(r)
  BY <1>1, <1>2 DEF TransferStart, InitiateCheck, AcceptCheck, CancelCheck
<1>3. CASE SharingStart(r)
  BY <1>1, <1>3 DEF SharingStart, ShareFind, RevokeRead
<1>4. CASE VerificationStart(r)
  BY <1>1, <1>4 DEF VerificationStart, VerifyCallback
<1>5. CASE TransferContinue(r)
  BY <1>1, <1>5 DEF TransferContinue, InitiateSupersede, InitiateCreate, AcceptTx, AcceptCommit,
                    CancelWrite, Finish
<1>6. CASE SharingContinue(r)
  BY <1>1, <1>6 DEF SharingContinue, ShareWrite, ShareCommit, RevokeDelete, Finish
<1>7. CASE VerificationContinue(r) \/ Fail(r)
  BY <1>1, <1>7 DEF VerificationContinue, VerifyMismatch, VerifyWrite, Fail, Finish
<1> QED BY <1>2, <1>3, <1>4, <1>5, <1>6, <1>7 DEF Start, Continue

\* Which action brings a request to a statement.
LEMMA Arrivals ==
    ASSUME TypeOK, NEW r \in Requests, Start(r) \/ Continue(r) \/ Fail(r)
    PROVE  /\ req'[r].at = "initiate.supersede" =>
                  \E me \in Persons, p \in Properties, mail \in Persons : InitiateCheck(r, me, p, mail)
           /\ req'[r].at = "initiate.create" => InitiateSupersede(r)
           /\ req'[r].at = "accept.tx" =>
                  \E me \in Persons, n \in DOMAIN offer : AcceptCheck(r, me, n)
           /\ req'[r].at = "accept.commit" => AcceptTx(r)
           /\ req'[r].at = "cancel.write" =>
                  \E me \in Persons, n \in DOMAIN offer : CancelCheck(r, me, n)
           /\ req'[r].at = "share.write" =>
                  \E me, subject \in Persons, p \in Properties, role \in Roles :
                      ShareFind(r, me, p, subject, role)
           /\ req'[r].at = "share.commit" => ShareWrite(r)
<1>1. req \in [Requests -> Request]
  BY DEF TypeOK
<1>2. CASE \/ InitiateCreate(r) \/ AcceptCommit(r) \/ CancelWrite(r) \/ ShareCommit(r)
          \/ RevokeDelete(r) \/ VerificationContinue(r) \/ Fail(r)
  BY <1>1, <1>2 DEF InitiateCreate, AcceptCommit, CancelWrite, ShareCommit, RevokeDelete, Fail,
                    VerificationContinue, VerifyMismatch, VerifyWrite, Finish, Idle
<1>3. ASSUME NEW me \in Persons, NEW p \in Properties, NEW mail \in Persons,
             InitiateCheck(r, me, p, mail)
      PROVE  req'[r].at = "initiate.supersede"
  BY <1>1, <1>3 DEF InitiateCheck
<1>4. ASSUME NEW me \in Persons, NEW n \in DOMAIN offer, AcceptCheck(r, me, n)
      PROVE  req'[r].at = "accept.tx"
  BY <1>1, <1>4 DEF AcceptCheck
<1>5. ASSUME NEW me \in Persons, NEW n \in DOMAIN offer, CancelCheck(r, me, n)
      PROVE  req'[r].at = "cancel.write"
  BY <1>1, <1>5 DEF CancelCheck
<1>6. CASE SharingStart(r)
  <2>1. ASSUME NEW me \in Persons, NEW subject \in Persons, NEW p \in Properties,
               NEW role \in Roles, ShareFind(r, me, p, subject, role)
        PROVE  req'[r].at = "share.write"
    BY <1>1, <2>1 DEF ShareFind
  <2>2. ASSUME NEW me \in Persons, NEW g \in DOMAIN grant, RevokeRead(r, me, g)
        PROVE  req'[r].at = "revoke.delete"
    BY <1>1, <2>2 DEF RevokeRead
  <2> QED BY <1>6, <2>1, <2>2 DEF SharingStart
<1>7. CASE VerificationStart(r)
  BY <1>1, <1>7 DEF VerificationStart, VerifyCallback, Idle
<1>8. CASE InitiateSupersede(r)
  <2>1. req[r] \in InitiateReq
    BY <1>1, <1>8, RequestKinds DEF InitiateSupersede
  <2> QED BY <1>1, <1>8, <2>1 DEF InitiateSupersede, InitiateReq
<1>9. CASE AcceptTx(r)
  BY <1>1, <1>9 DEF AcceptTx, Finish, Idle
<1>10. CASE ShareWrite(r)
  <2>1. req[r] \in ShareReq
    BY <1>1, <1>10, RequestKinds DEF ShareWrite
  <2> QED BY <1>1, <1>10, <2>1 DEF ShareWrite, ShareReq, Finish, Idle
<1>11. CASE TransferStart(r)
  BY <1>3, <1>4, <1>5, <1>11 DEF TransferStart
<1> QED BY <1>2, <1>6, <1>7, <1>8, <1>9, <1>10, <1>11
        DEF Start, Continue, TransferContinue, SharingContinue

\* Every other step leaves each request alone or ends it.
LEMMA OtherSteps ==
    ASSUME [Next]_vars, ~\E r \in Requests : Start(r) \/ Continue(r) \/ Fail(r)
    PROVE  \A q \in Requests : req'[q] \in {req[q], Idle}
  BY DEF Next, Restart, Register, VerifyInitiate, vars

-----------------------------------------------------------------------------
(* Each part of the invariant is kept *)

\* A new owner does not inherit the seller's verification, and VerifyWrite marks person and
\* period together.
LEMMA VerifiedStep ==
    ASSUME TitleInv, [Next]_vars
    PROVE  VerifiedPeriodsHaveVerifiedPersons'
<1>0. TypeOK /\ VerifiedPeriodsHaveVerifiedPersons
  BY DEF TitleInv, OwnershipInv
<1>1. mitid \subseteq mitid'
  BY Writers DEF VerifyWrite
<1>2. CASE UNCHANGED period
  BY <1>0, <1>1, <1>2 DEF VerifiedPeriodsHaveVerifiedPersons
<1>3. ASSUME NEW r \in Requests, AcceptCommit(r)
      PROVE  VerifiedPeriodsHaveVerifiedPersons'
  <2>1. \A n \in DOMAIN period' : period'[n].verified =>
            n \in DOMAIN period /\ period[n].verified /\ period'[n].person = period[n].person
    <3> DEFINE N == Len(period) + 1
    <3>1. DOMAIN period' = DOMAIN period \cup {N}
      BY <1>0, <1>3, CommittedPeriods
    <3>2. period'[N] = [property |-> offer[req[r].offer].property, person |-> req[r].me,
                        open |-> TRUE, verified |-> FALSE]
      BY <1>0, <1>3, CommittedPeriods
    <3>3. \A n \in DOMAIN period : /\ period'[n].verified = period[n].verified
                                   /\ period'[n].person = period[n].person
      BY <1>0, <1>3, CommittedPeriods
    <3> HIDE DEF N
    <3> QED BY <3>1, <3>2, <3>3
  <2> QED BY <1>0, <1>1, <2>1 DEF VerifiedPeriodsHaveVerifiedPersons
<1>4. ASSUME NEW r \in Requests, VerifyWrite(r)
      PROVE  VerifiedPeriodsHaveVerifiedPersons'
  <2>1. \A n \in DOMAIN period : period[n] \in Period
    BY <1>0, RowType DEF TypeOK
  <2>2. DOMAIN period' = DOMAIN period /\ mitid' = mitid \cup {req[r].me}
    BY <1>4 DEF VerifyWrite
  <2>3. \A n \in DOMAIN period : period'[n].verified =>
            /\ period'[n].person = period[n].person
            /\ period[n].verified \/ period[n].person = req[r].me
    BY <1>4, <2>1 DEF VerifyWrite, Period
  <2> QED BY <1>0, <2>2, <2>3 DEF VerifiedPeriodsHaveVerifiedPersons
<1> QED BY <1>2, <1>3, <1>4, Writers DEF WritesPeriod

LEMMA GrantsStep ==
    ASSUME TitleInv, [Next]_vars
    PROVE  GrantsComeFromOwners'
<1>0. TypeOK /\ GrantsComeFromOwners /\ SharersHaveHeld
  BY DEF TitleInv, OwnershipInv
<1> SUFFICES ASSUME NEW g \in DOMAIN grant'
             PROVE  \E n \in DOMAIN period' : /\ period'[n].property = grant'[g].property
                                             /\ period'[n].person = grant'[g].by
  BY DEF GrantsComeFromOwners
<1>1. HasHeld(grant'[g].by, grant'[g].property)
  <2>1. \A h \in DOMAIN grant : HasHeld(grant[h].by, grant[h].property)
    BY <1>0 DEF GrantsComeFromOwners, HasHeld
  <2>2. \A r \in Requests : req[r].at = "share.commit" => HasHeld(req[r].me, req[r].property)
    BY <1>0 DEF SharersHaveHeld
  <2> QED BY <1>0, <2>1, <2>2, GrantOrigins
<1> QED BY <1>0, <1>1, PeriodsLast DEF HasHeld

LEMMA SharersStep ==
    ASSUME TitleInv, [Next]_vars
    PROVE  SharersHaveHeld'
<1>0. TypeOK /\ SharersHaveHeld
  BY DEF TitleInv, OwnershipInv
<1> SUFFICES ASSUME NEW q \in Requests, req'[q].at = "share.commit"
             PROVE  HasHeld(req'[q].me, req'[q].property)
  BY <1>0, PeriodsLast DEF SharersHaveHeld, HasHeld
<1>1. CASE req'[q] = req[q]
  BY <1>0, <1>1 DEF SharersHaveHeld
<1>2. CASE req'[q] # req[q]
  <2>1. ShareWrite(q)
    BY <1>0, <1>2, OtherSteps, OtherRequests, Arrivals DEF Idle
  <2>2. req[q] \in ShareReq /\ req \in [Requests -> Request]
    BY <1>0, <2>1, RequestKinds DEF ShareWrite, TypeOK
  <2>3. /\ req'[q].me = req[q].me /\ req'[q].property = req[q].property
        /\ is_current_owner(req[q].me, req[q].property)
    BY <2>1, <2>2 DEF ShareWrite, grant_insert, ShareReq, Finish, Idle
  <2> QED BY <2>3 DEF is_current_owner, OpenPeriods, HasHeld
<1> QED BY <1>1, <1>2

\* The address of an offer never changes, and who accepts it is whom it addresses.
LEMMA AddressedStep ==
    ASSUME TitleInv, [Next]_vars
    PROVE  AddressedOffers'
<1>0. TypeOK /\ AddressedOffers
  BY DEF TitleInv, OwnershipInv
<1>1. \A n \in DOMAIN offer : offer[n] \in Offer
  BY <1>0, RowType DEF TypeOK
<1>2. /\ \A n \in DOMAIN offer : n \in DOMAIN offer' /\ offer'[n].toEmail = offer[n].toEmail
      /\ \A n \in DOMAIN offer' : offer'[n].toPersonId \in {NoOne, offer'[n].toEmail}
  <2>1. CASE UNCHANGED offer
    BY <1>0, <2>1 DEF AddressedOffers
  <2>2. ASSUME NEW r \in Requests, InitiateSupersede(r) \/ CancelWrite(r)
        PROVE  /\ DOMAIN offer' = DOMAIN offer
               /\ \A n \in DOMAIN offer : /\ offer'[n].toEmail = offer[n].toEmail
                                          /\ offer'[n].toPersonId = offer[n].toPersonId
    BY <1>1, <2>2 DEF InitiateSupersede, CancelWrite, Offer
  <2>3. ASSUME NEW r \in Requests, InitiateCreate(r)
        PROVE  /\ \A n \in DOMAIN offer : n \in DOMAIN offer' /\ offer'[n].toEmail = offer[n].toEmail
               /\ \A n \in DOMAIN offer' : offer'[n].toPersonId \in {NoOne, offer'[n].toEmail}
    <3> DEFINE e == [property |-> req[r].property, from |-> req[r].me,
                     toEmail |-> req[r].toEmail, toPersonId |-> req[r].toPersonId,
                     status |-> "pending"]
    <3>1. req[r] \in InitiateReq
      BY <1>0, <2>3, RequestKinds DEF InitiateCreate, TypeOK
    <3>2. e \in Offer /\ offer' = Append(offer, e) /\ e.toPersonId \in {NoOne, e.toEmail}
      BY <1>0, <2>3, <3>1 DEF InitiateCreate, InitiateReq, Offer, AddressedOffers
    <3> HIDE DEF e
    <3>3. /\ DOMAIN offer' = DOMAIN offer \cup {Len(offer) + 1} /\ offer'[Len(offer) + 1] = e
          /\ \A n \in DOMAIN offer : offer'[n] = offer[n]
      BY <1>0, <3>2, InsertedRow DEF TypeOK
    <3> QED BY <1>0, <3>2, <3>3 DEF AddressedOffers
  <2>4. ASSUME NEW r \in Requests, AcceptCommit(r)
        PROVE  /\ DOMAIN offer' = DOMAIN offer
               /\ \A n \in DOMAIN offer :
                     /\ offer'[n].toEmail = offer[n].toEmail
                     /\ offer'[n].toPersonId \in {offer[n].toPersonId, offer[n].toEmail}
    <3>1. req[r].me = offer[req[r].offer].toEmail
      BY <1>0, <2>4 DEF AcceptCommit, AddressedOffers
    <3> QED BY <1>1, <2>4, <3>1 DEF AcceptCommit, OffersAfterSale, Offer
  <2> QED BY <1>0, <2>1, <2>2, <2>3, <2>4, Writers DEF WritesOffer, AddressedOffers
<1>3. ASSUME NEW q \in Requests, req'[q].at \in {"initiate.supersede", "initiate.create"}
      PROVE  req'[q].toPersonId \in {NoOne, req'[q].toEmail}
  <2>1. CASE req'[q] = req[q]
    BY <1>0, <1>3, <2>1 DEF AddressedOffers
  <2>2. ASSUME NEW me \in Persons, NEW p \in Properties, NEW mail \in Persons,
               InitiateCheck(q, me, p, mail)
        PROVE  req'[q].toPersonId \in {NoOne, req'[q].toEmail}
    BY <1>0, <2>2 DEF InitiateCheck, TypeOK
  <2>3. CASE InitiateSupersede(q)
    <3>1. req[q] \in InitiateReq /\ req[q].toPersonId \in {NoOne, req[q].toEmail}
      BY <1>0, <2>3, RequestKinds DEF InitiateSupersede, TypeOK, AddressedOffers
    <3> QED BY <1>0, <2>3, <3>1 DEF InitiateSupersede, InitiateReq, TypeOK
  <2> QED BY <1>0, <1>3, <2>1, <2>2, <2>3, OtherSteps, OtherRequests, Arrivals DEF Idle
<1>4. ASSUME NEW q \in Requests, req'[q].at \in {"accept.tx", "accept.commit"}
      PROVE  req'[q].me = offer'[req'[q].offer].toEmail
  <2>1. CASE req'[q] = req[q]
    <3>1. req[q].offer \in DOMAIN offer
      BY <1>0, <1>4, <2>1 DEF TypeOK, ReqRefersTo
    <3> QED BY <1>0, <1>2, <1>4, <2>1, <3>1 DEF AddressedOffers
  <2>2. ASSUME NEW me \in Persons, NEW n \in DOMAIN offer, AcceptCheck(q, me, n)
        PROVE  req'[q].me = offer'[req'[q].offer].toEmail
    <3>1. offer[n].toPersonId \in {NoOne, offer[n].toEmail}
      BY <1>0 DEF AddressedOffers
    <3>2. me = offer[n].toEmail /\ req'[q].me = me /\ req'[q].offer = n
      BY <1>0, <2>2, <3>1 DEF AcceptCheck, isRecipient, TypeOK
    <3> QED BY <1>2, <3>2
  <2>3. CASE AcceptTx(q)
    <3>1. /\ req[q].me = offer[req[q].offer].toEmail /\ req[q].offer \in DOMAIN offer
          /\ UNCHANGED offer
      BY <1>0, <2>3 DEF AcceptTx, TypeOK, ReqRefersTo, AddressedOffers
    <3>2. req'[q].me = req[q].me /\ req'[q].offer = req[q].offer
      BY <1>0, <1>4, <2>3 DEF AcceptTx, Finish, Idle, TypeOK
    <3> QED BY <3>1, <3>2
  <2> QED BY <1>0, <1>4, <2>1, <2>2, <2>3, OtherSteps, OtherRequests, Arrivals DEF Idle
<1> QED BY <1>2, <1>3, <1>4 DEF AddressedOffers

LEMMA TitleInvInit == Init => TitleInv
<1> SUFFICES ASSUME Init PROVE TitleInv
  OBVIOUS
<1>1. OwnershipInv
  BY OwnershipInit
<1>2. req = [r \in Requests |-> Idle] /\ Idle.at = "idle" /\ DOMAIN grant = {} /\ DOMAIN offer = {}
  BY DEF Init, Idle
<1>3. VerifiedPeriodsHaveVerifiedPersons
  BY DEF Init, VerifiedPeriodsHaveVerifiedPersons
<1>4. GrantsComeFromOwners /\ SharersHaveHeld /\ AddressedOffers
  BY <1>2 DEF GrantsComeFromOwners, SharersHaveHeld, AddressedOffers
<1> QED BY <1>1, <1>3, <1>4 DEF TitleInv

LEMMA TitleInvStep == TitleInv /\ [Next]_vars => TitleInv'
  BY NextOwnership, VerifiedStep, GrantsStep, SharersStep, AddressedStep DEF TitleInv

LEMMA TitleInductive == Spec => []TitleInv
  BY TitleInvInit, TitleInvStep, PTL DEF Spec

\* A period is verified only for a person who has passed MitID: a sale never hands the
\* seller's verification on (transfer.service.ts:90-93).
THEOREM VerificationIsPersonal == Spec => []VerifiedPeriodsHaveVerifiedPersons
<1>1. TitleInv => VerifiedPeriodsHaveVerifiedPersons
  BY DEF TitleInv
<1> QED BY <1>1, TitleInductive, PTL

\* Nobody who has never held a home has shared it, however sharings and sales overlap: the
\* policy grant_insert asks who owns the home when the grant is written.
THEOREM GrantorsHaveOwned == Spec => []GrantsComeFromOwners
<1>1. TitleInv => GrantsComeFromOwners
  BY DEF TitleInv
<1> QED BY <1>1, TitleInductive, PTL

-----------------------------------------------------------------------------
(* The abstract state *)

Holder == [p \in Properties |-> OpenPeriod(p).person]
Proved == [p \in Properties |-> OpenPeriod(p).verified]

Promise(p, from, to) == [property |-> p, from |-> from, to |-> to]
RecordedPromise(n) == Promise(offer[n].property, offer[n].from, offer[n].toEmail)
CheckedPromise(r)  == Promise(req[r].property, req[r].me, req[r].toEmail)

Initiating == InFlight({"initiate.supersede", "initiate.create"})

Promised == {RecordedPromise(n) : n \in DOMAIN offer} \cup {CheckedPromise(r) : r \in Initiating}

\* OpenPeriod is the one open period.
LEMMA TheOpenPeriod ==
    ASSUME NEW p, NEW n \in DOMAIN period, OpenPeriods(p) = {n}
    PROVE  OpenPeriod(p) = period[n]
<1>1. \A m \in DOMAIN period : OpenPeriods(p) = {m} <=> m = n
  OBVIOUS
<1>2. (CHOOSE m \in DOMAIN period : OpenPeriods(p) = {m}) = n
  BY <1>1
<1> QED BY <1>2 DEF OpenPeriod

\* After a step, too.
LEMMA TheOpenPeriodNext ==
    ASSUME NEW p, NEW n \in DOMAIN period', OpenPeriods(p)' = {n}
    PROVE  OpenPeriod(p)' = period'[n]
<1>1. \A m \in DOMAIN period' : OpenPeriods(p)' = {m} <=> m = n
  OBVIOUS
<1>2. (CHOOSE m \in DOMAIN period' : OpenPeriods(p)' = {m}) = n
  BY <1>1
<1> QED BY <1>2 DEF OpenPeriod

\* The steps of TitleChain in terms of the abstract state.
LEMMA StepWithdraw ==
    ASSUME Holder' = Holder, Proved' = Proved, Promised' \subseteq Promised
    PROVE  Title!TitleNext
<1>1. Title!Withdraw
  BY DEF Title!Withdraw, Holder, Proved, Promised, Promise, RecordedPromise, CheckedPromise, Initiating
<1> QED BY <1>1 DEF Title!TitleNext

LEMMA StepProve ==
    ASSUME NEW p \in Properties, Holder' = Holder, Promised' = Promised,
           Proved' = [Proved EXCEPT ![p] = TRUE]
    PROVE  Title!TitleNext
<1>1. Title!Prove(p)
  BY DEF Title!Prove, Holder, Proved, Promised, Promise, RecordedPromise, CheckedPromise, Initiating
<1> QED BY <1>1 DEF Title!TitleNext

LEMMA StepMakeOffer ==
    ASSUME NEW p \in Properties, NEW to \in Persons, Proved[p], to # Holder[p],
           Holder' = Holder, Proved' = Proved,
           Promised' = Promised \cup {Promise(p, Holder[p], to)}
    PROVE  Title!TitleNext
<1>1. Title!MakeOffer(p, to)
  BY DEF Title!MakeOffer, Holder, Proved, Promised, Promise, RecordedPromise, CheckedPromise, Initiating
<1> QED BY <1>1 DEF Title!TitleNext

LEMMA StepHandOver ==
    ASSUME NEW o \in Promised, Holder[o.property] = o.from,
           Holder' = [Holder EXCEPT ![o.property] = o.to],
           Proved' = [Proved EXCEPT ![o.property] = FALSE], Promised' = Promised
    PROVE  Title!TitleNext
<1>1. Title!HandOver(o)
  BY DEF Title!HandOver, Holder, Proved, Promised, Promise, RecordedPromise, CheckedPromise, Initiating
<1> QED BY <1>1 DEF Title!TitleNext, Promised, Promise, RecordedPromise, CheckedPromise, Initiating

-----------------------------------------------------------------------------
(* How steps change the abstract state *)

LEMMA HoldersSame ==
    ASSUME UNCHANGED period
    PROVE  Holder' = Holder /\ Proved' = Proved
<1>1. \A p \in Properties : OpenPeriod(p)' = OpenPeriod(p)
  BY DEF OpenPeriod, OpenPeriods
<1> QED BY <1>1 DEF Holder, Proved

\* The row of a home.
LEMMA OneRow ==
    ASSUME OneOwner, NEW p \in Properties
    PROVE  \E n \in DOMAIN period : OpenPeriods(p) = {n} /\ OpenPeriod(p) = period[n]
<1>1. PICK n \in DOMAIN period : OpenPeriods(p) = {n}
  BY DEF OneOwner
<1> QED BY <1>1, TheOpenPeriod

\* VerifyWrite proves one home, if the person still holds it, and otherwise none.
LEMMA VerifyWriteProves ==
    ASSUME TitleInv, NEW r \in Requests, VerifyWrite(r)
    PROVE  /\ Holder' = Holder
           /\ Proved' \in {Proved, [Proved EXCEPT ![req[r].property] = TRUE]}
           /\ req[r].property \in Properties
<1>0. TypeOK /\ OneOwner
  BY DEF TitleInv, OwnershipInv
<1> DEFINE h == req[r].property
<1>1. h \in Properties /\ h = req[r].property
  BY <1>0, RequestKinds DEF VerifyWrite, VerifyReq, TypeOK
<1>2. /\ DOMAIN period' = DOMAIN period
      /\ \A n \in DOMAIN period :
            /\ period'[n].property = period[n].property /\ period'[n].person = period[n].person
            /\ period'[n].open = period[n].open
            /\ period'[n].verified =
                  IF period[n].property = h /\ period[n].person = req[r].me /\ period[n].open
                  THEN TRUE ELSE period[n].verified
  <2>1. \A n \in DOMAIN period : period[n] \in Period
    BY <1>0, RowType DEF TypeOK
  <2> QED BY <2>1 DEF VerifyWrite, Period
<1> HIDE DEF h
<1>3. \A p : OpenPeriods(p)' = OpenPeriods(p)
  BY <1>2 DEF OpenPeriods
<1>4. ASSUME NEW p \in Properties
      PROVE  /\ OpenPeriod(p)'.person = OpenPeriod(p).person
             /\ OpenPeriod(p)'.verified =
                   IF p = h /\ OpenPeriod(p).person = req[r].me THEN TRUE ELSE OpenPeriod(p).verified
  <2>1. PICK n \in DOMAIN period : OpenPeriods(p) = {n} /\ OpenPeriod(p) = period[n]
    BY <1>0, OneRow
  <2>2. n \in DOMAIN period' /\ OpenPeriods(p)' = {n}
    BY <1>2, <1>3, <2>1
  <2>3. OpenPeriod(p)' = period'[n]
    BY <2>2, TheOpenPeriodNext
  <2>4. period[n].property = p /\ period[n].open
    BY <2>1 DEF OpenPeriods
  <2> QED BY <1>2, <2>1, <2>3, <2>4
<1>5. Holder' = Holder
  BY <1>4 DEF Holder
<1>6. CASE OpenPeriod(h).person = req[r].me
  <2>1. Proved' = [Proved EXCEPT ![h] = TRUE]
    BY <1>1, <1>4, <1>6 DEF Proved
  <2> QED BY <1>1, <1>5, <2>1
<1>7. CASE OpenPeriod(h).person # req[r].me
  <2>1. Proved' = Proved
    BY <1>4, <1>7 DEF Proved
  <2> QED BY <1>1, <1>5, <2>1
<1> QED BY <1>6, <1>7

\* AcceptCommit moves the home of the offer from its seller to the person it names.
LEMMA AcceptCommitMoves ==
    ASSUME TitleInv, NEW r \in Requests, AcceptCommit(r)
    PROVE  LET o == RecordedPromise(req[r].offer)
           IN  /\ o \in Promised /\ Holder[o.property] = o.from
               /\ Holder' = [Holder EXCEPT ![o.property] = o.to]
               /\ Proved' = [Proved EXCEPT ![o.property] = FALSE]
<1>0. TypeOK /\ OneOwner /\ HandoversAreExclusive /\ AddressedOffers
  BY DEF TitleInv, OwnershipInv
<1> DEFINE n == req[r].offer
           N == Len(period) + 1
<1>1. PICK h \in Properties :
          h = offer[n].property /\ n \in DOMAIN offer /\ req[r].me = offer[n].toEmail
  <2>1. n \in DOMAIN offer
    BY <1>0 DEF AcceptCommit, TypeOK, ReqRefersTo
  <2>2. offer[n] \in Offer
    BY <1>0, <2>1, RowType DEF TypeOK
  <2> QED BY <1>0, <2>1, <2>2 DEF Offer, AcceptCommit, AddressedOffers
<1>2. DOMAIN period' = DOMAIN period \cup {N} /\ N \notin DOMAIN period
  BY <1>0, CommittedPeriods
<1>3. period'[N] = [property |-> h, person |-> req[r].me, open |-> TRUE, verified |-> FALSE]
  BY <1>0, <1>1, CommittedPeriods
<1>4. \A m \in DOMAIN period :
         /\ period'[m].property = period[m].property /\ period'[m].person = period[m].person
         /\ period'[m].verified = period[m].verified
         /\ period'[m].open <=>
               period[m].open /\ ~(period[m].property = h /\ period[m].person = offer[n].from)
  <2> HIDE DEF N
  <2> QED BY <1>0, <1>1, CommittedPeriods
<1>5. \A m \in OpenPeriods(h) : period[m].person = offer[n].from
  BY <1>0, <1>1 DEF AcceptCommit, HandoversAreExclusive
<1> HIDE DEF n, N
<1>6. OpenPeriod(h).person = offer[n].from
  BY <1>0, <1>1, <1>5, OneRow
<1>7. OpenPeriod(h)'.person = offer[n].toEmail /\ OpenPeriod(h)'.verified = FALSE
  <2>1. \A m \in DOMAIN period : ~(period'[m].property = h /\ period'[m].open)
    BY <1>4, <1>5 DEF OpenPeriods
  <2>2. period'[N].property = h /\ period'[N].open
    BY <1>3
  <2>3. OpenPeriods(h)' = {N} /\ N \in DOMAIN period'
    BY <1>2, <2>1, <2>2 DEF OpenPeriods
  <2>4. OpenPeriod(h)' = period'[N]
    BY <2>3, TheOpenPeriodNext
  <2> QED BY <1>1, <1>3, <2>4
<1>8. ASSUME NEW p \in Properties, p # h
      PROVE  /\ OpenPeriod(p)'.person = OpenPeriod(p).person
             /\ OpenPeriod(p)'.verified = OpenPeriod(p).verified
  <2>1. PICK m \in DOMAIN period : OpenPeriods(p) = {m} /\ OpenPeriod(p) = period[m]
    BY <1>0, OneRow
  <2>2. OpenPeriods(p)' = OpenPeriods(p)
    BY <1>2, <1>3, <1>4, <1>8 DEF OpenPeriods
  <2>3. OpenPeriod(p)' = period'[m]
    BY <1>2, <2>1, <2>2, TheOpenPeriodNext
  <2> QED BY <1>4, <2>1, <2>3
<1>9. Holder[h] = offer[n].from /\ Holder' = [Holder EXCEPT ![h] = offer[n].toEmail]
  <2>1. \A p \in Properties :
            OpenPeriod(p)'.person = IF p = h THEN offer[n].toEmail ELSE OpenPeriod(p).person
    BY <1>7, <1>8
  <2> QED BY <1>1, <1>6, <2>1 DEF Holder
<1>10. Proved' = [Proved EXCEPT ![h] = FALSE]
  <2>1. \A p \in Properties :
            OpenPeriod(p)'.verified = IF p = h THEN FALSE ELSE OpenPeriod(p).verified
    BY <1>7, <1>8
  <2> QED BY <1>1, <2>1 DEF Proved
<1>11. RecordedPromise(n) \in Promised
  BY <1>1 DEF Promised
<1>12. LET o == RecordedPromise(n) IN o.property = h /\ o.from = offer[n].from /\ o.to = offer[n].toEmail
  BY <1>1 DEF RecordedPromise, Promise
<1> QED BY <1>9, <1>10, <1>11, <1>12 DEF n

\* Recorded promises stay what they are, and a new one was checked before.
LEMMA RecordedStay ==
    ASSUME TitleInv, [Next]_vars, NEW n \in DOMAIN offer'
    PROVE  RecordedPromise(n)' \in Promised
<1>0. TypeOK
  BY DEF TitleInv, OwnershipInv
<1>1. \A m \in DOMAIN offer : offer[m] \in Offer /\ RecordedPromise(m) \in Promised
  BY <1>0, RowType DEF TypeOK, Promised
<1>2. ASSUME n \in DOMAIN offer, offer'[n].property = offer[n].property,
             offer'[n].from = offer[n].from, offer'[n].toEmail = offer[n].toEmail
      PROVE  RecordedPromise(n)' \in Promised
  <2>1. RecordedPromise(n)' = RecordedPromise(n)
    BY <1>2 DEF RecordedPromise, Promise
  <2> QED BY <1>1, <1>2, <2>1
<1>3. CASE UNCHANGED offer
  BY <1>2, <1>3
<1>4. ASSUME NEW r \in Requests, InitiateSupersede(r) \/ AcceptCommit(r) \/ CancelWrite(r)
      PROVE  RecordedPromise(n)' \in Promised
  <2>1. /\ n \in DOMAIN offer /\ offer'[n].property = offer[n].property
        /\ offer'[n].from = offer[n].from /\ offer'[n].toEmail = offer[n].toEmail
    BY <1>1, <1>4 DEF InitiateSupersede, AcceptCommit, OffersAfterSale, CancelWrite, Offer
  <2> QED BY <1>2, <2>1
<1>5. ASSUME NEW r \in Requests, InitiateCreate(r)
      PROVE  RecordedPromise(n)' \in Promised
  <2> DEFINE e == [property |-> req[r].property, from |-> req[r].me,
                   toEmail |-> req[r].toEmail, toPersonId |-> req[r].toPersonId,
                   status |-> "pending"]
  <2>1. req[r] \in InitiateReq /\ offer' = Append(offer, e)
    BY <1>0, <1>5, RequestKinds DEF InitiateCreate, TypeOK
  <2>2. /\ e \in Offer /\ e.property = req[r].property /\ e.from = req[r].me
        /\ e.toEmail = req[r].toEmail
    BY <2>1 DEF InitiateReq, Offer
  <2> HIDE DEF e
  <2>3. /\ DOMAIN offer' = DOMAIN offer \cup {Len(offer) + 1} /\ offer'[Len(offer) + 1] = e
        /\ \A m \in DOMAIN offer : offer'[m] = offer[m]
    BY <1>0, <2>1, <2>2, InsertedRow DEF TypeOK
  <2>4. CASE n \in DOMAIN offer
    BY <1>2, <2>3, <2>4
  <2>5. CASE offer'[n] = e
    <3>1. RecordedPromise(n)' = CheckedPromise(r)
      BY <2>2, <2>5 DEF RecordedPromise, CheckedPromise, Promise
    <3>2. r \in Initiating
      BY <1>5 DEF InitiateCreate, Initiating, InFlight
    <3> QED BY <3>1, <3>2 DEF Promised
  <2> QED BY <2>3, <2>4, <2>5
<1> QED BY <1>3, <1>4, <1>5, Writers DEF WritesOffer

\* A checked promise is an old one, or of a request that has just begun.
LEMMA CheckedStay ==
    ASSUME TitleInv, [Next]_vars, NEW q \in Initiating',
           \A me \in Persons, p \in Properties, mail \in Persons : ~InitiateCheck(q, me, p, mail)
    PROVE  CheckedPromise(q)' \in Promised
<1>0. TypeOK /\ q \in Requests /\ req'[q].at \in {"initiate.supersede", "initiate.create"}
  BY DEF TitleInv, OwnershipInv, Initiating, InFlight
<1>1. CASE req'[q] = req[q]
  <2>1. q \in Initiating /\ CheckedPromise(q)' = CheckedPromise(q)
    BY <1>0, <1>1 DEF Initiating, InFlight, CheckedPromise, Promise
  <2> QED BY <2>1 DEF Promised
<1>2. CASE InitiateSupersede(q)
  <2>1. req[q] \in InitiateReq
    BY <1>0, <1>2, RequestKinds DEF InitiateSupersede, TypeOK
  <2>2. /\ req'[q].property = req[q].property /\ req'[q].me = req[q].me
        /\ req'[q].toEmail = req[q].toEmail
    BY <1>0, <1>2, <2>1 DEF InitiateSupersede, InitiateReq, TypeOK
  <2>3. q \in Initiating /\ CheckedPromise(q)' = CheckedPromise(q)
    BY <1>0, <1>2, <2>2 DEF InitiateSupersede, Initiating, InFlight, CheckedPromise, Promise
  <2> QED BY <2>3 DEF Promised
<1> QED BY <1>0, <1>1, <1>2, OtherSteps, OtherRequests, Arrivals DEF Idle

\* A step that checks no new offer makes no new promise.
LEMMA PromisesShrink ==
    ASSUME TitleInv, [Next]_vars,
           \A r \in Requests, me \in Persons, p \in Properties, mail \in Persons :
               ~InitiateCheck(r, me, p, mail)
    PROVE  Promised' \subseteq Promised
<1>1. \A n \in DOMAIN offer' : RecordedPromise(n)' \in Promised
  BY RecordedStay
<1>2. \A q \in Initiating' : CheckedPromise(q)' \in Promised
  BY CheckedStay DEF Initiating, InFlight
<1> QED BY <1>1, <1>2 DEF Promised

\* A step that rewrites no address and ends no initiation keeps every promise.
LEMMA PromisesKept ==
    ASSUME DOMAIN offer \subseteq DOMAIN offer',
           \A n \in DOMAIN offer : RecordedPromise(n)' = RecordedPromise(n),
           \A q \in Initiating : req'[q] = req[q]
    PROVE  Promised \subseteq Promised'
<1>1. \A q \in Initiating : q \in Initiating' /\ CheckedPromise(q)' = CheckedPromise(q)
  BY DEF Initiating, InFlight, CheckedPromise, Promise
<1>2. \A n \in DOMAIN offer : RecordedPromise(n) \in Promised'
  BY DEF Promised
<1>3. \A q \in Initiating : CheckedPromise(q) \in Promised'
  BY <1>1 DEF Promised
<1> QED BY <1>2, <1>3 DEF Promised

\* InitiateCheck promises the home of a verified owner to somebody else.
LEMMA InitiateCheckPromises ==
    ASSUME TitleInv, NEW r \in Requests, NEW me \in Persons, NEW p \in Properties,
           NEW mail \in Persons, InitiateCheck(r, me, p, mail)
    PROVE  /\ Holder[p] = me /\ Proved[p] /\ mail # me
           /\ Promised' = Promised \cup {Promise(p, me, mail)}
<1>0. TypeOK /\ OneOwner /\ req \in [Requests -> Request] /\ UNCHANGED offer
  BY DEF TitleInv, OwnershipInv, TypeOK, InitiateCheck
<1>1. OpenPeriod(p).person = me /\ OpenPeriod(p).verified /\ mail # me
  BY <1>0, OneRow DEF InitiateCheck, VerifiedOwner
<1>2. /\ req[r] = Idle /\ \A q \in Requests : q # r => req'[q] = req[q]
      /\ req'[r].at = "initiate.supersede" /\ req'[r].me = me
      /\ req'[r].property = p /\ req'[r].toEmail = mail
  BY <1>0 DEF InitiateCheck
<1>3. r \notin Initiating /\ Initiating' = Initiating \cup {r}
  BY <1>2 DEF Initiating, InFlight, Idle
<1>4. CheckedPromise(r)' = Promise(p, me, mail)
  BY <1>2 DEF CheckedPromise, Promise
<1>5. \A q \in Initiating : CheckedPromise(q)' = CheckedPromise(q)
  BY <1>2, <1>3 DEF CheckedPromise, Promise, Initiating, InFlight
<1>6. \A n \in DOMAIN offer : RecordedPromise(n)' = RecordedPromise(n)
  BY <1>0 DEF RecordedPromise, Promise
<1>7. Promised' = Promised \cup {Promise(p, me, mail)}
  <2>1. \A q \in Initiating' : CheckedPromise(q)' \in Promised \cup {Promise(p, me, mail)}
    BY <1>3, <1>4, <1>5 DEF Promised
  <2>2. \A n \in DOMAIN offer : RecordedPromise(n)' \in Promised
    BY <1>6 DEF Promised
  <2>3. Promised' \subseteq Promised \cup {Promise(p, me, mail)}
    BY <1>0, <2>1, <2>2 DEF Promised
  <2>4. Promise(p, me, mail) \in Promised'
    BY <1>3, <1>4 DEF Promised
  <2>5. \A q \in Initiating : CheckedPromise(q) \in Promised'
    BY <1>3, <1>5 DEF Promised
  <2>6. \A n \in DOMAIN offer : RecordedPromise(n) \in Promised'
    BY <1>0, <1>6 DEF Promised
  <2>7. Promised \subseteq Promised'
    BY <2>5, <2>6 DEF Promised
  <2> QED BY <2>3, <2>4, <2>7
<1> QED BY <1>1, <1>7 DEF Holder, Proved

-----------------------------------------------------------------------------
(* Passport implements TitleChain *)

LEMMA TitleInitImplemented == Init => Title!TitleInit
<1> SUFFICES ASSUME Init PROVE Title!TitleInit
  OBVIOUS
<1>1. OneOwner /\ TypeOK
  BY OwnershipInit DEF OwnershipInv
<1>2. \A p \in Properties : OpenPeriod(p) \in Period
  BY <1>1, OneRow, RowType DEF TypeOK
<1>3. Promised = {}
  BY DEF Init, Idle, Promised, Initiating, InFlight
<1> QED BY <1>2, <1>3 DEF Title!TitleInit, Period, Promised, RecordedPromise, CheckedPromise, Promise,
                          Initiating

LEMMA TitleStepImplemented == TitleInv /\ [Next]_vars => [Title!TitleNext]_Title!titleVars
<1> SUFFICES ASSUME TitleInv, [Next]_vars PROVE Title!TitleNext
  OBVIOUS
<1>1. CASE \E r \in Requests, me \in Persons, p \in Properties, mail \in Persons :
              InitiateCheck(r, me, p, mail)
  <2>1. PICK r \in Requests, me \in Persons, p \in Properties, mail \in Persons :
            InitiateCheck(r, me, p, mail)
    BY <1>1
  <2>2. Holder' = Holder /\ Proved' = Proved
    BY <2>1, HoldersSame DEF InitiateCheck
  <2>3. /\ Holder[p] = me /\ Proved[p] /\ mail # me
        /\ Promised' = Promised \cup {Promise(p, me, mail)}
    BY <2>1, InitiateCheckPromises
  <2> QED BY <2>2, <2>3, StepMakeOffer
<1>2. ASSUME ~\E r \in Requests, me \in Persons, p \in Properties, mail \in Persons :
                InitiateCheck(r, me, p, mail)
      PROVE  Title!TitleNext
  <2>0. Promised' \subseteq Promised
    BY <1>2, PromisesShrink
  <2>1. CASE UNCHANGED period
    BY <2>0, <2>1, HoldersSame, StepWithdraw
  <2>2. ASSUME NEW r \in Requests, AcceptCommit(r)
        PROVE  Title!TitleNext
    <3>1. Promised \subseteq Promised'
      <4>0. TypeOK
        BY DEF TitleInv, OwnershipInv
      <4>1. \A n \in DOMAIN offer : offer[n] \in Offer
        BY <4>0, RowType DEF TypeOK
      <4>2. /\ DOMAIN offer \subseteq DOMAIN offer'
            /\ \A n \in DOMAIN offer : RecordedPromise(n)' = RecordedPromise(n)
        BY <2>2, <4>1 DEF AcceptCommit, OffersAfterSale, Offer, RecordedPromise, Promise
      <4>3. \A q \in Initiating : req'[q] = req[q]
        BY <2>2, <4>0 DEF AcceptCommit, Finish, Initiating, InFlight, TypeOK
      <4> QED BY <4>2, <4>3, PromisesKept
    <3>2. PICK o \in Promised : /\ Holder[o.property] = o.from
                                /\ Holder' = [Holder EXCEPT ![o.property] = o.to]
                                /\ Proved' = [Proved EXCEPT ![o.property] = FALSE]
      BY <2>2, AcceptCommitMoves
    <3>3. Promised' = Promised
      BY <2>0, <3>1
    <3> QED BY <3>2, <3>3, StepHandOver
  <2>3. ASSUME NEW r \in Requests, VerifyWrite(r)
        PROVE  Title!TitleNext
    <3>0. TypeOK
      BY DEF TitleInv, OwnershipInv
    <3>1. /\ Holder' = Holder /\ req[r].property \in Properties
          /\ Proved' \in {Proved, [Proved EXCEPT ![req[r].property] = TRUE]}
      BY <2>3, VerifyWriteProves
    <3>2. CASE Proved' = Proved
      BY <2>0, <3>1, <3>2, StepWithdraw
    <3>3. CASE Proved' = [Proved EXCEPT ![req[r].property] = TRUE]
      <4>1. \A q \in Initiating : req'[q] = req[q]
        BY <2>3, <3>0 DEF VerifyWrite, Finish, Initiating, InFlight, TypeOK
      <4>2. UNCHANGED offer
        BY <2>3 DEF VerifyWrite
      <4>3. Promised \subseteq Promised'
        BY <4>1, <4>2, PromisesKept DEF RecordedPromise, Promise
      <4>4. PICK p \in Properties : p = req[r].property
        BY <3>1
      <4>5. Proved' = [Proved EXCEPT ![p] = TRUE]
        BY <3>3, <4>4
      <4>6. Promised' = Promised
        BY <2>0, <4>3
      <4> QED BY <3>1, <4>5, <4>6, StepProve
    <3> QED BY <3>1, <3>2, <3>3
  <2> QED BY <2>1, <2>2, <2>3, Writers DEF WritesPeriod
<1> QED BY <1>1, <1>2

\* Whatever requests overlap, fail or are lost with the process, title to a home passes only
\* along offers made by verified owners, from the owner to the person named, and a new owner
\* begins unverified: the service implements TitleChain.
THEOREM RefinesTitleChain == Spec => ImplementsTitleChain
  BY TitleInductive, TitleInitImplemented, TitleStepImplemented, PTL
  DEF Spec, ImplementsTitleChain, Title!TitleSpec
=============================================================================
