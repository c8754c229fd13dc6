------------------------------ MODULE RaceProofs ------------------------------
(***************************************************************************)
(* What overlapping requests can break in Passport, and nothing else: for  *)
(* each promise of the transfer and sharing services, the races after      *)
(* which it need not be kept, for every set of people, homes and requests  *)
(* and any number of offers, grants and sales.  No hypothesis says which   *)
(* requests overlap; the races are in the properties.                      *)
(***************************************************************************)
EXTENDS TitleProofs

IsPending(n) == n \in DOMAIN offer /\ offer[n].status = "pending"

IsOpen(g) == g \in DOMAIN grant /\ grant[g].state = "open"

-----------------------------------------------------------------------------
(* What the writes do to the rows *)

\* Offers: only the status of rows that are there changes, and one row appears.
LEMMA SupersededOffers ==
    ASSUME TypeOK, NEW r \in Requests, InitiateSupersede(r)
    PROVE  /\ DOMAIN offer' = DOMAIN offer
           /\ \A n \in DOMAIN offer :
                 /\ offer'[n].property = offer[n].property /\ offer'[n].from = offer[n].from
                 /\ offer'[n].status =
                       IF offer[n].property = req[r].property /\ offer[n].status = "pending"
                       THEN "superseded" ELSE offer[n].status
<1>1. \A n \in DOMAIN offer : offer[n] \in Offer
  BY RowType DEF TypeOK
<1> QED BY <1>1 DEF InitiateSupersede, ToSupersede, Offer

LEMMA CancelledOffers ==
    ASSUME TypeOK, NEW r \in Requests, CancelWrite(r)
    PROVE  /\ DOMAIN offer' = DOMAIN offer
           /\ \A n \in DOMAIN offer :
                 /\ offer'[n].property = offer[n].property /\ offer'[n].from = offer[n].from
                 /\ offer'[n].status = IF n = req[r].offer THEN "cancelled" ELSE offer[n].status
<1>1. \A n \in DOMAIN offer : offer[n] \in Offer
  BY RowType DEF TypeOK
<1> QED BY <1>1 DEF CancelWrite, Offer

LEMMA AcceptedOffers ==
    ASSUME TypeOK, NEW r \in Requests, AcceptCommit(r)
    PROVE  /\ DOMAIN offer' = DOMAIN offer /\ req[r].offer \in DOMAIN offer
           /\ \A n \in DOMAIN offer :
                 /\ offer'[n].property = offer[n].property /\ offer'[n].from = offer[n].from
                 /\ offer'[n].status = IF n = req[r].offer THEN "accepted" ELSE offer[n].status
<1>1. \A n \in DOMAIN offer : offer[n] \in Offer
  BY RowType DEF TypeOK
<1>2. req[r].offer \in DOMAIN offer
  BY DEF AcceptCommit, TypeOK, ReqRefersTo
<1> QED BY <1>1, <1>2 DEF AcceptCommit, OffersAfterSale, Offer

LEMMA CreatedOffer ==
    ASSUME TypeOK, NEW r \in Requests, InitiateCreate(r)
    PROVE  \E N : /\ DOMAIN offer' = DOMAIN offer \cup {N} /\ N \notin DOMAIN offer
                  /\ offer'[N].property = req[r].property /\ offer'[N].from = req[r].me
                  /\ offer'[N].status = "pending"
                  /\ \A n \in DOMAIN offer : offer'[n] = offer[n]
<1> DEFINE e == [property |-> req[r].property, from |-> req[r].me,
                 toEmail |-> req[r].toEmail, toPersonId |-> req[r].toPersonId,
                 status |-> "pending"]
<1>1. req[r] \in InitiateReq /\ offer' = Append(offer, e) /\ offer \in Seq(Offer)
  BY RequestKinds DEF InitiateCreate, TypeOK
<1>2. /\ e \in Offer /\ e.property = req[r].property /\ e.from = req[r].me
      /\ e.status = "pending"
  BY <1>1 DEF InitiateReq, Offer
<1> HIDE DEF e
<1>3. /\ DOMAIN offer' = DOMAIN offer \cup {Len(offer) + 1} /\ Len(offer) + 1 \notin DOMAIN offer
      /\ offer'[Len(offer) + 1] = e /\ \A n \in DOMAIN offer : offer'[n] = offer[n]
  BY <1>1, <1>2, InsertedRow
<1> QED BY <1>2, <1>3

\* Grants: a sale and a revocation close or delete some, and a sharing puts one in the place
\* of another.
LEMMA SoldGrants ==
    ASSUME TypeOK, NEW r \in Requests, AcceptCommit(r)
    PROVE  /\ DOMAIN grant' = DOMAIN grant
           /\ \A g \in DOMAIN grant :
                 /\ grant'[g].property = grant[g].property /\ grant'[g].subject = grant[g].subject
                 /\ grant'[g].by = grant[g].by
                 /\ grant'[g].state = IF g \in req[r].closing /\ grant[g].state = "open"
                                      THEN "closed" ELSE grant[g].state
<1>1. \A g \in DOMAIN grant : grant[g] \in Grant
  BY RowType DEF TypeOK
<1> QED BY <1>1 DEF AcceptCommit, GrantsAfterSale, Grant

LEMMA RevokedGrants ==
    ASSUME TypeOK, NEW r \in Requests, RevokeDelete(r)
    PROVE  /\ DOMAIN grant' = DOMAIN grant
           /\ \A g \in DOMAIN grant :
                 /\ grant'[g].property = grant[g].property /\ grant'[g].subject = grant[g].subject
                 /\ grant'[g].by = grant[g].by
                 /\ grant'[g].state \in {"deleted", grant[g].state}
<1>1. \A g \in DOMAIN grant : grant[g] \in Grant
  BY RowType DEF TypeOK
<1> QED BY <1>1 DEF RevokeDelete, Grant

LEMMA SharedGrant ==
    ASSUME TypeOK, NEW r \in Requests, ShareCommit(r)
    PROVE  \E N : /\ DOMAIN grant' = DOMAIN grant \cup {N} /\ N \notin DOMAIN grant
                  /\ grant'[N].property = req[r].property /\ grant'[N].subject = req[r].subject
                  /\ grant'[N].by = req[r].me /\ grant'[N].state = "open"
                  /\ \A g \in DOMAIN grant :
                        /\ grant'[g].property = grant[g].property
                        /\ grant'[g].subject = grant[g].subject /\ grant'[g].by = grant[g].by
                        /\ grant'[g].state = IF g = req[r].existing THEN "deleted"
                                             ELSE grant[g].state
<1> DEFINE kept == GrantsReplacing(req[r].existing)
           new == [property |-> req[r].property, subject |-> req[r].subject,
                   permission |-> req[r].permission, by |-> req[r].me, state |-> "open"]
<1>1. req[r] \in ShareReq /\ grant' = Append(kept, new)
  BY RequestKinds DEF ShareCommit, TypeOK
<1>2. /\ new \in Grant /\ new.property = req[r].property /\ new.subject = req[r].subject
      /\ new.by = req[r].me /\ new.state = "open"
  BY <1>1 DEF ShareReq, Grant
<1>3. \A g \in DOMAIN grant :
         /\ kept[g] \in Grant /\ kept[g].property = grant[g].property
         /\ kept[g].subject = grant[g].subject /\ kept[g].by = grant[g].by
         /\ kept[g].state = IF g = req[r].existing THEN "deleted" ELSE grant[g].state
  <2>1. \A g \in DOMAIN grant : grant[g] \in Grant
    BY RowType DEF TypeOK
  <2> QED BY <2>1 DEF GrantsReplacing, Grant
<1>4. kept \in Seq(Grant) /\ DOMAIN kept = DOMAIN grant
  <2>1. grant \in Seq(Grant) /\ kept = [g \in DOMAIN grant |-> kept[g]]
    BY DEF GrantsReplacing, TypeOK
  <2> HIDE DEF kept
  <2> QED BY <1>3, <2>1, RewrittenTable
<1> HIDE DEF kept, new
<1>5. /\ DOMAIN grant' = DOMAIN kept \cup {Len(kept) + 1} /\ Len(kept) + 1 \notin DOMAIN kept
      /\ grant'[Len(kept) + 1] = new /\ \A g \in DOMAIN kept : grant'[g] = kept[g]
  BY <1>1, <1>2, <1>4, InsertedRow
<1> QED BY <1>2, <1>3, <1>4, <1>5

-----------------------------------------------------------------------------
(* Who owns a home after a step *)

\* A sale closes the one open period of its home, which is its seller's, and opens the
\* buyer's; other homes are left alone.
LEMMA SoldPeriods ==
    ASSUME TitleInv, NEW r \in Requests, AcceptCommit(r)
    PROVE  \E h \in Properties, k \in DOMAIN period, N \in DOMAIN period' :
              /\ h = offer[req[r].offer].property
              /\ DOMAIN period' = DOMAIN period \cup {N} /\ N \notin DOMAIN period
              /\ period'[N].property = h /\ period'[N].open
              /\ period'[N].person = req[r].me
              /\ period[k].property = h /\ period[k].open
              /\ period[k].person = offer[req[r].offer].from
              /\ OpenPeriods(h) = {k}
              /\ \A n \in DOMAIN period :
                    /\ period'[n].property = period[n].property
                    /\ period'[n].person = period[n].person
                    /\ period'[n].verified = period[n].verified
                    /\ period'[n].open <=> (period[n].open /\ n # k)
<1>0. TypeOK /\ OneOwner /\ HandoversAreExclusive
  BY DEF TitleInv, OwnershipInv
<1> DEFINE N == Len(period) + 1
<1>1. PICK h \in Properties : h = offer[req[r].offer].property
  <2>1. req[r].offer \in DOMAIN offer
    BY <1>0 DEF AcceptCommit, TypeOK, ReqRefersTo
  <2>2. offer[req[r].offer] \in Offer
    BY <1>0, <2>1, RowType DEF TypeOK
  <2> QED BY <2>2 DEF Offer
<1>2. DOMAIN period' = DOMAIN period \cup {N} /\ N \notin DOMAIN period
  BY <1>0, CommittedPeriods
<1>3. period'[N] = [property |-> h, person |-> req[r].me, open |-> TRUE, verified |-> FALSE]
  BY <1>0, <1>1, CommittedPeriods
<1>4. \A m \in DOMAIN period :
         /\ period'[m].property = period[m].property /\ period'[m].person = period[m].person
         /\ period'[m].verified = period[m].verified
         /\ period'[m].open <=> /\ period[m].open
                                /\ ~(/\ period[m].property = h
                                     /\ period[m].person = offer[req[r].offer].from)
  <2> HIDE DEF N
  <2> QED BY <1>0, <1>1, CommittedPeriods
<1>5. PICK k \in DOMAIN period : OpenPeriods(h) = {k}
  BY <1>0 DEF OneOwner
<1>6. period[k].property = h /\ period[k].open /\ period[k].person = offer[req[r].offer].from
  BY <1>0, <1>1, <1>5 DEF AcceptCommit, HandoversAreExclusive, OpenPeriods
<1>7. \A m \in DOMAIN period : period[m].property = h /\ period[m].open => m = k
  BY <1>5 DEF OpenPeriods
<1>8. \A m \in DOMAIN period : period'[m].open <=> (period[m].open /\ m # k)
  BY <1>4, <1>6, <1>7
<1>9. period'[N].property = h /\ period'[N].open /\ period'[N].person = req[r].me
  BY <1>3
<1> HIDE DEF N
<1> QED BY <1>1, <1>2, <1>4, <1>5, <1>6, <1>8, <1>9

LEMMA VerifiedPeriods ==
    ASSUME TypeOK, NEW r \in Requests, VerifyWrite(r)
    PROVE  /\ DOMAIN period' = DOMAIN period
           /\ \A n \in DOMAIN period :
                 /\ period'[n].property = period[n].property /\ period'[n].person = period[n].person
                 /\ period'[n].open = period[n].open
                 /\ period[n].verified => period'[n].verified
                 /\ ~period[n].open => period'[n].verified = period[n].verified
<1>1. \A n \in DOMAIN period : period[n] \in Period
  BY RowType DEF TypeOK
<1> QED BY <1>1 DEF VerifyWrite, Period

\* Homes that are not sold keep their owners and do not lose their verification.
LEMMA OwnersKept ==
    ASSUME TitleInv, NEW p,
           \/ UNCHANGED period
           \/ \E r \in Requests : VerifyWrite(r)
           \/ \E r \in Requests : AcceptCommit(r) /\ p # offer[req[r].offer].property
    PROVE  /\ \A me : is_current_owner(me, p) => is_current_owner(me, p)'
           /\ \A me : is_current_owner(me, p)' => is_current_owner(me, p)
           /\ \A me : VerifiedOwner(me, p) => VerifiedOwner(me, p)'
<1>1. CASE UNCHANGED period
  BY <1>1 DEF is_current_owner, VerifiedOwner, OpenPeriods
<1>2. ASSUME NEW r \in Requests, VerifyWrite(r)
      PROVE  /\ \A me : is_current_owner(me, p) => is_current_owner(me, p)'
             /\ \A me : is_current_owner(me, p)' => is_current_owner(me, p)
             /\ \A me : VerifiedOwner(me, p) => VerifiedOwner(me, p)'
  <2>1. TypeOK
    BY DEF TitleInv, OwnershipInv
  <2>2. /\ DOMAIN period' = DOMAIN period
        /\ \A n \in DOMAIN period :
              /\ period'[n].property = period[n].property /\ period'[n].person = period[n].person
              /\ period'[n].open = period[n].open /\ (period[n].verified => period'[n].verified)
    BY <1>2, <2>1, VerifiedPeriods
  <2> QED BY <2>2 DEF is_current_owner, VerifiedOwner, OpenPeriods
<1>3. ASSUME NEW r \in Requests, AcceptCommit(r), p # offer[req[r].offer].property
      PROVE  /\ \A me : is_current_owner(me, p) => is_current_owner(me, p)'
             /\ \A me : is_current_owner(me, p)' => is_current_owner(me, p)
             /\ \A me : VerifiedOwner(me, p) => VerifiedOwner(me, p)'
  <2>1. PICK h \in Properties, k \in DOMAIN period, N \in DOMAIN period' :
            /\ h = offer[req[r].offer].property
            /\ DOMAIN period' = DOMAIN period \cup {N} /\ N \notin DOMAIN period
            /\ period'[N].property = h /\ period[k].property = h
            /\ \A n \in DOMAIN period :
                  /\ period'[n].property = period[n].property
                  /\ period'[n].person = period[n].person
                  /\ period'[n].verified = period[n].verified
                  /\ period'[n].open <=> (period[n].open /\ n # k)
    BY ONLY TitleInv, <1>3, SoldPeriods, ZenonT(60)
  <2>2. p # h
    BY <1>3, <2>1
  <2> QED BY <2>1, <2>2 DEF is_current_owner, VerifiedOwner, OpenPeriods
<1> QED BY <1>1, <1>2, <1>3

-----------------------------------------------------------------------------
(* How requests move, and what stays of the rows *)

\* A request that writes a table moves on.
LEMMA WriterMoves ==
    ASSUME TypeOK, NEW q \in Requests, WritesPeriod(q) \/ WritesGrant(q) \/ WritesOffer(q)
    PROVE  req'[q] # req[q]
<1>1. req \in [Requests -> Request]
  BY DEF TypeOK
<1>2. CASE \/ AcceptCommit(q) \/ VerifyWrite(q) \/ ShareCommit(q) \/ RevokeDelete(q)
          \/ InitiateCreate(q) \/ CancelWrite(q)
  <2>1. req'[q] = Idle /\ req[q].at # "idle"
    BY <1>1, <1>2 DEF AcceptCommit, VerifyWrite, ShareCommit, RevokeDelete, InitiateCreate,
                      CancelWrite, Finish
  <2> QED BY <2>1 DEF Idle
<1>3. CASE InitiateSupersede(q)
  <2>1. req[q] \in InitiateReq
    BY <1>1, <1>3, RequestKinds DEF InitiateSupersede
  <2> QED BY <1>1, <1>3, <2>1 DEF InitiateSupersede, InitiateReq
<1> QED BY <1>2, <1>3 DEF WritesPeriod, WritesGrant, WritesOffer

\* A request stays where it is, ends, or has made a step.
LEMMA StaysEndsOrSteps ==
    ASSUME TypeOK, [Next]_vars, NEW r \in Requests
    PROVE  req'[r] \in {req[r], Idle} \/ Start(r) \/ Continue(r) \/ Fail(r)
  BY OtherSteps, OtherRequests

\* An offer stays, and stays an offer of its home.
LEMMA OffersLast ==
    ASSUME TypeOK, [Next]_vars
    PROVE  \A n \in DOMAIN offer : n \in DOMAIN offer' /\ offer'[n].property = offer[n].property
<1>1. CASE UNCHANGED offer
  BY <1>1
<1>2. ASSUME NEW r \in Requests, WritesOffer(r)
      PROVE  \A n \in DOMAIN offer : n \in DOMAIN offer' /\ offer'[n].property = offer[n].property
  <2>1. CASE InitiateSupersede(r)
    BY <2>1, SupersededOffers
  <2>2. CASE CancelWrite(r)
    BY <2>2, CancelledOffers
  <2>3. CASE AcceptCommit(r)
    BY <2>3, AcceptedOffers
  <2>4. CASE InitiateCreate(r)
    BY <2>4, CreatedOffer
  <2> QED BY <1>2, <2>1, <2>2, <2>3, <2>4 DEF WritesOffer
<1> QED BY <1>1, <1>2, Writers

\* A grant stays a grant of its home and subject, and a deleted one stays deleted.
LEMMA GrantsLast ==
    ASSUME TypeOK, [Next]_vars
    PROVE  \A g \in DOMAIN grant :
              /\ g \in DOMAIN grant' /\ grant'[g].property = grant[g].property
              /\ grant'[g].subject = grant[g].subject
              /\ grant[g].state = "deleted" => grant'[g].state = "deleted"
<1>1. CASE UNCHANGED grant
  BY <1>1
<1>2. ASSUME NEW r \in Requests, WritesGrant(r)
      PROVE  \A g \in DOMAIN grant :
                /\ g \in DOMAIN grant' /\ grant'[g].property = grant[g].property
                /\ grant'[g].subject = grant[g].subject
                /\ grant[g].state = "deleted" => grant'[g].state = "deleted"
  <2>1. CASE AcceptCommit(r)
    BY <2>1, SoldGrants
  <2>2. CASE RevokeDelete(r)
    BY <2>2, RevokedGrants
  <2>3. CASE ShareCommit(r)
    BY <2>3, SharedGrant
  <2> QED BY <1>2, <2>1, <2>2, <2>3 DEF WritesGrant
<1> QED BY <1>1, <1>2, Writers

\* Offers that are pending were pending, but for one that a request has just created.
LEMMA PendingBefore ==
    ASSUME TypeOK, [Next]_vars, NEW n \in DOMAIN offer', offer'[n].status = "pending"
    PROVE  \/ /\ IsPending(n) /\ offer'[n].property = offer[n].property
              /\ offer'[n].from = offer[n].from
              /\ ~\E r \in Requests : AcceptCommit(r) /\ n = req[r].offer
           \/ /\ n \notin DOMAIN offer
              /\ \E r \in Requests : InitiateCreate(r)
<1>1. CASE UNCHANGED offer
  <2>1. ASSUME NEW r \in Requests, AcceptCommit(r) PROVE n # req[r].offer
    BY <2>1, AcceptedOffers
  <2> QED BY <1>1, <2>1 DEF IsPending
<1>2. ASSUME NEW r \in Requests, AcceptCommit(r)
      PROVE  /\ n \in DOMAIN offer /\ offer[n].status = "pending"
             /\ offer'[n].property = offer[n].property /\ offer'[n].from = offer[n].from
             /\ n # req[r].offer
  BY <1>2, AcceptedOffers
<1>3. ASSUME NEW r \in Requests, AcceptCommit(r) PROVE n # req[r].offer
  BY <1>2, <1>3
<1>4. CASE \E r \in Requests : AcceptCommit(r)
  BY <1>2, <1>3, <1>4 DEF IsPending
<1>5. ASSUME NEW r \in Requests, InitiateSupersede(r) \/ CancelWrite(r)
      PROVE  /\ n \in DOMAIN offer /\ offer[n].status = "pending"
             /\ offer'[n].property = offer[n].property /\ offer'[n].from = offer[n].from
  BY <1>5, SupersededOffers, CancelledOffers
<1>6. CASE \E r \in Requests : InitiateSupersede(r) \/ CancelWrite(r)
  BY <1>3, <1>5, <1>6 DEF IsPending
<1>7. CASE \E r \in Requests : InitiateCreate(r)
  <2>1. PICK r \in Requests : InitiateCreate(r)
    BY <1>7
  <2>2. n \in DOMAIN offer => offer'[n] = offer[n]
    BY <2>1, CreatedOffer
  <2> QED BY <1>3, <1>7, <2>2 DEF IsPending
<1> QED BY <1>1, <1>4, <1>6, <1>7, Writers DEF WritesOffer

\* Open grants were open, and neither closed by a sale nor replaced; or a sharing has just
\* committed them.
LEMMA OpenBefore ==
    ASSUME TypeOK, [Next]_vars, NEW g \in DOMAIN grant', grant'[g].state = "open"
    PROVE  \/ /\ IsOpen(g) /\ grant'[g].property = grant[g].property
              /\ grant'[g].subject = grant[g].subject /\ grant'[g].by = grant[g].by
              /\ ~\E r \in Requests : AcceptCommit(r) /\ g \in req[r].closing
           \/ /\ g \notin DOMAIN grant
              /\ \E r \in Requests : ShareCommit(r)
<1>1. ASSUME NEW r \in Requests, AcceptCommit(r)
      PROVE  /\ g \in DOMAIN grant /\ grant[g].state = "open" /\ g \notin req[r].closing
             /\ grant'[g].property = grant[g].property
             /\ grant'[g].subject = grant[g].subject /\ grant'[g].by = grant[g].by
  BY <1>1, SoldGrants
<1>2. ASSUME NEW r \in Requests, AcceptCommit(r) PROVE g \notin req[r].closing
  BY <1>1, <1>2
<1>3. CASE UNCHANGED grant
  BY <1>2, <1>3 DEF IsOpen
<1>4. CASE \E r \in Requests : AcceptCommit(r)
  BY <1>1, <1>2, <1>4 DEF IsOpen
<1>5. ASSUME NEW r \in Requests, RevokeDelete(r)
      PROVE  /\ g \in DOMAIN grant /\ grant[g].state = "open"
             /\ grant'[g].property = grant[g].property
             /\ grant'[g].subject = grant[g].subject /\ grant'[g].by = grant[g].by
  BY <1>5, RevokedGrants
<1>6. CASE \E r \in Requests : RevokeDelete(r)
  BY <1>2, <1>5, <1>6 DEF IsOpen
<1>7. CASE \E r \in Requests : ShareCommit(r)
  <2>1. PICK r \in Requests : ShareCommit(r)
    BY <1>7
  <2>2. g \in DOMAIN grant =>
           /\ grant[g].state = "open" /\ grant'[g].property = grant[g].property
           /\ grant'[g].subject = grant[g].subject /\ grant'[g].by = grant[g].by
    BY <2>1, SharedGrant
  <2> QED BY <1>2, <1>7, <2>2 DEF IsOpen
<1> QED BY <1>3, <1>4, <1>6, <1>7, Writers DEF WritesGrant

-----------------------------------------------------------------------------
(* Offers *)

\* A sale for the one pending offer leaves no offer pending and nobody making one.
LEMMA SaleClearsOffers ==
    ASSUME TitleInv, [Next]_vars, NEW p \in Properties, OffersInOrder(p), ~OffersRace(p),
           NEW r \in Requests, AcceptCommit(r), offer[req[r].offer].property = p
    PROVE  Pending(p)' = {} /\ Offering(p)' = {}
<1>0. TypeOK
  BY DEF TitleInv, OwnershipInv
<1>1. HandoverOf(p, r)
  BY DEF HandoverOf, AcceptCommit
<1>2. Offering(p) = {} /\ req[r].offer \in Pending(p)
  BY <1>1 DEF OffersRace
<1>3. Pending(p)' = {}
  <2>1. \A m \in Pending(p) : m = req[r].offer
    BY <1>2 DEF OffersInOrder
  <2>2. /\ DOMAIN offer' = DOMAIN offer
        /\ \A n \in DOMAIN offer :
              /\ offer'[n].property = offer[n].property
              /\ offer'[n].status = IF n = req[r].offer THEN "accepted" ELSE offer[n].status
    BY <1>0, AcceptedOffers
  <2> QED BY <2>1, <2>2 DEF Pending
<1>4. \A q \in Requests : req'[q] \in {req[q], Idle}
  <2>1. \A q \in Requests : q # r => req'[q] = req[q]
    BY <1>0, OtherRequests DEF Continue, TransferContinue
  <2>2. req'[r] = Idle
    BY <1>0 DEF AcceptCommit, Finish, TypeOK
  <2> QED BY <2>1, <2>2
<1>5. Offering(p)' = {}
  BY <1>2, <1>4 DEF Offering, InFlight, Idle
<1> QED BY <1>3, <1>5

\* Who a new pending offer of a home is from.
LEMMA NewOffer ==
    ASSUME TypeOK, NEW r \in Requests, InitiateCreate(r), NEW p,
           NEW n \in Pending(p)', n \notin DOMAIN offer
    PROVE  /\ r \in Offering(p) /\ req[r].at = "initiate.create"
           /\ offer'[n].from = req[r].me
           /\ \A m \in DOMAIN offer' : m # n => m \in DOMAIN offer
<1>1. PICK N : /\ DOMAIN offer' = DOMAIN offer \cup {N}
               /\ offer'[N].property = req[r].property /\ offer'[N].from = req[r].me
  BY CreatedOffer
<1>2. n = N /\ offer'[n].property = p
  BY <1>1 DEF Pending
<1> QED BY <1>1, <1>2 DEF Offering, InFlight, InitiateCreate

\* What offers of a home are pending after a step that is no sale of it.
LEMMA PendingFrom ==
    ASSUME TypeOK, [Next]_vars, NEW p, NEW n \in Pending(p)'
    PROVE  \/ n \in Pending(p) /\ offer'[n].from = offer[n].from
           \/ /\ n \notin DOMAIN offer
              /\ \E r \in Requests : InitiateCreate(r)
<1>1. n \in DOMAIN offer' /\ offer'[n].status = "pending" /\ offer'[n].property = p
  BY DEF Pending
<1> QED BY <1>1, PendingBefore DEF Pending, IsPending

LEMMA PendingStep ==
    ASSUME TitleInv, [Next]_vars, NEW p \in Properties, OffersInOrder(p),
           ~\E r \in Requests : AcceptCommit(r) /\ p = offer[req[r].offer].property
    PROVE  /\ \A m, n \in Pending(p)' : m = n
           /\ \A o \in Pending(p)' : \E me : me = offer'[o].from /\ VerifiedOwner(me, p)'
<1>0. TypeOK
  BY DEF TitleInv, OwnershipInv
<1>1. \A me : VerifiedOwner(me, p) => VerifiedOwner(me, p)'
  BY OwnersKept, Writers DEF WritesPeriod
<1>2. ASSUME NEW o \in Pending(p)' PROVE \E me : me = offer'[o].from /\ VerifiedOwner(me, p)'
  <2>1. CASE o \in Pending(p) /\ offer'[o].from = offer[o].from
    BY <1>1, <2>1 DEF OffersInOrder
  <2>2. ASSUME NEW r \in Requests, InitiateCreate(r), o \notin DOMAIN offer
        PROVE  \E me : me = offer'[o].from /\ VerifiedOwner(me, p)'
    <3>1. r \in Offering(p) /\ offer'[o].from = req[r].me
      BY <1>0, <1>2, <2>2, NewOffer
    <3> QED BY <1>1, <3>1 DEF OffersInOrder
  <2> QED BY <1>0, <1>2, <2>1, <2>2, PendingFrom
<1>3. ASSUME NEW k \in Pending(p)', NEW l \in Pending(p)', k \notin DOMAIN offer, k # l
      PROVE  FALSE
  <2>1. PICK r \in Requests : InitiateCreate(r)
    BY <1>0, <1>3, PendingFrom DEF Pending
  <2>2. r \in Offering(p) /\ req[r].at = "initiate.create" /\ l \in DOMAIN offer
    BY <1>0, <1>3, <2>1, NewOffer DEF Pending
  <2>3. l \in Pending(p)
    BY <1>0, <1>3, <2>2, PendingFrom
  <2> QED BY <2>2, <2>3 DEF OffersInOrder
<1>4. ASSUME NEW m \in Pending(p)', NEW n \in Pending(p)' PROVE m = n
  <2>1. CASE m \in DOMAIN offer /\ n \in DOMAIN offer
    <3>1. m \in Pending(p) /\ n \in Pending(p)
      BY <1>0, <1>4, <2>1, PendingFrom
    <3> QED BY <3>1 DEF OffersInOrder
  <2> QED BY <1>3, <1>4, <2>1
<1> QED BY <1>2, <1>4

LEMMA OfferingStep ==
    ASSUME TitleInv, [Next]_vars, NEW p \in Properties, OffersInOrder(p), ~OffersRace(p),
           ~\E r \in Requests : AcceptCommit(r) /\ p = offer[req[r].offer].property,
           NEW r \in Offering(p)'
    PROVE  /\ \E me : me = req'[r].me /\ VerifiedOwner(me, p)'
           /\ req'[r].at = "initiate.create" => Pending(p)' = {}
<1>0. TypeOK /\ r \in Requests /\ req \in [Requests -> Request]
  BY DEF TitleInv, OwnershipInv, TypeOK, Offering, InFlight
<1>1. \A me : VerifiedOwner(me, p) => VerifiedOwner(me, p)'
  BY OwnersKept, Writers DEF WritesPeriod
<1>2. /\ req'[r].at \in {"initiate.supersede", "initiate.create"}
      /\ req'[r].property = p
  BY DEF Offering, InFlight
<1>3. CASE req'[r] = req[r]
  <2>1. r \in Offering(p)
    BY <1>0, <1>2, <1>3 DEF Offering, InFlight
  <2>2. \E me : me = req'[r].me /\ VerifiedOwner(me, p)'
    BY <1>1, <1>3, <2>1 DEF OffersInOrder
  <2>3. ASSUME req'[r].at = "initiate.create", NEW n \in Pending(p)' PROVE FALSE
    <3>1. Pending(p) = {}
      BY <1>3, <2>1, <2>3 DEF OffersInOrder
    <3>2. PICK q \in Requests : InitiateCreate(q) /\ n \notin DOMAIN offer
      BY <1>0, <2>3, <3>1, PendingFrom
    <3>3. q \in Offering(p) /\ req[q].at = "initiate.create"
      BY <1>0, <2>3, <3>2, NewOffer
    <3>4. q # r
      BY <1>0, <1>3, <3>2, WriterMoves DEF WritesOffer
    <3> QED BY <1>3, <2>1, <2>3, <3>3, <3>4 DEF OffersRace
  <2> QED BY <2>2, <2>3
<1>4. ASSUME NEW seller \in Persons, NEW h \in Properties, NEW mail \in Persons,
             InitiateCheck(r, seller, h, mail)
      PROVE  /\ \E me : me = req'[r].me /\ VerifiedOwner(me, p)'
             /\ req'[r].at = "initiate.create" => Pending(p)' = {}
  <2>1. /\ req'[r].at = "initiate.supersede" /\ req'[r].me = seller /\ req'[r].property = h
        /\ VerifiedOwner(seller, h)
    BY <1>0, <1>4 DEF InitiateCheck
  <2> QED BY <1>1, <1>2, <2>1
<1>5. CASE InitiateSupersede(r)
  <2>1. req[r] \in InitiateReq /\ req[r].at = "initiate.supersede"
    BY <1>0, <1>5, RequestKinds DEF InitiateSupersede
  <2>2. req'[r].me = req[r].me /\ req'[r].property = req[r].property
    BY <1>0, <1>5, <2>1 DEF InitiateSupersede, InitiateReq
  <2>3. r \in Offering(p)
    BY <1>0, <1>2, <2>1, <2>2 DEF Offering, InFlight
  <2>4. \E me : me = req'[r].me /\ VerifiedOwner(me, p)'
    BY <1>1, <2>2, <2>3 DEF OffersInOrder
  <2>5. Pending(p)' = {}
    <3>1. /\ DOMAIN offer' = DOMAIN offer
          /\ \A n \in DOMAIN offer :
                /\ offer'[n].property = offer[n].property
                /\ offer'[n].status =
                      IF offer[n].property = req[r].property /\ offer[n].status = "pending"
                      THEN "superseded" ELSE offer[n].status
      BY <1>0, <1>5, SupersededOffers
    <3> QED BY <1>2, <2>2, <3>1 DEF Pending
  <2> QED BY <2>4, <2>5
<1> QED BY <1>0, <1>2, <1>3, <1>4, <1>5, StaysEndsOrSteps, Arrivals DEF Idle

\* A home's open offer is the present, verified owner's, and the only one, until offers and a
\* sale race (transfer.service.ts:26-53).
THEOREM OffersOnlyRace == Spec => OnlyRacesBreakOffers
<1>1. TitleInv /\ [Next]_vars =>
          [\A p \in Properties : OffersInOrder(p) => OffersInOrder(p)' \/ OffersRace(p)]_vars
  <2> SUFFICES ASSUME TitleInv, [Next]_vars, NEW p \in Properties,
                      OffersInOrder(p), ~OffersRace(p)
               PROVE  OffersInOrder(p)'
    OBVIOUS
  <2>1. ASSUME NEW r \in Requests, AcceptCommit(r), p = offer[req[r].offer].property
        PROVE  OffersInOrder(p)'
    <3>1. Pending(p)' = {} /\ Offering(p)' = {}
      BY <2>1, SaleClearsOffers
    <3> QED BY <3>1 DEF OffersInOrder
  <2>2. CASE ~\E r \in Requests : AcceptCommit(r) /\ p = offer[req[r].offer].property
    <3>1. /\ \A m, n \in Pending(p)' : m = n
          /\ \A o \in Pending(p)' : \E me : me = offer'[o].from /\ VerifiedOwner(me, p)'
      BY <2>2, PendingStep
    <3>2. \A r \in Offering(p)' : /\ \E me : me = req'[r].me /\ VerifiedOwner(me, p)'
                                  /\ req'[r].at = "initiate.create" => Pending(p)' = {}
      BY <2>2, OfferingStep
    <3> QED BY <3>1, <3>2 DEF OffersInOrder, VerifiedOwner, OpenPeriods
  <2> QED BY <2>1, <2>2
<1> QED BY <1>1, TitleInductive, PTL DEF Spec, OnlyRacesBreakOffers

\* No request that looks at an offer after it is settled touches it, and those that found it
\* pending have ended (transfer.service.ts:76, :112).
THEOREM SettledForGood == Spec => SettledOffersStaySettled
<1>1. TypeOK /\ [Next]_vars =>
          [\A o \in DOMAIN offer :
              Settled(o) => Settled(o)' /\ offer'[o].status = offer[o].status]_vars
  <2> SUFFICES ASSUME TypeOK, [Next]_vars, NEW o \in DOMAIN offer, Settled(o)
               PROVE  Settled(o)' /\ offer'[o].status = offer[o].status
    OBVIOUS
  <2>0. /\ req \in [Requests -> Request] /\ offer[o].status # "pending"
        /\ \A r \in Requests : req[r].at \in {"accept.tx", "accept.commit", "cancel.write"}
                                   => req[r].offer # o
    BY DEF TypeOK, Settled, Deciding, InFlight
  <2>1. offer'[o].status = offer[o].status
    <3>1. CASE UNCHANGED offer
      BY <3>1
    <3>2. ASSUME NEW r \in Requests, WritesOffer(r) PROVE offer'[o].status = offer[o].status
      <4>1. CASE InitiateSupersede(r)
        BY <2>0, <4>1, SupersededOffers
      <4>2. CASE CancelWrite(r)
        BY <2>0, <4>2, CancelledOffers DEF CancelWrite
      <4>3. CASE AcceptCommit(r)
        BY <2>0, <4>3, AcceptedOffers DEF AcceptCommit
      <4>4. CASE InitiateCreate(r)
        BY <4>4, CreatedOffer
      <4> QED BY <3>2, <4>1, <4>2, <4>3, <4>4 DEF WritesOffer
    <3> QED BY <3>1, <3>2, Writers
  <2>2. ASSUME NEW r \in Requests,
               req'[r].at \in {"accept.tx", "accept.commit", "cancel.write"}
        PROVE  req'[r].offer # o
    <3>1. CASE req'[r] = req[r]
      BY <2>0, <2>2, <3>1
    <3>2. ASSUME NEW me \in Persons, NEW n \in DOMAIN offer,
                 AcceptCheck(r, me, n) \/ CancelCheck(r, me, n)
          PROVE  req'[r].offer # o
      <4>1. req'[r].offer = n /\ offer[n].status = "pending"
        BY <2>0, <3>2 DEF AcceptCheck, CancelCheck, MayCancel
      <4> QED BY <2>0, <4>1
    <3>3. CASE AcceptTx(r) /\ req'[r] # Idle
      <4>1. req'[r].offer = req[r].offer /\ req[r].at = "accept.tx"
        BY <2>0, <3>3 DEF AcceptTx, Finish
      <4> QED BY <2>0, <4>1
    <3> QED BY <2>2, <3>1, <3>2, <3>3, StaysEndsOrSteps, Arrivals DEF Idle
  <2> QED BY <2>0, <2>1, <2>2 DEF Settled, Deciding, InFlight
<1> QED BY <1>1, TypeCorrect, PTL DEF Spec, SettledOffersStaySettled

-----------------------------------------------------------------------------
(* Sales and the offers they consume *)

AcceptedOf(p) == {o \in DOMAIN offer : offer[o].property = p
                                         /\ offer[o].status = "accepted"}
ClosedOf(p) == {n \in DOMAIN period : period[n].property = p /\ ~period[n].open}

LEMMA FiniteTables ==
    ASSUME TypeOK, NEW p
    PROVE  IsFiniteSet(AcceptedOf(p)) /\ IsFiniteSet(ClosedOf(p))
<1>1. /\ Len(offer) \in Nat /\ DOMAIN offer = 1..Len(offer)
      /\ Len(period) \in Nat /\ DOMAIN period = 1..Len(period)
  BY LenProperties DEF TypeOK
<1>2. IsFiniteSet(DOMAIN offer) /\ IsFiniteSet(DOMAIN period)
  BY <1>1, FS_Interval
<1>3. AcceptedOf(p) \in SUBSET DOMAIN offer /\ ClosedOf(p) \in SUBSET DOMAIN period
  BY DEF AcceptedOf, ClosedOf
<1> QED BY <1>2, <1>3, FS_Subset

\* Without a sale of the home no offer of it is accepted, none that was is touched, and no
\* period is closed.
LEMMA NoSale ==
    ASSUME TitleInv, [Next]_vars, NEW p, ~AcceptedInFlight(p),
           ~\E r \in Requests : AcceptCommit(r) /\ p = offer[req[r].offer].property
    PROVE  AcceptedOf(p)' = AcceptedOf(p) /\ ClosedOf(p)' = ClosedOf(p)
<1>0. TypeOK
  BY DEF TitleInv, OwnershipInv
<1>1. AcceptedOf(p)' = AcceptedOf(p)
  <2>1. CASE UNCHANGED offer
    BY <2>1 DEF AcceptedOf
  <2>2. ASSUME NEW r \in Requests, InitiateSupersede(r) PROVE AcceptedOf(p)' = AcceptedOf(p)
    BY <1>0, <2>2, SupersededOffers DEF AcceptedOf
  <2>3. ASSUME NEW r \in Requests, CancelWrite(r) PROVE AcceptedOf(p)' = AcceptedOf(p)
    <3>1. req[r].at = "cancel.write"
      BY <2>3 DEF CancelWrite
    <3>2. req[r].offer \notin AcceptedOf(p)
      BY <3>1 DEF AcceptedInFlight, AcceptedOf, Deciding, InFlight
    <3> QED BY <1>0, <2>3, <3>2, CancelledOffers DEF AcceptedOf
  <2>4. ASSUME NEW r \in Requests, InitiateCreate(r) PROVE AcceptedOf(p)' = AcceptedOf(p)
    BY <1>0, <2>4, CreatedOffer DEF AcceptedOf
  <2>5. ASSUME NEW r \in Requests, AcceptCommit(r) PROVE AcceptedOf(p)' = AcceptedOf(p)
    <3>1. p # offer[req[r].offer].property
      BY <2>5
    <3> QED BY <1>0, <2>5, <3>1, AcceptedOffers DEF AcceptedOf
  <2> QED BY <2>1, <2>2, <2>3, <2>4, <2>5, Writers DEF WritesOffer
<1>2. ClosedOf(p)' = ClosedOf(p)
  <2>1. CASE UNCHANGED period
    BY <2>1 DEF ClosedOf
  <2>2. ASSUME NEW r \in Requests, VerifyWrite(r) PROVE ClosedOf(p)' = ClosedOf(p)
    <3>1. /\ DOMAIN period' = DOMAIN period
          /\ \A n \in DOMAIN period :
                period'[n].property = period[n].property /\ period'[n].open = period[n].open
      BY <1>0, <2>2, VerifiedPeriods
    <3> QED BY <3>1 DEF ClosedOf
  <2>3. ASSUME NEW r \in Requests, AcceptCommit(r) PROVE ClosedOf(p)' = ClosedOf(p)
    <3>1. p # offer[req[r].offer].property
      BY <2>3
    <3>2. PICK h \in Properties, k \in DOMAIN period, N \in DOMAIN period' :
              /\ h = offer[req[r].offer].property
              /\ DOMAIN period' = DOMAIN period \cup {N} /\ N \notin DOMAIN period
              /\ period'[N].property = h /\ period[k].property = h
              /\ \A n \in DOMAIN period :
                    /\ period'[n].property = period[n].property
                    /\ period'[n].open <=> (period[n].open /\ n # k)
      BY ONLY TitleInv, <2>3, SoldPeriods
    <3> QED BY <3>1, <3>2 DEF ClosedOf
  <2> QED BY <2>1, <2>2, <2>3, Writers DEF WritesPeriod
<1> QED BY <1>1, <1>2

\* A sale for an offer that is not accepted yet accepts one offer and closes one period.
LEMMA OneSale ==
    ASSUME TitleInv, NEW r \in Requests, AcceptCommit(r), NEW p,
           p = offer[req[r].offer].property, ~AcceptedInFlight(p)
    PROVE  \E o, k : /\ o \notin AcceptedOf(p) /\ k \notin ClosedOf(p)
                     /\ AcceptedOf(p)' = AcceptedOf(p) \cup {o}
                     /\ ClosedOf(p)' = ClosedOf(p) \cup {k}
<1>0. TypeOK
  BY DEF TitleInv, OwnershipInv
<1>1. PICK h \in Properties, k \in DOMAIN period, N \in DOMAIN period' :
          /\ h = offer[req[r].offer].property
          /\ DOMAIN period' = DOMAIN period \cup {N} /\ N \notin DOMAIN period
          /\ period'[N].open /\ period[k].property = h /\ period[k].open
          /\ \A n \in DOMAIN period :
                /\ period'[n].property = period[n].property
                /\ period'[n].open <=> (period[n].open /\ n # k)
  BY ONLY TitleInv, r \in Requests, AcceptCommit(r), SoldPeriods, ZenonT(60)
<1>2. k \notin ClosedOf(p) /\ ClosedOf(p)' = ClosedOf(p) \cup {k}
  BY <1>1 DEF ClosedOf
<1>3. PICK o : o = req[r].offer
  OBVIOUS
<1>4. /\ o \in DOMAIN offer /\ DOMAIN offer' = DOMAIN offer
      /\ \A n \in DOMAIN offer :
            /\ offer'[n].property = offer[n].property
            /\ offer'[n].status = IF n = o THEN "accepted" ELSE offer[n].status
  BY <1>0, <1>3, AcceptedOffers
<1>5. o \notin AcceptedOf(p)
  <2>1. req[r].at = "accept.commit"
    BY DEF AcceptCommit
  <2> QED BY <1>3, <2>1 DEF AcceptedInFlight, AcceptedOf, Deciding, InFlight
<1>6. AcceptedOf(p)' = AcceptedOf(p) \cup {o}
  BY <1>3, <1>4 DEF AcceptedOf
<1> QED BY <1>2, <1>5, <1>6

\* Each sale consumes an offer of its own, until a request writes on an offer that was
\* accepted since it looked (transfer.service.ts:80-117).
THEOREM SalesOnlyRace == Spec => OnlyRacesUnmatchSales
<1>1. TitleInv /\ [Next]_vars =>
          [\A p \in Properties :
              SalesMatchOffers(p) => SalesMatchOffers(p)' \/ AcceptedInFlight(p)]_vars
  <2> SUFFICES ASSUME TitleInv, [Next]_vars, NEW p \in Properties,
                      SalesMatchOffers(p), ~AcceptedInFlight(p)
               PROVE  SalesMatchOffers(p)'
    OBVIOUS
  <2>1. Cardinality(AcceptedOf(p)) = Cardinality(ClosedOf(p))
    BY DEF SalesMatchOffers, AcceptedOf, ClosedOf
  <2>2. SUFFICES Cardinality(AcceptedOf(p)') = Cardinality(ClosedOf(p)')
    BY DEF SalesMatchOffers, AcceptedOf, ClosedOf
  <2>3. CASE ~\E r \in Requests : AcceptCommit(r) /\ p = offer[req[r].offer].property
    BY <2>1, <2>3, NoSale
  <2>4. ASSUME NEW r \in Requests, AcceptCommit(r), p = offer[req[r].offer].property
        PROVE  Cardinality(AcceptedOf(p)') = Cardinality(ClosedOf(p)')
    <3>1. PICK o, k : /\ o \notin AcceptedOf(p) /\ k \notin ClosedOf(p)
                      /\ AcceptedOf(p)' = AcceptedOf(p) \cup {o}
                      /\ ClosedOf(p)' = ClosedOf(p) \cup {k}
      BY <2>4, OneSale
    <3>2. IsFiniteSet(AcceptedOf(p)) /\ IsFiniteSet(ClosedOf(p))
      BY FiniteTables DEF TitleInv, OwnershipInv
    <3>3. /\ Cardinality(AcceptedOf(p)') = Cardinality(AcceptedOf(p)) + 1
          /\ Cardinality(ClosedOf(p)') = Cardinality(ClosedOf(p)) + 1
      BY <3>1, <3>2, FS_AddElement
    <3> QED BY <2>1, <3>3
  <2> QED BY <2>3, <2>4
<1> QED BY <1>1, TitleInductive, PTL DEF Spec, OnlyRacesUnmatchSales

-----------------------------------------------------------------------------
(* Grants *)

\* Where an open grant of a home comes from.
LEMMA GrantFrom ==
    ASSUME TypeOK, [Next]_vars, NEW p, NEW g \in OpenGrants(p)'
    PROVE  \/ /\ g \in OpenGrants(p)
              /\ grant'[g].by = grant[g].by /\ grant'[g].subject = grant[g].subject
              /\ ~\E r \in Requests : AcceptCommit(r) /\ g \in req[r].closing
           \/ /\ g \notin DOMAIN grant
              /\ \E r \in Requests : ShareCommit(r)
<1>1. g \in DOMAIN grant' /\ grant'[g].state = "open" /\ grant'[g].property = p
  BY DEF OpenGrants
<1> QED BY <1>1, OpenBefore DEF OpenGrants, IsOpen

LEMMA NewGrant ==
    ASSUME TypeOK, NEW r \in Requests, ShareCommit(r), NEW p,
           NEW g \in OpenGrants(p)', g \notin DOMAIN grant
    PROVE  /\ req[r].at = "share.commit" /\ req[r].property = p
           /\ grant'[g].by = req[r].me /\ grant'[g].subject = req[r].subject
           /\ UNCHANGED period
           /\ \A h \in DOMAIN grant' : h # g => h \in DOMAIN grant
<1>1. PICK N : /\ DOMAIN grant' = DOMAIN grant \cup {N}
               /\ grant'[N].property = req[r].property
               /\ grant'[N].subject = req[r].subject /\ grant'[N].by = req[r].me
  BY SharedGrant
<1>2. g = N /\ grant'[g].property = p
  BY <1>1 DEF OpenGrants
<1> QED BY <1>1, <1>2 DEF ShareCommit

\* What a hand-over closes was all there was, and only a sharing that commits meanwhile adds
\* to it.
LEMMA AllClosingStep ==
    ASSUME TypeOK, [Next]_vars, NEW p, AllClosing(p), ~SharedDuringSale(p)
    PROVE  AllClosing(p)'
<1>0. req \in [Requests -> Request]
  BY DEF TypeOK
<1> SUFFICES ASSUME NEW r \in Requests, HandoverOf(p, r)', NEW g \in OpenGrants(p)'
             PROVE  g \in req'[r].closing
  BY DEF AllClosing
<1>1. req'[r].at = "accept.commit" /\ offer'[req'[r].offer].property = p
  BY DEF HandoverOf
<1>2. CASE req'[r] = req[r]
  <2>1. req[r].offer \in DOMAIN offer
    BY <1>1, <1>2 DEF TypeOK, ReqRefersTo
  <2>2. HandoverOf(p, r)
    BY <1>1, <1>2, <2>1, OffersLast DEF HandoverOf
  <2>3. g \in OpenGrants(p) => g \in req[r].closing
    BY <2>2 DEF AllClosing
  <2>4. ASSUME NEW q \in Requests, ShareCommit(q), g \notin DOMAIN grant PROVE FALSE
    <3>1. req[q].at = "share.commit" /\ req[q].property = p
      BY <2>4, NewGrant
    <3> QED BY <2>2, <3>1 DEF SharedDuringSale, HandoverRunning, InFlight
  <2> QED BY <1>2, <2>3, <2>4, GrantFrom
<1>3. CASE AcceptTx(r) /\ req'[r] # Idle
  <2>1. /\ req'[r].offer = req[r].offer /\ UNCHANGED <<offer, grant>>
        /\ req'[r].closing = {h \in DOMAIN grant :
                                 /\ grant[h].property = offer[req[r].offer].property
                                 /\ grant[h].state = "open"}
    BY <1>0, <1>3 DEF AcceptTx, Finish
  <2> QED BY <1>1, <2>1 DEF OpenGrants
<1> QED BY <1>1, <1>2, <1>3, StaysEndsOrSteps, Arrivals DEF Idle

\* Grants stay the owner's, unless the home is sold, and then they are closed.
LEMMA GrantorsStep ==
    ASSUME TitleInv, [Next]_vars, NEW p, GrantsInOrder(p), ~SharedDuringSale(p),
           NEW g \in OpenGrants(p)'
    PROVE  \E me : me = grant'[g].by /\ is_current_owner(me, p)'
<1>0. TypeOK
  BY DEF TitleInv, OwnershipInv
<1>1. CASE /\ g \in OpenGrants(p) /\ grant'[g].by = grant[g].by
           /\ ~\E r \in Requests : AcceptCommit(r) /\ g \in req[r].closing
  <2>1. is_current_owner(grant[g].by, p)
    BY <1>1 DEF GrantsInOrder
  <2>2. ASSUME NEW r \in Requests, AcceptCommit(r) PROVE p # offer[req[r].offer].property
    <3>1. HandoverOf(p, r) => g \in req[r].closing
      BY <1>1 DEF GrantsInOrder, AllClosing
    <3> QED BY <1>1, <2>2, <3>1 DEF HandoverOf, AcceptCommit
  <2>3. \A me : is_current_owner(me, p) => is_current_owner(me, p)'
    BY <2>2, OwnersKept, Writers DEF WritesPeriod
  <2> QED BY <1>1, <2>1, <2>3
<1>2. ASSUME g \notin DOMAIN grant, NEW r \in Requests, ShareCommit(r)
      PROVE  \E me : me = grant'[g].by /\ is_current_owner(me, p)'
  <2>1. /\ req[r].at = "share.commit" /\ req[r].property = p
        /\ grant'[g].by = req[r].me /\ UNCHANGED period
    BY <1>0, <1>2, NewGrant
  <2>2. is_current_owner(req[r].me, p)
    BY <2>1 DEF SharedDuringSale, InFlight
  <2>3. \A me : is_current_owner(me, p) => is_current_owner(me, p)'
    BY <2>1 DEF is_current_owner, OpenPeriods
  <2> QED BY <2>1, <2>2, <2>3
<1> QED BY <1>0, <1>1, <1>2, GrantFrom

\* The step that hands a home over closes all that it had selected.
LEMMA SaleClearsGrants ==
    ASSUME TitleInv, [Next]_vars, NEW p, AllClosing(p), OpenPeriods(p)' # OpenPeriods(p)
    PROVE  OpenGrants(p)' = {}
<1>0. TypeOK
  BY DEF TitleInv, OwnershipInv
<1>1. ASSUME NEW r \in Requests, VerifyWrite(r) PROVE FALSE
  <2>1. /\ DOMAIN period' = DOMAIN period
        /\ \A n \in DOMAIN period :
              period'[n].property = period[n].property /\ period'[n].open = period[n].open
    BY <1>0, <1>1, VerifiedPeriods
  <2> QED BY <2>1 DEF OpenPeriods
<1>2. ~UNCHANGED period
  BY DEF OpenPeriods
<1>3. PICK r \in Requests : AcceptCommit(r)
  <2>1. \/ UNCHANGED period
        \/ \E r \in Requests : AcceptCommit(r)
        \/ \E r \in Requests : VerifyWrite(r)
    BY <1>0, Writers DEF WritesPeriod
  <2> QED BY <1>1, <1>2, <2>1
<1>4. p = offer[req[r].offer].property
  <2>1. PICK h \in Properties, k \in DOMAIN period, N \in DOMAIN period' :
            /\ h = offer[req[r].offer].property
            /\ DOMAIN period' = DOMAIN period \cup {N} /\ N \notin DOMAIN period
            /\ period'[N].property = h /\ period[k].property = h
            /\ \A n \in DOMAIN period :
                  /\ period'[n].property = period[n].property
                  /\ period'[n].open <=> (period[n].open /\ n # k)
    BY ONLY TitleInv, <1>3, SoldPeriods
  <2>2. CASE p # h
    BY <2>1, <2>2 DEF OpenPeriods
  <2> QED BY <2>1, <2>2
<1>5. HandoverOf(p, r)
  BY <1>3, <1>4 DEF HandoverOf, AcceptCommit
<1>6. ASSUME NEW g \in OpenGrants(p)' PROVE FALSE
  <2>1. g \in DOMAIN grant /\ g \notin req[r].closing /\ grant[g].state = "open"
        /\ grant[g].property = p
    <3>1. g \in DOMAIN grant' /\ grant'[g].state = "open" /\ grant'[g].property = p
      BY <1>6 DEF OpenGrants
    <3> QED BY <1>0, <1>3, <3>1, SoldGrants
  <2> QED BY <1>5, <2>1 DEF AllClosing, OpenGrants
<1> QED BY <1>6

\* A new owner starts with a clean slate, but for sharings that commit during or after the
\* sale; and a sale during which none commits clears it again (transfer.service.ts:94-98).
THEOREM GrantsOnlyRace == Spec => OnlyRacesLeaveGrants
<1>1. TitleInv /\ [Next]_vars =>
          [\A p \in Properties :
              /\ GrantsInOrder(p) => GrantsInOrder(p)' \/ SharedDuringSale(p)
              /\ AllClosing(p) /\ OpenPeriods(p)' # OpenPeriods(p) => OpenGrants(p)' = {}]_vars
  <2>1. ASSUME TitleInv, [Next]_vars, NEW p \in Properties,
               GrantsInOrder(p), ~SharedDuringSale(p)
        PROVE  GrantsInOrder(p)'
    <3>1. AllClosing(p)'
      BY <2>1, AllClosingStep DEF GrantsInOrder, TitleInv, OwnershipInv
    <3>2. \A g \in OpenGrants(p)' : \E me : me = grant'[g].by /\ is_current_owner(me, p)'
      BY <2>1, GrantorsStep
    <3> QED BY <3>1, <3>2 DEF GrantsInOrder, is_current_owner, OpenPeriods
  <2> QED BY <2>1, SaleClearsGrants
<1> QED BY <1>1, TitleInductive, PTL DEF Spec, OnlyRacesLeaveGrants

-----------------------------------------------------------------------------
(* Sharings *)

\* What a sharing has found is a grant of the home to its subject.
ShareFound ==
    \A r \in InFlight({"share.write", "share.commit"}) : req[r].existing # 0 =>
        /\ grant[req[r].existing].property = req[r].property
        /\ grant[req[r].existing].subject = req[r].subject

\* Two sharings about to commit do not replace the same grant: the first holds its lock.
ReplacingIsExclusive ==
    \A q, r \in InFlight({"share.commit"}) :
        q # r /\ req[q].existing # 0 => req[q].existing # req[r].existing

SharesInv == TitleInv /\ ShareFound /\ ReplacingIsExclusive

\* A request at a sharing's statement was there before, or has just found, or has written
\* under the policies.
LEMMA SharingMoves ==
    ASSUME TypeOK, [Next]_vars, NEW r \in Requests,
           req'[r].at \in {"share.write", "share.commit"}
    PROVE  \/ req'[r] = req[r]
           \/ /\ UNCHANGED <<grant, period>> /\ req'[r].at = "share.write"
              /\ LET found == {g \in DOMAIN grant :
                                  /\ grant[g].property = req'[r].property
                                  /\ grant[g].subject = req'[r].subject
                                  /\ grant[g].state = "open"
                                  /\ \E me : me = req'[r].me /\ grant_select(me, g)}
                 IN  IF found = {} THEN req'[r].existing = 0 ELSE req'[r].existing \in found
           \/ /\ UNCHANGED <<grant, period>> /\ ShareWrite(r)
              /\ req[r].at = "share.write" /\ req'[r].at = "share.commit"
              /\ req'[r].property = req[r].property /\ req'[r].subject = req[r].subject
              /\ req'[r].me = req[r].me /\ req'[r].existing = req[r].existing
<1>0. req \in [Requests -> Request]
  BY DEF TypeOK
<1>1. ASSUME NEW me \in Persons, NEW subject \in Persons, NEW p \in Properties,
             NEW role \in Roles, ShareFind(r, me, p, subject, role)
      PROVE  /\ UNCHANGED <<grant, period>> /\ req'[r].at = "share.write"
             /\ LET found == {g \in DOMAIN grant :
                                 /\ grant[g].property = req'[r].property
                                 /\ grant[g].subject = req'[r].subject
                                 /\ grant[g].state = "open"
                                 /\ \E m : m = req'[r].me /\ grant_select(m, g)}
                IN  IF found = {} THEN req'[r].existing = 0 ELSE req'[r].existing \in found
  <2> DEFINE found == {g \in DOMAIN grant :
                          /\ grant[g].property = p /\ grant[g].subject = subject
                          /\ grant[g].state = "open" /\ grant_select(me, g)}
  <2>1. PICK existing \in IF found = {} THEN {0} ELSE found :
            req' = [req EXCEPT ![r] =
                       [at |-> "share.write", me |-> me, property |-> p,
                        subject |-> subject, permission |-> role, existing |-> existing]]
    BY <1>1 DEF ShareFind
  <2>2. /\ req'[r].at = "share.write" /\ req'[r].me = me /\ req'[r].property = p
        /\ req'[r].subject = subject /\ req'[r].existing = existing
    BY <1>0, <2>1
  <2> QED BY <1>1, <2>1, <2>2 DEF ShareFind
<1>2. ASSUME ShareWrite(r), req'[r].at = "share.commit"
      PROVE  /\ UNCHANGED <<grant, period>> /\ req[r].at = "share.write"
             /\ req'[r].property = req[r].property /\ req'[r].subject = req[r].subject
             /\ req'[r].me = req[r].me /\ req'[r].existing = req[r].existing
  <2>1. req[r] \in ShareReq
    BY <1>0, <1>2, RequestKinds DEF ShareWrite
  <2> QED BY <1>0, <1>2, <2>1 DEF ShareWrite, ShareReq, Finish, Idle
<1>3. CASE req'[r].at = "share.write"
  BY <1>1, <1>3, StaysEndsOrSteps, Arrivals DEF Idle
<1>4. CASE req'[r].at = "share.commit"
  BY <1>2, <1>4, StaysEndsOrSteps, Arrivals DEF Idle
<1> QED BY <1>3, <1>4

LEMMA ShareFoundStep ==
    ASSUME TypeOK, ShareFound, [Next]_vars
    PROVE  ShareFound'
<1> SUFFICES ASSUME NEW r \in Requests, req'[r].at \in {"share.write", "share.commit"},
                    req'[r].existing # 0
             PROVE  /\ grant'[req'[r].existing].property = req'[r].property
                    /\ grant'[req'[r].existing].subject = req'[r].subject
  BY DEF ShareFound, InFlight
<1>1. ASSUME /\ req[r].at \in {"share.write", "share.commit"}
             /\ req'[r].property = req[r].property /\ req'[r].subject = req[r].subject
             /\ req'[r].existing = req[r].existing
      PROVE  /\ grant'[req'[r].existing].property = req'[r].property
             /\ grant'[req'[r].existing].subject = req'[r].subject
  <2>1. req[r].existing \in DOMAIN grant
    BY <1>1 DEF TypeOK, ReqRefersTo
  <2> QED BY <1>1, <2>1, GrantsLast DEF ShareFound, InFlight
<1> QED BY <1>1, SharingMoves

LEMMA ReplacingStep ==
    ASSUME TypeOK, ReplacingIsExclusive, [Next]_vars
    PROVE  ReplacingIsExclusive'
<1>1. ASSUME NEW q \in Requests, NEW r \in Requests, q # r, req[q].at = "share.commit",
             req[q].existing # 0, ShareWrite(r), req'[r].at = "share.commit"
      PROVE  req[q].existing # req'[r].existing
  <2>1. req'[r].existing = req[r].existing
    BY <1>1, SharingMoves
  <2> QED BY <1>1, <2>1 DEF ShareWrite, GrantLocked, DeletedBy
<1> SUFFICES ASSUME NEW q \in Requests, NEW r \in Requests, q # r,
                    req'[q].at = "share.commit", req'[r].at = "share.commit",
                    req'[q].existing # 0
             PROVE  req'[q].existing # req'[r].existing
  BY DEF ReplacingIsExclusive, InFlight
<1>2. /\ req'[q] = req[q] \/ ShareWrite(q)
      /\ req'[r] = req[r] \/ ShareWrite(r)
  BY SharingMoves
<1>3. CASE req'[q] = req[q] /\ req'[r] = req[r]
  BY <1>3 DEF ReplacingIsExclusive, InFlight
<1>4. CASE ShareWrite(q)
  <2>1. req'[r] = req[r]
    BY <1>4, OtherRequests DEF Continue, SharingContinue
  <2> QED BY <1>1, <1>4, <2>1
<1>5. CASE ShareWrite(r)
  <2>1. req'[q] = req[q]
    BY <1>5, OtherRequests DEF Continue, SharingContinue
  <2> QED BY <1>1, <1>5, <2>1
<1> QED BY <1>2, <1>3, <1>4, <1>5

LEMMA SharesInductive == Spec => []SharesInv
<1>1. Init => ShareFound /\ ReplacingIsExclusive
  BY DEF Init, Idle, ShareFound, ReplacingIsExclusive, InFlight
<1>2. SharesInv /\ [Next]_vars => SharesInv'
  BY TitleInvStep, ShareFoundStep, ReplacingStep DEF SharesInv, TitleInv, OwnershipInv
<1> QED BY <1>1, <1>2, TitleInvInit, PTL DEF Spec, SharesInv

\* Who owns a home after a step owned it before, or a sale was about to make her its owner.
LEMMA OwnersBefore ==
    ASSUME TitleInv, [Next]_vars, NEW p
    PROVE  \A me : is_current_owner(me, p)' =>
               \/ is_current_owner(me, p)
               \/ \E q \in Requests : HandoverOf(p, q) /\ req[q].me = me
<1>1. CASE ~\E r \in Requests : AcceptCommit(r) /\ p = offer[req[r].offer].property
  <2>1. TypeOK
    BY DEF TitleInv, OwnershipInv
  <2> QED BY <1>1, <2>1, OwnersKept, Writers DEF WritesPeriod
<1>2. ASSUME NEW r \in Requests, AcceptCommit(r), p = offer[req[r].offer].property
      PROVE  \A me : is_current_owner(me, p)' => is_current_owner(me, p) \/ req[r].me = me
  <2>1. PICK h \in Properties, k \in DOMAIN period, N \in DOMAIN period' :
            /\ h = offer[req[r].offer].property
            /\ DOMAIN period' = DOMAIN period \cup {N} /\ N \notin DOMAIN period
            /\ period'[N].person = req[r].me
            /\ \A n \in DOMAIN period :
                  /\ period'[n].property = period[n].property
                  /\ period'[n].person = period[n].person
                  /\ period'[n].open <=> (period[n].open /\ n # k)
    BY ONLY TitleInv, <1>2, SoldPeriods, ZenonT(60)
  <2> QED BY <2>1 DEF is_current_owner, OpenPeriods
<1>3. ASSUME NEW r \in Requests, AcceptCommit(r), p = offer[req[r].offer].property
      PROVE  HandoverOf(p, r)
  BY <1>3 DEF AcceptCommit, HandoverOf
<1> QED BY <1>1, <1>2, <1>3

\* A sharing that commits will replace every grant there is, or be rolled back.
WillReplace(r, s, p) ==
    \/ GrantsTo(s, p) \subseteq {req[r].existing}
    \/ /\ req[r].at = "share.write"
       /\ \/ ~is_current_owner(req[r].me, p)
          \/ req[r].existing # 0 /\ grant[req[r].existing].state = "deleted"

\* After a step there is still at most one grant.
LEMMA SoleStep ==
    ASSUME TypeOK, [Next]_vars, NEW s, NEW p, SharesInOrder(s, p)
    PROVE  \A g, h \in GrantsTo(s, p)' : g = h
<1>1. ASSUME NEW g \in GrantsTo(s, p)', g \in DOMAIN grant PROVE g \in GrantsTo(s, p)
  <2>1. g \in OpenGrants(p)' /\ grant'[g].subject = s
    BY <1>1 DEF GrantsTo
  <2> QED BY <1>1, <2>1, GrantFrom DEF GrantsTo
<1>2. ASSUME NEW g \in GrantsTo(s, p)', NEW h \in GrantsTo(s, p)', g \notin DOMAIN grant, g # h
      PROVE  FALSE
  <2>1. g \in OpenGrants(p)' /\ h \in OpenGrants(p)'
        /\ h \in DOMAIN grant' /\ grant'[h].state = "open" /\ grant'[g].subject = s
    BY <1>2 DEF GrantsTo, OpenGrants
  <2>2. PICK r \in Requests : ShareCommit(r)
    BY <1>2, <2>1, GrantFrom DEF OpenGrants
  <2>3. r \in SharingWith(s, p) /\ req[r].at = "share.commit" /\ h \in DOMAIN grant
    BY <1>2, <2>1, <2>2, NewGrant DEF SharingWith, InFlight
  <2>4. h = req[r].existing
    BY <1>1, <1>2, <2>3 DEF SharesInOrder
  <2> QED BY <2>1, <2>2, <2>3, <2>4, SharedGrant
<1> QED BY <1>1, <1>2 DEF SharesInOrder

\* A sharing that waits while another with the same person commits.
LEMMA WaitingShare ==
    ASSUME SharesInv, [Next]_vars, NEW s, NEW p, SharesInOrder(s, p), ~SharesRace(s, p),
           NEW r \in SharingWith(s, p), NEW q \in SharingWith(s, p),
           req'[r] = req[r], ShareCommit(q)
    PROVE  WillReplace(r, s, p)'
<1>0. TypeOK /\ ShareFound /\ ReplacingIsExclusive /\ r \in Requests /\ q \in Requests
  BY DEF SharesInv, TitleInv, OwnershipInv, SharingWith, InFlight
<1>1. q # r /\ req[q].at = "share.commit"
  BY <1>0, WriterMoves DEF WritesGrant, ShareCommit
<1>2. UNCHANGED period
  BY DEF ShareCommit
<1>3. CASE req[r].at = "share.write" /\ ~is_current_owner(req[r].me, p)
  BY <1>2, <1>3 DEF WillReplace, is_current_owner, OpenPeriods
<1>4. CASE /\ req[r].at = "share.write" /\ req[r].existing # 0
           /\ grant[req[r].existing].state = "deleted"
  <2>1. req[r].existing \in DOMAIN grant
    BY <1>0, <1>4 DEF TypeOK, ReqRefersTo
  <2> QED BY <1>0, <1>4, <2>1, GrantsLast DEF WillReplace
<1>5. CASE GrantsTo(s, p) \subseteq {req[r].existing}
  <2>1. GrantsTo(s, p) \subseteq {req[q].existing}
    BY <1>1 DEF SharesInOrder
  <2>2. ~ReplacesNone(q, p) \/ ~ReplacesNone(r, p)
    BY <1>1 DEF SharesRace
  <2>3. /\ req[q].existing \in OpenGrants(p) => req[q].existing \in GrantsTo(s, p)
        /\ req[r].existing \in OpenGrants(p) => req[r].existing \in GrantsTo(s, p)
    <3>1. 0 \notin DOMAIN grant
      BY <1>0 DEF TypeOK
    <3> QED BY <1>0, <3>1 DEF ShareFound, SharingWith, InFlight, GrantsTo, OpenGrants
  <2>4. /\ req[q].existing = req[r].existing /\ req[q].existing \in DOMAIN grant
        /\ req[q].existing # 0
    <3>1. 0 \notin DOMAIN grant
      BY <1>0 DEF TypeOK
    <3> QED BY <1>5, <2>1, <2>2, <2>3, <3>1 DEF ReplacesNone, OpenGrants
  <2>5. req[r].at = "share.write"
    BY <1>0, <1>1, <2>4 DEF ReplacingIsExclusive, SharingWith, InFlight
  <2>6. grant'[req[r].existing].state = "deleted"
    BY <1>0, <2>4, SharedGrant
  <2> QED BY <2>4, <2>5, <2>6 DEF WillReplace
<1> QED BY <1>3, <1>4, <1>5 DEF SharesInOrder

\* A sharing that stays where it is while none with the same person commits.
LEMMA StayingShare ==
    ASSUME SharesInv, [Next]_vars, NEW s, NEW p, SharesInOrder(s, p), ~SharesRace(s, p),
           NEW r \in SharingWith(s, p), req'[r] = req[r],
           ~\E q \in SharingWith(s, p) : ShareCommit(q)
    PROVE  WillReplace(r, s, p)'
<1>0. TypeOK /\ TitleInv /\ r \in Requests
  BY DEF SharesInv, TitleInv, OwnershipInv, SharingWith, InFlight
<1>1. GrantsTo(s, p)' \subseteq GrantsTo(s, p)
  <2> SUFFICES ASSUME NEW g \in GrantsTo(s, p)' PROVE g \in GrantsTo(s, p)
    OBVIOUS
  <2>1. g \in OpenGrants(p)' /\ grant'[g].subject = s
    BY DEF GrantsTo
  <2>2. ASSUME NEW q \in Requests, ShareCommit(q), g \notin DOMAIN grant PROVE FALSE
    <3>1. q \in SharingWith(s, p)
      BY <1>0, <2>1, <2>2, NewGrant DEF SharingWith, InFlight
    <3> QED BY <2>2, <3>1
  <2> QED BY <1>0, <2>1, <2>2, GrantFrom DEF GrantsTo
<1>2. CASE GrantsTo(s, p) \subseteq {req[r].existing}
  BY <1>1, <1>2 DEF WillReplace
<1>3. CASE req[r].at = "share.write" /\ ~is_current_owner(req[r].me, p)
  <2>1. PICK me : me = req[r].me
    OBVIOUS
  <2>2. ~is_current_owner(me, p)'
    BY <1>0, <1>3, <2>1, OwnersBefore DEF SharesRace
  <2>3. me = req'[r].me /\ req'[r].at = "share.write"
    BY <1>3, <2>1
  <2> QED BY <2>2, <2>3 DEF WillReplace, is_current_owner, OpenPeriods
<1>4. CASE /\ req[r].at = "share.write" /\ req[r].existing # 0
           /\ grant[req[r].existing].state = "deleted"
  <2>1. req[r].existing \in DOMAIN grant
    BY <1>0, <1>4 DEF TypeOK, ReqRefersTo
  <2> QED BY <1>0, <1>4, <2>1, GrantsLast DEF WillReplace
<1> QED BY <1>2, <1>3, <1>4 DEF SharesInOrder, WillReplace

LEMMA SharesStep ==
    ASSUME SharesInv, [Next]_vars, NEW s, NEW p, SharesInOrder(s, p), ~SharesRace(s, p),
           NEW r \in SharingWith(s, p)'
    PROVE  WillReplace(r, s, p)'
<1>0. TypeOK /\ r \in Requests
  BY DEF SharesInv, TitleInv, OwnershipInv, SharingWith, InFlight
<1>1. /\ req'[r].at \in {"share.write", "share.commit"}
      /\ req'[r].property = p /\ req'[r].subject = s
  BY DEF SharingWith, InFlight
<1>2. CASE req'[r] = req[r]
  <2>1. r \in SharingWith(s, p)
    BY <1>0, <1>1, <1>2 DEF SharingWith, InFlight
  <2> QED BY <1>2, <2>1, WaitingShare, StayingShare
<1>3. ASSUME UNCHANGED <<grant, period>>, req'[r].at = "share.write", NEW found,
             found = {g \in DOMAIN grant :
                         /\ grant[g].property = req'[r].property
                         /\ grant[g].subject = req'[r].subject
                         /\ grant[g].state = "open"
                         /\ \E me : me = req'[r].me /\ grant_select(me, g)},
             IF found = {} THEN req'[r].existing = 0 ELSE req'[r].existing \in found
      PROVE  WillReplace(r, s, p)'
  <2>1. PICK me : me = req'[r].me
    OBVIOUS
  <2>2. CASE is_current_owner(me, p)
    <3>1. found = GrantsTo(s, p)
      BY <1>1, <1>3, <2>1, <2>2 DEF GrantsTo, OpenGrants, grant_select
    <3>2. GrantsTo(s, p) \subseteq {req'[r].existing}
      BY <1>3, <3>1 DEF SharesInOrder
    <3>3. GrantsTo(s, p)' = GrantsTo(s, p)
      BY <1>3 DEF GrantsTo, OpenGrants
    <3> QED BY <3>2, <3>3 DEF WillReplace
  <2>3. CASE ~is_current_owner(me, p)
    BY <1>3, <2>1, <2>3 DEF WillReplace, is_current_owner, OpenPeriods
  <2> QED BY <2>2, <2>3
<1>4. ASSUME UNCHANGED <<grant, period>>, ShareWrite(r), req'[r].at = "share.commit",
             req[r].at = "share.write",
             req'[r].property = req[r].property, req'[r].subject = req[r].subject,
             req'[r].existing = req[r].existing
      PROVE  WillReplace(r, s, p)'
  <2>1. r \in SharingWith(s, p)
    BY <1>0, <1>1, <1>4 DEF SharingWith, InFlight
  <2>2. /\ is_current_owner(req[r].me, p)
        /\ req[r].existing # 0 => grant[req[r].existing].state # "deleted"
    <3>1. req \in [Requests -> Request]
      BY <1>0 DEF TypeOK
    <3>2. req'[r] # Idle
      BY <1>4 DEF Idle
    <3> QED BY <1>0, <1>1, <1>4, <3>1, <3>2 DEF ShareWrite, Finish, grant_insert, grant_delete
  <2>3. GrantsTo(s, p) \subseteq {req'[r].existing}
    BY <1>4, <2>1, <2>2 DEF SharesInOrder
  <2>4. GrantsTo(s, p)' = GrantsTo(s, p)
    BY <1>4 DEF GrantsTo, OpenGrants
  <2> QED BY <2>3, <2>4 DEF WillReplace
<1> QED BY <1>0, <1>1, <1>2, <1>3, <1>4, SharingMoves

\* Sharing again replaces the earlier grant, until the first two sharings of a home with a
\* person overlap, or somebody who shares the home is about to become its owner
\* (sharing.service.ts:36-47).
THEOREM SharesOnlyRace == Spec => OnlyRacesDoubleGrants
<1>1. SharesInv /\ [Next]_vars =>
          [\A p \in Properties, s \in Persons :
              SharesInOrder(s, p) => SharesInOrder(s, p)' \/ SharesRace(s, p)]_vars
  <2> SUFFICES ASSUME SharesInv, [Next]_vars, NEW p \in Properties, NEW s \in Persons,
                      SharesInOrder(s, p), ~SharesRace(s, p)
               PROVE  SharesInOrder(s, p)'
    OBVIOUS
  <2>1. \A g, h \in GrantsTo(s, p)' : g = h
    BY SoleStep DEF SharesInv, TitleInv, OwnershipInv
  <2>2. \A r \in SharingWith(s, p)' : WillReplace(r, s, p)'
    BY SharesStep
  <2> QED BY <2>1, <2>2 DEF SharesInOrder, WillReplace
<1> QED BY <1>1, SharesInductive, PTL DEF Spec, OnlyRacesDoubleGrants

=============================================================================
