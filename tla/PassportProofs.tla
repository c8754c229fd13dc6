--------------------------- MODULE PassportProofs ---------------------------
(***************************************************************************)
(* Theorems about Passport, for every set of people, homes and requests    *)
(* and every bound, checked by TLAPS.                                      *)
(***************************************************************************)
EXTENDS Passport, TLAPS, SequenceTheorems, FiniteSetTheorems

-----------------------------------------------------------------------------
(* Tables *)

\* A table rewritten row by row is a table of the same length.
LEMMA RewrittenTable ==
    ASSUME NEW S, NEW T, NEW s \in Seq(S), NEW t,
           t = [n \in DOMAIN s |-> t[n]],
           \A n \in DOMAIN s : t[n] \in T
    PROVE  t \in Seq(T) /\ Len(t) = Len(s) /\ DOMAIN t = DOMAIN s
<1>1. Len(s) \in Nat /\ DOMAIN s = 1..Len(s)
  BY LenProperties
<1>2. t \in [1..Len(s) -> T]
  BY <1>1
<1>3. t \in Seq(T) /\ Len(t) = Len(s)
  BY <1>1, <1>2, SeqDef, LenProperties
<1> QED BY <1>1, <1>2, <1>3

\* Inserting a row leaves the other rows where they are.
LEMMA InsertedRow ==
    ASSUME NEW T, NEW s \in Seq(T), NEW e \in T
    PROVE  /\ Append(s, e) \in Seq(T)
           /\ DOMAIN Append(s, e) = DOMAIN s \cup {Len(s) + 1}
           /\ Len(s) + 1 \notin DOMAIN s
           /\ DOMAIN s \subseteq Nat \ {0}
           /\ Append(s, e)[Len(s) + 1] = e
           /\ \A n \in DOMAIN s : Append(s, e)[n] = s[n]
  BY AppendProperties, LenProperties

\* A row of a table has the table's row type.
LEMMA RowType ==
    ASSUME NEW T, NEW s \in Seq(T), NEW n \in DOMAIN s
    PROVE  s[n] \in T
  BY ElementOfSeq, LenProperties

\* Updating one field of one row.
LEMMA UpdatedRow ==
    ASSUME NEW T, NEW s \in Seq(T), NEW n \in DOMAIN s, NEW e \in T
    PROVE  [s EXCEPT ![n] = e] \in Seq(T) /\ DOMAIN [s EXCEPT ![n] = e] = DOMAIN s
  BY ExceptSeq, LenProperties

-----------------------------------------------------------------------------
(* Requests *)

\* A request's label tells its type.
LEMMA RequestKinds ==
    ASSUME NEW q \in Request
    PROVE  /\ q.at \in {"initiate.supersede", "initiate.create"} => q \in InitiateReq
           /\ q.at = "accept.tx" => q \in AcceptReq
           /\ q.at = "accept.commit" => q \in HandoverReq
           /\ q.at = "cancel.write" => q \in CancelReq
           /\ q.at \in {"share.write", "share.commit"} => q \in ShareReq
           /\ q.at = "revoke.delete" => q \in RevokeReq
           /\ q.at = "verify.write" => q \in VerifyReq
  BY DEF Request, Idle, InitiateReq, AcceptReq, HandoverReq, CancelReq, ShareReq,
         RevokeReq, VerifyReq

\* A step that moves one request on keeps the requests well-typed.
LEMMA RequestStep ==
    ASSUME TypeOK, NEW r \in Requests,
           req' = [req EXCEPT ![r] = req'[r]],
           req'[r] \in Request,
           ReqRefersTo(req[r])',
           DOMAIN offer \subseteq DOMAIN offer',
           DOMAIN grant \subseteq DOMAIN grant'
    PROVE  req' \in [Requests -> Request] /\ \A s \in Requests : ReqRefersTo(req[s])'
<1>1. req' \in [Requests -> Request]
  BY DEF TypeOK
<1>2. ASSUME NEW s \in Requests, s # r PROVE ReqRefersTo(req[s])'
  <2>1. req'[s] = req[s] /\ ReqRefersTo(req[s])
    BY <1>2 DEF TypeOK
  <2> QED BY <2>1 DEF ReqRefersTo
<1> QED BY <1>1, <1>2

\* So does a step that ends one.
LEMMA FinishStep ==
    ASSUME TypeOK, NEW r \in Requests, Finish(r),
           DOMAIN offer \subseteq DOMAIN offer',
           DOMAIN grant \subseteq DOMAIN grant'
    PROVE  req' \in [Requests -> Request] /\ \A s \in Requests : ReqRefersTo(req[s])'
<1>1. req'[r] = Idle /\ req' = [req EXCEPT ![r] = req'[r]]
  BY DEF TypeOK, Finish
<1>2. req'[r] \in Request /\ ReqRefersTo(req[r])'
  BY <1>1 DEF Request, Idle, ReqRefersTo
<1> QED BY <1>1, <1>2, RequestStep

-----------------------------------------------------------------------------
(* Each action keeps the types *)

LEMMA InitiateType ==
    ASSUME TypeOK, NEW r \in Requests,
           \/ \E me \in Persons, p \in Properties, mail \in Persons :
                 InitiateCheck(r, me, p, mail)
           \/ InitiateSupersede(r)
           \/ InitiateCreate(r)
    PROVE  TypeOK'
<1>1. ASSUME NEW me \in Persons, NEW p \in Properties, NEW mail \in Persons,
             InitiateCheck(r, me, p, mail)
      PROVE  TypeOK'
  <2>1. UNCHANGED <<period, grant, offer, registered, mitid, sessions>>
    BY <1>1 DEF InitiateCheck
  <2>2. /\ req' = [req EXCEPT ![r] = req'[r]]
        /\ req'[r] \in InitiateReq /\ req'[r].at = "initiate.supersede"
    BY <1>1 DEF InitiateCheck, InitiateReq, TypeOK
  <2>3. req'[r] \in Request /\ ReqRefersTo(req[r])'
    BY <2>2 DEF Request, ReqRefersTo
  <2>4. req' \in [Requests -> Request] /\ \A s \in Requests : ReqRefersTo(req[s])'
    BY <2>1, <2>2, <2>3, RequestStep
  <2> QED BY <2>1, <2>4 DEF TypeOK
<1>2. CASE InitiateSupersede(r)
  <2>1. offer' = [n \in DOMAIN offer |->
                    IF ToSupersede(offer[n], req[r].property)
                    THEN [offer[n] EXCEPT !.status = "superseded"] ELSE offer[n]]
    BY <1>2 DEF InitiateSupersede
  <2>2. ASSUME NEW n \in DOMAIN offer PROVE offer'[n] \in Offer
    <3>1. offer[n] \in Offer
      BY RowType DEF TypeOK
    <3> QED BY <2>1, <3>1 DEF Offer
  <2>3. offer' \in Seq(Offer) /\ DOMAIN offer' = DOMAIN offer
    <3>1. offer \in Seq(Offer) /\ offer' = [n \in DOMAIN offer |-> offer'[n]]
      BY <2>1 DEF TypeOK
    <3> QED BY <2>2, <3>1, RewrittenTable
  <2>4. req[r] \in InitiateReq
    BY <1>2, RequestKinds DEF TypeOK, InitiateSupersede
  <2>5. /\ req' = [req EXCEPT ![r] = req'[r]]
        /\ req'[r] \in InitiateReq /\ req'[r].at = "initiate.create"
    BY <1>2, <2>4 DEF InitiateSupersede, InitiateReq, TypeOK
  <2>6. UNCHANGED <<period, grant, registered, mitid, sessions>>
    BY <1>2 DEF InitiateSupersede
  <2>7. req'[r] \in Request /\ ReqRefersTo(req[r])'
    BY <2>5 DEF Request, ReqRefersTo
  <2>8. req' \in [Requests -> Request] /\ \A s \in Requests : ReqRefersTo(req[s])'
    BY <2>3, <2>5, <2>6, <2>7, RequestStep
  <2> QED BY <2>3, <2>6, <2>8 DEF TypeOK
<1>3. CASE InitiateCreate(r)
  <2> DEFINE o == [property |-> req[r].property, from |-> req[r].me,
                   toEmail |-> req[r].toEmail, toPersonId |-> req[r].toPersonId,
                   status |-> "pending"]
  <2>1. req[r] \in InitiateReq
    BY <1>3, RequestKinds DEF TypeOK, InitiateCreate
  <2>2. o \in Offer
    BY <2>1 DEF InitiateReq, Offer
  <2>3. offer' = Append(offer, o) /\ Finish(r) /\ UNCHANGED <<period, grant, registered, mitid, sessions>>
    BY <1>3 DEF InitiateCreate
  <2>4. offer' \in Seq(Offer) /\ DOMAIN offer \subseteq DOMAIN offer'
    <3> HIDE DEF o
    <3> QED BY <2>2, <2>3, InsertedRow DEF TypeOK
  <2>5. req' \in [Requests -> Request] /\ \A s \in Requests : ReqRefersTo(req[s])'
    BY <2>3, <2>4, FinishStep
  <2> QED BY <2>3, <2>4, <2>5 DEF TypeOK
<1> QED BY <1>1, <1>2, <1>3

LEMMA AcceptType ==
    ASSUME TypeOK, NEW r \in Requests,
           \/ \E me \in Persons, n \in DOMAIN offer : AcceptCheck(r, me, n)
           \/ AcceptTx(r)
           \/ AcceptCommit(r)
    PROVE  TypeOK'
<1>1. ASSUME NEW me \in Persons, NEW n \in DOMAIN offer, AcceptCheck(r, me, n)
      PROVE  TypeOK'
  <2>1. UNCHANGED <<period, grant, offer, registered, mitid, sessions>>
    BY <1>1 DEF AcceptCheck
  <2>2. n \in Nat
    BY InsertedRow, LenProperties DEF TypeOK
  <2>3. /\ req' = [req EXCEPT ![r] = req'[r]]
        /\ req'[r] \in AcceptReq /\ req'[r].offer = n
    BY <1>1, <2>2 DEF AcceptCheck, AcceptReq, TypeOK
  <2>4. req'[r] \in Request /\ ReqRefersTo(req[r])'
    BY <2>1, <2>3 DEF Request, AcceptReq, ReqRefersTo
  <2>5. req' \in [Requests -> Request] /\ \A s \in Requests : ReqRefersTo(req[s])'
    BY <2>1, <2>3, <2>4, RequestStep
  <2> QED BY <2>1, <2>5 DEF TypeOK
<1>2. CASE AcceptTx(r)
  <2> DEFINE p == offer[req[r].offer].property
             open == {g \in DOMAIN grant : grant[g].property = p /\ grant[g].state = "open"}
             q == [at |-> "accept.commit", me |-> req[r].me, offer |-> req[r].offer,
                   closing |-> open]
  <2>1. UNCHANGED <<period, grant, offer, registered, mitid, sessions>>
    BY <1>2 DEF AcceptTx
  <2>2. req[r] \in AcceptReq /\ req[r].offer \in DOMAIN offer
    BY <1>2, RequestKinds DEF AcceptTx, TypeOK, ReqRefersTo
  <2>3. DOMAIN grant \subseteq Nat
    BY LenProperties DEF TypeOK
  <2>4. CASE Finish(r)
    BY <2>1, <2>4, FinishStep DEF TypeOK
  <2>5. CASE req' = [req EXCEPT ![r] = q]
    <3>1. req' = [req EXCEPT ![r] = req'[r]] /\ req'[r] = q
      BY <2>5 DEF TypeOK
    <3>2. q \in HandoverReq /\ open \subseteq DOMAIN grant
      BY <2>2, <2>3 DEF AcceptReq, HandoverReq
    <3>3. req'[r] \in Request /\ ReqRefersTo(req[r])'
      BY <2>1, <2>2, <3>1, <3>2 DEF Request, ReqRefersTo
    <3>4. req' \in [Requests -> Request] /\ \A s \in Requests : ReqRefersTo(req[s])'
      BY <2>1, <3>1, <3>3, RequestStep
    <3> QED BY <2>1, <3>4 DEF TypeOK
  <2> QED BY <1>2, <2>4, <2>5 DEF AcceptTx
<1>3. CASE AcceptCommit(r)
  <2> DEFINE o == offer[req[r].offer]
             closed == [n \in DOMAIN period |->
                          IF Sold(period[n], o) THEN [period[n] EXCEPT !.open = FALSE]
                          ELSE period[n]]
             new == NewPeriod(o, req[r].me)
  <2>1. req[r] \in HandoverReq /\ req[r].offer \in DOMAIN offer
    BY <1>3, RequestKinds DEF AcceptCommit, TypeOK, ReqRefersTo
  <2>2. o \in Offer
    BY <2>1, RowType DEF TypeOK
  <2>3. period' \in Seq(Period)
    <3>1. closed \in Seq(Period)
      <4>1. ASSUME NEW n \in DOMAIN period PROVE closed[n] \in Period
        <5>1. period[n] \in Period
          BY RowType DEF TypeOK
        <5> QED BY <5>1 DEF Period
      <4>2. period \in Seq(Period) /\ closed = [n \in DOMAIN period |-> closed[n]]
        BY DEF TypeOK
      <4> HIDE DEF closed
      <4> QED BY <4>1, <4>2, RewrittenTable
    <3>2. new \in Period
      BY <2>1, <2>2 DEF HandoverReq, Offer, Period, NewPeriod
    <3>3. period' = Append(closed, new)
      BY <1>3 DEF AcceptCommit
    <3> HIDE DEF closed, new
    <3> QED BY <3>1, <3>2, <3>3, InsertedRow
  <2>4. grant' \in Seq(Grant) /\ DOMAIN grant' = DOMAIN grant
    <3>1. grant' = [g \in DOMAIN grant |->
                      IF g \in req[r].closing /\ grant[g].state = "open"
                      THEN [grant[g] EXCEPT !.state = "closed"] ELSE grant[g]]
      BY <1>3 DEF AcceptCommit, GrantsAfterSale
    <3>2. ASSUME NEW g \in DOMAIN grant PROVE grant'[g] \in Grant
      <4>1. grant[g] \in Grant
        BY RowType DEF TypeOK
      <4> QED BY <3>1, <4>1 DEF Grant
    <3>3. grant \in Seq(Grant) /\ grant' = [g \in DOMAIN grant |-> grant'[g]]
      BY <3>1 DEF TypeOK
    <3> QED BY <3>2, <3>3, RewrittenTable
  <2>5. offer' \in Seq(Offer) /\ DOMAIN offer' = DOMAIN offer
    <3> DEFINE e == [o EXCEPT !.status = "accepted", !.toPersonId = req[r].me]
    <3>1. e \in Offer
      BY <2>1, <2>2 DEF HandoverReq, Offer
    <3>2. offer' = [offer EXCEPT ![req[r].offer] = e]
      BY <1>3, <2>1 DEF AcceptCommit, OffersAfterSale
    <3> HIDE DEF e
    <3> QED BY <2>1, <3>1, <3>2, UpdatedRow DEF TypeOK
  <2>6. Finish(r) /\ UNCHANGED <<registered, mitid, sessions>>
    BY <1>3 DEF AcceptCommit
  <2>7. req' \in [Requests -> Request] /\ \A s \in Requests : ReqRefersTo(req[s])'
    BY <2>4, <2>5, <2>6, FinishStep
  <2> QED BY <2>3, <2>4, <2>5, <2>6, <2>7 DEF TypeOK
<1> QED BY <1>1, <1>2, <1>3

LEMMA CancelType ==
    ASSUME TypeOK, NEW r \in Requests,
           \/ \E me \in Persons, n \in DOMAIN offer : CancelCheck(r, me, n)
           \/ CancelWrite(r)
    PROVE  TypeOK'
<1>1. ASSUME NEW me \in Persons, NEW n \in DOMAIN offer, CancelCheck(r, me, n)
      PROVE  TypeOK'
  <2>1. UNCHANGED <<period, grant, offer, registered, mitid, sessions>>
    BY <1>1 DEF CancelCheck
  <2>2. n \in Nat
    BY LenProperties DEF TypeOK
  <2>3. /\ req' = [req EXCEPT ![r] = req'[r]]
        /\ req'[r] \in CancelReq /\ req'[r].offer = n
    BY <1>1, <2>2 DEF CancelCheck, CancelReq, TypeOK
  <2>4. req'[r] \in Request /\ ReqRefersTo(req[r])'
    BY <2>1, <2>3 DEF Request, CancelReq, ReqRefersTo
  <2>5. req' \in [Requests -> Request] /\ \A s \in Requests : ReqRefersTo(req[s])'
    BY <2>1, <2>3, <2>4, RequestStep
  <2> QED BY <2>1, <2>5 DEF TypeOK
<1>2. CASE CancelWrite(r)
  <2> DEFINE e == [offer[req[r].offer] EXCEPT !.status = "cancelled"]
  <2>1. req[r].offer \in DOMAIN offer
    BY <1>2 DEF CancelWrite, TypeOK, ReqRefersTo
  <2>2. e \in Offer
    <3>1. offer[req[r].offer] \in Offer
      BY <2>1, RowType DEF TypeOK
    <3> QED BY <3>1 DEF Offer
  <2>3. /\ offer' = [offer EXCEPT ![req[r].offer] = e]
        /\ Finish(r) /\ UNCHANGED <<period, grant, registered, mitid, sessions>>
    BY <1>2, <2>1 DEF CancelWrite
  <2>4. offer' \in Seq(Offer) /\ DOMAIN offer' = DOMAIN offer
    <3> HIDE DEF e
    <3> QED BY <2>1, <2>2, <2>3, UpdatedRow DEF TypeOK
  <2>5. req' \in [Requests -> Request] /\ \A s \in Requests : ReqRefersTo(req[s])'
    BY <2>3, <2>4, FinishStep
  <2> QED BY <2>3, <2>4, <2>5 DEF TypeOK
<1> QED BY <1>1, <1>2

LEMMA SharingType ==
    ASSUME TypeOK, NEW r \in Requests, SharingStart(r) \/ SharingContinue(r)
    PROVE  TypeOK'
<1>1. ASSUME NEW me \in Persons, NEW subject \in Persons, NEW p \in Properties,
             NEW role \in Roles, ShareFind(r, me, p, subject, role)
      PROVE  TypeOK'
  <2> DEFINE found == {g \in DOMAIN grant :
                          /\ grant[g].property = p /\ grant[g].subject = subject
                          /\ grant[g].state = "open"
                          /\ grant_select(me, g)}
  <2>1. UNCHANGED <<period, grant, offer, registered, mitid, sessions>>
    BY <1>1 DEF ShareFind
  <2>2. PICK existing \in {0} \cup DOMAIN grant :
           req' = [req EXCEPT ![r] =
              [at |-> "share.write", me |-> me, property |-> p, subject |-> subject,
               permission |-> role, existing |-> existing]]
    <3>1. (IF found = {} THEN {0} ELSE found) \subseteq {0} \cup DOMAIN grant
      OBVIOUS
    <3> QED BY <1>1, <3>1 DEF ShareFind
  <2>3. existing \in Nat
    BY <2>2, LenProperties DEF TypeOK
  <2>4. /\ req' = [req EXCEPT ![r] = req'[r]]
        /\ req'[r] \in ShareReq /\ req'[r].existing = existing
    BY <2>2, <2>3 DEF ShareReq, TypeOK
  <2>5. req'[r] \in Request /\ ReqRefersTo(req[r])'
    BY <2>1, <2>2, <2>4 DEF Request, ShareReq, ReqRefersTo
  <2>6. req' \in [Requests -> Request] /\ \A s \in Requests : ReqRefersTo(req[s])'
    BY <2>1, <2>4, <2>5, RequestStep
  <2> QED BY <2>1, <2>6 DEF TypeOK
<1>2. ASSUME NEW me \in Persons, NEW g \in DOMAIN grant, RevokeRead(r, me, g)
      PROVE  TypeOK'
  <2>1. UNCHANGED <<period, grant, offer, registered, mitid, sessions>>
    BY <1>2 DEF RevokeRead
  <2>2. g \in Nat
    BY LenProperties DEF TypeOK
  <2>3. /\ req' = [req EXCEPT ![r] = req'[r]]
        /\ req'[r] \in RevokeReq /\ req'[r].grant = g
    BY <1>2, <2>2 DEF RevokeRead, RevokeReq, TypeOK
  <2>4. req'[r] \in Request /\ ReqRefersTo(req[r])'
    BY <2>1, <2>3 DEF Request, RevokeReq, ReqRefersTo
  <2>5. req' \in [Requests -> Request] /\ \A s \in Requests : ReqRefersTo(req[s])'
    BY <2>1, <2>3, <2>4, RequestStep
  <2> QED BY <2>1, <2>5 DEF TypeOK
<1>3. CASE ShareWrite(r)
  <2>1. UNCHANGED <<period, grant, offer, registered, mitid, sessions>>
    BY <1>3 DEF ShareWrite
  <2>2. req[r] \in ShareReq /\ ReqRefersTo(req[r])
    BY <1>3, RequestKinds DEF ShareWrite, TypeOK
  <2>3. CASE Finish(r)
    BY <2>1, <2>3, FinishStep DEF TypeOK
  <2>4. CASE req' = [req EXCEPT ![r].at = "share.commit"]
    <3>1. /\ req' = [req EXCEPT ![r] = req'[r]]
          /\ req'[r] \in ShareReq /\ req'[r].existing = req[r].existing
      BY <2>2, <2>4 DEF ShareReq, TypeOK
    <3>2. req'[r] \in Request /\ ReqRefersTo(req[r])'
      BY <1>3, <2>1, <2>2, <3>1 DEF ShareWrite, Request, ShareReq, ReqRefersTo
    <3>3. req' \in [Requests -> Request] /\ \A s \in Requests : ReqRefersTo(req[s])'
      BY <2>1, <3>1, <3>2, RequestStep
    <3> QED BY <2>1, <3>3 DEF TypeOK
  <2> QED BY <1>3, <2>3, <2>4 DEF ShareWrite
<1>4. CASE ShareCommit(r)
  <2> DEFINE kept == [g \in DOMAIN grant |->
                        IF g = req[r].existing
                        THEN [grant[g] EXCEPT !.state = "deleted"] ELSE grant[g]]
             new == [property |-> req[r].property, subject |-> req[r].subject,
                     permission |-> req[r].permission, by |-> req[r].me, state |-> "open"]
  <2>1. new \in Grant
    <3>1. req[r] \in ShareReq
      BY <1>4, RequestKinds DEF ShareCommit, TypeOK
    <3> QED BY <3>1 DEF ShareReq, Grant
  <2>2. kept \in Seq(Grant) /\ DOMAIN kept = DOMAIN grant
    <3>1. ASSUME NEW g \in DOMAIN grant PROVE kept[g] \in Grant
      <4>1. grant[g] \in Grant
        BY RowType DEF TypeOK
      <4> QED BY <4>1 DEF Grant
    <3>2. grant \in Seq(Grant) /\ kept = [g \in DOMAIN grant |-> kept[g]]
      BY DEF TypeOK
    <3> HIDE DEF kept
    <3> QED BY <3>1, <3>2, RewrittenTable
  <2>3. /\ grant' = Append(kept, new)
        /\ Finish(r) /\ UNCHANGED <<period, offer, registered, mitid, sessions>>
    BY <1>4 DEF ShareCommit, GrantsReplacing
  <2>4. grant' \in Seq(Grant) /\ DOMAIN grant \subseteq DOMAIN grant'
    <3> HIDE DEF kept, new
    <3> QED BY <2>1, <2>2, <2>3, InsertedRow
  <2>5. req' \in [Requests -> Request] /\ \A s \in Requests : ReqRefersTo(req[s])'
    BY <2>3, <2>4, FinishStep
  <2> QED BY <2>3, <2>4, <2>5 DEF TypeOK
<1>5. CASE RevokeDelete(r)
  <2> DEFINE e == [grant[req[r].grant] EXCEPT !.state = "deleted"]
  <2>1. req[r].grant \in DOMAIN grant
    BY <1>5 DEF RevokeDelete, TypeOK, ReqRefersTo
  <2>2. e \in Grant
    <3>1. grant[req[r].grant] \in Grant
      BY <2>1, RowType DEF TypeOK
    <3> QED BY <3>1 DEF Grant
  <2>3. /\ grant' = [grant EXCEPT ![req[r].grant] = e] \/ grant' = grant
        /\ Finish(r) /\ UNCHANGED <<period, offer, registered, mitid, sessions>>
    BY <1>5, <2>1 DEF RevokeDelete
  <2>4. grant' \in Seq(Grant) /\ DOMAIN grant' = DOMAIN grant
    <3> HIDE DEF e
    <3> QED BY <2>1, <2>2, <2>3, UpdatedRow DEF TypeOK
  <2>5. req' \in [Requests -> Request] /\ \A s \in Requests : ReqRefersTo(req[s])'
    BY <2>3, <2>4, FinishStep
  <2> QED BY <2>3, <2>4, <2>5 DEF TypeOK
<1> QED BY <1>1, <1>2, <1>3, <1>4, <1>5 DEF SharingStart, SharingContinue

LEMMA VerificationType ==
    ASSUME TypeOK, NEW r \in Requests, VerificationStart(r) \/ VerificationContinue(r)
    PROVE  TypeOK'
<1>1. ASSUME NEW s \in sessions, VerifyCallback(r, s) PROVE TypeOK'
  <2>1. /\ UNCHANGED <<period, grant, offer, registered, mitid>>
        /\ sessions' \subseteq Session /\ s \in Session
    BY <1>1 DEF VerifyCallback, TypeOK
  <2>2. CASE UNCHANGED req
    BY <2>1, <2>2 DEF TypeOK, ReqRefersTo
  <2>3. CASE req' = [req EXCEPT ![r] = [at |-> "verify.write", me |-> s.person,
                                        property |-> s.property]]
    <3>1. req' = [req EXCEPT ![r] = req'[r]] /\ req'[r] \in VerifyReq
      BY <2>1, <2>3 DEF VerifyReq, Session, TypeOK
    <3>2. req'[r] \in Request /\ ReqRefersTo(req[r])'
      BY <3>1 DEF Request, VerifyReq, ReqRefersTo
    <3>3. req' \in [Requests -> Request] /\ \A q \in Requests : ReqRefersTo(req[q])'
      BY <2>1, <3>1, <3>2, RequestStep
    <3> QED BY <2>1, <3>3 DEF TypeOK
  <2> QED BY <1>1, <2>2, <2>3 DEF VerifyCallback
<1>2. CASE VerifyMismatch(r)
  BY <1>2, FinishStep DEF VerifyMismatch, TypeOK
<1>3. CASE VerifyWrite(r)
  <2>1. /\ period' = [n \in DOMAIN period |->
                        IF /\ period[n].property = req[r].property
                           /\ period[n].person = req[r].me /\ period[n].open
                        THEN [period[n] EXCEPT !.verified = TRUE] ELSE period[n]]
        /\ mitid' = mitid \cup {req[r].me}
        /\ Finish(r) /\ UNCHANGED <<grant, offer, registered, sessions>>
    BY <1>3 DEF VerifyWrite
  <2>2. period' \in Seq(Period)
    <3>1. ASSUME NEW n \in DOMAIN period PROVE period'[n] \in Period
      <4>1. period[n] \in Period
        BY RowType DEF TypeOK
      <4> QED BY <2>1, <4>1 DEF Period
    <3>2. period \in Seq(Period) /\ period' = [n \in DOMAIN period |-> period'[n]]
      BY <2>1 DEF TypeOK
    <3> QED BY <3>1, <3>2, RewrittenTable
  <2>3. mitid' \subseteq Persons
    <3>1. req[r] \in VerifyReq
      BY <1>3, RequestKinds DEF VerifyWrite, TypeOK
    <3> QED BY <2>1, <3>1 DEF VerifyReq, TypeOK
  <2>4. req' \in [Requests -> Request] /\ \A q \in Requests : ReqRefersTo(req[q])'
    BY <2>1, FinishStep
  <2> QED BY <2>1, <2>2, <2>3, <2>4 DEF TypeOK
<1> QED BY <1>1, <1>2, <1>3 DEF VerificationStart, VerificationContinue

-----------------------------------------------------------------------------
(* The specification keeps the types *)

LEMMA InitType == Init => TypeOK
<1> SUFFICES ASSUME Init PROVE TypeOK
  OBVIOUS
<1>1. period \in Seq(Period)
  <2>1. Cardinality(Properties) \in Nat
    BY FS_CardinalityType, ConstantsAssumption DEF ConstantsAssumption
  <2> QED BY <2>1, SeqDef DEF Init
<1>2. grant \in Seq(Grant) /\ offer \in Seq(Offer)
  BY EmptySeq DEF Init
<1>3. \A n \in DOMAIN period : period[n].person \in Persons
  <2> SUFFICES ASSUME NEW n \in DOMAIN period PROVE period[n].person \in Persons
    OBVIOUS
  <2>1. period[n] \in Period
    BY <1>1, RowType
  <2> QED BY <2>1 DEF Period
<1>4. registered \subseteq Persons /\ mitid \subseteq Persons /\ sessions \subseteq Session
  BY <1>3 DEF Init
<1>5. req \in [Requests -> Request] /\ \A r \in Requests : ReqRefersTo(req[r])
  BY DEF Init, Request, Idle, ReqRefersTo
<1> QED BY <1>1, <1>2, <1>4, <1>5 DEF TypeOK

LEMMA NextType == TypeOK /\ [Next]_vars => TypeOK'
<1> SUFFICES ASSUME TypeOK, [Next]_vars PROVE TypeOK'
  OBVIOUS
<1>1. ASSUME NEW r \in Requests, TransferStart(r) \/ TransferContinue(r) PROVE TypeOK'
  BY <1>1, InitiateType, AcceptType, CancelType DEF TransferStart, TransferContinue
<1>2. ASSUME NEW r \in Requests, SharingStart(r) \/ SharingContinue(r) PROVE TypeOK'
  BY <1>2, SharingType
<1>3. ASSUME NEW r \in Requests, VerificationStart(r) \/ VerificationContinue(r) PROVE TypeOK'
  BY <1>3, VerificationType
<1>4. ASSUME NEW r \in Requests, Fail(r) PROVE TypeOK'
  BY <1>4, FinishStep DEF Fail, TypeOK
<1>5. ASSUME NEW me \in Persons, Register(me) PROVE TypeOK'
  BY <1>5 DEF Register, TypeOK, ReqRefersTo
<1>6. ASSUME NEW me \in Persons, NEW p \in Properties, VerifyInitiate(me, p) PROVE TypeOK'
  BY <1>6 DEF VerifyInitiate, TypeOK, ReqRefersTo, Session
<1>7. CASE Restart
  BY <1>7 DEF Restart, TypeOK, ReqRefersTo, Request, Idle
<1>8. CASE UNCHANGED vars
  BY <1>8 DEF vars, TypeOK, ReqRefersTo
<1> QED BY <1>1, <1>2, <1>3, <1>4, <1>5, <1>6, <1>7, <1>8 DEF Next, Start, Continue

\* The tables, the MitID sessions and the requests keep their types, and a request
\* never refers to a row that does not exist.
THEOREM TypeCorrect == Spec => []TypeOK
<1>1. Init => TypeOK
  BY InitType
<1>2. TypeOK /\ [Next]_vars => TypeOK'
  BY NextType
<1> QED BY <1>1, <1>2, PTL DEF Spec

-----------------------------------------------------------------------------
(* A home has one owner.  OneOwner is not inductive by itself: a commit closes *)
(* the seller's period only, so a hand-over that is about to commit must find  *)
(* no open period but the seller's, and no other hand-over may commit first.   *)

OwnershipInv == TypeOK /\ OneOwner /\ HandoversAreExclusive

\* A step that opens, closes and reassigns no period, and begins no commit, keeps it.
LEMMA OwnershipFrame ==
    ASSUME OwnershipInv,
           DOMAIN period' = DOMAIN period,
           \A n \in DOMAIN period : /\ period'[n].property = period[n].property
                                    /\ period'[n].person = period[n].person
                                    /\ period'[n].open = period[n].open,
           \A n \in DOMAIN offer : /\ offer'[n].property = offer[n].property
                                   /\ offer'[n].from = offer[n].from,
           \A r \in Requests : req'[r].at = "accept.commit" => req'[r] = req[r]
    PROVE  OneOwner' /\ HandoversAreExclusive'
<1>1. \A p : OpenPeriods(p)' = OpenPeriods(p)
  BY DEF OpenPeriods
<1>2. OneOwner'
  BY <1>1 DEF OwnershipInv, OneOwner
<1>3. ASSUME NEW r \in Requests, req'[r].at = "accept.commit"
      PROVE  /\ req[r].at = "accept.commit" /\ req'[r].offer = req[r].offer
             /\ offer'[req[r].offer].property = offer[req[r].offer].property
             /\ offer'[req[r].offer].from = offer[req[r].offer].from
  <2>1. req'[r] = req[r] /\ req[r].at = "accept.commit"
    BY <1>3
  <2>2. req[r].offer \in DOMAIN offer
    BY <2>1 DEF OwnershipInv, TypeOK, ReqRefersTo
  <2> QED BY <2>1, <2>2
<1>4. ASSUME NEW r \in Requests, req'[r].at = "accept.commit",
             NEW n \in OpenPeriods(offer[req[r].offer].property)
      PROVE  period'[n].person = offer[req[r].offer].from
  <2>1. n \in DOMAIN period /\ req[r].at = "accept.commit"
    BY <1>3, <1>4 DEF OpenPeriods
  <2> QED BY <1>4, <2>1 DEF OwnershipInv, HandoversAreExclusive
<1>5. ASSUME NEW r \in Requests, NEW q \in Requests,
             req'[r].at = "accept.commit", req'[q].at = "accept.commit",
             offer[req[q].offer].property = offer[req[r].offer].property
      PROVE  q = r
  BY <1>3, <1>5 DEF OwnershipInv, HandoversAreExclusive, HandoverOf
<1>6. HandoversAreExclusive'
  BY <1>1, <1>3, <1>4, <1>5 DEF HandoversAreExclusive, HandoverOf
<1> QED BY <1>2, <1>6

LEMMA AcceptTxOwnership ==
    ASSUME OwnershipInv, NEW r \in Requests, AcceptTx(r)
    PROVE  OneOwner' /\ HandoversAreExclusive'
<1> DEFINE o == offer[req[r].offer]
<1>1. UNCHANGED <<period, grant, offer>>
  BY DEF AcceptTx
<1>2. CASE Finish(r)
  <2>1. \A q \in Requests : req'[q].at = "accept.commit" => req'[q] = req[q]
    BY <1>2 DEF Finish, Idle, OwnershipInv, TypeOK
  <2> QED BY <1>1, <2>1, OwnershipFrame
<1>3. CASE ~Finish(r)
  <2>1. /\ req'[r].at = "accept.commit" /\ req'[r].offer = req[r].offer
        /\ \A q \in Requests : q # r => req'[q] = req[q]
        /\ \A n \in OpenPeriods(o.property) : period[n].person = o.from
        /\ ~HandoverRunning(o.property)
    BY <1>3 DEF AcceptTx, OnlySellerHolds, OwnershipInv, TypeOK
  <2>2. \A p : OpenPeriods(p)' = OpenPeriods(p)
    BY <1>1 DEF OpenPeriods
  <2>3. OneOwner'
    BY <1>1, <2>2 DEF OwnershipInv, OneOwner
  <2>4. ASSUME NEW q \in Requests, req'[q].at = "accept.commit",
               NEW n \in OpenPeriods(offer[req'[q].offer].property)
        PROVE  period[n].person = offer[req'[q].offer].from
    <3>1. CASE q = r
      BY <2>1, <2>4, <3>1
    <3>2. CASE q # r
      BY <2>1, <2>4, <3>2 DEF OwnershipInv, HandoversAreExclusive
    <3> QED BY <3>1, <3>2
  <2>5. ASSUME NEW q \in Requests, NEW s \in Requests,
               req'[q].at = "accept.commit", req'[s].at = "accept.commit",
               offer[req'[s].offer].property = offer[req'[q].offer].property
        PROVE  s = q
    <3>1. \A t \in Requests : t # r /\ req'[t].at = "accept.commit"
            => offer[req'[t].offer].property # o.property
      BY <2>1 DEF HandoverRunning, HandoverOf
    <3>2. CASE q # r /\ s # r
      BY <2>1, <2>5, <3>2 DEF OwnershipInv, HandoversAreExclusive, HandoverOf
    <3> QED BY <2>1, <2>5, <3>1, <3>2
  <2>6. HandoversAreExclusive'
    BY <1>1, <2>2, <2>4, <2>5 DEF HandoversAreExclusive, HandoverOf
  <2> QED BY <2>3, <2>6
<1> QED BY <1>2, <1>3

\* What the commit of a hand-over does to the periods.
LEMMA CommittedPeriods ==
    ASSUME TypeOK, NEW r \in Requests, AcceptCommit(r)
    PROVE  /\ DOMAIN period' = DOMAIN period \cup {Len(period) + 1}
           /\ Len(period) + 1 \notin DOMAIN period
           /\ period'[Len(period) + 1] =
                 [property |-> offer[req[r].offer].property, person |-> req[r].me,
                  open |-> TRUE, verified |-> FALSE]
           /\ \A n \in DOMAIN period :
                 /\ period'[n].property = period[n].property
                 /\ period'[n].person = period[n].person
                 /\ period'[n].verified = period[n].verified
                 /\ period'[n].open <=>
                       /\ period[n].open
                       /\ ~(/\ period[n].property = offer[req[r].offer].property
                            /\ period[n].person = offer[req[r].offer].from)
<1> DEFINE o == offer[req[r].offer]
           closed == [n \in DOMAIN period |->
                        IF Sold(period[n], o) THEN [period[n] EXCEPT !.open = FALSE]
                        ELSE period[n]]
           new == NewPeriod(o, req[r].me)
<1>1. period' = Append(closed, new)
  BY DEF AcceptCommit
<1>2. \A n \in DOMAIN period : period[n] \in Period
  BY RowType DEF TypeOK
<1>3. \A n \in DOMAIN period : closed[n] \in Period
  BY <1>2 DEF Period
<1>4. closed \in Seq(Period) /\ Len(closed) = Len(period) /\ DOMAIN closed = DOMAIN period
  <2>1. period \in Seq(Period) /\ closed = [n \in DOMAIN period |-> closed[n]]
    BY DEF TypeOK
  <2> HIDE DEF closed
  <2> QED BY <1>3, <2>1, RewrittenTable
<1>5. new \in Period
  <2>1. req[r] \in HandoverReq /\ req[r].offer \in DOMAIN offer
    BY RequestKinds DEF AcceptCommit, TypeOK, ReqRefersTo
  <2>2. o \in Offer
    BY <2>1, RowType DEF TypeOK
  <2> QED BY <2>1, <2>2 DEF HandoverReq, Offer, Period, NewPeriod
<1>6. /\ DOMAIN period' = DOMAIN period \cup {Len(period) + 1}
      /\ Len(period) + 1 \notin DOMAIN period
      /\ period'[Len(period) + 1] = new
      /\ \A n \in DOMAIN period : period'[n] = closed[n]
  <2> HIDE DEF closed, new
  <2> QED BY <1>1, <1>4, <1>5, InsertedRow
<1>7. \A n \in DOMAIN period :
         /\ closed[n].property = period[n].property
         /\ closed[n].person = period[n].person
         /\ closed[n].verified = period[n].verified
         /\ closed[n].open <=>
               /\ period[n].open
               /\ ~(period[n].property = o.property /\ period[n].person = o.from)
  BY <1>2 DEF Period, Sold
<1> QED BY <1>6, <1>7 DEF NewPeriod

LEMMA AcceptCommitOwnership ==
    ASSUME OwnershipInv, NEW r \in Requests, AcceptCommit(r)
    PROVE  OneOwner' /\ HandoversAreExclusive'
<1> DEFINE o == offer[req[r].offer]
           N == Len(period) + 1
<1>1. /\ DOMAIN period' = DOMAIN period \cup {N} /\ N \notin DOMAIN period
      /\ period'[N].property = o.property /\ period'[N].open
      /\ \A n \in DOMAIN period :
            /\ period'[n].property = period[n].property
            /\ period'[n].person = period[n].person
            /\ period'[n].open <=>
                  /\ period[n].open
                  /\ ~(period[n].property = o.property /\ period[n].person = o.from)
  <2>1. TypeOK
    BY DEF OwnershipInv
  <2>2. period'[N] = [property |-> o.property, person |-> req[r].me,
                      open |-> TRUE, verified |-> FALSE]
    BY <2>1, CommittedPeriods
  <2>3. DOMAIN period' = DOMAIN period \cup {N} /\ N \notin DOMAIN period
    BY <2>1, CommittedPeriods
  <2>4. \A n \in DOMAIN period :
            /\ period'[n].property = period[n].property
            /\ period'[n].person = period[n].person
            /\ period'[n].open <=>
                  /\ period[n].open
                  /\ ~(period[n].property = o.property /\ period[n].person = o.from)
    <3> HIDE DEF N
    <3> QED BY <2>1, CommittedPeriods
  <2> HIDE DEF N, o
  <2> QED BY <2>2, <2>3, <2>4
<1>2. \A n \in OpenPeriods(o.property) : period[n].person = o.from
  BY DEF AcceptCommit, OwnershipInv, HandoversAreExclusive
<1>3. ASSUME NEW p, p = o.property PROVE OpenPeriods(p)' = {N}
  BY <1>1, <1>2, <1>3 DEF OpenPeriods
<1>4. ASSUME NEW p, p # o.property PROVE OpenPeriods(p)' = OpenPeriods(p)
  BY <1>1, <1>4 DEF OpenPeriods
<1>5. OneOwner'
  <2> SUFFICES ASSUME NEW p \in Properties
               PROVE  \E n \in DOMAIN period' : OpenPeriods(p)' = {n}
    BY DEF OneOwner
  <2>1. CASE p = o.property
    BY <1>1, <1>3, <2>1
  <2>2. CASE p # o.property
    BY <1>1, <1>4, <2>2 DEF OwnershipInv, OneOwner
  <2> QED BY <2>1, <2>2
<1>6. ASSUME NEW q \in Requests, req'[q].at = "accept.commit"
      PROVE  /\ req[q].at = "accept.commit" /\ req'[q] = req[q]
             /\ offer'[req[q].offer].property = offer[req[q].offer].property
             /\ offer'[req[q].offer].from = offer[req[q].offer].from
             /\ offer[req[q].offer].property # o.property
  <2>1. q # r /\ req'[q] = req[q] /\ req[r].at = "accept.commit"
    BY <1>6 DEF AcceptCommit, Finish, Idle, OwnershipInv, TypeOK
  <2>2. req[q].offer \in DOMAIN offer /\ req[r].offer \in DOMAIN offer
    BY <1>6, <2>1 DEF OwnershipInv, TypeOK, ReqRefersTo
  <2>3. /\ offer'[req[q].offer].property = offer[req[q].offer].property
        /\ offer'[req[q].offer].from = offer[req[q].offer].from
    <3>1. offer[req[q].offer] \in Offer
      BY <2>2, RowType DEF OwnershipInv, TypeOK
    <3> QED BY <2>2, <3>1 DEF AcceptCommit, OffersAfterSale, Offer
  <2>4. offer[req[q].offer].property # o.property
    BY <1>6, <2>1 DEF OwnershipInv, HandoversAreExclusive, HandoverOf
  <2> QED BY <1>6, <2>1, <2>3, <2>4
<1>7. ASSUME NEW q \in Requests, req'[q].at = "accept.commit",
             NEW n \in OpenPeriods(offer[req[q].offer].property)
      PROVE  period'[n].person = offer[req[q].offer].from
  <2>1. n \in DOMAIN period
    BY DEF OpenPeriods
  <2>2. period[n].person = offer[req[q].offer].from
    BY <1>6, <1>7 DEF OwnershipInv, HandoversAreExclusive
  <2> QED BY <1>1, <2>1, <2>2
<1>8. ASSUME NEW q \in Requests, req'[q].at = "accept.commit",
             NEW s \in Requests, req'[s].at = "accept.commit",
             offer[req[s].offer].property = offer[req[q].offer].property
      PROVE  s = q
  BY <1>6, <1>8 DEF OwnershipInv, HandoversAreExclusive, HandoverOf
<1>9. HandoversAreExclusive'
  BY <1>4, <1>6, <1>7, <1>8 DEF HandoversAreExclusive, HandoverOf
<1> QED BY <1>5, <1>9

\* Steps that write neither periods nor offers, and begin no commit.
LEMMA OwnershipUntouched ==
    ASSUME OwnershipInv, UNCHANGED <<period, offer>>,
           \A r \in Requests : req'[r].at = "accept.commit" => req'[r] = req[r]
    PROVE  OneOwner' /\ HandoversAreExclusive'
  BY OwnershipFrame

\* Supersession, creation and cancellation rewrite no offer's home or seller.
LEMMA OfferWritesOwnership ==
    ASSUME OwnershipInv, NEW r \in Requests,
           InitiateSupersede(r) \/ InitiateCreate(r) \/ CancelWrite(r)
    PROVE  OneOwner' /\ HandoversAreExclusive'
<1>1. \A n \in DOMAIN offer : offer[n] \in Offer
  BY RowType DEF OwnershipInv, TypeOK
<1>2. \A n \in DOMAIN offer : /\ offer'[n].property = offer[n].property
                              /\ offer'[n].from = offer[n].from
  <2>1. CASE InitiateSupersede(r)
    BY <1>1, <2>1 DEF InitiateSupersede, Offer
  <2>2. CASE InitiateCreate(r)
    <3>1. req[r] \in InitiateReq /\ offer \in Seq(Offer)
      BY <2>2, RequestKinds DEF InitiateCreate, OwnershipInv, TypeOK
    <3> DEFINE e == [property |-> req[r].property, from |-> req[r].me,
                     toEmail |-> req[r].toEmail, toPersonId |-> req[r].toPersonId,
                     status |-> "pending"]
    <3>2. e \in Offer /\ offer' = Append(offer, e)
      BY <2>2, <3>1 DEF InitiateCreate, InitiateReq, Offer
    <3> HIDE DEF e
    <3>3. \A n \in DOMAIN offer : offer'[n] = offer[n]
      BY <3>1, <3>2, InsertedRow
    <3> QED BY <3>3
  <2>3. CASE CancelWrite(r)
    BY <1>1, <2>3 DEF CancelWrite, Offer
  <2> QED BY <2>1, <2>2, <2>3
<1>3. UNCHANGED period
  BY DEF InitiateSupersede, InitiateCreate, CancelWrite
<1>4. \A q \in Requests : req'[q].at = "accept.commit" => req'[q] = req[q]
  <2>1. CASE InitiateSupersede(r)
    <3>1. req[r] \in InitiateReq
      BY <2>1, RequestKinds DEF InitiateSupersede, OwnershipInv, TypeOK
    <3> QED BY <2>1, <3>1 DEF InitiateSupersede, InitiateReq, OwnershipInv, TypeOK
  <2>2. CASE InitiateCreate(r) \/ CancelWrite(r)
    BY <2>2 DEF InitiateCreate, CancelWrite, Finish, Idle, OwnershipInv, TypeOK
  <2> QED BY <2>1, <2>2
<1> QED BY <1>2, <1>3, <1>4, OwnershipFrame

LEMMA SharingOwnership ==
    ASSUME OwnershipInv, NEW r \in Requests, SharingStart(r) \/ SharingContinue(r)
    PROVE  OneOwner' /\ HandoversAreExclusive'
<1>1. UNCHANGED <<period, offer>>
  BY DEF SharingStart, SharingContinue, ShareFind, RevokeRead, ShareWrite, ShareCommit,
         RevokeDelete
<1>2. \A q \in Requests : req'[q].at = "accept.commit" => req'[q] = req[q]
  <2>1. CASE SharingStart(r)
    BY <2>1 DEF SharingStart, ShareFind, RevokeRead, OwnershipInv, TypeOK
  <2>2. CASE ShareWrite(r)
    <3>1. req[r] \in ShareReq
      BY <2>2, RequestKinds DEF ShareWrite, OwnershipInv, TypeOK
    <3> QED BY <2>2, <3>1 DEF ShareWrite, Finish, Idle, ShareReq, OwnershipInv, TypeOK
  <2>3. CASE ShareCommit(r) \/ RevokeDelete(r)
    BY <2>3 DEF ShareCommit, RevokeDelete, Finish, Idle, OwnershipInv, TypeOK
  <2> QED BY <2>1, <2>2, <2>3 DEF SharingContinue
<1> QED BY <1>1, <1>2, OwnershipUntouched

LEMMA VerificationOwnership ==
    ASSUME OwnershipInv, NEW r \in Requests,
           VerificationStart(r) \/ VerificationContinue(r)
    PROVE  OneOwner' /\ HandoversAreExclusive'
<1>1. \A q \in Requests : req'[q].at = "accept.commit" => req'[q] = req[q]
  BY DEF VerificationStart, VerificationContinue, VerifyCallback, VerifyMismatch,
         VerifyWrite, Finish, Idle, OwnershipInv, TypeOK
<1>2. CASE VerificationStart(r) \/ VerifyMismatch(r)
  BY <1>1, <1>2, OwnershipUntouched DEF VerificationStart, VerifyCallback, VerifyMismatch
<1>3. CASE VerifyWrite(r)
  <2>1. \A n \in DOMAIN period : period[n] \in Period
    BY RowType DEF OwnershipInv, TypeOK
  <2>2. /\ DOMAIN period' = DOMAIN period
        /\ \A n \in DOMAIN period : /\ period'[n].property = period[n].property
                                    /\ period'[n].person = period[n].person
                                    /\ period'[n].open = period[n].open
        /\ UNCHANGED offer
    BY <1>3, <2>1 DEF VerifyWrite, Period
  <2> QED BY <1>1, <2>2, OwnershipFrame
<1> QED BY <1>2, <1>3 DEF VerificationContinue

\* Every step keeps the ownership invariant.
LEMMA NextOwnership == OwnershipInv /\ [Next]_vars => OwnershipInv'
<1> SUFFICES ASSUME OwnershipInv, [Next]_vars
             PROVE  OneOwner' /\ HandoversAreExclusive'
  BY NextType DEF OwnershipInv
<1>1. ASSUME NEW r \in Requests, TransferStart(r)
      PROVE  OneOwner' /\ HandoversAreExclusive'
  BY <1>1, OwnershipUntouched
     DEF TransferStart, InitiateCheck, AcceptCheck, CancelCheck, OwnershipInv, TypeOK
<1>2. ASSUME NEW r \in Requests, TransferContinue(r)
      PROVE  OneOwner' /\ HandoversAreExclusive'
  BY <1>2, OfferWritesOwnership, AcceptTxOwnership, AcceptCommitOwnership
     DEF TransferContinue
<1>3. ASSUME NEW r \in Requests, SharingStart(r) \/ SharingContinue(r)
      PROVE  OneOwner' /\ HandoversAreExclusive'
  BY <1>3, SharingOwnership
<1>4. ASSUME NEW r \in Requests, VerificationStart(r) \/ VerificationContinue(r)
      PROVE  OneOwner' /\ HandoversAreExclusive'
  BY <1>4, VerificationOwnership
<1>5. ASSUME NEW r \in Requests, Fail(r)
      PROVE  OneOwner' /\ HandoversAreExclusive'
  BY <1>5, OwnershipUntouched DEF Fail, Finish, Idle, OwnershipInv, TypeOK
<1>6. ASSUME NEW me \in Persons, NEW p \in Properties, VerifyInitiate(me, p)
      PROVE  OneOwner' /\ HandoversAreExclusive'
  BY <1>6, OwnershipUntouched DEF VerifyInitiate
<1>7. CASE Restart
  BY <1>7, OwnershipUntouched DEF Restart, Idle
<1>8. CASE UNCHANGED vars
  BY <1>8, OwnershipUntouched DEF vars
<1>9. ASSUME NEW me \in Persons, Register(me)
      PROVE  OneOwner' /\ HandoversAreExclusive'
  BY <1>9, OwnershipUntouched DEF Register
<1> QED BY <1>1, <1>2, <1>3, <1>4, <1>5, <1>6, <1>7, <1>8, <1>9 DEF Next, Start, Continue

LEMMA OwnershipInit == Init => OwnershipInv
<1> SUFFICES ASSUME Init PROVE OneOwner /\ HandoversAreExclusive
  BY InitType DEF OwnershipInv
<1>1. OneOwner
  BY DEF Init, OneOwner
<1>2. HandoversAreExclusive
  BY DEF Init, Idle, HandoversAreExclusive
<1> QED BY <1>1, <1>2

LEMMA OwnershipInductive == Spec => []OwnershipInv
<1>1. Init => OwnershipInv
  BY OwnershipInit
<1>2. OwnershipInv /\ [Next]_vars => OwnershipInv'
  BY NextOwnership
<1> QED BY <1>1, <1>2, PTL DEF Spec

\* At every moment a home has exactly one open ownership period, whatever offers,
\* acceptances, failures and restarts overlap.
THEOREM AlwaysOneOwner == Spec => []OneOwner
<1>1. OwnershipInv => OneOwner
  BY DEF OwnershipInv
<1> QED BY <1>1, OwnershipInductive, PTL

\* Two hand-overs of a home are never about to commit together.
THEOREM HandoversExclusive == Spec => []HandoversAreExclusive
<1>1. OwnershipInv => HandoversAreExclusive
  BY DEF OwnershipInv
<1> QED BY <1>1, OwnershipInductive, PTL

=============================================================================
