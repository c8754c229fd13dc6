---------------------------- MODULE Verification ----------------------------
(***************************************************************************)
(* VerificationService: a person proves with MitID that the home is theirs.*)
(* initiate binds a session to the caller; the broker's callback takes the *)
(* session, reads the property under the caller's policies and marks the   *)
(* caller's open period, and the caller, verified.                         *)
(***************************************************************************)
EXTENDS PassportTables

\* initiate does not ask who owns the home.  Two sessions of the same person and
\* home are the same element: the person may always begin again.
VerifyInitiate(me, p) ==
    /\ me \in registered
    /\ Cardinality(sessions) < MaxSessions
    /\ sessions' = sessions \cup {[person |-> me, property |-> p]}
    /\ UNCHANGED <<period, grant, offer, registered, mitid, req>>

\* take, the exchange of the code and the read of the property under
\* property_select.  An expired session, a low assurance level or an unreadable
\* property ends the call, the session spent.
VerifyCallback(r, s) ==
    /\ req[r] = Idle
    /\ sessions' = sessions \ {s}
    /\ \/ /\ can_read_property(s.person, s.property)
          /\ req' = [req EXCEPT ![r] = [at |-> "verify.write", me |-> s.person,
                                        property |-> s.property]]
       \/ UNCHANGED req
    /\ UNCHANGED <<period, grant, offer, registered, mitid>>

\* Only a configured broker is checked against the ownership register, which
\* may name somebody else.
VerifyMismatch(r) ==
    /\ req[r].at = "verify.write"
    /\ Configured
    /\ Finish(r)
    /\ UNCHANGED <<period, grant, offer, registered, mitid, sessions>>

\* The update waits for a hand-over that closes the caller's period; it may mark
\* no period at all, and the person is marked all the same.
VerifyWrite(r) ==
    /\ req[r].at = "verify.write"
    /\ \A q \in Requests : HandoverOf(req[r].property, q)
                             => offer[req[q].offer].from # req[r].me
    /\ period' = [n \in DOMAIN period |->
                     IF /\ period[n].property = req[r].property
                        /\ period[n].person = req[r].me /\ period[n].open
                     THEN [period[n] EXCEPT !.verified = TRUE] ELSE period[n]]
    /\ mitid' = mitid \cup {req[r].me}
    /\ Finish(r)
    /\ UNCHANGED <<grant, offer, registered, sessions>>

VerificationStart(r) == \E s \in sessions : VerifyCallback(r, s)

VerificationContinue(r) == VerifyMismatch(r) \/ VerifyWrite(r)

=============================================================================
