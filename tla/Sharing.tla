------------------------------- MODULE Sharing -------------------------------
(***************************************************************************)
(* SharingService: the current owner shares a home with another person and *)
(* revokes a share.  Each call is one transaction in the caller's tenant   *)
(* context, so the policies of access_grant decide what it may do; a       *)
(* statement they refuse, or a delete that finds no row, rolls it back.    *)
(***************************************************************************)
EXTENDS PassportTables

\* share looks the subject up on the admin connection, then an open grant for it.
ShareFind(r, me, p, subject, role) ==
    /\ req[r] = Idle
    /\ {me, subject} \subseteq registered
    /\ subject # me
    /\ Len(grant) + Cardinality(InFlight({"share.write", "share.commit"})) < MaxGrants
    /\ LET found == {g \in DOMAIN grant :
                        /\ grant[g].property = p /\ grant[g].subject = subject
                        /\ grant[g].state = "open"
                        /\ grant_select(me, g)}
       IN  \E existing \in IF found = {} THEN {0} ELSE found :
              req' = [req EXCEPT ![r] =
                 [at |-> "share.write", me |-> me, property |-> p, subject |-> subject,
                  permission |-> role, existing |-> existing]]
    /\ UNCHANGED <<period, grant, offer, registered, mitid, sessions>>

\* The delete of the existing grant and the insert of the new one, each under its
\* policy; the delete waits while another transaction holds the row.
ShareWrite(r) ==
    /\ req[r].at = "share.write"
    /\ LET g == req[r].existing
       IN  /\ g # 0 => ~GrantLocked(g)
           /\ IF /\ g # 0 => grant_delete(req[r].me, g)
                 /\ grant_insert(req[r].me, req[r].property)
              THEN req' = [req EXCEPT ![r].at = "share.commit"]
              ELSE Finish(r)
    /\ UNCHANGED <<period, grant, offer, registered, mitid, sessions>>

GrantsReplacing_Kept(existing) == grant

\* The grants without the one that is replaced; a mutant keeps it.
GrantsReplacing(existing) ==
    [g \in DOMAIN grant |-> IF g = existing
                            THEN [grant[g] EXCEPT !.state = "deleted"] ELSE grant[g]]

ShareCommit(r) ==
    /\ req[r].at = "share.commit"
    /\ grant' = Append(GrantsReplacing(req[r].existing),
                       [property |-> req[r].property, subject |-> req[r].subject,
                        permission |-> req[r].permission, by |-> req[r].me,
                        state |-> "open"])
    /\ Finish(r)
    /\ UNCHANGED <<period, offer, registered, mitid, sessions>>

\* revoke reads the grant by its id under grant_select.
RevokeRead(r, me, g) ==
    /\ req[r] = Idle
    /\ me \in registered
    /\ grant_select(me, g)
    /\ req' = [req EXCEPT ![r] = [at |-> "revoke.delete", me |-> me, grant |-> g]]
    /\ UNCHANGED <<period, grant, offer, registered, mitid, sessions>>

\* A person who may see the grant and not delete it gets an error.
RevokeDelete(r) ==
    /\ req[r].at = "revoke.delete"
    /\ ~GrantLocked(req[r].grant)
    /\ grant' = IF grant_delete(req[r].me, req[r].grant)
                THEN [grant EXCEPT ![req[r].grant].state = "deleted"] ELSE grant
    /\ Finish(r)
    /\ UNCHANGED <<period, offer, registered, mitid, sessions>>

SharingStart(r) ==
    \/ \E me, subject \in Persons, p \in Properties, role \in Roles :
          ShareFind(r, me, p, subject, role)
    \/ \E me \in Persons, g \in DOMAIN grant : RevokeRead(r, me, g)

SharingContinue(r) == ShareWrite(r) \/ ShareCommit(r) \/ RevokeDelete(r)

=============================================================================
