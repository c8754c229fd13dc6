------------------------------- MODULE Accounts -------------------------------
(***************************************************************************)
(* Accounts: AuthService (registration, login), the tokens the tenant      *)
(* context reads, and the administrators of AdminGuard and AdminService.   *)
(*                                                                         *)
(* An e-mail address is a mailbox and the form somebody typed it in, with  *)
(* capitals and blanks or without.  The hash of a password stands for the  *)
(* password itself; people of demo sessions have neither.  call[c].at is   *)
(* the next database statement of call c.                                  *)
(*                                                                         *)
(* A definition whose name ends in _ and a capital is a mutant of the one  *)
(* that follows it.                                                        *)
(***************************************************************************)
EXTENDS Naturals, FiniteSets

CONSTANTS
    People,          \* ids of persons
    Mailboxes,
    ADMIN_EMAILS,    \* the mailboxes whose owners administer the system
    Passwords,
    Null,            \* no e-mail, no password
    Calls            \* calls handled at the same time

ASSUME AccountsAssumption ==
    /\ ADMIN_EMAILS \subseteq Mailboxes
    /\ Null \notin Passwords

VARIABLES
    account,   \* the table person
    tokens,    \* people who hold a token that has not expired
    call       \* what each call is doing

accounts == <<account, tokens, call>>

Forms == {"plain", "typed"}
Email == [box : Mailboxes, form : Forms]

Absent == [exists |-> FALSE, email |-> Null, passwordHash |-> Null, isAdmin |-> FALSE]
Account == [exists : BOOLEAN, email : Email \cup {Null}, passwordHash : Passwords \cup {Null},
            isAdmin : BOOLEAN]

Quiet == [at |-> "quiet"]
Call == {Quiet}
    \cup [at : {"find", "create"}, email : Email, password : Passwords]
    \cup [at : {"guard", "setAdmin"}, by : People, person : People, isAdmin : BOOLEAN]

AccountsTypeOK ==
    /\ account \in [People -> Account]
    /\ tokens \subseteq {p \in People : account[p].exists}
    /\ call \in [Calls -> Call]

AccountsInit ==
    /\ account = [p \in People |-> Absent]
    /\ tokens = {}
    /\ call = [c \in Calls |-> Quiet]

Hang(c)     == call' = [call EXCEPT ![c] = Quiet]
Reach(c, at) == call' = [call EXCEPT ![c].at = at]

Persons == {p \in People : account[p].exists}

-----------------------------------------------------------------------------
(* Registration and login *)

\* trim().toLowerCase()
normal(e) == [e EXCEPT !.form = "plain"]

WithEmail(e) == {p \in Persons : account[p].email = e}

Register(c, e, w) ==
    /\ call[c] = Quiet
    /\ call' = [call EXCEPT ![c] = [at |-> "find", email |-> normal(e), password |-> w]]
    /\ UNCHANGED <<account, tokens>>

RegisterFind(c) ==
    /\ call[c].at = "find"
    /\ IF WithEmail(call[c].email) = {} THEN Reach(c, "create") ELSE Hang(c)
    /\ UNCHANGED <<account, tokens>>

Person(email, passwordHash) ==
    [exists |-> TRUE, email |-> email, passwordHash |-> passwordHash, isAdmin |-> FALSE]

\* Whoever looked first: without the unique index on the address.
RegisterCreate_NoIndex(c) ==
    /\ call[c].at = "create"
    /\ \E p \in People \ Persons :
          /\ account' = [account EXCEPT ![p] = Person(call[c].email, call[c].password)]
          /\ tokens' = tokens \cup {p}
    /\ Hang(c)

\* The unique index refuses an address taken since; the new person has a token.
RegisterCreate(c) ==
    /\ call[c].at = "create"
    /\ \/ /\ WithEmail(call[c].email) # {}
          /\ UNCHANGED <<account, tokens>>
       \/ /\ WithEmail(call[c].email) = {}
          /\ \E p \in People \ Persons :
                /\ account' = [account EXCEPT ![p] = Person(call[c].email, call[c].password)]
                /\ tokens' = tokens \cup {p}
    /\ Hang(c)

\* Of a demo session, as far as accounts are concerned.
Guest(p) ==
    /\ p \notin Persons
    /\ account' = [account EXCEPT ![p] = Person(Null, Null)]
    /\ tokens' = tokens \cup {p}
    /\ UNCHANGED call

verifyPassword(w, stored) == stored # Null /\ w = stored

\* Whom an address and a password let in.
login(e, w) == {p \in WithEmail(normal(e)) : verifyPassword(w, account[p].passwordHash)}

Login(e, w) ==
    /\ tokens' = tokens \cup login(e, w)
    /\ UNCHANGED <<account, call>>

\* Seven days pass, or the secret changes with a deployment: verifyToken throws.
Expire(p) ==
    /\ p \in tokens
    /\ tokens' = tokens \ {p}
    /\ UNCHANGED <<account, call>>

-----------------------------------------------------------------------------
(* Administrators *)

resolveAdmin(p) ==
    /\ account[p].exists
    /\ \/ account[p].isAdmin
       \/ account[p].email # Null /\ account[p].email.box \in ADMIN_EMAILS

\* AuthGuard: without a valid token there is no person in the context.
AdminCall(c, by, p, isAdmin) ==
    /\ call[c] = Quiet
    /\ by \in tokens
    /\ call' = [call EXCEPT ![c] = [at |-> "guard", by |-> by, person |-> p, isAdmin |-> isAdmin]]
    /\ UNCHANGED <<account, tokens>>

\* The route is guarded by AuthGuard alone.
AdminGuard_AuthOnly(c) ==
    /\ call[c].at = "guard"
    /\ Reach(c, "setAdmin")
    /\ UNCHANGED <<account, tokens>>

AdminGuard(c) ==
    /\ call[c].at = "guard"
    /\ IF resolveAdmin(call[c].by) THEN Reach(c, "setAdmin") ELSE Hang(c)
    /\ UNCHANGED <<account, tokens>>

\* The caller may have lost the flag since; an unknown person makes it a 500.
SetAdmin(c) ==
    /\ call[c].at = "setAdmin"
    /\ account' = IF account[call[c].person].exists
                  THEN [account EXCEPT ![call[c].person].isAdmin = call[c].isAdmin] ELSE account
    /\ Hang(c)
    /\ UNCHANGED tokens

CallFails(c) == call[c] # Quiet /\ Hang(c) /\ UNCHANGED <<account, tokens>>

-----------------------------------------------------------------------------

CallBegins(c) ==
    \/ \E e \in Email, w \in Passwords : Register(c, e, w)
    \/ \E by, p \in People, isAdmin \in BOOLEAN : AdminCall(c, by, p, isAdmin)

CallGoesOn(c) == RegisterFind(c) \/ RegisterCreate(c) \/ AdminGuard(c) \/ SetAdmin(c)

-----------------------------------------------------------------------------
(* Properties *)

\* One account per mailbox, however its address is typed and however many register at
\* once: whoever registered is let in with the same password in whatever form the address
\* is typed, as themselves and as nobody else (auth.service.ts:28-43).
LoginsFindTheirAccount ==
    \A p \in Persons : account[p].email # Null =>
        /\ \A q \in Persons \ {p} : account[q].email = Null
                                    \/ account[q].email.box # account[p].email.box
        /\ \A f \in Forms :
              login([account[p].email EXCEPT !.form = f], account[p].passwordHash) = {p}

\* Nobody administers the system before somebody of ADMIN_EMAILS has registered, however
\* calls of people who lose the right meanwhile overlap (admin.service.ts:19-26, :88-91).
AdminsDescendFromAllowlist ==
    (\E p \in Persons : account[p].isAdmin) =>
        \E q \in Persons : account[q].email # Null /\ account[q].email.box \in ADMIN_EMAILS
=============================================================================
