--------------------------- MODULE DeploymentProofs ---------------------------
(***************************************************************************)
(* Theorems about Deployment, for any numbers of people, mailboxes,        *)
(* documents, calls and requests and for every wiring of the adapters.     *)
(*                                                                         *)
(* Accounts and Vault share no variable, and each invariant has a part for *)
(* each of them, so that each part has a lemma per action of its module    *)
(* and a step of the other module leaves it alone.                         *)
(***************************************************************************)
EXTENDS Deployment, TLAPS

-----------------------------------------------------------------------------
(* The inductive invariant of Accounts *)

HasEmail(p) == account[p].exists /\ account[p].email # Null

\* Whoever has an address registered: it is stored in normal form, with a password.
Registered(p) ==
    HasEmail(p) => account[p].email.form = "plain" /\ account[p].passwordHash \in Passwords

\* The unique index.
OnePerEmail ==
    \A p, q \in People : HasEmail(p) /\ HasEmail(q) /\ account[p].email = account[q].email => p = q

\* What RegisterCreate writes was normalised when the call began.
CallsAreNormal ==
    \A c \in Calls : call[c].at \in {"find", "create"} => call[c].email.form = "plain"

Allowlisted(p) == HasEmail(p) /\ account[p].email.box \in ADMIN_EMAILS

\* Past the guard of AdminGuard, somebody of the list has an account.
GuardedByAllowlist ==
    (\/ \E p \in People : account[p].exists /\ account[p].isAdmin
     \/ \E c \in Calls : call[c].at = "setAdmin")
        => \E q \in People : Allowlisted(q)

AccountsInv ==
    /\ AccountsTypeOK
    /\ \A p \in People : Registered(p)
    /\ OnePerEmail
    /\ CallsAreNormal
    /\ GuardedByAllowlist

-----------------------------------------------------------------------------
(* The inductive invariant of Vault *)

Uploading == {"upload.publish", "upload.commit"}
Shredding == {"shred.update", "shred.key", "shred.object", "shred.commit", "shred.refused"}
KeyIsGone == {"shred.object", "shred.commit", "shred.refused"}

\* A row has lost its references exactly when its deletion was committed.
ErasedRows ==
    /\ forgotten \subseteq Known
    /\ \A d \in Known : d \in forgotten <=> ~row[d].refs

\* The envelope KMS keeps no key, and a map keeps none of what is forgotten.
KeysAreGone ==
    /\ config.kms => keys = {}
    /\ forgotten \cap keys = {}

\* What a request uploads is stored under a key, and is nobody else's.
UploadsAreOwn ==
    \A r \in Works : work[r].at \in Uploading =>
        /\ work[r].doc \notin Known
        /\ work[r].doc \in objects
        /\ config.kms \/ work[r].doc \in keys
        /\ \A q \in Works \ {r} : work[q].at \in Uploading => work[q].doc # work[r].doc

\* Every other request is about a row.
WorkHasRow ==
    \A r \in Works : work[r].at \notin Uploading \cup {"rest"} => work[r].doc \in Known

\* Who shreds without references came after a deletion, and past its key the content is
\* doomed and the key gone.
ShredsInOrder ==
    \A r \in Works : work[r].at \in Shredding =>
        /\ work[r].refs \/ work[r].doc \in forgotten
        /\ work[r].at \in KeyIsGone => work[r].doc \in doomed \ keys

VaultInv ==
    /\ VaultTypeOK
    /\ ErasedRows
    /\ KeysAreGone
    /\ UploadsAreOwn
    /\ WorkHasRow
    /\ ShredsInOrder
    /\ UploadsStayReadable
    /\ ShredsAreRepeatable

-----------------------------------------------------------------------------
(* Calls *)

\* The fields of a call, by what it does next.
LEMMA CallFields ==
    ASSUME AccountsTypeOK, NEW c \in Calls
    PROVE  /\ call[c].at \in {"find", "create"} =>
                  call[c].email \in Email /\ call[c].password \in Passwords
           /\ call[c].at \in {"guard", "setAdmin"} =>
                  call[c].by \in People /\ call[c].person \in People /\ call[c].isAdmin \in BOOLEAN
  <1>1. call[c] \in Call
    BY DEF AccountsTypeOK
  <1> QED
    BY <1>1 DEF Call, Quiet

\* A call that hangs up leaves the others alone.
LEMMA HangLemma ==
    ASSUME AccountsInv, NEW c \in Calls, Hang(c)
    PROVE  /\ call' \in [Calls -> Call]
           /\ CallsAreNormal'
           /\ \A d \in Calls : call'[d].at = "setAdmin" => call[d].at = "setAdmin"
  <1>1. call \in [Calls -> Call] /\ Quiet \in Call /\ Quiet.at = "quiet"
    BY DEF AccountsInv, AccountsTypeOK, Call, Quiet
  <1>2. call' \in [Calls -> Call] /\ \A d \in Calls : call'[d] = IF d = c THEN Quiet ELSE call[d]
    BY <1>1 DEF Hang
  <1> QED
    BY <1>1, <1>2 DEF AccountsInv, CallsAreNormal

\* So does a call that goes on.
LEMMA ReachLemma ==
    ASSUME AccountsInv, NEW c \in Calls, NEW at,
           \/ call[c].at = "find" /\ at = "create"
           \/ call[c].at = "guard" /\ at = "setAdmin",
           Reach(c, at)
    PROVE  /\ call' \in [Calls -> Call]
           /\ CallsAreNormal'
           /\ \A d \in Calls : call'[d].at = "setAdmin" => call[d].at = "setAdmin" \/ (d = c /\ at = "setAdmin")
  <1> DEFINE next == [call[c] EXCEPT !.at = at]
  <1>1. call \in [Calls -> Call] /\ call[c] \in Call
    BY DEF AccountsInv, AccountsTypeOK
  <1>2. call' = [call EXCEPT ![c] = next]
    BY DEF Reach
  <1>3. next \in Call /\ next.at = at /\ (at = "create" => next.email = call[c].email)
    BY <1>1 DEF Call, Quiet
  <1> HIDE DEF next
  <1>4. call' \in [Calls -> Call] /\ \A d \in Calls : call'[d] = IF d = c THEN next ELSE call[d]
    BY <1>1, <1>2, <1>3
  <1> QED
    BY <1>3, <1>4 DEF AccountsInv, CallsAreNormal

\* The administrators of a state whose table person has not changed.
LEMMA SameAccounts ==
    ASSUME AccountsInv, UNCHANGED account,
           call' \in [Calls -> Call], CallsAreNormal', tokens' \subseteq Persons,
           (\E c \in Calls : call'[c].at = "setAdmin") =>
               \/ \E c \in Calls : call[c].at = "setAdmin"
               \/ \E q \in People : Allowlisted(q)
    PROVE  AccountsInv'
  <1>1. AccountsTypeOK'
    BY DEF AccountsInv, AccountsTypeOK, Persons
  <1>2. \A p \in People : HasEmail(p)' = HasEmail(p) /\ Allowlisted(p)' = Allowlisted(p)
    BY DEF HasEmail, Allowlisted
  <1>3. (\A p \in People : Registered(p))' /\ OnePerEmail'
    BY <1>2 DEF AccountsInv, Registered, OnePerEmail
  <1>4. GuardedByAllowlist'
    BY <1>2 DEF AccountsInv, GuardedByAllowlist
  <1> QED
    BY <1>1, <1>3, <1>4 DEF AccountsInv

-----------------------------------------------------------------------------
(* The actions of Accounts *)

LEMMA RegisterPreserves ==
    ASSUME AccountsInv, NEW c \in Calls, NEW e \in Email, NEW w \in Passwords, Register(c, e, w)
    PROVE  AccountsInv'
  <1> DEFINE next == [at |-> "find", email |-> normal(e), password |-> w]
  <1>1. normal(e) \in Email /\ normal(e).form = "plain"
    BY DEF Email, Forms, normal
  <1>2. next \in Call /\ next.at = "find" /\ next.email.form = "plain"
    BY <1>1 DEF Call
  <1>3. call' = [call EXCEPT ![c] = next] /\ UNCHANGED <<account, tokens>>
    BY DEF Register
  <1> HIDE DEF next
  <1>4. call \in [Calls -> Call]
    BY DEF AccountsInv, AccountsTypeOK
  <1>5. call' \in [Calls -> Call] /\ \A d \in Calls : call'[d] = IF d = c THEN next ELSE call[d]
    BY <1>2, <1>3, <1>4
  <1>6. CallsAreNormal' /\ \A d \in Calls : call'[d].at = "setAdmin" => call[d].at = "setAdmin"
    BY <1>2, <1>5 DEF AccountsInv, CallsAreNormal
  <1>7. tokens' \subseteq Persons
    BY <1>3 DEF AccountsInv, AccountsTypeOK, Persons
  <1> QED
    BY <1>3, <1>5, <1>6, <1>7, SameAccounts

LEMMA AdminCallPreserves ==
    ASSUME AccountsInv, NEW c \in Calls, NEW by \in People, NEW p \in People,
           NEW isAdmin \in BOOLEAN, AdminCall(c, by, p, isAdmin)
    PROVE  AccountsInv'
  <1> DEFINE next == [at |-> "guard", by |-> by, person |-> p, isAdmin |-> isAdmin]
  <1>1. next \in Call /\ next.at = "guard"
    BY DEF Call
  <1>2. call' = [call EXCEPT ![c] = next] /\ UNCHANGED <<account, tokens>>
    BY DEF AdminCall
  <1> HIDE DEF next
  <1>3. call \in [Calls -> Call]
    BY DEF AccountsInv, AccountsTypeOK
  <1>4. call' \in [Calls -> Call] /\ \A d \in Calls : call'[d] = IF d = c THEN next ELSE call[d]
    BY <1>1, <1>2, <1>3
  <1>5. CallsAreNormal' /\ \A d \in Calls : call'[d].at = "setAdmin" => call[d].at = "setAdmin"
    BY <1>1, <1>4 DEF AccountsInv, CallsAreNormal
  <1>6. tokens' \subseteq Persons
    BY <1>2 DEF AccountsInv, AccountsTypeOK, Persons
  <1> QED
    BY <1>2, <1>4, <1>5, <1>6, SameAccounts

LEMMA RegisterFindPreserves ==
    ASSUME AccountsInv, NEW c \in Calls, RegisterFind(c)
    PROVE  AccountsInv'
  <1>1. call[c].at = "find" /\ UNCHANGED <<account, tokens>> /\ (Reach(c, "create") \/ Hang(c))
    BY DEF RegisterFind
  <1>2. tokens' \subseteq Persons
    BY <1>1 DEF AccountsInv, AccountsTypeOK, Persons
  <1>3. CASE Reach(c, "create")
    <2>1. /\ call' \in [Calls -> Call] /\ CallsAreNormal'
          /\ \A d \in Calls : call'[d].at = "setAdmin" => call[d].at = "setAdmin"
      BY <1>1, <1>3, ReachLemma
    <2> QED
      BY <1>1, <1>2, <2>1, SameAccounts
  <1>4. CASE Hang(c)
    BY <1>1, <1>2, <1>4, HangLemma, SameAccounts
  <1> QED
    BY <1>1, <1>3, <1>4

LEMMA AdminGuardPreserves ==
    ASSUME AccountsInv, NEW c \in Calls, AdminGuard(c)
    PROVE  AccountsInv'
  <1>1. /\ call[c].at = "guard" /\ UNCHANGED <<account, tokens>>
        /\ (resolveAdmin(call[c].by) /\ Reach(c, "setAdmin")) \/ Hang(c)
    BY DEF AdminGuard
  <1>2. tokens' \subseteq Persons
    BY <1>1 DEF AccountsInv, AccountsTypeOK, Persons
  <1>3. CASE resolveAdmin(call[c].by) /\ Reach(c, "setAdmin")
    <2>1. call' \in [Calls -> Call] /\ CallsAreNormal'
      BY <1>1, <1>3, ReachLemma
    <2>2. call[c].by \in People
      BY <1>1, CallFields DEF AccountsInv
    <2>3. \E q \in People : Allowlisted(q)
      BY <1>3, <2>2 DEF resolveAdmin, AccountsInv, GuardedByAllowlist, Allowlisted, HasEmail
    <2> QED
      BY <1>1, <1>2, <2>1, <2>3, SameAccounts
  <1>4. CASE Hang(c)
    BY <1>1, <1>2, <1>4, HangLemma, SameAccounts
  <1> QED
    BY <1>1, <1>3, <1>4

LEMMA CallFailsPreserves ==
    ASSUME AccountsInv, NEW c \in Calls, CallFails(c)
    PROVE  AccountsInv'
  <1>1. Hang(c) /\ UNCHANGED <<account, tokens>>
    BY DEF CallFails
  <1>2. tokens' \subseteq Persons
    BY <1>1 DEF AccountsInv, AccountsTypeOK, Persons
  <1> QED
    BY <1>1, <1>2, HangLemma, SameAccounts

\* Logging in and the end of a token move tokens only.
LEMMA TokensPreserve ==
    ASSUME AccountsInv, UNCHANGED <<account, call>>, tokens' \subseteq Persons
    PROVE  AccountsInv'
  <1>1. call' \in [Calls -> Call] /\ CallsAreNormal'
    BY DEF AccountsInv, AccountsTypeOK, CallsAreNormal
  <1> QED
    BY <1>1, SameAccounts

\* A new person, a guest or somebody whose address nobody has.
LEMMA NewPerson ==
    ASSUME AccountsInv, NEW p \in People, p \notin Persons, NEW e, NEW w,
           \/ e = Null /\ w = Null
           \/ e \in Email /\ e.form = "plain" /\ w \in Passwords /\ WithEmail(e) = {},
           account' = [account EXCEPT ![p] = Person(e, w)],
           tokens' = tokens \cup {p},
           call' \in [Calls -> Call], CallsAreNormal',
           \A c \in Calls : call'[c].at = "setAdmin" => call[c].at = "setAdmin"
    PROVE  AccountsInv'
  <1> DEFINE new == Person(e, w)
  <1>1. /\ new \in Account /\ new.exists /\ ~new.isAdmin
        /\ new.email = e /\ new.passwordHash = w
    BY DEF Account, Person
  <1>2. account' = [account EXCEPT ![p] = new]
    OBVIOUS
  <1> HIDE DEF new
  <1>3. account \in [People -> Account]
    BY DEF AccountsInv, AccountsTypeOK
  <1>4. /\ account' \in [People -> Account]
        /\ \A q \in People : account'[q] = IF q = p THEN new ELSE account[q]
    BY <1>1, <1>2, <1>3
  <1>5. AccountsTypeOK'
    BY <1>1, <1>4 DEF AccountsInv, AccountsTypeOK
  <1>6. ~account[p].exists
    BY DEF Persons
  <1>7. /\ HasEmail(p)' => e \in Email /\ e.form = "plain" /\ w \in Passwords /\ WithEmail(e) = {}
        /\ \A q \in People \ {p} : HasEmail(q)' = HasEmail(q) /\ Allowlisted(q)' = Allowlisted(q)
    BY <1>1, <1>4 DEF HasEmail, Allowlisted
  <1>8. \A q \in People : Registered(q)'
    <2> SUFFICES ASSUME NEW q \in People PROVE Registered(q)'
      OBVIOUS
    <2>1. CASE q = p
      BY <1>1, <1>4, <1>7, <2>1 DEF Registered
    <2>2. CASE q # p
      BY <1>4, <1>7, <2>2 DEF AccountsInv, Registered
    <2> QED
      BY <2>1, <2>2
  <1>9. OnePerEmail'
    <2> SUFFICES ASSUME NEW q \in People, NEW r \in People, HasEmail(q)', HasEmail(r)',
                        account'[q].email = account'[r].email, q # r
                 PROVE  FALSE
      BY DEF OnePerEmail
    <2>1. CASE q # p /\ r # p
      BY <1>4, <1>7, <2>1 DEF AccountsInv, OnePerEmail
    <2>2. \A s \in People \ {p} : HasEmail(p)' /\ HasEmail(s)' => account'[s].email # e
      BY <1>4, <1>7 DEF HasEmail, WithEmail, Persons
    <2>3. account'[p].email = e
      BY <1>1, <1>4
    <2> QED
      BY <2>1, <2>2, <2>3
  <1>10. GuardedByAllowlist'
    <2>1. (\E q \in People : Allowlisted(q)) => (\E q \in People : Allowlisted(q))'
      BY <1>6, <1>7 DEF Allowlisted, HasEmail
    <2>2. (\E q \in People : account'[q].exists /\ account'[q].isAdmin)
              => \E q \in People : account[q].exists /\ account[q].isAdmin
      BY <1>1, <1>4
    <2> QED
      BY <2>1, <2>2 DEF AccountsInv, GuardedByAllowlist
  <1> QED
    BY <1>5, <1>8, <1>9, <1>10 DEF AccountsInv

LEMMA RegisterCreatePreserves ==
    ASSUME AccountsInv, NEW c \in Calls, RegisterCreate(c)
    PROVE  AccountsInv'
  <1>1. call[c].at = "create" /\ Hang(c)
    BY DEF RegisterCreate
  <1>2. /\ call[c].email \in Email /\ call[c].password \in Passwords
        /\ call[c].email.form = "plain"
    BY <1>1, CallFields DEF AccountsInv, CallsAreNormal
  <1>3. /\ call' \in [Calls -> Call] /\ CallsAreNormal'
        /\ \A d \in Calls : call'[d].at = "setAdmin" => call[d].at = "setAdmin"
    BY <1>1, HangLemma
  <1>4. CASE UNCHANGED <<account, tokens>>
    <2>1. tokens' \subseteq Persons
      BY <1>4 DEF AccountsInv, AccountsTypeOK, Persons
    <2> QED
      BY <1>3, <1>4, <2>1, SameAccounts
  <1>5. CASE ~UNCHANGED <<account, tokens>>
    <2>1. PICK p \in People \ Persons :
              /\ account' = [account EXCEPT ![p] = Person(call[c].email, call[c].password)]
              /\ tokens' = tokens \cup {p}
      BY <1>5 DEF RegisterCreate
    <2>2. WithEmail(call[c].email) = {}
      BY <1>5 DEF RegisterCreate
    <2> QED
      BY <1>2, <1>3, <2>1, <2>2, NewPerson
  <1> QED
    BY <1>4, <1>5

LEMMA GuestPreserves ==
    ASSUME AccountsInv, NEW p \in People, Guest(p)
    PROVE  AccountsInv'
  <1>1. /\ p \notin Persons /\ account' = [account EXCEPT ![p] = Person(Null, Null)]
        /\ tokens' = tokens \cup {p} /\ call' = call
    BY DEF Guest
  <1>2. call' \in [Calls -> Call] /\ CallsAreNormal'
    BY <1>1 DEF AccountsInv, AccountsTypeOK, CallsAreNormal
  <1> QED
    BY <1>1, <1>2, NewPerson

LEMMA SetAdminPreserves ==
    ASSUME AccountsInv, NEW c \in Calls, SetAdmin(c)
    PROVE  AccountsInv'
  <1> DEFINE p == call[c].person
  <1>1. /\ call[c].at = "setAdmin" /\ Hang(c) /\ tokens' = tokens
        /\ account' = IF account[p].exists
                       THEN [account EXCEPT ![p].isAdmin = call[c].isAdmin] ELSE account
    BY DEF SetAdmin
  <1>2. p \in People /\ call[c].isAdmin \in BOOLEAN
    BY <1>1, CallFields DEF AccountsInv
  <1>3. /\ call' \in [Calls -> Call] /\ CallsAreNormal'
        /\ \A d \in Calls : call'[d].at = "setAdmin" => call[d].at = "setAdmin"
    BY <1>1, HangLemma
  <1>4. \E q \in People : Allowlisted(q)
    BY <1>1 DEF AccountsInv, GuardedByAllowlist
  <1>5. account \in [People -> Account]
    BY DEF AccountsInv, AccountsTypeOK
  <1> HIDE DEF p
  <1>6. /\ account' \in [People -> Account]
        /\ \A q \in People : /\ account'[q].exists = account[q].exists
                              /\ account'[q].email = account[q].email
                              /\ account'[q].passwordHash = account[q].passwordHash
    <2> DEFINE new == [account[p] EXCEPT !.isAdmin = call[c].isAdmin]
    <2>1. account[p] \in Account
      BY <1>2, <1>5
    <2>2. /\ new \in Account /\ new.exists = account[p].exists
          /\ new.email = account[p].email /\ new.passwordHash = account[p].passwordHash
      BY <1>2, <2>1 DEF Account
    <2>3. account' = IF account[p].exists THEN [account EXCEPT ![p] = new] ELSE account
      BY <1>1
    <2> HIDE DEF new
    <2> QED
      BY <1>2, <1>5, <2>2, <2>3
  <1>7. AccountsTypeOK'
    BY <1>1, <1>3, <1>6 DEF AccountsInv, AccountsTypeOK
  <1>8. \A q \in People : HasEmail(q)' = HasEmail(q) /\ Allowlisted(q)' = Allowlisted(q)
    BY <1>6 DEF HasEmail, Allowlisted
  <1>9. (\A q \in People : Registered(q))' /\ OnePerEmail'
    BY <1>6, <1>8 DEF AccountsInv, Registered, OnePerEmail
  <1>10. GuardedByAllowlist'
    BY <1>4, <1>8 DEF GuardedByAllowlist
  <1> QED
    BY <1>3, <1>7, <1>9, <1>10 DEF AccountsInv

\* A step that leaves the accounts alone.
LEMMA AccountsUntouched ==
    ASSUME AccountsInv, UNCHANGED accounts
    PROVE  AccountsInv'
  <1>1. tokens' \subseteq Persons
    BY DEF AccountsInv, AccountsTypeOK, Persons, accounts
  <1> QED
    BY <1>1, TokensPreserve DEF accounts

\* The calls of a process that ends are gone.
LEMMA AccountsRestart ==
    ASSUME AccountsInv, Restart
    PROVE  AccountsInv'
  <1>1. call' = [c \in Calls |-> Quiet] /\ UNCHANGED <<account, tokens>>
    BY DEF Restart
  <1>2. call' \in [Calls -> Call] /\ \A c \in Calls : call'[c].at = "quiet"
    BY <1>1 DEF Call, Quiet
  <1>3. CallsAreNormal' /\ tokens' \subseteq Persons
    BY <1>1, <1>2 DEF CallsAreNormal, AccountsInv, AccountsTypeOK, Persons
  <1> QED
    BY <1>1, <1>2, <1>3, SameAccounts

LEMMA AccountsInvInit ==
    ASSUME AccountsInit
    PROVE  AccountsInv
  <1>1. account = [p \in People |-> Absent] /\ tokens = {} /\ call = [c \in Calls |-> Quiet]
    BY DEF AccountsInit
  <1>2. Absent \in Account /\ ~Absent.exists /\ Quiet \in Call /\ Quiet.at = "quiet"
    BY DEF Absent, Account, Quiet, Call
  <1>3. /\ account \in [People -> Account] /\ call \in [Calls -> Call]
        /\ \A p \in People : ~account[p].exists
        /\ \A c \in Calls : call[c].at = "quiet"
    BY <1>1, <1>2
  <1> QED
    BY <1>1, <1>3 DEF AccountsInv, AccountsTypeOK, Registered, OnePerEmail, HasEmail,
                      CallsAreNormal, GuardedByAllowlist

\* One step of Deployment.
LEMMA AccountsStep ==
    ASSUME AccountsInv, [Next]_vars
    PROVE  AccountsInv'
  <1>1. CASE UNCHANGED vars
    BY <1>1, AccountsUntouched DEF vars
  <1>2. ASSUME NEW c \in Calls, CallBegins(c)
        PROVE  AccountsInv'
    BY <1>2, RegisterPreserves, AdminCallPreserves DEF CallBegins
  <1>3. ASSUME NEW c \in Calls, CallGoesOn(c)
        PROVE  AccountsInv'
    BY <1>3, RegisterFindPreserves, RegisterCreatePreserves, AdminGuardPreserves, SetAdminPreserves
    DEF CallGoesOn
  <1>4. ASSUME NEW c \in Calls, CallFails(c)
        PROVE  AccountsInv'
    BY <1>4, CallFailsPreserves
  <1>5. ASSUME NEW p \in People, Guest(p) \/ Expire(p)
        PROVE  AccountsInv'
    <2>1. CASE Guest(p)
      BY <2>1, GuestPreserves
    <2>2. CASE Expire(p)
      <3>1. UNCHANGED <<account, call>> /\ tokens' \subseteq Persons
        BY <2>2 DEF Expire, AccountsInv, AccountsTypeOK, Persons
      <3> QED
        BY <3>1, TokensPreserve
    <2> QED
      BY <1>5, <2>1, <2>2
  <1>6. ASSUME NEW e \in Email, NEW w \in Passwords, Login(e, w)
        PROVE  AccountsInv'
    <2>1. UNCHANGED <<account, call>> /\ tokens' \subseteq Persons
      BY <1>6 DEF Login, login, WithEmail, AccountsInv, AccountsTypeOK, Persons
    <2> QED
      BY <2>1, TokensPreserve
  <1>7. CASE UNCHANGED accounts
    BY <1>7, AccountsUntouched
  <1>8. CASE Restart
    BY <1>8, AccountsRestart
  <1> QED
    BY <1>1, <1>2, <1>3, <1>4, <1>5, <1>6, <1>7, <1>8 DEF Next, RetryAsAdmin

LEMMA LoginsFollow ==
    ASSUME AccountsInv
    PROVE  LoginsFindTheirAccount
  <1> SUFFICES ASSUME NEW p \in Persons, account[p].email # Null
               PROVE  /\ \A q \in Persons \ {p} : \/ account[q].email = Null
                                                   \/ account[q].email.box # account[p].email.box
                      /\ \A f \in Forms :
                             login([account[p].email EXCEPT !.form = f], account[p].passwordHash) = {p}
    BY DEF LoginsFindTheirAccount
  <1>1. /\ p \in People /\ HasEmail(p) /\ account[p].email \in Email
        /\ account[p].email.form = "plain"
        /\ account[p].passwordHash \in Passwords
    BY DEF AccountsInv, AccountsTypeOK, Account, Persons, HasEmail, Registered
  <1>2. \A q \in Persons : account[q].email = account[p].email => q = p
    BY <1>1 DEF AccountsInv, OnePerEmail, HasEmail, Persons
  <1>3. ASSUME NEW q \in Persons \ {p}, account[q].email # Null,
               account[q].email.box = account[p].email.box
        PROVE  FALSE
    <2>1. account[q].email \in Email /\ account[q].email.form = "plain"
      BY <1>3 DEF AccountsInv, AccountsTypeOK, Account, Persons, HasEmail, Registered
    <2>2. account[q].email = account[p].email
      BY <1>1, <1>3, <2>1 DEF Email
    <2> QED
      BY <1>2, <1>3, <2>2
  <1>4. ASSUME NEW f \in Forms
        PROVE  login([account[p].email EXCEPT !.form = f], account[p].passwordHash) = {p}
    <2>1. normal([account[p].email EXCEPT !.form = f]) = account[p].email
      BY <1>1 DEF normal, Email
    <2>2. WithEmail(account[p].email) = {p}
      BY <1>2 DEF WithEmail
    <2>3. verifyPassword(account[p].passwordHash, account[p].passwordHash)
      BY <1>1, AccountsAssumption DEF verifyPassword
    <2> QED
      BY <2>1, <2>2, <2>3 DEF login
  <1> QED
    BY <1>3, <1>4

LEMMA AdminsFollow ==
    ASSUME AccountsInv
    PROVE  AdminsDescendFromAllowlist
  BY DEF AccountsInv, GuardedByAllowlist, AdminsDescendFromAllowlist, Allowlisted, HasEmail, Persons

-----------------------------------------------------------------------------
(* Requests *)

LEMMA WorkFields ==
    ASSUME VaultTypeOK, NEW r \in Works
    PROVE  /\ work[r] \in Work
           /\ work[r].at # "rest" => work[r].doc \in Docs /\ work[r].refs \in BOOLEAN
           /\ work[r].at \in {"rest"} \cup Uploading \cup Shredding \cup {"retry.update", "retry.commit"}
           /\ (work[r].at = "rest") <=> (work[r] = Resting)
  <1>1. work[r] \in Work
    BY DEF VaultTypeOK
  <1> QED
    BY <1>1 DEF Work, Resting, Uploading, Shredding

\* A request that rests leaves the others as they were.
LEMMA RestLemma ==
    ASSUME VaultTypeOK, NEW r \in Works, Rest(r)
    PROVE  /\ work' \in [Works -> Work]
           /\ \A q \in Works : work'[q].at # "rest" => work'[q] = work[q]
           /\ \A q \in Works : q # r => work'[q] = work[q]
  <1>1. work \in [Works -> Work] /\ Resting \in Work /\ Resting.at = "rest"
    BY DEF VaultTypeOK, Work, Resting
  <1>2. work' \in [Works -> Work] /\ \A q \in Works : work'[q] = IF q = r THEN Resting ELSE work[q]
    BY <1>1 DEF Rest
  <1> QED
    BY <1>1, <1>2

Stages == Uploading \cup Shredding \cup {"retry.update", "retry.commit"}

\* A request that turns to its next stage keeps its document.
LEMMA TurnLemma ==
    ASSUME VaultTypeOK, NEW r \in Works, work[r].at # "rest", NEW at \in Stages, Turn(r, at)
    PROVE  /\ work' \in [Works -> Work]
           /\ work'[r].at = at /\ work'[r].doc = work[r].doc /\ work'[r].refs = work[r].refs
           /\ \A q \in Works : q # r => work'[q] = work[q]
  <1> DEFINE next == [work[r] EXCEPT !.at = at]
  <1>1. work \in [Works -> Work]
    BY DEF VaultTypeOK
  <1>2. /\ next \in Work /\ next.at = at /\ next.doc = work[r].doc /\ next.refs = work[r].refs
    BY WorkFields DEF Work, Resting, Stages, Uploading, Shredding
  <1>3. work' = [work EXCEPT ![r] = next]
    BY DEF Turn
  <1> HIDE DEF next
  <1> QED
    BY <1>1, <1>2, <1>3

\* A new request.
LEMMA TaskLemma ==
    ASSUME VaultTypeOK, NEW r \in Works, NEW at \in Stages, NEW d \in Docs,
           work' = [work EXCEPT ![r] = Task(at, d)]
    PROVE  /\ work' \in [Works -> Work]
           /\ work'[r].at = at /\ work'[r].doc = d /\ work'[r].refs = row[d].refs
           /\ \A q \in Works : q # r => work'[q] = work[q]
  <1> DEFINE next == Task(at, d)
  <1>1. work \in [Works -> Work] /\ row[d].refs \in BOOLEAN
    BY DEF VaultTypeOK, Row
  <1>2. next \in Work /\ next.at = at /\ next.doc = d /\ next.refs = row[d].refs
    BY <1>1 DEF Task, Work, Stages, Uploading, Shredding
  <1>3. work' = [work EXCEPT ![r] = next]
    OBVIOUS
  <1> HIDE DEF next
  <1> QED
    BY <1>1, <1>2, <1>3

-----------------------------------------------------------------------------
(* Steps that change requests, or the status of rows, and nothing else *)

stores == <<config, objects, bucket, keys, history>>

\* One request moves, and what its new stage promises holds.
LEMMA RequestMoves ==
    ASSUME VaultInv, NEW r \in Works, UNCHANGED <<stores, row>>, jobs' \subseteq Docs,
           work' \in [Works -> Work],
           \A q \in Works : q # r => work'[q] = work[q],
           work'[r].at \in Uploading => work[r].at \in Uploading /\ work'[r].doc = work[r].doc,
           work'[r].at \notin Uploading \cup {"rest"} => work'[r].doc \in Known,
           work'[r].at \in Shredding =>
               /\ work'[r].refs \/ work'[r].doc \in forgotten
               /\ work'[r].at \in KeyIsGone => work'[r].doc \in doomed \ keys,
           work'[r].at # "shred.refused"
    PROVE  VaultInv'
  <1>1. Known' = Known
    BY DEF Known
  <1>2. UNCHANGED <<config, row, objects, bucket, keys, doomed, forgotten, restarted>>
    BY DEF stores, history
  <1>3. VaultTypeOK'
    BY <1>2 DEF VaultInv, VaultTypeOK
  <1>4. ErasedRows' /\ KeysAreGone'
    BY <1>1, <1>2 DEF VaultInv, ErasedRows, KeysAreGone
  <1>5. UploadsAreOwn'
    BY <1>1, <1>2 DEF VaultInv, UploadsAreOwn
  <1>6. WorkHasRow'
    BY <1>1 DEF VaultInv, WorkHasRow
  <1>7. ShredsInOrder'
    BY <1>2 DEF VaultInv, ShredsInOrder
  <1>8. UploadsStayReadable'
    BY <1>1, <1>2 DEF VaultInv, UploadsStayReadable, Readable, decryptDataKey
  <1>9. ShredsAreRepeatable'
    BY <1>2 DEF VaultInv, ShredsAreRepeatable
  <1> QED
    BY <1>3, <1>4, <1>5, <1>6, <1>7, <1>8, <1>9 DEF VaultInv

\* Rows change their status, and requests end.
LEMMA StatusMoves ==
    ASSUME VaultInv, UNCHANGED stores, jobs' \subseteq Docs,
           row' \in [Docs -> Row],
           \A d \in Docs : /\ (row'[d].status = "absent") <=> (row[d].status = "absent")
                           /\ row'[d].refs = row[d].refs /\ row'[d].uploaded = row[d].uploaded,
           work' \in [Works -> Work],
           \A q \in Works : work'[q].at # "rest" => work'[q] = work[q]
    PROVE  VaultInv'
  <1>1. Known' = Known
    BY DEF Known
  <1>2. UNCHANGED <<config, objects, bucket, keys, doomed, forgotten, restarted>>
    BY DEF stores, history
  <1>3. VaultTypeOK'
    BY <1>2 DEF VaultInv, VaultTypeOK
  <1>4. ErasedRows' /\ KeysAreGone'
    BY <1>1, <1>2 DEF VaultInv, ErasedRows, KeysAreGone, Known
  <1>5. UploadsAreOwn'
    BY <1>1, <1>2 DEF VaultInv, UploadsAreOwn, Uploading
  <1>6. WorkHasRow'
    BY <1>1 DEF VaultInv, WorkHasRow
  <1>7. ShredsInOrder'
    BY <1>2 DEF VaultInv, ShredsInOrder, Shredding
  <1>8. UploadsStayReadable'
    BY <1>1, <1>2 DEF VaultInv, UploadsStayReadable, Readable, decryptDataKey, Known
  <1>9. ShredsAreRepeatable'
    BY <1>2 DEF VaultInv, ShredsAreRepeatable
  <1> QED
    BY <1>3, <1>4, <1>5, <1>6, <1>7, <1>8, <1>9 DEF VaultInv

\* What a new status leaves of a row.
LEMMA NewStatus ==
    ASSUME VaultTypeOK, NEW d \in Known, NEW status \in {"pending", "processed", "failed"},
           row' = [row EXCEPT ![d].status = status]
    PROVE  row' \in [Docs -> Row] /\ \A x \in Docs :
               /\ (row'[x].status = "absent") <=> (row[x].status = "absent")
               /\ row'[x].refs = row[x].refs /\ row'[x].uploaded = row[x].uploaded
  <1> DEFINE new == [row[d] EXCEPT !.status = status]
  <1>1. d \in Docs /\ row \in [Docs -> Row] /\ row[d] \in Row /\ row[d].status # "absent"
    BY DEF VaultTypeOK, Known
  <1>2. /\ new \in Row /\ new.status # "absent"
        /\ new.refs = row[d].refs /\ new.uploaded = row[d].uploaded
    BY <1>1 DEF Row
  <1>3. row' = [row EXCEPT ![d] = new]
    OBVIOUS
  <1> HIDE DEF new
  <1> QED
    BY <1>1, <1>2, <1>3

LEMMA WorkFailsPreserves ==
    ASSUME VaultInv, NEW r \in Works, WorkFails(r)
    PROVE  VaultInv'
  <1>1. Rest(r) /\ UNCHANGED <<stores, row, jobs>>
    BY DEF WorkFails, stores, history
  <1>2. work' \in [Works -> Work] /\ \A q \in Works : work'[q].at # "rest" => work'[q] = work[q]
    BY <1>1, RestLemma DEF VaultInv
  <1>3. row' \in [Docs -> Row] /\ jobs' \subseteq Docs /\ row' = row
    BY <1>1 DEF VaultInv, VaultTypeOK
  <1> QED
    BY <1>1, <1>2, <1>3, StatusMoves

LEMMA UploadPublishPreserves ==
    ASSUME VaultInv, NEW r \in Works, UploadPublish(r)
    PROVE  VaultInv'
  <1>1. /\ work[r].at = "upload.publish" /\ Turn(r, "upload.commit")
        /\ jobs' = jobs \cup {work[r].doc} /\ UNCHANGED <<stores, row>>
    BY DEF UploadPublish, stores, history
  <1>2. VaultTypeOK /\ "upload.commit" \in Stages /\ work[r].at # "rest"
    BY <1>1 DEF VaultInv, Stages, Uploading
  <1>3. /\ work' \in [Works -> Work] /\ \A q \in Works : q # r => work'[q] = work[q]
        /\ work'[r].at = "upload.commit" /\ work'[r].doc = work[r].doc
    BY <1>1, <1>2, TurnLemma
  <1>4. jobs' \subseteq Docs
    BY <1>1, <1>2, WorkFields DEF VaultTypeOK
  <1> QED
    BY <1>1, <1>3, <1>4, RequestMoves DEF Uploading, Shredding

LEMMA RetryPreserves ==
    ASSUME VaultInv, NEW r \in Works, NEW d \in Docs, Retry(r, d)
    PROVE  VaultInv'
  <1>1. /\ d \in Known /\ work' = [work EXCEPT ![r] = Task("retry.update", d)]
        /\ UNCHANGED <<stores, row, jobs>>
    BY DEF Retry, stores, history
  <1>2. VaultTypeOK /\ "retry.update" \in Stages /\ jobs' \subseteq Docs
    BY <1>1 DEF VaultInv, VaultTypeOK, Stages
  <1>3. /\ work' \in [Works -> Work] /\ \A q \in Works : q # r => work'[q] = work[q]
        /\ work'[r].at = "retry.update" /\ work'[r].doc = d
    <2>1. "retry.update" \in Stages /\ work' = [work EXCEPT ![r] = Task("retry.update", d)]
      BY <1>1, <1>2
    <2>2. VaultTypeOK
      BY <1>2
    <2>3. /\ work' \in [Works -> Work]
          /\ work'[r].at = "retry.update" /\ work'[r].doc = d /\ work'[r].refs = row[d].refs
          /\ \A q \in Works : q # r => work'[q] = work[q]
      BY <2>1, <2>2, TaskLemma
    <2> QED
      BY <2>3
  <1> QED
    BY <1>1, <1>2, <1>3, RequestMoves DEF Uploading, Shredding

LEMMA RetryUpdatePreserves ==
    ASSUME VaultInv, NEW r \in Works, RetryUpdate(r)
    PROVE  VaultInv'
  <1>1. /\ work[r].at = "retry.update" /\ Turn(r, "retry.commit")
        /\ jobs' = jobs \cup {work[r].doc} /\ UNCHANGED <<stores, row>>
    BY DEF RetryUpdate, stores, history
  <1>2. VaultTypeOK /\ "retry.commit" \in Stages /\ work[r].at # "rest"
    BY <1>1 DEF VaultInv, Stages
  <1>3. /\ work' \in [Works -> Work] /\ \A q \in Works : q # r => work'[q] = work[q]
        /\ work'[r].at = "retry.commit" /\ work'[r].doc = work[r].doc
    BY <1>1, <1>2, TurnLemma
  <1>4. jobs' \subseteq Docs /\ work[r].doc \in Known
    BY <1>1, <1>2, WorkFields DEF VaultTypeOK, VaultInv, WorkHasRow, Uploading
  <1> QED
    BY <1>1, <1>3, <1>4, RequestMoves DEF Uploading, Shredding

LEMMA RetryCommitPreserves ==
    ASSUME VaultInv, NEW r \in Works, RetryCommit(r)
    PROVE  VaultInv'
  <1> DEFINE d == work[r].doc
  <1>1. /\ work[r].at = "retry.commit" /\ Rest(r) /\ UNCHANGED <<stores, jobs>>
        /\ row' = [row EXCEPT ![d].status = "pending"]
    BY DEF RetryCommit, stores, history
  <1>2. VaultTypeOK /\ d \in Known /\ jobs' \subseteq Docs
    BY <1>1 DEF VaultInv, VaultTypeOK, WorkHasRow, Uploading
  <1>3. work' \in [Works -> Work] /\ \A q \in Works : work'[q].at # "rest" => work'[q] = work[q]
    BY <1>1, <1>2, RestLemma
  <1>4. row' \in [Docs -> Row] /\ \A x \in Docs :
            /\ (row'[x].status = "absent") <=> (row[x].status = "absent")
            /\ row'[x].refs = row[x].refs /\ row'[x].uploaded = row[x].uploaded
    BY <1>1, <1>2, NewStatus
  <1> QED
    BY <1>1, <1>2, <1>3, <1>4, StatusMoves

LEMMA RetryDocumentPreserves ==
    ASSUME VaultInv, NEW d \in Docs, retryDocument(d)
    PROVE  VaultInv'
  <1>1. /\ d \in Known /\ UNCHANGED <<stores, work>> /\ jobs' = jobs \cup {d}
        /\ row' = [row EXCEPT ![d].status = "pending"]
    BY DEF retryDocument, stores, history
  <1>2. VaultTypeOK /\ jobs' \subseteq Docs /\ work' \in [Works -> Work] /\ work' = work
    BY <1>1 DEF VaultInv, VaultTypeOK
  <1>3. row' \in [Docs -> Row] /\ \A x \in Docs :
            /\ (row'[x].status = "absent") <=> (row[x].status = "absent")
            /\ row'[x].refs = row[x].refs /\ row'[x].uploaded = row[x].uploaded
    BY <1>1, <1>2, NewStatus
  <1> QED
    BY <1>1, <1>2, <1>3, StatusMoves

LEMMA HandlePreserves ==
    ASSUME VaultInv, NEW d \in Docs, Handle(d)
    PROVE  VaultInv'
  <1>1. UNCHANGED <<stores, work>>
    BY DEF Handle, stores, history
  <1>2. VaultTypeOK /\ work' \in [Works -> Work] /\ work' = work /\ row \in [Docs -> Row]
    BY <1>1 DEF VaultInv, VaultTypeOK
  <1>3. jobs' \subseteq Docs
    BY <1>2 DEF Handle, VaultTypeOK
  <1>4. CASE UNCHANGED row
    BY <1>1, <1>2, <1>3, <1>4, StatusMoves
  <1>5. CASE ~UNCHANGED row
    <2>1. d \in Known
      BY <1>5 DEF Handle
    <2>2. PICK status \in {"processed", "failed"} : row' = [row EXCEPT ![d].status = status]
      BY <1>5 DEF Handle
    <2>3. row' \in [Docs -> Row] /\ \A x \in Docs :
              /\ (row'[x].status = "absent") <=> (row[x].status = "absent")
              /\ row'[x].refs = row[x].refs /\ row'[x].uploaded = row[x].uploaded
      BY <1>2, <2>1, <2>2, NewStatus
    <2> QED
      BY <1>1, <1>2, <1>3, <2>3, StatusMoves
  <1> QED
    BY <1>4, <1>5

-----------------------------------------------------------------------------
(* Uploads and demo documents *)

LEMMA UploadPreserves ==
    ASSUME VaultInv, NEW r \in Works, NEW d \in Docs, Upload(r, d)
    PROVE  VaultInv'
  <1>1. /\ work[r] = Resting /\ d \notin Known
        /\ \A q \in Works : work[q] # Resting => work[q].doc # d
        /\ config.s3 => bucket
        /\ objects' = objects \cup {d}
        /\ keys' = IF config.kms THEN keys ELSE keys \cup {d}
        /\ UNCHANGED <<config, row, bucket, jobs, doomed, forgotten, restarted>>
    BY DEF Upload, put, generateDataKey, history
  <1>2. VaultTypeOK
    BY DEF VaultInv
  <1>3. /\ work' \in [Works -> Work]
        /\ work'[r].at = "upload.publish" /\ work'[r].doc = d /\ work'[r].refs = row[d].refs
        /\ \A q \in Works : q # r => work'[q] = work[q]
    <2>1. "upload.publish" \in Stages /\ work' = [work EXCEPT ![r] = Task("upload.publish", d)]
      BY DEF Upload, Stages, Uploading
    <2> QED
      BY <1>2, <2>1, TaskLemma
  <1>4. Known' = Known
    BY <1>1 DEF Known
  <1>5. VaultTypeOK'
    BY <1>1, <1>2, <1>3 DEF VaultTypeOK
  <1>6. ErasedRows'
    BY <1>1, <1>4 DEF VaultInv, ErasedRows
  <1>7. KeysAreGone'
    BY <1>1 DEF VaultInv, KeysAreGone, ErasedRows
  <1>8. \A q \in Works : q # r /\ work[q].at # "rest" => work[q].doc # d
    BY <1>1, <1>2, WorkFields
  <1>9. UploadsAreOwn'
    <2>1. \A q \in Works : q # r /\ work'[q].at \in Uploading => work'[q].doc # d
      BY <1>3, <1>8 DEF Uploading
    <2> SUFFICES ASSUME NEW q \in Works, work'[q].at \in Uploading
                 PROVE  /\ work'[q].doc \notin Known'
                        /\ work'[q].doc \in objects'
                        /\ config'.kms \/ work'[q].doc \in keys'
                        /\ \A p \in Works \ {q} :
                               work'[p].at \in Uploading => work'[p].doc # work'[q].doc
      BY DEF UploadsAreOwn
    <2>2. CASE q = r
      BY <1>1, <1>3, <1>4, <2>1, <2>2
    <2>3. CASE q # r
      BY <1>1, <1>3, <1>4, <2>1, <2>3 DEF VaultInv, UploadsAreOwn
    <2> QED
      BY <2>2, <2>3
  <1>10. WorkHasRow'
    BY <1>3, <1>4 DEF VaultInv, WorkHasRow, Uploading
  <1>11. ShredsInOrder'
    BY <1>1, <1>3, <1>8 DEF VaultInv, ShredsInOrder, Uploading, Shredding, KeyIsGone
  <1>12. UploadsStayReadable'
    BY <1>1, <1>4 DEF VaultInv, UploadsStayReadable, Readable, decryptDataKey
  <1>13. ShredsAreRepeatable'
    BY <1>1, <1>3 DEF VaultInv, ShredsAreRepeatable
  <1> QED
    BY <1>5, <1>6, <1>7, <1>9, <1>10, <1>11, <1>12, <1>13 DEF VaultInv

\* A row appears that nobody works on but, perhaps, who uploads it.
LEMMA RowAppears ==
    ASSUME VaultInv, NEW d \in Docs, d \notin Known, NEW new \in Row,
           new.status # "absent", new.refs,
           new.uploaded => d \in objects /\ (config.kms \/ d \in keys),
           row' = [row EXCEPT ![d] = new],
           UNCHANGED <<config, objects, bucket, keys, jobs, doomed, forgotten, restarted>>,
           work' \in [Works -> Work],
           \A q \in Works : work'[q].at # "rest" => work'[q] = work[q] /\ work[q].doc # d
    PROVE  VaultInv'
  <1>1. /\ VaultTypeOK /\ row' \in [Docs -> Row]
        /\ \A x \in Docs : row'[x] = IF x = d THEN new ELSE row[x]
    BY DEF VaultInv, VaultTypeOK
  <1>2. Known' = Known \cup {d}
    BY <1>1 DEF Known
  <1>3. VaultTypeOK'
    BY <1>1 DEF VaultTypeOK
  <1>4. ErasedRows' /\ d \notin forgotten
    BY <1>1, <1>2 DEF VaultInv, ErasedRows, Known
  <1>5. KeysAreGone'
    BY DEF VaultInv, KeysAreGone
  <1>6. UploadsAreOwn'
    BY <1>2 DEF VaultInv, UploadsAreOwn, Uploading
  <1>7. WorkHasRow'
    BY <1>2 DEF VaultInv, WorkHasRow
  <1>8. ShredsInOrder'
    BY DEF VaultInv, ShredsInOrder, Shredding
  <1>9. UploadsStayReadable'
    <2> SUFFICES ASSUME NEW x \in Known' \ doomed, row'[x].uploaded
                 PROVE  (x \in objects /\ row'[x].refs /\ (config.kms \/ x \in keys))
                            \/ (restarted /\ ~(config.s3 /\ config.kms))
      BY DEF UploadsStayReadable, Readable, decryptDataKey
    <2>1. CASE x = d
      BY <1>1, <2>1
    <2>2. CASE x # d
      BY <1>1, <1>2, <2>2 DEF VaultInv, UploadsStayReadable, Readable, decryptDataKey, Known
    <2> QED
      BY <2>1, <2>2
  <1>10. ShredsAreRepeatable'
    BY <1>1 DEF VaultInv, ShredsAreRepeatable
  <1> QED
    BY <1>3, <1>4, <1>5, <1>6, <1>7, <1>8, <1>9, <1>10 DEF VaultInv

LEMMA UploadCommitPreserves ==
    ASSUME VaultInv, NEW r \in Works, UploadCommit(r)
    PROVE  VaultInv'
  <1> DEFINE d == work[r].doc
             new == [status |-> "pending", refs |-> TRUE, uploaded |-> TRUE]
  <1>1. /\ work[r].at = "upload.commit" /\ Rest(r) /\ row' = [row EXCEPT ![d] = new]
        /\ UNCHANGED <<config, objects, bucket, keys, jobs, doomed, forgotten, restarted>>
    BY DEF UploadCommit, history
  <1>2. VaultTypeOK
    BY DEF VaultInv
  <1>3. new \in Row /\ new.status # "absent" /\ new.refs
    BY DEF Row
  <1>4. /\ work[r].at \in Uploading /\ d \in Docs /\ d \notin Known
        /\ d \in objects /\ (config.kms \/ d \in keys)
    BY <1>1, <1>2, WorkFields DEF VaultInv, UploadsAreOwn, Uploading
  <1>5. /\ work' \in [Works -> Work]
        /\ \A q \in Works : work'[q].at # "rest" => work'[q] = work[q]
        /\ work'[r].at = "rest"
    <2>1. /\ work' \in [Works -> Work]
          /\ \A q \in Works : work'[q].at # "rest" => work'[q] = work[q]
      BY <1>1, <1>2, RestLemma
    <2>2. work'[r].at = "rest"
      BY <1>1, <1>2 DEF Rest, Resting, VaultTypeOK
    <2> QED
      BY <2>1, <2>2
  <1>6. \A q \in Works : work'[q].at # "rest" => work[q].doc # d
    <2> SUFFICES ASSUME NEW q \in Works, work'[q].at # "rest"
                 PROVE  work[q].doc # d
      OBVIOUS
    <2>1. q # r /\ work[q].at # "rest"
      BY <1>5
    <2>2. CASE work[q].at \in Uploading
      BY <1>4, <2>1, <2>2 DEF VaultInv, UploadsAreOwn
    <2>3. CASE work[q].at \notin Uploading
      BY <1>4, <2>1, <2>3 DEF VaultInv, WorkHasRow
    <2> QED
      BY <2>2, <2>3
  <1> HIDE DEF d, new
  <1> QED
    BY <1>1, <1>3, <1>4, <1>5, <1>6, RowAppears

LEMMA DemoDocumentPreserves ==
    ASSUME VaultInv, NEW d \in Docs, DemoDocument(d)
    PROVE  VaultInv'
  <1> DEFINE new == [status |-> "processed", refs |-> TRUE, uploaded |-> FALSE]
  <1>1. /\ d \notin Known /\ \A q \in Works : work[q] # Resting => work[q].doc # d
        /\ row' = [row EXCEPT ![d] = new]
        /\ UNCHANGED <<config, objects, bucket, keys, jobs, work, doomed, forgotten, restarted>>
    BY DEF DemoDocument, history
  <1>2. new \in Row /\ new.status # "absent" /\ new.refs /\ ~new.uploaded
    BY DEF Row
  <1>3. work' \in [Works -> Work]
    BY <1>1 DEF VaultInv, VaultTypeOK
  <1>4. \A q \in Works : work'[q].at # "rest" => work'[q] = work[q] /\ work[q].doc # d
    BY <1>1, WorkFields DEF VaultInv
  <1> HIDE DEF new
  <1> QED
    BY <1>1, <1>2, <1>3, <1>4, RowAppears

-----------------------------------------------------------------------------
(* Shredding *)

LEMMA ShredPreserves ==
    ASSUME VaultInv, NEW r \in Works, NEW d \in Docs, Shred(r, d)
    PROVE  VaultInv'
  <1>1. d \in Known /\ UNCHANGED <<stores, row>> /\ jobs' \subseteq Docs
    BY DEF Shred, stores, history, VaultInv, VaultTypeOK
  <1>2. /\ work' \in [Works -> Work]
        /\ work'[r].at = "shred.update" /\ work'[r].doc = d /\ work'[r].refs = row[d].refs
        /\ \A q \in Works : q # r => work'[q] = work[q]
    <2>1. "shred.update" \in Stages /\ work' = [work EXCEPT ![r] = Task("shred.update", d)]
      BY DEF Shred, Stages, Shredding
    <2>2. VaultTypeOK
      BY DEF VaultInv
    <2> QED
      BY <2>1, <2>2, TaskLemma
  <1>3. work'[r].refs \/ d \in forgotten
    BY <1>1, <1>2 DEF VaultInv, ErasedRows
  <1> QED
    BY <1>1, <1>2, <1>3, RequestMoves DEF Uploading, KeyIsGone

LEMMA ShredUpdatePreserves ==
    ASSUME VaultInv, NEW r \in Works, ShredUpdate(r)
    PROVE  VaultInv'
  <1>1. /\ work[r].at = "shred.update" /\ Turn(r, "shred.key")
        /\ UNCHANGED <<stores, row>> /\ jobs' \subseteq Docs
    BY DEF ShredUpdate, stores, history, VaultInv, VaultTypeOK
  <1>2. VaultTypeOK /\ "shred.key" \in Stages /\ work[r].at # "rest"
    BY <1>1 DEF VaultInv, Stages, Shredding
  <1>3. /\ work' \in [Works -> Work] /\ \A q \in Works : q # r => work'[q] = work[q]
        /\ work'[r].at = "shred.key" /\ work'[r].doc = work[r].doc /\ work'[r].refs = work[r].refs
    BY <1>1, <1>2, TurnLemma
  <1>4. work[r].doc \in Known /\ (work[r].refs \/ work[r].doc \in forgotten)
    BY <1>1 DEF VaultInv, WorkHasRow, ShredsInOrder, Uploading, Shredding
  <1> QED
    BY <1>1, <1>3, <1>4, RequestMoves DEF Uploading, KeyIsGone

\* With the key the content is doomed, unless it was forgotten before.
LEMMA ShredKeyPreserves ==
    ASSUME VaultInv, NEW r \in Works, ShredKey(r)
    PROVE  VaultInv'
  <1> DEFINE d == work[r].doc
  <1>1. /\ work[r].at = "shred.key" /\ Turn(r, "shred.object")
        /\ keys' = IF work[r].refs /\ ~config.kms THEN keys \ {d} ELSE keys
        /\ doomed' = doomed \cup {d}
        /\ UNCHANGED <<config, row, objects, bucket, jobs, forgotten, restarted>>
    BY DEF ShredKey, shredKey
  <1>2. VaultTypeOK /\ "shred.object" \in Stages /\ work[r].at # "rest"
    BY <1>1 DEF VaultInv, Stages, Shredding
  <1>3. /\ work' \in [Works -> Work] /\ \A q \in Works : q # r => work'[q] = work[q]
        /\ work'[r].at = "shred.object" /\ work'[r].doc = d /\ work'[r].refs = work[r].refs
    BY <1>1, <1>2, TurnLemma
  <1>4. d \in Docs /\ d \in Known /\ (work[r].refs \/ d \in forgotten)
    BY <1>1, <1>2, WorkFields DEF VaultInv, WorkHasRow, ShredsInOrder, Uploading, Shredding
  <1> HIDE DEF d
  <1>5. d \notin keys' /\ keys' \subseteq keys /\ \A x \in keys : x # d => x \in keys'
    BY <1>1, <1>4 DEF VaultInv, KeysAreGone
  <1>6. Known' = Known
    BY <1>1 DEF Known
  <1>7. VaultTypeOK'
    BY <1>1, <1>2, <1>3, <1>4, <1>5 DEF VaultTypeOK
  <1>8. ErasedRows' /\ KeysAreGone'
    BY <1>1, <1>5, <1>6 DEF VaultInv, ErasedRows, KeysAreGone
  <1>9. UploadsAreOwn'
    <2>1. \A q \in Works : work'[q].at \in Uploading =>
              /\ work'[q] = work[q] /\ work[q].doc \notin Known /\ work[q].doc # d
      BY <1>3, <1>4 DEF VaultInv, UploadsAreOwn, Uploading
    <2> QED
      BY <1>1, <1>5, <1>6, <2>1 DEF VaultInv, UploadsAreOwn
  <1>10. WorkHasRow'
    BY <1>3, <1>4, <1>6 DEF VaultInv, WorkHasRow
  <1>11. ShredsInOrder'
    <2> SUFFICES ASSUME NEW q \in Works, work'[q].at \in Shredding
                 PROVE  /\ work'[q].refs \/ work'[q].doc \in forgotten'
                        /\ work'[q].at \in KeyIsGone => work'[q].doc \in doomed' \ keys'
      BY DEF ShredsInOrder
    <2>1. CASE q = r
      BY <1>1, <1>3, <1>4, <1>5, <2>1
    <2>2. CASE q # r
      BY <1>1, <1>3, <1>5, <2>2 DEF VaultInv, ShredsInOrder
    <2> QED
      BY <2>1, <2>2
  <1>12. UploadsStayReadable'
    BY <1>1, <1>5, <1>6 DEF VaultInv, UploadsStayReadable, Readable, decryptDataKey
  <1>13. ShredsAreRepeatable'
    BY <1>1, <1>3 DEF VaultInv, ShredsAreRepeatable
  <1> QED
    BY <1>7, <1>8, <1>9, <1>10, <1>11, <1>12, <1>13 DEF VaultInv

\* The object that is deleted is doomed, so that nobody reads it and nobody uploads it;
\* only an empty bucket can be deleted with the empty key.
LEMMA ShredObjectPreserves ==
    ASSUME VaultInv, NEW r \in Works, ShredObject(r)
    PROVE  VaultInv'
  <1> DEFINE d == work[r].doc
  <1>1. /\ work[r].at = "shred.object"
        /\ UNCHANGED <<config, row, keys, jobs, doomed, forgotten, restarted>>
    BY DEF ShredObject
  <1>2. VaultTypeOK /\ work[r].at # "rest"
        /\ "shred.refused" \in Stages /\ "shred.commit" \in Stages
    BY <1>1 DEF VaultInv, Stages, Shredding
  <1>3. PICK at \in {"shred.refused", "shred.commit"} :
            Turn(r, at) /\ (at = "shred.refused" => ~work[r].refs)
    BY DEF ShredObject, Refuses
  <1>4. /\ work' \in [Works -> Work] /\ \A q \in Works : q # r => work'[q] = work[q]
        /\ work'[r].at = at /\ work'[r].doc = d /\ work'[r].refs = work[r].refs
    BY <1>2, <1>3, TurnLemma
  <1>5. d \in Docs /\ d \in Known /\ (work[r].refs \/ d \in forgotten) /\ d \in doomed \ keys
    BY <1>1, <1>2, WorkFields
    DEF VaultInv, WorkHasRow, ShredsInOrder, Uploading, Shredding, KeyIsGone
  <1> HIDE DEF d
  <1>6. /\ objects' \subseteq objects /\ \A x \in objects : x # d => x \in objects'
        /\ bucket' \in BOOLEAN /\ (~bucket' => config.s3 /\ objects' = {})
    <2>1. CASE UNCHANGED <<objects, bucket>>
      BY <1>2, <2>1 DEF VaultTypeOK
    <2>2. CASE ~UNCHANGED <<objects, bucket>>
      <3>1. ~Refuses(r) /\ objects' = Remaining(r) /\ bucket' = BucketLeft(r)
        BY <2>2 DEF ShredObject
      <3>2. config.s3 \in BOOLEAN /\ bucket \in BOOLEAN /\ (~bucket => config.s3 /\ objects = {})
            /\ work[r].refs \in BOOLEAN
        BY <1>2, WorkFields DEF VaultTypeOK
      <3>3. objects' = IF work[r].refs THEN objects \ {d} ELSE objects
        BY <3>1 DEF Remaining, d
      <3>4. bucket' = (bucket /\ (config.s3 => work[r].refs))
        BY <3>1 DEF BucketLeft
      <3>5. ~(config.s3 /\ ~work[r].refs /\ objects # {})
        BY <3>1 DEF Refuses
      <3> QED
        BY <3>2, <3>3, <3>4, <3>5
    <2> QED
      BY <2>1, <2>2
  <1>7. Known' = Known
    BY <1>1 DEF Known
  <1>8. VaultTypeOK'
    BY <1>1, <1>2, <1>4, <1>6 DEF VaultTypeOK
  <1>9. ErasedRows' /\ KeysAreGone'
    BY <1>1, <1>7 DEF VaultInv, ErasedRows, KeysAreGone
  <1>10. UploadsAreOwn'
    <2>1. \A q \in Works : work'[q].at \in Uploading =>
              /\ work'[q] = work[q] /\ work[q].doc \notin Known /\ work[q].doc # d
      BY <1>4, <1>5 DEF VaultInv, UploadsAreOwn, Uploading
    <2> QED
      BY <1>1, <1>6, <1>7, <2>1 DEF VaultInv, UploadsAreOwn
  <1>11. WorkHasRow'
    BY <1>4, <1>5, <1>7 DEF VaultInv, WorkHasRow
  <1>12. ShredsInOrder'
    <2> SUFFICES ASSUME NEW q \in Works, work'[q].at \in Shredding
                 PROVE  /\ work'[q].refs \/ work'[q].doc \in forgotten'
                        /\ work'[q].at \in KeyIsGone => work'[q].doc \in doomed' \ keys'
      BY DEF ShredsInOrder
    <2>1. CASE q = r
      BY <1>1, <1>4, <1>5, <2>1
    <2>2. CASE q # r
      BY <1>1, <1>4, <2>2 DEF VaultInv, ShredsInOrder
    <2> QED
      BY <2>1, <2>2
  <1>13. UploadsStayReadable'
    BY <1>1, <1>5, <1>6, <1>7 DEF VaultInv, UploadsStayReadable, Readable, decryptDataKey
  <1>14. ShredsAreRepeatable'
    BY <1>1, <1>3, <1>4, <1>5 DEF VaultInv, ShredsAreRepeatable
  <1> QED
    BY <1>8, <1>9, <1>10, <1>11, <1>12, <1>13, <1>14 DEF VaultInv

LEMMA ShredCommitPreserves ==
    ASSUME VaultInv, NEW r \in Works, ShredCommit(r)
    PROVE  VaultInv'
  <1> DEFINE d   == work[r].doc
             new == Erased(d)
  <1>1. /\ work[r].at = "shred.commit" /\ Rest(r) /\ row' = [row EXCEPT ![d] = new]
        /\ forgotten' = forgotten \cup {d}
        /\ UNCHANGED <<config, objects, bucket, keys, jobs, doomed, restarted>>
    BY DEF ShredCommit
  <1>2. VaultTypeOK
    BY DEF VaultInv
  <1>3. d \in Docs /\ d \in Known /\ d \in doomed \ keys
    BY <1>1, <1>2, WorkFields
    DEF VaultInv, WorkHasRow, ShredsInOrder, Uploading, Shredding, KeyIsGone
  <1>4. new \in Row /\ new.status # "absent" /\ ~new.refs
    <2>1. row[d] \in Row /\ row[d].status # "absent"
      BY <1>2, <1>3 DEF VaultTypeOK, Known
    <2> HIDE DEF d
    <2> QED
      BY <2>1 DEF Erased, Row
  <1>5. /\ work' \in [Works -> Work]
        /\ \A q \in Works : work'[q].at # "rest" => work'[q] = work[q]
    BY <1>1, <1>2, RestLemma
  <1> HIDE DEF d, new
  <1>6. row' \in [Docs -> Row] /\ \A x \in Docs : row'[x] = IF x = d THEN new ELSE row[x]
    BY <1>1, <1>2, <1>3, <1>4 DEF VaultTypeOK
  <1>7. Known' = Known
    BY <1>3, <1>4, <1>6 DEF Known
  <1>8. VaultTypeOK'
    BY <1>1, <1>2, <1>3, <1>5, <1>6 DEF VaultTypeOK
  <1>9. ErasedRows'
    BY <1>1, <1>3, <1>4, <1>6, <1>7 DEF VaultInv, ErasedRows, Known
  <1>10. KeysAreGone'
    BY <1>1, <1>3 DEF VaultInv, KeysAreGone
  <1>11. UploadsAreOwn'
    BY <1>1, <1>5, <1>7 DEF VaultInv, UploadsAreOwn, Uploading
  <1>12. WorkHasRow'
    BY <1>5, <1>7 DEF VaultInv, WorkHasRow
  <1>13. ShredsInOrder'
    BY <1>1, <1>5 DEF VaultInv, ShredsInOrder, Shredding
  <1>14. UploadsStayReadable'
    BY <1>1, <1>3, <1>6, <1>7 DEF VaultInv, UploadsStayReadable, Readable, decryptDataKey, Known
  <1>15. ShredsAreRepeatable'
    BY <1>1, <1>5 DEF VaultInv, ShredsAreRepeatable
  <1> QED
    BY <1>8, <1>9, <1>10, <1>11, <1>12, <1>13, <1>14, <1>15 DEF VaultInv

-----------------------------------------------------------------------------
(* Steps of Deployment, and what follows from the invariant *)

LEMMA VaultUntouched ==
    ASSUME VaultInv, UNCHANGED vault
    PROVE  VaultInv'
  <1>1. /\ UNCHANGED <<stores, row>> /\ work' = work /\ jobs' = jobs
        /\ row' \in [Docs -> Row] /\ work' \in [Works -> Work] /\ jobs' \subseteq Docs
    BY DEF vault, stores, history, VaultInv, VaultTypeOK
  <1> QED
    BY <1>1, StatusMoves

LEMMA VaultRestartPreserves ==
    ASSUME VaultInv, VaultRestart
    PROVE  VaultInv'
  <1>1. /\ objects' = IF config.s3 THEN objects ELSE {}
        /\ keys' = {} /\ work' = [r \in Works |-> Resting] /\ restarted'
        /\ UNCHANGED <<config, row, bucket, doomed, forgotten>>
    BY DEF VaultRestart
  <1>2. work' \in [Works -> Work] /\ \A r \in Works : work'[r].at = "rest"
    BY <1>1 DEF Work, Resting
  <1>3. Known' = Known
    BY <1>1 DEF Known
  <1>4. VaultTypeOK'
    BY <1>1, <1>2 DEF VaultRestart, VaultInv, VaultTypeOK
  <1>5. ErasedRows' /\ KeysAreGone'
    BY <1>1, <1>3 DEF VaultInv, ErasedRows, KeysAreGone
  <1>6. UploadsAreOwn' /\ WorkHasRow' /\ ShredsInOrder'
    BY <1>2 DEF UploadsAreOwn, WorkHasRow, ShredsInOrder, Uploading, Shredding
  <1>7. UploadsStayReadable'
    BY <1>1, <1>3 DEF VaultInv, UploadsStayReadable, Readable, decryptDataKey
  <1>8. ShredsAreRepeatable'
    BY <1>2 DEF ShredsAreRepeatable
  <1> QED
    BY <1>4, <1>5, <1>6, <1>7, <1>8 DEF VaultInv

LEMMA VaultInvInit ==
    ASSUME VaultInit
    PROVE  VaultInv
  <1>1. NoRow \in Row /\ NoRow.status = "absent" /\ Resting \in Work /\ Resting.at = "rest"
    BY DEF NoRow, Row, Resting, Work
  <1>2. /\ row \in [Docs -> Row] /\ work \in [Works -> Work]
        /\ Known = {} /\ \A r \in Works : work[r].at = "rest"
    BY <1>1 DEF VaultInit, Known
  <1>3. VaultTypeOK
    BY <1>2, VaultAssumption DEF VaultInit, VaultTypeOK
  <1>4. ErasedRows /\ KeysAreGone /\ UploadsStayReadable /\ ShredsAreRepeatable
    BY <1>2 DEF VaultInit, ErasedRows, KeysAreGone, UploadsStayReadable, ShredsAreRepeatable
  <1>5. UploadsAreOwn /\ WorkHasRow /\ ShredsInOrder
    BY <1>2 DEF UploadsAreOwn, WorkHasRow, ShredsInOrder, Uploading, Shredding
  <1> QED
    BY <1>3, <1>4, <1>5 DEF VaultInv

LEMMA VaultStep ==
    ASSUME VaultInv, [Next]_vars
    PROVE  VaultInv'
  <1>1. CASE UNCHANGED vault
    BY <1>1, VaultUntouched
  <1>2. ASSUME NEW r \in Works, WorkBegins(r)
        PROVE  VaultInv'
    BY <1>2, UploadPreserves, RetryPreserves, ShredPreserves DEF WorkBegins
  <1>3. ASSUME NEW r \in Works, WorkGoesOn(r)
        PROVE  VaultInv'
    BY <1>3, UploadPublishPreserves, UploadCommitPreserves, RetryUpdatePreserves, RetryCommitPreserves,
       ShredUpdatePreserves, ShredKeyPreserves, ShredObjectPreserves, ShredCommitPreserves
    DEF WorkGoesOn
  <1>4. ASSUME NEW r \in Works, WorkFails(r)
        PROVE  VaultInv'
    BY <1>4, WorkFailsPreserves
  <1>5. ASSUME NEW d \in Docs, DemoDocument(d) \/ Handle(d) \/ retryDocument(d)
        PROVE  VaultInv'
    BY <1>5, DemoDocumentPreserves, HandlePreserves, RetryDocumentPreserves
  <1>6. CASE VaultRestart
    BY <1>6, VaultRestartPreserves
  <1> QED
    BY <1>1, <1>2, <1>3, <1>4, <1>5, <1>6 DEF Next, RetryAsAdmin, Restart, vars

\* Past the commit there is no reference, and the key left every map before it.
LEMMA ForgottenFollows ==
    ASSUME VaultInv
    PROVE  ForgottenStaysForgotten
  BY DEF VaultInv, ErasedRows, KeysAreGone, ForgottenStaysForgotten, decryptDataKey

-----------------------------------------------------------------------------
(* Theorems *)

Inv == AccountsInv /\ VaultInv

\* Both parts of the invariant hold in every reachable state.
THEOREM Invariant == Spec => []Inv
  <1>1. Init => Inv
    BY AccountsInvInit, VaultInvInit DEF Init, Inv
  <1>2. Inv /\ [Next]_vars => Inv'
    BY AccountsStep, VaultStep DEF Inv
  <1> QED
    BY <1>1, <1>2, PTL DEF Spec

\* Accounts, tokens, calls, rows, stores and requests keep their types in every deployment;
\* tokens are of people who exist, and the bucket disappears only from S3, and only when it
\* is empty.
THEOREM TypeCorrect == Spec => []TypeOK
  <1>1. Inv => TypeOK
    BY DEF Inv, AccountsInv, VaultInv, TypeOK
  <1> QED
    BY <1>1, Invariant, PTL

\* However many register the same mailbox at once, in whatever form, one account has it, and
\* its password lets in its owner and nobody else (auth.service.ts:28-43).
THEOREM OneAccountPerMailbox == Spec => []LoginsFindTheirAccount
  <1>1. Inv => LoginsFindTheirAccount
    BY LoginsFollow DEF Inv
  <1> QED
    BY <1>1, Invariant, PTL

\* There is no administrator before somebody of ADMIN_EMAILS has registered, however long
\* the chain of appointments (admin.service.ts:19-26, :88-91).
THEOREM AdminsHaveAnOrigin == Spec => []AdminsDescendFromAllowlist
  <1>1. Inv => AdminsDescendFromAllowlist
    BY AdminsFollow DEF Inv
  <1> QED
    BY <1>1, Invariant, PTL

\* Whatever the wiring, an upload nobody began to shred stays readable until a restart, and
\* for good where contents and keys are durable (storage.module.ts:11-12).
THEOREM UploadsLast == Spec => []UploadsStayReadable
  <1>1. Inv => UploadsStayReadable
    BY DEF Inv, VaultInv
  <1> QED
    BY <1>1, Invariant, PTL

\* No retry, restart, late job or second deletion brings a forgotten content back
\* (documents.service.ts:99-103).
THEOREM ForgottenForGood == Spec => []ForgottenStaysForgotten
  <1>1. Inv => ForgottenStaysForgotten
    BY ForgottenFollows DEF Inv
  <1> QED
    BY <1>1, Invariant, PTL

\* A store refuses a deletion only when an earlier one has been committed
\* (s3-storage.adapter.ts:53-57).
THEOREM ShredsCanBeRepeated == Spec => []ShredsAreRepeatable
  <1>1. Inv => ShredsAreRepeatable
    BY DEF Inv, VaultInv
  <1> QED
    BY <1>1, Invariant, PTL
=============================================================================
