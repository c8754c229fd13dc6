------------------------------- MODULE Homes -------------------------------
(***************************************************************************)
(* Homes and what belongs to them: onboarding from an address, demo        *)
(* sessions, refreshing from the registers, deletion (properties/, demo/), *)
(* maintenance tasks and warranties, while homes are sold and shared.      *)
(*                                                                         *)
(* A row of homes is the home with the person of its open ownership period *)
(* and the people it is shared with.  Number, year and source come from    *)
(* Registry's lookup; Services are the answers the registers may give.     *)
(* rows holds maintenance tasks and warranties: a "series" is a recurring  *)
(* task; series, from and times are history: the first task of the series, *)
(* the task whose completion made it, and how often it was completed.      *)
(*                                                                         *)
(* req[r].at is the next statement of request r; a transaction's writes    *)
(* appear in the action that commits it.                                   *)
(*                                                                         *)
(* A definition whose name ends in _ and a capitalised word is a mutant of *)
(* the one that follows it.                                                *)
(***************************************************************************)
EXTENDS Registry, FiniteSets

CONSTANTS
    People,              \* registered people, and those demo sessions make
    Registered,
    Nobody,
    Addresses, Services,
    Requests,
    ReturningIsChecked,  \* does INSERT ... RETURNING have to pass property_select?
    MaxHomes, MaxNew, MaxRows, MaxTimes

ASSUME HomesAssumption ==
    /\ Registered \subseteq People /\ Nobody \notin People
    /\ ReturningIsChecked \in BOOLEAN
    /\ MaxHomes \in Nat /\ MaxNew \in Nat /\ MaxRows \in Nat /\ MaxTimes \in Nat

VARIABLES homes, rows, holders, req   \* holders: people who have a token
vars == <<homes, rows, holders, req>>

Parts == {"documents", "tasks", "warranties"}
Kinds == {"task", "series", "warranty"}
Lookup  == [a \in Addresses |-> {lookupByAddress(a, s) : s \in Services}]
Lookups == UNION {Lookup[a] : a \in Addresses}
Numbers == {l.number : l \in Lookups} \cup ({"BFE-DEMO-"} \X Nat)
Years   == {Null, FictitiousYear} \cup {l.year : l \in Lookups}
Sources == {l.source : l \in Lookups} \cup {"demo"}

Idle == [op |-> "none", at |-> "done"]
Home == [number : Numbers, address : Addresses, year : Years, source : Sources,
         owner : People \cup {Nobody}, readers : SUBSET People, parts : SUBSET Parts]
Row  == [home : Nat, kind : Kinds, status : {"open", "done"},
         series : Nat, from : Nat, times : Nat]

CreateReq  == [op : {"create"}, at : {"find", "insert", "commit"}, person : People,
               address : Addresses, data : Lookups]
HomeReq(H) == [op : {"refresh"}, at : {"read"}, person : People, home : H]
              \cup [op : {"refresh"}, at : {"write"}, person : People, home : H, old : Years]
              \cup [op : {"delete"}, at : {"home"}, person : People, home : H]
RowReq(R)  == [op : {"complete"}, at : {"update", "next", "commit"}, person : People, row : R]
DemoReq(H) == [op : {"demo"}, at : {"property"}, person : People, address : Addresses]
              \cup [op : {"demo"}, at : {"period"} \cup Parts, person : People, home : H]

\* Requests that refer to the homes of H and the rows of R.
Request(H, R) == {Idle} \cup CreateReq \cup HomeReq(H) \cup RowReq(R) \cup DemoReq(H)

TypeOK ==
    /\ homes \in Seq(Home)
    /\ rows \in Seq(Row)
    /\ \A i \in DOMAIN rows : rows[i].home \in DOMAIN homes
    /\ holders \subseteq People
    /\ req \in [Requests -> Request(DOMAIN homes, DOMAIN rows)]

Init ==
    /\ homes = <<>> /\ rows = <<>>
    /\ holders = Registered
    /\ req = [r \in Requests |-> Idle]

-----------------------------------------------------------------------------
(* Policies and steps *)

is_current_owner(p, h)  == homes[h].owner = p
can_read_property(p, h) == homes[h].owner = p \/ p \in homes[h].readers

At(r, op, at)  == req[r].op = op /\ req[r].at = at
GoTo(r, at)    == req' = [req EXCEPT ![r].at = at]
Done(r)        == req' = [req EXCEPT ![r] = Idle]
Begin(r, q)    == req[r] = Idle /\ req' = [req EXCEPT ![r] = q]
                  /\ UNCHANGED <<homes, rows, holders>>
Running(ops)   == {r \in Requests : req[r].op \in ops}
RoomForHome    == Len(homes) + Cardinality(Running({"create", "demo"})) < MaxHomes
RoomForRow     == Len(rows) + Cardinality(Running({"complete"})) < MaxRows

NewRow(h, kind, series, from) ==
    [home |-> h, kind |-> kind, status |-> "open", series |-> series, from |-> from, times |-> 0]
AddRow(rs, h, kind) == Append(rs, NewRow(h, kind, Len(rs) + 1, 0))

-----------------------------------------------------------------------------
(* Onboarding: PropertiesService.createFromAddress *)

NumberTaken(n)     == \E h \in DOMAIN homes : homes[h].number = n

\* The lookup comes before the transaction.
Create(r, p, a) ==
    /\ p \in holders
    /\ \E data \in Lookup[a] :
          /\ RoomForHome \/ NumberTaken(data.number)
          /\ Begin(r, [op |-> "create", at |-> "find", person |-> p, address |-> a,
                       data |-> data])

\* A home of this number that the caller can read is returned, with a new period for a
\* caller who has none: the unique index refuses it while there is another owner.
CreateFind_Adopts(r) ==
    LET q == req[r]
        seen == {h \in DOMAIN homes : /\ homes[h].number = q.data.number
                                      /\ can_read_property(q.person, h)}
    IN  /\ At(r, "create", "find")
        /\ \/ seen = {} /\ GoTo(r, "insert") /\ UNCHANGED homes
           \/ \E h \in seen : homes' = [homes EXCEPT ![h].owner = q.person] /\ Done(r)
        /\ UNCHANGED <<rows, holders>>

CreateFind(r) ==
    LET q == req[r]
        seen == {h \in DOMAIN homes : /\ homes[h].number = q.data.number
                                      /\ can_read_property(q.person, h)}
    IN  /\ At(r, "create", "find")
        /\ \/ seen = {} /\ GoTo(r, "insert") /\ UNCHANGED homes
           \/ \E h \in seen :
                 /\ homes' = IF homes[h].owner = Nobody
                             THEN [homes EXCEPT ![h].owner = q.person] ELSE homes
                 /\ Done(r)
        /\ UNCHANGED <<rows, holders>>

NumberLocked(r, n) == \E s \in Requests \ {r} : At(s, "create", "commit") /\ req[s].data.number = n

Onboarded(q, owner) ==
    [number |-> q.data.number, address |-> q.address, year |-> q.data.year,
     source |-> q.data.source, owner |-> owner, readers |-> {}, parts |-> Parts]

\* Whoever looks first: without the unique index on the number.
CreateInsert_NoIndex(r) ==
    /\ At(r, "create", "insert")
    /\ IF ReturningIsChecked THEN Done(r) ELSE GoTo(r, "commit")
    /\ UNCHANGED <<homes, rows, holders>>

CreateInsert(r) ==
    /\ At(r, "create", "insert")
    /\ ~NumberLocked(r, req[r].data.number)
    /\ IF NumberTaken(req[r].data.number) \/ ReturningIsChecked THEN Done(r) ELSE GoTo(r, "commit")
    /\ UNCHANGED <<homes, rows, holders>>

CreateCommit(r) ==
    /\ At(r, "create", "commit")
    /\ homes' = Append(homes, Onboarded(req[r], req[r].person))
    /\ Done(r)
    /\ UNCHANGED <<rows, holders>>

-----------------------------------------------------------------------------
(* Refreshing: PropertiesService.refreshBbr *)

Refresh(r, p, h) ==
    p \in holders /\ Begin(r, [op |-> "refresh", at |-> "read", person |-> p, home |-> h])

RefreshRead(r) ==
    /\ At(r, "refresh", "read")
    /\ LET q == req[r]
       IN  IF can_read_property(q.person, q.home)
           THEN req' = [req EXCEPT ![r] = [op |-> "refresh", at |-> "write", person |-> q.person,
                                           home |-> q.home, old |-> homes[q.home].year]]
           ELSE Done(r)
    /\ UNCHANGED <<homes, rows, holders>>

\* After the lookup: nothing is written of a stub, nor by another than the owner; what
\* the register does not say stays as it was read.
RefreshWrite(r) ==
    /\ At(r, "refresh", "write")
    /\ LET q == req[r]
       IN  \E data \in Lookup[homes[q.home].address] :
              homes' = IF data.source = "stub" \/ ~is_current_owner(q.person, q.home) THEN homes
                       ELSE [homes EXCEPT ![q.home].source = data.source,
                               ![q.home].year = IF Given(data.year) THEN data.year ELSE q.old]
    /\ Done(r)
    /\ UNCHANGED <<rows, holders>>

-----------------------------------------------------------------------------
(* Deletion: PropertiesService.deleteProperty *)

Delete(r, p, h) ==
    /\ p \in holders /\ can_read_property(p, h)
    /\ Begin(r, [op |-> "delete", at |-> "home", person |-> p, home |-> h])

\* Documents, tasks, warranties and periods match no policy and stay, grants would go;
\* without a policy for property nothing is found to delete, and all is rolled back.
DeleteHome(r) ==
    /\ At(r, "delete", "home")
    /\ Done(r)
    /\ UNCHANGED <<homes, rows, holders>>

-----------------------------------------------------------------------------
(* Tasks and warranties: MaintenanceService, WarrantiesService *)

CreateRow(p, h, kind) ==
    /\ p \in holders /\ is_current_owner(p, h) /\ Len(rows) < MaxNew
    /\ rows' = AddRow(rows, h, kind)
    /\ UNCHANGED <<homes, holders, req>>

Complete(r, p, i) ==
    /\ p \in holders /\ rows[i].kind # "warranty" /\ RoomForRow /\ rows[i].times < MaxTimes
    /\ Begin(r, [op |-> "complete", at |-> "update", person |-> p, row |-> i])

RowLocked(r, i) ==
    \E s \in Requests \ {r} : /\ At(s, "complete", "next") \/ At(s, "complete", "commit")
                              /\ req[s].row = i

\* The update asks for the owner, not for the status.
CompleteUpdate(r) ==
    /\ At(r, "complete", "update")
    /\ ~RowLocked(r, req[r].row)
    /\ IF is_current_owner(req[r].person, rows[req[r].row].home) THEN GoTo(r, "next") ELSE Done(r)
    /\ UNCHANGED <<homes, rows, holders>>

\* The policy is asked again for the next occurrence.
CompleteNext(r) ==
    /\ At(r, "complete", "next")
    /\ IF \/ rows[req[r].row].kind = "task"
          \/ is_current_owner(req[r].person, rows[req[r].row].home)
       THEN GoTo(r, "commit") ELSE Done(r)
    /\ UNCHANGED <<homes, rows, holders>>

CompleteCommit_Once(r) ==
    LET i == req[r].row
        done == [rows EXCEPT ![i].status = "done", ![i].times = @ + 1]
    IN  /\ At(r, "complete", "commit")
        /\ rows' = IF rows[i].kind = "series" /\ rows[i].status = "done"
                   THEN Append(done, NewRow(rows[i].home, "series", rows[i].series, i)) ELSE done
        /\ Done(r)
        /\ UNCHANGED <<homes, holders>>

\* The id of the task where the id of the home belongs.
CompleteCommit_WrongHome(r) ==
    LET i == req[r].row
        done == [rows EXCEPT ![i].status = "done", ![i].times = @ + 1]
    IN  /\ At(r, "complete", "commit")
        /\ rows' = IF rows[i].kind = "series"
                   THEN Append(done, NewRow(i, "series", rows[i].series, i)) ELSE done
        /\ Done(r)
        /\ UNCHANGED <<homes, holders>>

CompleteCommit(r) ==
    LET i == req[r].row
        done == [rows EXCEPT ![i].status = "done", ![i].times = @ + 1]
    IN  /\ At(r, "complete", "commit")
        /\ rows' = IF rows[i].kind = "series"
                   THEN Append(done, NewRow(rows[i].home, "series", rows[i].series, i)) ELSE done
        /\ Done(r)
        /\ UNCHANGED <<homes, holders>>

-----------------------------------------------------------------------------
(* Demo sessions: DemoService.createSession, one autocommitted statement after another *)

Unused(p) == /\ p \notin holders
             /\ \A h \in DOMAIN homes : homes[h].owner # p
             /\ \A r \in Running({"demo"}) : req[r].person # p

Demo(r, p, a) ==
    /\ Unused(p) /\ RoomForHome
    /\ Begin(r, [op |-> "demo", at |-> "property", person |-> p, address |-> a])

DemoProperty(r) ==
    LET q == req[r]
    IN  /\ At(r, "demo", "property")
        /\ homes' = Append(homes, [number |-> <<"BFE-DEMO-", Len(homes) + 1>>,
                address |-> q.address, year |-> FictitiousYear, source |-> "demo",
                owner |-> Nobody, readers |-> {}, parts |-> {}])
        /\ req' = [req EXCEPT ![r] = [op |-> "demo", at |-> "period", person |-> q.person,
                                      home |-> Len(homes) + 1]]
        /\ UNCHANGED <<rows, holders>>

\* The person can log in from now on.
DemoPeriod_TokenFirst(r) ==
    /\ At(r, "demo", "period")
    /\ homes' = [homes EXCEPT ![req[r].home].owner = req[r].person]
    /\ holders' = holders \cup {req[r].person}
    /\ GoTo(r, "documents")
    /\ UNCHANGED rows

DemoPeriod(r) ==
    /\ At(r, "demo", "period")
    /\ homes' = [homes EXCEPT ![req[r].home].owner = req[r].person]
    /\ GoTo(r, "documents")
    /\ UNCHANGED <<rows, holders>>

DemoDocuments(r) ==
    /\ At(r, "demo", "documents")
    /\ homes' = [homes EXCEPT ![req[r].home].parts = @ \cup {"documents"}]
    /\ GoTo(r, "tasks")
    /\ UNCHANGED <<rows, holders>>

DemoTasks(r) ==
    /\ At(r, "demo", "tasks")
    /\ rows' = AddRow(rows, req[r].home, "series")
    /\ homes' = [homes EXCEPT ![req[r].home].parts = @ \cup {"tasks"}]
    /\ GoTo(r, "warranties")
    /\ UNCHANGED holders

\* With the last rows the session is answered with a token.
DemoWarranties(r) ==
    /\ At(r, "demo", "warranties")
    /\ rows' = AddRow(rows, req[r].home, "warranty")
    /\ homes' = [homes EXCEPT ![req[r].home].parts = @ \cup {"warranties"}]
    /\ holders' = holders \cup {req[r].person}
    /\ Done(r)

-----------------------------------------------------------------------------
(* Sales and grants, as Transfer and Sharing have them; failures *)

Sell(h, p) ==
    /\ homes[h].owner \in holders /\ p \in holders \ {homes[h].owner}
    /\ homes' = [homes EXCEPT ![h].owner = p, ![h].readers = {}]
    /\ UNCHANGED <<rows, holders, req>>

Share(h, p) ==
    /\ homes[h].owner \in holders /\ p \in holders \ {homes[h].owner}
    /\ homes' = [homes EXCEPT ![h].readers = @ \cup {p}]
    /\ UNCHANGED <<rows, holders, req>>

Revoke(h, p) ==
    /\ homes[h].owner \in holders /\ p \in homes[h].readers
    /\ homes' = [homes EXCEPT ![h].readers = @ \ {p}]
    /\ UNCHANGED <<rows, holders, req>>

\* A statement fails, the connection is lost, the server ends: what was not committed
\* never happened.
Fail(r) == req[r] # Idle /\ Done(r) /\ UNCHANGED <<homes, rows, holders>>

-----------------------------------------------------------------------------

Onboard(r)  == CreateFind(r) \/ CreateInsert(r) \/ CreateCommit(r)
Renew(r)    == RefreshRead(r) \/ RefreshWrite(r)
Finish(r)   == CompleteUpdate(r) \/ CompleteNext(r) \/ CompleteCommit(r)
Seed(r)     == \/ DemoProperty(r) \/ DemoPeriod(r)
               \/ DemoDocuments(r) \/ DemoTasks(r) \/ DemoWarranties(r)

Begins(r, p) ==
    \/ \E a \in Addresses : Create(r, p, a) \/ Demo(r, p, a)
    \/ \E h \in DOMAIN homes : Refresh(r, p, h) \/ Delete(r, p, h)
    \/ \E i \in DOMAIN rows : Complete(r, p, i)

Next ==
    \/ \E r \in Requests :
          Onboard(r) \/ Renew(r) \/ DeleteHome(r) \/ Finish(r) \/ Seed(r) \/ Fail(r)
    \/ \E r \in Requests, p \in People : Begins(r, p)
    \/ \E h \in DOMAIN homes, p \in People :
          \/ Sell(h, p) \/ Share(h, p) \/ Revoke(h, p)
          \/ \E kind \in Kinds : CreateRow(p, h, kind)

Spec == Init /\ [][Next]_vars

-----------------------------------------------------------------------------
(* Properties *)

\* Whoever can call finds demo homes complete, and a home that nobody owns was left by a
\* demo session that stopped: nobody reads it, and no lookup leads to its number, so that
\* nobody comes to own it by asking for an address (demo.service.ts:20-67,
\* properties.service.ts:142-151).
DemosAreWholeOrUnseen ==
    \A h \in DOMAIN homes :
        /\ ({homes[h].owner} \cup homes[h].readers) \cap holders # {} => homes[h].parts = Parts
        /\ homes[h].owner = Nobody => homes[h].readers = {} /\ homes[h].source = "demo"

\* One home per number, however many people ask for the address at once
\* (properties.service.ts:140-181).
OneHomePerNumber ==
    \A g, h \in DOMAIN homes : homes[g].number = homes[h].number => g = h

\* A recurring task never runs out, and completing it is one thing with making its next
\* occurrence: one of every series is open, and as many occurrences came of a task as
\* completions of it were committed (maintenance.service.ts:41-64).
RecurringTasksGoOn ==
    \A i \in DOMAIN rows :
        /\ rows[i].kind = "series" =>
              \E j \in DOMAIN rows : rows[j].series = rows[i].series /\ rows[j].status = "open"
        /\ Cardinality({j \in DOMAIN rows : rows[j].from = i})
              = IF rows[i].kind = "series" THEN rows[i].times ELSE 0

\* Nobody takes a home from its owner but by a sale, whatever addresses they ask for, and
\* nobody's access ends but by revocation or sale, though the owner tries to delete the
\* home (properties.service.ts:142-151, :187-206, one_active_owner).
OnlySalesTakeAway ==
    [][\A h \in DOMAIN homes :
          /\ homes'[h].owner # homes[h].owner =>
                homes[h].owner = Nobody \/ \E p \in People : Sell(h, p)
          /\ \A p \in homes[h].readers \ homes'[h].readers :
                Revoke(h, p) \/ \E q \in People : Sell(h, q)]_vars

-----------------------------------------------------------------------------
(* What the repository says and its code does not do *)

\* Fictitious data are known by their source (properties.service.ts:98, "Skriv ALDRIG
\* fiktive data").
FictionIsMarked ==
    \A h \in DOMAIN homes : homes[h].year = FictitiousYear => homes[h].source \in {"stub", "demo"}
=============================================================================
