------------------------------ MODULE HomesProofs ------------------------------
(***************************************************************************)
(* Theorems about Homes, for every set of people, addresses, answers of    *)
(* the registers and requests and every bound, checked by TLAPS: who owns  *)
(* and reads a home, which homes there are, and what becomes of its tasks. *)
(***************************************************************************)
EXTENDS Homes, TLAPS, SequenceTheorems, FiniteSetTheorems

-----------------------------------------------------------------------------
(* The inductive invariant *)

\* Numbers: what the registers say of an address is never the number of a demo home, which
\* is that of its row; whoever is about to commit a home has the number to itself.
LookedUp == {l.number : l \in Lookups}
DemoNumber(h) == <<"BFE-DEMO-", h>>

NumbersInv ==
    /\ OneHomePerNumber
    /\ \A h \in DOMAIN homes : homes[h].number \in LookedUp \cup {DemoNumber(h)}
    /\ \A r \in Requests : At(r, "create", "commit") => ~NumberTaken(req[r].data.number)
    /\ \A r, s \in Requests :
          /\ At(r, "create", "commit") /\ At(s, "create", "commit")
          /\ req[r].data.number = req[s].data.number
          => r = s

\* People: homes are owned and read by people who can call, and are complete if they are;
\* all others belong to demo sessions, running or broken off.
HomesAreSound ==
    \A h \in DOMAIN homes :
        /\ homes[h].readers \subseteq holders
        /\ homes[h].owner \in holders \/ homes[h].readers # {} => homes[h].parts = Parts
        /\ homes[h].owner = Nobody => homes[h].readers = {} /\ homes[h].source = "demo"

\* A demo session's person cannot call yet and owns its home at most, which nobody else has.
SessionIsPrivate(r) ==
    req[r].op = "demo" =>
        /\ req[r].person \notin holders
        /\ req[r].at = "property" => \A h \in DOMAIN homes : homes[h].owner # req[r].person
        /\ req[r].at # "property" =>
              \A h \in DOMAIN homes : homes[h].owner = req[r].person => h = req[r].home
        /\ req[r].at = "period" => homes[req[r].home].owner = Nobody
        /\ req[r].at \in Parts => homes[req[r].home].owner = req[r].person
        /\ req[r].at \in {"tasks", "warranties"} => "documents" \in homes[req[r].home].parts
        /\ req[r].at = "warranties" => "tasks" \in homes[req[r].home].parts

PeopleInv ==
    /\ HomesAreSound
    /\ \A r \in Requests : req[r].op \in {"create", "refresh"} => req[r].person \in holders
    /\ \A r \in Requests : SessionIsPrivate(r)
    /\ \A r, s \in Requests :
          /\ req[r].op = "demo" /\ req[s].op = "demo"
          /\ \/ req[r].person = req[s].person
             \/ /\ req[r].at # "property" /\ req[s].at # "property"
                /\ req[r].home = req[s].home
          => r = s

\* Rows: occurrences name the task they came from, and only recurring tasks share a series.
RowsInv ==
    /\ \A i \in DOMAIN rows : /\ rows[i].from \in {0} \cup DOMAIN rows
                              /\ rows[i].series \in DOMAIN rows
    /\ \A i, j \in DOMAIN rows : rows[i].series = rows[j].series => rows[i].kind = rows[j].kind
    /\ RecurringTasksGoOn

HomesInv == TypeOK /\ NumbersInv /\ PeopleInv /\ RowsInv

-----------------------------------------------------------------------------
(* Tables *)

\* Rewriting one row of a table, and inserting one.
LEMMA RewrittenRow ==
    ASSUME NEW T, NEW s \in Seq(T), NEW n \in DOMAIN s, NEW e \in T
    PROVE  /\ [s EXCEPT ![n] = e] \in Seq(T) /\ DOMAIN [s EXCEPT ![n] = e] = DOMAIN s
           /\ [s EXCEPT ![n] = e][n] = e
           /\ \A m \in DOMAIN s : m # n => [s EXCEPT ![n] = e][m] = s[m]
  BY ExceptSeq, LenProperties

LEMMA InsertedRow ==
    ASSUME NEW T, NEW s \in Seq(T), NEW e \in T
    PROVE  /\ Append(s, e) \in Seq(T)
           /\ DOMAIN Append(s, e) = DOMAIN s \cup {Len(s) + 1}
           /\ Len(s) + 1 \notin DOMAIN s /\ Len(s) + 1 \in Nat
           /\ Append(s, e)[Len(s) + 1] = e
           /\ \A n \in DOMAIN s : Append(s, e)[n] = s[n]
  BY AppendProperties, LenProperties

LEMMA RowType ==
    ASSUME NEW T, NEW s \in Seq(T), NEW n \in DOMAIN s
    PROVE  s[n] \in T /\ n \in Nat
  BY ElementOfSeq, LenProperties

-----------------------------------------------------------------------------
(* Lookups *)

LEMMA LookupData ==
    ASSUME NEW data \in Lookups
    PROVE  /\ data.number \in Numbers /\ data.number \in LookedUp
           /\ data.year \in Years /\ data.source \in Sources
  BY DEF Numbers, LookedUp, Years, Sources

LEMMA LookupsOf ==
    ASSUME NEW a \in Addresses, NEW data \in Lookup[a] PROVE data \in Lookups
  BY DEF Lookups

\* No lookup answers with the number of a demo home.
LEMMA NoDemoIsLookedUp == \A n \in LookedUp : \A h : n # DemoNumber(h)
<1> SUFFICES ASSUME NEW data \in Lookups, NEW h PROVE data.number # DemoNumber(h)
  BY DEF LookedUp
<1>1. PICK a \in Addresses, s \in Services : data = lookupByAddress(a, s)
  BY DEF Lookups, Lookup
<1>2. \E x : data.number \in {<<"BFE-", x>>, <<"BFE", x>>, <<"DAWA-", x>>}
  BY <1>1 DEF lookupByAddress, stub
<1> QED BY <1>2 DEF DemoNumber

-----------------------------------------------------------------------------
(* Requests *)

\* What a request says of itself tells its type.
LEMMA RequestKinds ==
    ASSUME NEW H, NEW R, NEW q \in Request(H, R)
    PROVE  /\ q.op = "create" => q \in CreateReq
           /\ q.op = "complete" => q \in RowReq(R)
           /\ q.op = "refresh" /\ q.at = "read" =>
                 q \in [op : {"refresh"}, at : {"read"}, person : People, home : H]
           /\ q.op = "refresh" /\ q.at = "write" =>
                 q \in [op : {"refresh"}, at : {"write"}, person : People, home : H, old : Years]
           /\ q.op = "demo" /\ q.at = "property" =>
                 q \in [op : {"demo"}, at : {"property"}, person : People, address : Addresses]
           /\ q.op = "demo" /\ q.at # "property" =>
                 q \in [op : {"demo"}, at : {"period"} \cup Parts, person : People, home : H]
           /\ q # Idle => q.person \in People
  BY DEF Request, Idle, CreateReq, HomeReq, RowReq, DemoReq, Parts

\* Homes and rows are only added, so requests keep referring to them.
LEMMA TypesKept ==
    ASSUME TypeOK, NEW r \in Requests,
           homes' \in Seq(Home), DOMAIN homes \subseteq DOMAIN homes',
           rows' \in Seq(Row), DOMAIN rows \subseteq DOMAIN rows',
           \A i \in DOMAIN rows' : rows'[i].home \in DOMAIN homes',
           holders' \subseteq People,
           NEW q \in Request(DOMAIN homes', DOMAIN rows'), req' = [req EXCEPT ![r] = q]
    PROVE  TypeOK'
<1>1. Request(DOMAIN homes, DOMAIN rows) \subseteq Request(DOMAIN homes', DOMAIN rows')
  BY DEF Request, HomeReq, RowReq, DemoReq
<1>2. req' \in [Requests -> Request(DOMAIN homes', DOMAIN rows')]
  BY <1>1 DEF TypeOK
<1> QED BY <1>2 DEF TypeOK

\* The same when no table changes.
LEMMA TypesKeptReading ==
    ASSUME TypeOK, NEW r \in Requests, UNCHANGED <<homes, rows, holders>>,
           NEW q \in Request(DOMAIN homes, DOMAIN rows), req' = [req EXCEPT ![r] = q]
    PROVE  TypeOK'
  BY TypesKept DEF TypeOK

\* What a request says after it has moved on.
LEMMA MovedOn ==
    ASSUME TypeOK, NEW r \in Requests, NEW at, GoTo(r, at), req[r] # Idle
    PROVE  /\ req' = [req EXCEPT ![r] = req'[r]] /\ req'[r] = [req[r] EXCEPT !.at = at]
           /\ req'[r].op = req[r].op /\ req'[r].at = at /\ req'[r].person = req[r].person
           /\ req[r].op = "create" => req'[r].data = req[r].data
           /\ req[r].op = "complete" => req'[r].row = req[r].row
           /\ req[r].op = "demo" /\ req[r].at # "property" => req'[r].home = req[r].home
           /\ \A s \in Requests : s # r => req'[s] = req[s]
<1>1. req[r] \in Request(DOMAIN homes, DOMAIN rows) /\ req \in [Requests -> Request(DOMAIN homes, DOMAIN rows)]
  BY DEF TypeOK
<1>2. req' = [req EXCEPT ![r] = [req[r] EXCEPT !.at = at]]
  BY DEF GoTo
<1>3. req'[r] = [req[r] EXCEPT !.at = at] /\ \A s \in Requests : s # r => req'[s] = req[s]
  BY <1>1, <1>2
<1>4. /\ [req[r] EXCEPT !.at = at].op = req[r].op /\ [req[r] EXCEPT !.at = at].at = at
      /\ [req[r] EXCEPT !.at = at].person = req[r].person
      /\ req[r].op = "create" => [req[r] EXCEPT !.at = at].data = req[r].data
      /\ req[r].op = "complete" => [req[r] EXCEPT !.at = at].row = req[r].row
      /\ req[r].op = "demo" /\ req[r].at # "property" =>
            [req[r] EXCEPT !.at = at].home = req[r].home
  BY <1>1 DEF Request, CreateReq, HomeReq, RowReq, DemoReq
<1>5. req' = [req EXCEPT ![r] = req'[r]]
  BY <1>2, <1>3
<1> QED BY <1>3, <1>4, <1>5

\* After it has ended.
LEMMA Ended ==
    ASSUME TypeOK, NEW r \in Requests, Done(r)
    PROVE  /\ req' = [req EXCEPT ![r] = Idle]
           /\ req'[r] = Idle /\ \A s \in Requests : s # r => req'[s] = req[s]
  BY DEF Done, TypeOK

-----------------------------------------------------------------------------
(* Types *)

\* What a request that is under way says of homes and rows is there.
LEMMA RequestType ==
    ASSUME TypeOK, NEW r \in Requests
    PROVE  /\ req[r] \in Request(DOMAIN homes, DOMAIN rows)
           /\ req[r].op = "create" => req[r] \in CreateReq
           /\ req[r].op = "complete" => req[r].row \in DOMAIN rows
           /\ req[r].op = "refresh" /\ req[r].at \in {"read", "write"} => req[r].home \in DOMAIN homes
           /\ req[r].op = "refresh" /\ req[r].at = "write" => req[r].old \in Years
           /\ req[r].op = "demo" /\ req[r].at = "property" => req[r].address \in Addresses
           /\ req[r].op = "demo" /\ req[r].at # "property" => req[r].home \in DOMAIN homes
           /\ req[r] # Idle => req[r].person \in People
<1>1. req[r] \in Request(DOMAIN homes, DOMAIN rows)
  BY DEF TypeOK
<1> QED BY <1>1, RequestKinds DEF CreateReq, RowReq

\* Homes keep their type when one of them gets another owner, readers, year, source or parts.
LEMMA HomeKept ==
    ASSUME TypeOK, NEW h \in DOMAIN homes
    PROVE  /\ homes[h] \in Home /\ h \in Nat
           /\ \A e \in Home : /\ [homes EXCEPT ![h] = e] \in Seq(Home)
                              /\ DOMAIN [homes EXCEPT ![h] = e] = DOMAIN homes
  BY RowType, RewrittenRow DEF TypeOK

LEMMA OnboardTypes ==
    ASSUME TypeOK, NEW r \in Requests, Onboard(r) PROVE TypeOK'
<1>1. Idle \in Request(DOMAIN homes, DOMAIN rows)
  BY DEF Request
<1>2. CASE CreateFind(r)
  <2>1. req[r] \in CreateReq /\ req[r] # Idle
    BY <1>2, RequestType DEF CreateFind, At, Idle
  <2>2. CASE GoTo(r, "insert") /\ UNCHANGED homes
    <3>1. [req[r] EXCEPT !.at = "insert"] \in Request(DOMAIN homes, DOMAIN rows)
      BY <2>1 DEF CreateReq, Request
    <3> QED BY <1>2, <2>2, <3>1, TypesKeptReading DEF CreateFind, GoTo
  <2>3. ASSUME NEW h \in DOMAIN homes, Done(r),
               homes' = IF homes[h].owner = Nobody
                        THEN [homes EXCEPT ![h].owner = req[r].person] ELSE homes
        PROVE  TypeOK'
    <3>1. [homes[h] EXCEPT !.owner = req[r].person] \in Home
      BY <2>1, HomeKept, RequestType DEF Home
    <3>2. homes' \in Seq(Home) /\ DOMAIN homes' = DOMAIN homes
      BY <2>3, <3>1, HomeKept DEF TypeOK
    <3> QED BY <1>1, <1>2, <2>3, <3>2, TypesKept DEF CreateFind, Done, TypeOK
  <2> QED BY <1>2, <2>2, <2>3 DEF CreateFind
<1>3. CASE CreateInsert(r)
  <2>1. req[r] \in CreateReq
    BY <1>3, RequestType DEF CreateInsert, At
  <2>2. [req[r] EXCEPT !.at = "commit"] \in Request(DOMAIN homes, DOMAIN rows)
    BY <2>1 DEF CreateReq, Request
  <2> QED BY <1>1, <1>3, <2>2, TypesKeptReading DEF CreateInsert, Done, GoTo
<1>4. CASE CreateCommit(r)
  <2>1. req[r] \in CreateReq
    BY <1>4, RequestType DEF CreateCommit, At
  <2>2. Onboarded(req[r], req[r].person) \in Home
    BY <2>1, LookupData DEF Onboarded, Home, CreateReq
  <2>3. homes' \in Seq(Home) /\ DOMAIN homes \subseteq DOMAIN homes'
    BY <1>4, <2>2, InsertedRow DEF CreateCommit, TypeOK
  <2>4. Idle \in Request(DOMAIN homes', DOMAIN rows')
    BY DEF Request
  <2> QED BY <1>4, <2>3, <2>4, TypesKept DEF CreateCommit, Done, TypeOK
<1> QED BY <1>2, <1>3, <1>4 DEF Onboard

LEMMA RenewTypes ==
    ASSUME TypeOK, NEW r \in Requests, Renew(r) PROVE TypeOK'
<1>1. Idle \in Request(DOMAIN homes, DOMAIN rows)
  BY DEF Request
<1>2. CASE RefreshRead(r)
  <2>1. req[r].home \in DOMAIN homes /\ req[r].person \in People
    BY <1>2, RequestType DEF RefreshRead, At, Idle
  <2>2. homes[req[r].home].year \in Years
    BY <2>1, HomeKept DEF Home
  <2>3. [op |-> "refresh", at |-> "write", person |-> req[r].person, home |-> req[r].home,
         old |-> homes[req[r].home].year] \in Request(DOMAIN homes, DOMAIN rows)
    BY <2>1, <2>2 DEF Request, HomeReq
  <2> QED BY <1>1, <1>2, <2>3, TypesKeptReading DEF RefreshRead, Done
<1>3. CASE RefreshWrite(r)
  <2>1. req[r].home \in DOMAIN homes /\ req[r].old \in Years
    BY <1>3, RequestType DEF RefreshWrite, At, Idle
  <2>2. PICK data \in Lookup[homes[req[r].home].address] :
          homes' = IF data.source = "stub" \/ ~is_current_owner(req[r].person, req[r].home)
                   THEN homes
                   ELSE [homes EXCEPT ![req[r].home].source = data.source,
                           ![req[r].home].year = IF Given(data.year) THEN data.year ELSE req[r].old]
    BY <1>3 DEF RefreshWrite
  <2>3. data.year \in Years /\ data.source \in Sources
    <3>1. homes[req[r].home].address \in Addresses
      BY <2>1, HomeKept DEF Home
    <3> QED BY <2>2, <3>1, LookupsOf, LookupData
  <2>4. [homes[req[r].home] EXCEPT !.source = data.source,
           !.year = IF Given(data.year) THEN data.year ELSE req[r].old] \in Home
    <3>1. (IF Given(data.year) THEN data.year ELSE req[r].old) \in Years
      BY <2>1, <2>3
    <3> QED BY <2>1, <2>3, <3>1, HomeKept DEF Home
  <2>5. homes' \in Seq(Home) /\ DOMAIN homes' = DOMAIN homes
    BY <2>1, <2>2, <2>4, HomeKept DEF TypeOK
  <2> QED BY <1>1, <1>3, <2>5, TypesKept DEF RefreshWrite, Done, TypeOK
<1> QED BY <1>2, <1>3 DEF Renew

LEMMA FinishTypes ==
    ASSUME TypeOK, NEW r \in Requests, Finish(r) PROVE TypeOK'
<1>1. Idle \in Request(DOMAIN homes, DOMAIN rows)
  BY DEF Request
<1>2. req[r] \in RowReq(DOMAIN rows) /\ req[r].row \in DOMAIN rows
  <2>1. req[r].op = "complete"
    BY DEF Finish, CompleteUpdate, CompleteNext, CompleteCommit, At
  <2> QED BY <2>1, RequestType, RequestKinds
<1>3. CASE CompleteUpdate(r) \/ CompleteNext(r)
  <2>1. \A at \in {"next", "commit"} :
          [req[r] EXCEPT !.at = at] \in Request(DOMAIN homes, DOMAIN rows)
    BY <1>2 DEF RowReq, Request
  <2>2. UNCHANGED <<homes, rows, holders>>
    BY <1>3 DEF CompleteUpdate, CompleteNext
  <2>3. Done(r) \/ GoTo(r, "next") \/ GoTo(r, "commit")
    BY <1>3 DEF CompleteUpdate, CompleteNext
  <2> QED BY <1>1, <2>1, <2>2, <2>3, TypesKeptReading DEF Done, GoTo
<1>4. CASE CompleteCommit(r)
  <2>1. PICK i : i = req[r].row
    OBVIOUS
  <2>2. PICK done : done = [rows EXCEPT ![i] = [rows[i] EXCEPT !.status = "done", !.times = @ + 1]]
    OBVIOUS
  <2>3. /\ i \in DOMAIN rows /\ i \in Nat /\ rows[i] \in Row
        /\ rows' = IF rows[i].kind = "series"
                   THEN Append(done, NewRow(rows[i].home, "series", rows[i].series, i)) ELSE done
        /\ Done(r) /\ UNCHANGED <<homes, holders>>
    BY <1>2, <1>4, <2>1, <2>2, RowType DEF CompleteCommit, TypeOK
  <2>4. [rows[i] EXCEPT !.status = "done", !.times = @ + 1] \in Row
    <3>1. PICK t : t = rows[i].times + 1
      OBVIOUS
    <3>2. t \in Nat
      BY <2>3, <3>1 DEF Row
    <3>3. [rows[i] EXCEPT !.status = "done", !.times = t] \in Row
      BY <2>3, <3>2 DEF Row
    <3> QED BY <3>1, <3>3
  <2>5. /\ done \in Seq(Row) /\ DOMAIN done = DOMAIN rows
        /\ \A j \in DOMAIN done : done[j].home \in DOMAIN homes
    <3>1. /\ done \in Seq(Row) /\ DOMAIN done = DOMAIN rows
          /\ done[i] = [rows[i] EXCEPT !.status = "done", !.times = @ + 1]
          /\ \A j \in DOMAIN rows : j # i => done[j] = rows[j]
      BY <2>2, <2>3, <2>4, RewrittenRow DEF TypeOK
    <3>2. done[i].home = rows[i].home
      BY <2>3, <3>1 DEF Row
    <3> QED BY <2>3, <3>1, <3>2 DEF TypeOK
  <2>6. NewRow(rows[i].home, "series", rows[i].series, i) \in Row
    BY <2>3 DEF Row, NewRow, Kinds
  <2>7. /\ rows' \in Seq(Row) /\ DOMAIN rows \subseteq DOMAIN rows'
        /\ \A j \in DOMAIN rows' : rows'[j].home \in DOMAIN homes'
    <3>1. CASE rows[i].kind = "series"
      <4>1. NewRow(rows[i].home, "series", rows[i].series, i).home \in DOMAIN homes
        BY <2>3 DEF NewRow, TypeOK
      <4> QED BY <2>3, <2>5, <2>6, <3>1, <4>1, InsertedRow
    <3> QED BY <2>3, <2>5, <3>1
  <2>8. Idle \in Request(DOMAIN homes', DOMAIN rows')
    BY DEF Request
  <2> QED BY <2>3, <2>7, <2>8, TypesKept DEF Done, TypeOK
<1> QED BY <1>3, <1>4 DEF Finish

\* Adding a row for a home that is there.
LEMMA AddedRow ==
    ASSUME TypeOK, NEW h \in DOMAIN homes, NEW kind \in Kinds, rows' = AddRow(rows, h, kind)
    PROVE  /\ rows' \in Seq(Row) /\ DOMAIN rows' = DOMAIN rows \cup {Len(rows) + 1}
           /\ Len(rows) + 1 \notin DOMAIN rows /\ Len(rows) + 1 \in Nat \ {0}
           /\ rows'[Len(rows) + 1] = NewRow(h, kind, Len(rows) + 1, 0)
           /\ \A i \in DOMAIN rows : rows'[i] = rows[i]
           /\ \A i \in DOMAIN rows' : rows'[i].home \in DOMAIN homes
<1>1. rows \in Seq(Row) /\ Len(rows) \in Nat /\ h \in Nat
  BY HomeKept, LenProperties DEF TypeOK
<1>2. NewRow(h, kind, Len(rows) + 1, 0) \in Row
  BY <1>1 DEF NewRow, Row
<1>3. /\ rows' \in Seq(Row) /\ DOMAIN rows' = DOMAIN rows \cup {Len(rows) + 1}
      /\ Len(rows) + 1 \notin DOMAIN rows
      /\ rows'[Len(rows) + 1] = NewRow(h, kind, Len(rows) + 1, 0)
      /\ \A i \in DOMAIN rows : rows'[i] = rows[i]
  BY <1>1, <1>2, InsertedRow DEF AddRow
<1>4. NewRow(h, kind, Len(rows) + 1, 0).home = h
  BY DEF NewRow
<1> QED BY <1>1, <1>3, <1>4 DEF TypeOK

LEMMA SeedTypes ==
    ASSUME TypeOK, NEW r \in Requests, Seed(r) PROVE TypeOK'
<1>1. CASE DemoProperty(r)
  <2>1. req[r].person \in People /\ req[r].address \in Addresses
    BY <1>1, RequestType DEF DemoProperty, At, Idle
  <2>2. Len(homes) \in Nat
    BY LenProperties DEF TypeOK
  <2>3. [number |-> <<"BFE-DEMO-", Len(homes) + 1>>, address |-> req[r].address,
         year |-> FictitiousYear, source |-> "demo", owner |-> Nobody, readers |-> {},
         parts |-> {}] \in Home
    <3>1. <<"BFE-DEMO-", Len(homes) + 1>> \in Numbers
      BY <2>2 DEF Numbers
    <3> QED BY <2>1, <3>1 DEF Home, Years, Sources
  <2>4. /\ homes' \in Seq(Home) /\ DOMAIN homes \subseteq DOMAIN homes'
        /\ Len(homes) + 1 \in DOMAIN homes'
    BY <1>1, <2>3, InsertedRow DEF DemoProperty, TypeOK
  <2>5. [op |-> "demo", at |-> "period", person |-> req[r].person, home |-> Len(homes) + 1]
          \in Request(DOMAIN homes', DOMAIN rows')
    BY <2>1, <2>4 DEF Request, DemoReq
  <2> QED BY <1>1, <2>4, <2>5, TypesKept DEF DemoProperty, TypeOK
<1>2. CASE DemoPeriod(r) \/ DemoDocuments(r) \/ DemoTasks(r) \/ DemoWarranties(r)
  <2>1. PICK h, p : h = req[r].home /\ p = req[r].person
    OBVIOUS
  <2>2. req[r].op = "demo" /\ req[r].at # "property"
    BY <1>2 DEF DemoPeriod, DemoDocuments, DemoTasks, DemoWarranties, At
  <2>3. h \in DOMAIN homes /\ p \in People
    BY <2>1, <2>2, RequestType DEF Idle
  <2>4. /\ req[r] \in [op : {"demo"}, at : {"period"} \cup Parts, person : People, home : DOMAIN homes]
    BY <2>2, RequestType, RequestKinds
  <2>5. homes' \in Seq(Home) /\ DOMAIN homes' = DOMAIN homes
    <3>1. /\ [homes[h] EXCEPT !.owner = p] \in Home
          /\ \A x \in Parts : [homes[h] EXCEPT !.parts = @ \cup {x}] \in Home
      BY <2>3, HomeKept DEF Home
    <3>2. PICK e \in Home : homes' = [homes EXCEPT ![h] = e]
      BY <1>2, <2>1, <3>1 DEF DemoPeriod, DemoDocuments, DemoTasks, DemoWarranties, Parts
    <3> QED BY <2>3, <3>2, HomeKept
  <2>6. /\ rows' \in Seq(Row) /\ DOMAIN rows \subseteq DOMAIN rows'
        /\ \A i \in DOMAIN rows' : rows'[i].home \in DOMAIN homes'
    <3>1. CASE UNCHANGED rows
      BY <2>5, <3>1 DEF TypeOK
    <3>2. CASE \E kind \in Kinds : rows' = AddRow(rows, h, kind)
      BY <2>3, <2>5, <3>2, AddedRow
    <3> QED BY <1>2, <2>1, <3>1, <3>2
          DEF DemoPeriod, DemoDocuments, DemoTasks, DemoWarranties, Kinds
  <2>7. holders' \subseteq People
    BY <1>2, <2>1, <2>3 DEF DemoPeriod, DemoDocuments, DemoTasks, DemoWarranties, TypeOK
  <2>8. PICK q : q \in Request(DOMAIN homes', DOMAIN rows') /\ req' = [req EXCEPT ![r] = q]
    <3>1. \A at \in Parts : [req[r] EXCEPT !.at = at] \in Request(DOMAIN homes', DOMAIN rows')
      BY <2>4, <2>5 DEF Request, DemoReq
    <3>2. Idle \in Request(DOMAIN homes', DOMAIN rows')
      BY DEF Request
    <3> QED BY <1>2, <3>1, <3>2
          DEF DemoPeriod, DemoDocuments, DemoTasks, DemoWarranties, GoTo, Done, Parts
  <2> QED BY <2>5, <2>6, <2>7, <2>8, TypesKept
<1> QED BY <1>1, <1>2 DEF Seed

LEMMA BeginsTypes ==
    ASSUME TypeOK, NEW r \in Requests, NEW p \in People, Begins(r, p) PROVE TypeOK'
<1>1. ASSUME NEW q \in Request(DOMAIN homes, DOMAIN rows), Begin(r, q) PROVE TypeOK'
  BY <1>1, TypesKeptReading DEF Begin
<1>2. ASSUME NEW a \in Addresses, Create(r, p, a) PROVE TypeOK'
  <2>1. PICK data \in Lookup[a] :
          Begin(r, [op |-> "create", at |-> "find", person |-> p, address |-> a, data |-> data])
    BY <1>2 DEF Create
  <2>2. [op |-> "create", at |-> "find", person |-> p, address |-> a, data |-> data]
          \in Request(DOMAIN homes, DOMAIN rows)
    BY LookupsOf DEF Request, CreateReq
  <2> QED BY <1>1, <2>1, <2>2
<1>3. ASSUME NEW a \in Addresses, Demo(r, p, a) PROVE TypeOK'
  <2>1. [op |-> "demo", at |-> "property", person |-> p, address |-> a]
          \in Request(DOMAIN homes, DOMAIN rows)
    BY DEF Request, DemoReq
  <2> QED BY <1>1, <1>3, <2>1 DEF Demo
<1>4. ASSUME NEW h \in DOMAIN homes, Refresh(r, p, h) \/ Delete(r, p, h) PROVE TypeOK'
  <2>1. /\ [op |-> "refresh", at |-> "read", person |-> p, home |-> h]
             \in Request(DOMAIN homes, DOMAIN rows)
        /\ [op |-> "delete", at |-> "home", person |-> p, home |-> h]
             \in Request(DOMAIN homes, DOMAIN rows)
    BY DEF Request, HomeReq
  <2> QED BY <1>1, <1>4, <2>1 DEF Refresh, Delete
<1>5. ASSUME NEW i \in DOMAIN rows, Complete(r, p, i) PROVE TypeOK'
  <2>1. [op |-> "complete", at |-> "update", person |-> p, row |-> i]
          \in Request(DOMAIN homes, DOMAIN rows)
    BY DEF Request, RowReq
  <2> QED BY <1>1, <1>5, <2>1 DEF Complete
<1> QED BY <1>2, <1>3, <1>4, <1>5 DEF Begins

\* Sales and grants, and rows that their owners make.
Handed(h, p) == Sell(h, p) \/ Share(h, p) \/ Revoke(h, p)
Tended(h, p) == \E kind \in Kinds : CreateRow(p, h, kind)

\* A sale, a grant or a revocation gives one home another owner or other readers.
LEMMA HandedHome ==
    ASSUME TypeOK, NEW h \in DOMAIN homes, NEW p \in People, Handed(h, p)
    PROVE  \E o \in People, R \in SUBSET People :
              /\ homes' = [homes EXCEPT ![h] = [homes[h] EXCEPT !.owner = o, !.readers = R]]
              /\ o = homes[h].owner \/ (Sell(h, p) /\ o = p /\ p \in holders)
              /\ homes[h].owner \in holders /\ UNCHANGED <<rows, holders, req>>
              /\ R \subseteq homes[h].readers \cup holders
<1>1. homes[h] \in Home /\ holders \subseteq People
  BY HomeKept DEF TypeOK
<1>2. CASE Sell(h, p)
  <2>1. PICK R : R = {}
    OBVIOUS
  <2>2. homes' = [homes EXCEPT ![h] = [homes[h] EXCEPT !.owner = p, !.readers = R]]
    BY <1>1, <1>2, <2>1 DEF Sell, Home
  <2>3. R \in SUBSET People /\ R \subseteq homes[h].readers \cup holders /\ p \in holders
    BY <1>1, <1>2, <2>1 DEF Sell
  <2> QED BY <1>1, <1>2, <2>2, <2>3 DEF Sell
<1>3. CASE Share(h, p)
  <2>1. PICK R : R = homes[h].readers \cup {p}
    OBVIOUS
  <2>2. homes' = [homes EXCEPT ![h] = [homes[h] EXCEPT !.owner = homes[h].owner, !.readers = R]]
    BY <1>1, <1>3, <2>1 DEF Share, Home
  <2>3. R \in SUBSET People /\ R \subseteq homes[h].readers \cup holders /\ homes[h].owner \in People
    BY <1>1, <1>3, <2>1 DEF Share, Home
  <2> QED BY <1>1, <1>3, <2>2, <2>3 DEF Share
<1>4. CASE Revoke(h, p)
  <2>1. PICK R : R = homes[h].readers \ {p}
    OBVIOUS
  <2>2. homes' = [homes EXCEPT ![h] = [homes[h] EXCEPT !.owner = homes[h].owner, !.readers = R]]
    BY <1>1, <1>4, <2>1 DEF Revoke, Home
  <2>3. R \in SUBSET People /\ R \subseteq homes[h].readers \cup holders /\ homes[h].owner \in People
    BY <1>1, <1>4, <2>1 DEF Revoke, Home
  <2> QED BY <1>1, <1>4, <2>2, <2>3 DEF Revoke
<1> QED BY <1>2, <1>3, <1>4 DEF Handed

LEMMA OwnersTypes ==
    ASSUME TypeOK, NEW h \in DOMAIN homes, NEW p \in People, Handed(h, p) \/ Tended(h, p)
    PROVE  TypeOK'
<1>1. CASE Handed(h, p)
  <2>1. PICK o \in People, R \in SUBSET People :
          /\ homes' = [homes EXCEPT ![h] = [homes[h] EXCEPT !.owner = o, !.readers = R]]
          /\ UNCHANGED <<rows, holders, req>>
    BY <1>1, HandedHome
  <2>2. [homes[h] EXCEPT !.owner = o, !.readers = R] \in Home
    BY HomeKept DEF Home
  <2>3. homes' \in Seq(Home) /\ DOMAIN homes' = DOMAIN homes
    BY <2>1, <2>2, HomeKept
  <2> QED BY <2>1, <2>3 DEF TypeOK
<1>2. CASE Tended(h, p)
  <2>1. PICK kind \in Kinds : rows' = AddRow(rows, h, kind) /\ UNCHANGED <<homes, holders, req>>
    BY <1>2 DEF Tended, CreateRow
  <2>2. /\ rows' \in Seq(Row) /\ DOMAIN rows \subseteq DOMAIN rows'
        /\ \A i \in DOMAIN rows' : rows'[i].home \in DOMAIN homes
    BY <2>1, AddedRow
  <2>3. req' \in [Requests -> Request(DOMAIN homes', DOMAIN rows')]
    BY <2>1, <2>2 DEF Request, HomeReq, RowReq, DemoReq, TypeOK
  <2> QED BY <2>1, <2>2, <2>3 DEF TypeOK
<1> QED BY <1>1, <1>2

\* What one step of the specification is.
LEMMA Steps ==
    ASSUME Next
    PROVE  \/ \E r \in Requests : Onboard(r) \/ Renew(r) \/ Finish(r) \/ Seed(r)
           \/ \E r \in Requests : DeleteHome(r) \/ Fail(r)
           \/ \E r \in Requests, p \in People : Begins(r, p)
           \/ \E h \in DOMAIN homes, p \in People : Handed(h, p) \/ Tended(h, p)
  BY DEF Next, Handed, Tended

LEMMA InitTypes == Init => TypeOK
<1> SUFFICES ASSUME Init PROVE TypeOK
  OBVIOUS
<1>1. homes \in Seq(Home) /\ rows \in Seq(Row) /\ DOMAIN rows = {}
  BY DEF Init
<1>2. holders \subseteq People
  BY HomesAssumption DEF Init
<1>3. req \in [Requests -> Request(DOMAIN homes, DOMAIN rows)]
  BY DEF Init, Request
<1> QED BY <1>1, <1>2, <1>3 DEF TypeOK

LEMMA NextTypes == TypeOK /\ [Next]_vars => TypeOK'
<1> SUFFICES ASSUME TypeOK, [Next]_vars PROVE TypeOK'
  OBVIOUS
<1>1. CASE UNCHANGED vars
  BY <1>1 DEF vars, TypeOK
<1>2. ASSUME NEW r \in Requests, DeleteHome(r) \/ Fail(r) PROVE TypeOK'
  <2>1. Idle \in Request(DOMAIN homes, DOMAIN rows)
    BY DEF Request
  <2> QED BY <1>2, <2>1, TypesKeptReading DEF DeleteHome, Fail, Done
<1> QED BY <1>1, <1>2, Steps, OnboardTypes, RenewTypes, FinishTypes, SeedTypes, BeginsTypes, OwnersTypes

-----------------------------------------------------------------------------
(* Steps that neither make a home nor give one away, nor run a demo session *)

HomeAlike(h) ==
    /\ homes'[h].number = homes[h].number /\ homes'[h].owner = homes[h].owner
    /\ homes'[h].readers = homes[h].readers /\ homes'[h].parts = homes[h].parts
    /\ homes[h].owner = Nobody => homes'[h].source = homes[h].source

HomesAlike == DOMAIN homes' = DOMAIN homes /\ \A h \in DOMAIN homes : HomeAlike(h)

RequestsAlike ==
    \A s \in Requests : /\ req'[s].op = "demo" => req'[s] = req[s]
                        /\ req'[s].op \in {"create", "refresh"} => req'[s].person \in holders

NoNewCommit == \A s \in Requests : At(s, "create", "commit")' => req'[s] = req[s]

LEMMA EndedAlike ==
    ASSUME TypeOK, PeopleInv, NEW r \in Requests, Done(r) PROVE RequestsAlike /\ NoNewCommit
<1>1. req'[r] = Idle /\ \A s \in Requests : s # r => req'[s] = req[s]
  BY Ended
<1> QED BY <1>1 DEF RequestsAlike, NoNewCommit, PeopleInv, Idle, At

LEMMA MovedOnAlike ==
    ASSUME TypeOK, PeopleInv, NEW r \in Requests, NEW at, GoTo(r, at),
           req[r].op \in {"create", "complete"}
    PROVE  /\ RequestsAlike
           /\ req[r].op # "create" \/ at # "commit" => NoNewCommit
<1>1. req[r] # Idle
  BY DEF Idle
<1>2. /\ req'[r].op = req[r].op /\ req'[r].at = at /\ req'[r].person = req[r].person
      /\ \A s \in Requests : s # r => req'[s] = req[s]
  BY <1>1, MovedOn
<1> QED BY <1>2 DEF RequestsAlike, NoNewCommit, PeopleInv, At

LEMMA BegunAlike ==
    ASSUME TypeOK, PeopleInv, NEW r \in Requests, NEW q, Begin(r, q),
           q.op # "demo", q.op \in {"create", "refresh"} => q.person \in holders,
           ~(q.op = "create" /\ q.at = "commit")
    PROVE  HomesAlike /\ RequestsAlike /\ NoNewCommit /\ UNCHANGED holders
<1>1. req'[r] = q /\ \A s \in Requests : s # r => req'[s] = req[s]
  BY DEF Begin, TypeOK
<1>2. RequestsAlike /\ NoNewCommit
  BY <1>1 DEF RequestsAlike, NoNewCommit, PeopleInv, At
<1> QED BY <1>2 DEF Begin, HomesAlike, HomeAlike

\* A lookup leads to no home that nobody owns: whoever can read the home it leads to owns
\* or reads it, and a home without an owner has no readers.
LEMMA FoundHomesAreOwned ==
    ASSUME TypeOK, PeopleInv, NEW p \in People, NEW h \in DOMAIN homes, can_read_property(p, h)
    PROVE  homes[h].owner # Nobody
  BY HomesAssumption DEF PeopleInv, HomesAreSound, can_read_property

LEMMA CreateFindAlike ==
    ASSUME TypeOK, PeopleInv, NEW r \in Requests, CreateFind(r)
    PROVE  HomesAlike /\ RequestsAlike /\ NoNewCommit /\ UNCHANGED <<homes, holders>>
<1>1. req[r].op = "create" /\ req[r].person \in People
  BY RequestType DEF CreateFind, At, Idle
<1>2. UNCHANGED homes
  BY <1>1, FoundHomesAreOwned DEF CreateFind
<1>3. RequestsAlike /\ NoNewCommit
  BY <1>1, EndedAlike, MovedOnAlike DEF CreateFind
<1> QED BY <1>2, <1>3 DEF CreateFind, HomesAlike, HomeAlike

LEMMA RenewAlike ==
    ASSUME TypeOK, PeopleInv, NEW r \in Requests, Renew(r)
    PROVE  HomesAlike /\ RequestsAlike /\ NoNewCommit /\ UNCHANGED holders
<1>1. req[r].op = "refresh" /\ req[r].at \in {"read", "write"}
  BY DEF Renew, RefreshRead, RefreshWrite, At
<1>2. req[r].person \in holders /\ req[r].home \in DOMAIN homes /\ req[r].person \in People
  BY <1>1, RequestType DEF PeopleInv, TypeOK
<1>3. CASE RefreshRead(r)
  <2>1. CASE Done(r)
    BY <1>3, <2>1, EndedAlike DEF RefreshRead, HomesAlike, HomeAlike
  <2>2. CASE req' = [req EXCEPT ![r] = [op |-> "refresh", at |-> "write", person |-> req[r].person,
                                        home |-> req[r].home, old |-> homes[req[r].home].year]]
    <3>1. /\ req'[r].op = "refresh" /\ req'[r].person \in holders
          /\ \A s \in Requests : s # r => req'[s] = req[s]
      BY <1>2, <2>2 DEF TypeOK
    <3>2. RequestsAlike /\ NoNewCommit
      BY <3>1 DEF RequestsAlike, NoNewCommit, PeopleInv, At
    <3> QED BY <1>3, <3>2 DEF RefreshRead, HomesAlike, HomeAlike
  <2> QED BY <1>3, <2>1, <2>2 DEF RefreshRead
<1>4. CASE RefreshWrite(r)
  <2>1. HomesAlike
    <3>1. PICK data \in Lookup[homes[req[r].home].address] :
            homes' = IF data.source = "stub" \/ ~is_current_owner(req[r].person, req[r].home)
                     THEN homes
                     ELSE [homes EXCEPT ![req[r].home].source = data.source,
                       ![req[r].home].year = IF Given(data.year) THEN data.year ELSE req[r].old]
      BY <1>4 DEF RefreshWrite
    <3>2. CASE UNCHANGED homes
      BY <3>2 DEF HomesAlike, HomeAlike
    <3>3. CASE is_current_owner(req[r].person, req[r].home) /\ homes' # homes
      <4>1. PICK source, year :
              homes' = [homes EXCEPT ![req[r].home] =
                          [homes[req[r].home] EXCEPT !.source = source, !.year = year]]
        BY <1>2, <3>1, <3>3 DEF TypeOK
      <4>2. DOMAIN homes' = DOMAIN homes
        BY <4>1
      <4>3. homes[req[r].home] \in Home /\ req[r].person # Nobody
        BY <1>2, HomeKept, HomesAssumption
      <4>4. HomeAlike(req[r].home)
        <5>1. homes'[req[r].home] =
                [homes[req[r].home] EXCEPT !.source = source, !.year = year]
          BY <1>2, <4>1
        <5>2. homes[req[r].home].owner # Nobody
          BY <3>3, <4>3 DEF is_current_owner
        <5> QED BY <4>3, <5>1, <5>2 DEF HomeAlike, Home
      <4>5. \A h \in DOMAIN homes : h # req[r].home => homes'[h] = homes[h]
        BY <4>1
      <4> QED BY <4>2, <4>4, <4>5 DEF HomesAlike, HomeAlike
    <3> QED BY <3>1, <3>2, <3>3
  <2>2. RequestsAlike /\ NoNewCommit
    BY <1>4, EndedAlike DEF RefreshWrite
  <2> QED BY <1>4, <2>1, <2>2 DEF RefreshWrite
<1> QED BY <1>3, <1>4 DEF Renew

LEMMA FinishAlike ==
    ASSUME TypeOK, PeopleInv, NEW r \in Requests, Finish(r)
    PROVE  HomesAlike /\ RequestsAlike /\ NoNewCommit /\ UNCHANGED holders
<1>1. req[r].op = "complete" /\ UNCHANGED <<homes, holders>>
  BY DEF Finish, CompleteUpdate, CompleteNext, CompleteCommit, At
<1>2. Done(r) \/ \E at : GoTo(r, at)
  BY DEF Finish, CompleteUpdate, CompleteNext, CompleteCommit
<1>3. RequestsAlike /\ NoNewCommit
  BY <1>1, <1>2, EndedAlike, MovedOnAlike
<1> QED BY <1>1, <1>3 DEF HomesAlike, HomeAlike

-----------------------------------------------------------------------------
(* Numbers *)

LEMMA NumbersKept ==
    ASSUME NumbersInv, DOMAIN homes' = DOMAIN homes,
           \A h \in DOMAIN homes : homes'[h].number = homes[h].number, NoNewCommit
    PROVE  NumbersInv'
<1>1. OneHomePerNumber'
  BY DEF NumbersInv, OneHomePerNumber
<1>2. \A h \in DOMAIN homes' : homes'[h].number \in LookedUp \cup {DemoNumber(h)}
  BY DEF NumbersInv
<1>3. ASSUME NEW r \in Requests, At(r, "create", "commit")'
      PROVE  At(r, "create", "commit") /\ req'[r] = req[r] /\ ~NumberTaken(req[r].data.number)
  BY <1>3 DEF NumbersInv, NoNewCommit, At
<1>4. \A r \in Requests : At(r, "create", "commit")' => ~NumberTaken(req[r].data.number)'
  BY <1>3 DEF NumberTaken
<1>5. \A r, s \in Requests :
         /\ At(r, "create", "commit")' /\ At(s, "create", "commit")'
         /\ req'[r].data.number = req'[s].data.number
         => r = s
  BY <1>3 DEF NumbersInv
<1> QED BY <1>1, <1>2, <1>4, <1>5 DEF NumbersInv

\* The unique index: a number that is neither taken nor about to be is this request's alone.
LEMMA CreateInsertNumbers ==
    ASSUME TypeOK, NumbersInv, NEW r \in Requests, CreateInsert(r) PROVE NumbersInv'
<1>1. CASE Done(r)
  <2>1. NoNewCommit
    BY <1>1, Ended DEF NoNewCommit, At, Idle
  <2> QED BY <2>1, NumbersKept DEF CreateInsert
<1>2. CASE GoTo(r, "commit") /\ ~NumberTaken(req[r].data.number)
  <2>1. req[r].op = "create" /\ req[r] # Idle
    BY DEF CreateInsert, At, Idle
  <2>2. /\ req'[r].data = req[r].data
        /\ \A s \in Requests : s # r => req'[s] = req[s]
    BY <1>2, <2>1, MovedOn
  <2>3. UNCHANGED homes /\ ~NumberLocked(r, req[r].data.number)
    BY DEF CreateInsert
  <2>4. OneHomePerNumber' /\ \A h \in DOMAIN homes' :
                                homes'[h].number \in LookedUp \cup {DemoNumber(h)}
    BY <2>3 DEF NumbersInv, OneHomePerNumber
  <2>5. \A s \in Requests : At(s, "create", "commit")' => ~NumberTaken(req[s].data.number)'
    BY <1>2, <2>2, <2>3 DEF NumbersInv, NumberTaken, At
  <2>6. ASSUME NEW s \in Requests \ {r}, At(s, "create", "commit")'
        PROVE  req'[s].data.number # req'[r].data.number
    BY <2>2, <2>3, <2>6 DEF NumberLocked, At
  <2>7. \A s, t \in Requests :
           /\ At(s, "create", "commit")' /\ At(t, "create", "commit")'
           /\ req'[s].data.number = req'[t].data.number
           => s = t
    BY <2>2, <2>6 DEF NumbersInv, At
  <2> QED BY <2>4, <2>5, <2>7 DEF NumbersInv
<1> QED BY <1>1, <1>2 DEF CreateInsert

\* A home is added with a number of its own, which no request is about to commit.
LEMMA NumberAdded ==
    ASSUME TypeOK, NumbersInv, NEW e \in Home, homes' = Append(homes, e),
           ~NumberTaken(e.number), e.number \in LookedUp \cup {DemoNumber(Len(homes) + 1)},
           NoNewCommit,
           \A s \in Requests : At(s, "create", "commit")' => req[s].data.number # e.number
    PROVE  NumbersInv'
<1>1. /\ DOMAIN homes' = DOMAIN homes \cup {Len(homes) + 1} /\ Len(homes) + 1 \notin DOMAIN homes
      /\ homes'[Len(homes) + 1] = e /\ \A h \in DOMAIN homes : homes'[h] = homes[h]
  BY InsertedRow DEF TypeOK
<1>2. OneHomePerNumber'
  BY <1>1 DEF NumbersInv, OneHomePerNumber, NumberTaken
<1>3. \A h \in DOMAIN homes' : homes'[h].number \in LookedUp \cup {DemoNumber(h)}
  BY <1>1 DEF NumbersInv
<1>4. ASSUME NEW s \in Requests, At(s, "create", "commit")'
      PROVE  At(s, "create", "commit") /\ req'[s] = req[s] /\ ~NumberTaken(req[s].data.number)
  BY <1>4 DEF NumbersInv, NoNewCommit, At
<1>5. \A s \in Requests : At(s, "create", "commit")' => ~NumberTaken(req[s].data.number)'
  BY <1>1, <1>4 DEF NumberTaken
<1>6. \A s, t \in Requests :
         /\ At(s, "create", "commit")' /\ At(t, "create", "commit")'
         /\ req'[s].data.number = req'[t].data.number
         => s = t
  BY <1>4 DEF NumbersInv
<1> QED BY <1>2, <1>3, <1>5, <1>6 DEF NumbersInv

LEMMA CreateCommitNumbers ==
    ASSUME TypeOK, NumbersInv, NEW r \in Requests, CreateCommit(r) PROVE NumbersInv'
<1>1. PICK e : e = Onboarded(req[r], req[r].person)
  OBVIOUS
<1>2. req[r] \in CreateReq /\ At(r, "create", "commit")
  BY RequestType DEF CreateCommit, At
<1>3. e \in Home /\ e.number = req[r].data.number /\ e.number \in LookedUp
  BY <1>1, <1>2, LookupData DEF Onboarded, Home, CreateReq
<1>4. NoNewCommit /\ \A s \in Requests : At(s, "create", "commit")' => s # r
  BY Ended DEF CreateCommit, NoNewCommit, At, Idle
<1>5. \A s \in Requests : At(s, "create", "commit")' => req[s].data.number # e.number
  <2>1. \A s \in Requests : At(s, "create", "commit")' => At(s, "create", "commit") /\ s # r
    BY <1>4 DEF NoNewCommit, At
  <2> QED BY <1>2, <1>3, <2>1 DEF NumbersInv
<1>6. ~NumberTaken(e.number)
  BY <1>2, <1>3 DEF NumbersInv
<1>7. homes' = Append(homes, e)
  BY <1>1 DEF CreateCommit
<1> QED BY <1>3, <1>4, <1>5, <1>6, <1>7, NumberAdded

LEMMA DemoPropertyNumbers ==
    ASSUME TypeOK, NumbersInv, NEW r \in Requests, DemoProperty(r) PROVE NumbersInv'
<1>1. PICK e : e = [number |-> <<"BFE-DEMO-", Len(homes) + 1>>, address |-> req[r].address,
                    year |-> FictitiousYear, source |-> "demo", owner |-> Nobody,
                    readers |-> {}, parts |-> {}]
  OBVIOUS
<1>2. homes' = Append(homes, e) /\ e.number = DemoNumber(Len(homes) + 1)
  BY <1>1 DEF DemoProperty, DemoNumber
<1>3. e \in Home
  <2>1. Len(homes) \in Nat /\ req[r].address \in Addresses
    BY RequestType, LenProperties DEF DemoProperty, At, TypeOK
  <2>2. <<"BFE-DEMO-", Len(homes) + 1>> \in Numbers
    BY <2>1 DEF Numbers
  <2> QED BY <1>1, <2>1, <2>2 DEF Home, Years, Sources
<1>4. ~NumberTaken(e.number)
  <2>1. ASSUME NEW h \in DOMAIN homes, homes[h].number = DemoNumber(Len(homes) + 1) PROVE FALSE
    <3>1. homes[h].number = DemoNumber(h)
      BY <2>1, NoDemoIsLookedUp DEF NumbersInv
    <3>2. h = Len(homes) + 1
      BY <2>1, <3>1 DEF DemoNumber
    <3> QED BY <1>3, <3>2, InsertedRow DEF TypeOK
  <2> QED BY <1>2, <2>1 DEF NumberTaken
<1>5. req'[r].op = "demo" /\ \A s \in Requests : s # r => req'[s] = req[s]
  BY DEF DemoProperty, TypeOK
<1>6. NoNewCommit
  BY <1>5 DEF NoNewCommit, At
<1>7. \A s \in Requests : At(s, "create", "commit")' => req[s].data.number # e.number
  <2>1. ASSUME NEW s \in Requests, At(s, "create", "commit")'
        PROVE  req[s].data.number \in LookedUp
    <3>1. req[s].op = "create"
      BY <1>6, <2>1 DEF NoNewCommit, At
    <3> QED BY <3>1, RequestType, LookupData DEF CreateReq
  <2> QED BY <1>2, <2>1, NoDemoIsLookedUp
<1> QED BY <1>2, <1>3, <1>4, <1>6, <1>7, NumberAdded

-----------------------------------------------------------------------------
(* People *)

LEMMA PeopleKept ==
    ASSUME TypeOK, PeopleInv, HomesAlike, RequestsAlike, UNCHANGED holders
    PROVE  PeopleInv'
<1>1. HomesAreSound'
  BY DEF PeopleInv, HomesAreSound, HomesAlike, HomeAlike
<1>2. \A r \in Requests : req'[r].op \in {"create", "refresh"} => req'[r].person \in holders'
  BY DEF RequestsAlike
<1>3. ASSUME NEW r \in Requests PROVE SessionIsPrivate(r)'
  <2>1. SUFFICES ASSUME req'[r].op = "demo" PROVE SessionIsPrivate(r)'
    BY DEF SessionIsPrivate
  <2>2. req'[r] = req[r] /\ req[r].op = "demo"
    BY <2>1 DEF RequestsAlike
  <2>3. req[r].at # "property" => req[r].home \in DOMAIN homes
    BY <2>2, RequestType
  <2>4. SessionIsPrivate(r) /\ \A at \in Parts : at # "property"
    BY DEF PeopleInv, Parts
  <2> QED BY <2>2, <2>3, <2>4 DEF SessionIsPrivate, HomesAlike, HomeAlike, Parts
<1>4. \A r, s \in Requests :
         /\ req'[r].op = "demo" /\ req'[s].op = "demo"
         /\ \/ req'[r].person = req'[s].person
            \/ /\ req'[r].at # "property" /\ req'[s].at # "property"
               /\ req'[r].home = req'[s].home
         => r = s
  BY DEF PeopleInv, RequestsAlike
<1> QED BY <1>1, <1>2, <1>3, <1>4 DEF PeopleInv

\* What is known of a demo session that has made its home.
LEMMA SessionFacts ==
    ASSUME TypeOK, PeopleInv, NEW r \in Requests, req[r].op = "demo"
    PROVE  /\ req[r].person \in People \ holders /\ req[r].person # Nobody
           /\ req[r].at \in {"property", "period"} \cup Parts
           /\ req[r].at # "property" => req[r].home \in DOMAIN homes
<1>1. req[r] # Idle
  BY DEF Idle
<1>2. req[r].person \in People \ holders
  BY <1>1, RequestType DEF PeopleInv, SessionIsPrivate
<1>3. req[r].at \in {"property", "period"} \cup Parts
  BY RequestType DEF Request, Idle, CreateReq, HomeReq, RowReq, DemoReq
<1> QED BY <1>2, <1>3, RequestType, HomesAssumption

LEMMA CreateCommitPeople ==
    ASSUME TypeOK, PeopleInv, NEW r \in Requests, CreateCommit(r) PROVE PeopleInv'
<1>1. PICK e : e = Onboarded(req[r], req[r].person)
  OBVIOUS
<1>2. req[r] \in CreateReq /\ req[r].op = "create" /\ req[r].person \in holders
  BY RequestType DEF CreateCommit, At, PeopleInv
<1>3. /\ e \in Home /\ e.owner = req[r].person /\ e.readers = {} /\ e.parts = Parts
      /\ e.owner # Nobody
  BY <1>1, <1>2, LookupData, HomesAssumption DEF Onboarded, Home, CreateReq
<1>4. /\ DOMAIN homes' = DOMAIN homes \cup {Len(homes) + 1} /\ Len(homes) + 1 \notin DOMAIN homes
      /\ homes'[Len(homes) + 1] = e /\ \A h \in DOMAIN homes : homes'[h] = homes[h]
  BY <1>1, <1>3, InsertedRow DEF TypeOK, CreateCommit
<1>5. RequestsAlike /\ UNCHANGED holders
  BY EndedAlike DEF CreateCommit
<1>6. HomesAreSound'
  BY <1>3, <1>4, <1>5 DEF PeopleInv, HomesAreSound
<1>7. ASSUME NEW s \in Requests PROVE SessionIsPrivate(s)'
  <2>1. SUFFICES ASSUME req'[s].op = "demo" PROVE SessionIsPrivate(s)'
    BY DEF SessionIsPrivate
  <2>2. req'[s] = req[s] /\ req[s].op = "demo"
    BY <1>5, <2>1 DEF RequestsAlike
  <2>3. /\ req[s].at # "property" => req[s].home \in DOMAIN homes
        /\ req[s].person # e.owner
    BY <1>2, <1>3, <2>2, SessionFacts
  <2> QED BY <1>4, <1>5, <2>2, <2>3 DEF PeopleInv, SessionIsPrivate, Parts
<1>8. \A s, t \in Requests :
         /\ req'[s].op = "demo" /\ req'[t].op = "demo"
         /\ \/ req'[s].person = req'[t].person
            \/ /\ req'[s].at # "property" /\ req'[t].at # "property"
               /\ req'[s].home = req'[t].home
         => s = t
  BY <1>5 DEF PeopleInv, RequestsAlike
<1> QED BY <1>5, <1>6, <1>7, <1>8 DEF PeopleInv, RequestsAlike

\* A session begins with a person nobody has met.
LEMMA DemoPeople ==
    ASSUME TypeOK, PeopleInv, NEW r \in Requests, NEW p \in People, NEW a, Demo(r, p, a)
    PROVE  PeopleInv'
<1>1. PICK q : q = [op |-> "demo", at |-> "property", person |-> p, address |-> a]
  OBVIOUS
<1>2. /\ req'[r] = q /\ \A s \in Requests : s # r => req'[s] = req[s]
      /\ UNCHANGED <<homes, holders>>
  BY <1>1 DEF Demo, Begin, TypeOK
<1>3. q.op = "demo" /\ q.at = "property" /\ q.person = p
  BY <1>1
<1>4. /\ p \notin holders /\ \A h \in DOMAIN homes : homes[h].owner # p
      /\ \A s \in Requests : req[s].op = "demo" => req[s].person # p
  BY DEF Demo, Unused, Running
<1>5. SessionIsPrivate(r)'
  BY <1>2, <1>3, <1>4 DEF SessionIsPrivate, Parts
<1>6. \A s \in Requests : s # r => SessionIsPrivate(s)'
  BY <1>2 DEF PeopleInv, SessionIsPrivate
<1>7. \A s, t \in Requests :
         /\ req'[s].op = "demo" /\ req'[t].op = "demo"
         /\ \/ req'[s].person = req'[t].person
            \/ /\ req'[s].at # "property" /\ req'[t].at # "property"
               /\ req'[s].home = req'[t].home
         => s = t
  BY <1>2, <1>3, <1>4 DEF PeopleInv
<1>8. HomesAreSound'
  BY <1>2 DEF PeopleInv, HomesAreSound
<1> QED BY <1>2, <1>3, <1>5, <1>6, <1>7, <1>8 DEF PeopleInv

\* Its home belongs to nobody at first.
LEMMA DemoPropertyPeople ==
    ASSUME TypeOK, PeopleInv, NEW r \in Requests, DemoProperty(r) PROVE PeopleInv'
<1>1. PICK n : n = Len(homes) + 1
  OBVIOUS
<1>2. /\ DOMAIN homes' = DOMAIN homes \cup {n} /\ n \notin DOMAIN homes
      /\ homes'[n].owner = Nobody /\ homes'[n].readers = {} /\ homes'[n].source = "demo"
      /\ \A h \in DOMAIN homes : homes'[h] = homes[h]
  <2>1. PICK e : e = [number |-> <<"BFE-DEMO-", Len(homes) + 1>>, address |-> req[r].address,
                    year |-> FictitiousYear, source |-> "demo", owner |-> Nobody,
                    readers |-> {}, parts |-> {}]
    OBVIOUS
  <2>2. homes' = Append(homes, e) /\ e.owner = Nobody /\ e.readers = {} /\ e.source = "demo"
    BY <2>1 DEF DemoProperty
  <2>3. homes \in Seq(Home \cup {e})
    BY SeqDef DEF TypeOK
  <2> QED BY <1>1, <2>2, <2>3, InsertedRow
<1>3. At(r, "demo", "property") /\ req[r].op = "demo" /\ UNCHANGED holders
  BY DEF DemoProperty, At
<1>4. /\ req'[r].op = "demo" /\ req'[r].at = "period" /\ req'[r].person = req[r].person
      /\ req'[r].home = n /\ \A s \in Requests : s # r => req'[s] = req[s]
  BY <1>1 DEF DemoProperty, TypeOK
<1>5. req[r].person # Nobody /\ Nobody \notin holders
  BY <1>3, SessionFacts, HomesAssumption DEF TypeOK
<1>6. HomesAreSound'
  BY <1>2, <1>3, <1>5 DEF PeopleInv, HomesAreSound
<1>7. SessionIsPrivate(r)'
  <2>1. req[r].person \notin holders /\ \A h \in DOMAIN homes : homes[h].owner # req[r].person
    BY <1>3 DEF PeopleInv, SessionIsPrivate, At
  <2> QED BY <1>2, <1>3, <1>4, <1>5, <2>1 DEF SessionIsPrivate, Parts
<1>8. ASSUME NEW s \in Requests \ {r} PROVE SessionIsPrivate(s)'
  <2>1. SUFFICES ASSUME req[s].op = "demo" PROVE SessionIsPrivate(s)'
    BY <1>4 DEF SessionIsPrivate
  <2>2. req[s].person # Nobody /\ (req[s].at # "property" => req[s].home \in DOMAIN homes)
    BY <2>1, SessionFacts
  <2> QED BY <1>2, <1>3, <1>4, <2>1, <2>2 DEF PeopleInv, SessionIsPrivate, Parts
<1>9. ASSUME NEW s \in Requests \ {r}, req[s].op = "demo"
      PROVE  /\ req[s].person # req[r].person
             /\ req[s].at # "property" => req[s].home # n
  BY <1>2, <1>3, <1>9, SessionFacts DEF PeopleInv
<1>10. \A s, t \in Requests :
         /\ req'[s].op = "demo" /\ req'[t].op = "demo"
         /\ \/ req'[s].person = req'[t].person
            \/ /\ req'[s].at # "property" /\ req'[t].at # "property"
               /\ req'[s].home = req'[t].home
         => s = t
  BY <1>4, <1>9 DEF PeopleInv
<1> QED BY <1>3, <1>4, <1>6, <1>7, <1>8, <1>10 DEF PeopleInv

\* One statement of a session that has its home: what it writes, and who else may be there.
LEMMA SessionSteps ==
    ASSUME TypeOK, PeopleInv, NEW r \in Requests, NEW h, NEW p, h = req[r].home, p = req[r].person,
           DemoPeriod(r) \/ DemoDocuments(r) \/ DemoTasks(r) \/ DemoWarranties(r)
    PROVE  /\ req[r].op = "demo" /\ h \in DOMAIN homes /\ p \in People \ holders /\ p # Nobody
           /\ DOMAIN homes' = DOMAIN homes
           /\ \A g \in DOMAIN homes \ {h} : homes'[g] = homes[g]
           /\ homes'[h].number = homes[h].number /\ homes'[h].readers = homes[h].readers
           /\ homes'[h].source = homes[h].source /\ homes'[h].owner = p
           /\ homes[h].owner \in {Nobody, p}
           /\ ~DemoPeriod(r) => homes[h].owner = p
           /\ DemoPeriod(r) => homes[h].owner = Nobody /\ homes'[h].parts = homes[h].parts
           /\ DemoDocuments(r) => homes'[h].parts = homes[h].parts \cup {"documents"}
           /\ DemoTasks(r) => homes'[h].parts = homes[h].parts \cup {"tasks"}
           /\ DemoWarranties(r) => homes'[h].parts = homes[h].parts \cup {"warranties"}
           /\ \A g \in DOMAIN homes : homes[g].owner = p => g = h
           /\ \A s \in Requests \ {r} : req'[s] = req[s]
           /\ \A s \in Requests \ {r} : req[s].op = "demo" =>
                 req[s].person # p /\ (req[s].at # "property" => req[s].home # h)
<1>1. /\ req[r].op = "demo" /\ req[r].at \in {"period"} \cup Parts
      /\ DemoPeriod(r) <=> req[r].at = "period"
      /\ DemoDocuments(r) => req[r].at = "documents"
      /\ DemoTasks(r) => req[r].at = "tasks"
      /\ DemoWarranties(r) => req[r].at = "warranties"
  BY DEF DemoPeriod, DemoDocuments, DemoTasks, DemoWarranties, At, Parts
<1>2. h \in DOMAIN homes /\ p \in People \ holders /\ p # Nobody
  BY <1>1, SessionFacts DEF Parts
<1>3. /\ homes[h].owner \in {Nobody, p}
      /\ ~DemoPeriod(r) => homes[h].owner = p
      /\ DemoPeriod(r) => homes[h].owner = Nobody
      /\ \A g \in DOMAIN homes : homes[g].owner = p => g = h
  BY <1>1 DEF PeopleInv, SessionIsPrivate, Parts
<1>4. homes[h] \in Home /\ homes \in Seq(Home)
  BY <1>2, HomeKept DEF TypeOK
<1>5. /\ DemoPeriod(r) => homes' = [homes EXCEPT ![h] = [homes[h] EXCEPT !.owner = p]]
      /\ DemoDocuments(r) =>
            homes' = [homes EXCEPT ![h] = [homes[h] EXCEPT !.parts = @ \cup {"documents"}]]
      /\ DemoTasks(r) =>
            homes' = [homes EXCEPT ![h] = [homes[h] EXCEPT !.parts = @ \cup {"tasks"}]]
      /\ DemoWarranties(r) =>
            homes' = [homes EXCEPT ![h] = [homes[h] EXCEPT !.parts = @ \cup {"warranties"}]]
  BY DEF DemoPeriod, DemoDocuments, DemoTasks, DemoWarranties
<1>6. PICK e : homes' = [homes EXCEPT ![h] = e]
  BY <1>5
<1>7. /\ DOMAIN homes' = DOMAIN homes /\ homes'[h] = e
      /\ \A g \in DOMAIN homes \ {h} : homes'[g] = homes[g]
  BY <1>2, <1>6
<1>8. /\ DemoPeriod(r) => homes'[h] = [homes[h] EXCEPT !.owner = p]
      /\ DemoDocuments(r) => homes'[h] = [homes[h] EXCEPT !.parts = @ \cup {"documents"}]
      /\ DemoTasks(r) => homes'[h] = [homes[h] EXCEPT !.parts = @ \cup {"tasks"}]
      /\ DemoWarranties(r) => homes'[h] = [homes[h] EXCEPT !.parts = @ \cup {"warranties"}]
  BY <1>2, <1>5
<1>9. /\ homes'[h].number = homes[h].number /\ homes'[h].readers = homes[h].readers
      /\ homes'[h].source = homes[h].source
      /\ DemoPeriod(r) => homes'[h].owner = p /\ homes'[h].parts = homes[h].parts
      /\ ~DemoPeriod(r) => homes'[h].owner = homes[h].owner
      /\ DemoDocuments(r) => homes'[h].parts = homes[h].parts \cup {"documents"}
      /\ DemoTasks(r) => homes'[h].parts = homes[h].parts \cup {"tasks"}
      /\ DemoWarranties(r) => homes'[h].parts = homes[h].parts \cup {"warranties"}
  BY <1>1, <1>4, <1>8 DEF Home
<1>10. \A s \in Requests \ {r} : req'[s] = req[s]
  BY DEF DemoPeriod, DemoDocuments, DemoTasks, DemoWarranties, GoTo, Done, TypeOK
<1>11. \A s \in Requests \ {r} : req[s].op = "demo" =>
          req[s].person # p /\ (req[s].at # "property" => req[s].home # h)
  BY <1>1 DEF PeopleInv, Parts
<1> QED BY <1>1, <1>2, <1>3, <1>7, <1>9, <1>10, <1>11

\* The other sessions, and the sessions as a whole.
LEMMA SessionsKept ==
    ASSUME TypeOK, PeopleInv, NEW r \in Requests, SessionIsPrivate(r)',
           DOMAIN homes' = DOMAIN homes, req[r].op = "demo", req[r].at # "property",
           \A g \in DOMAIN homes \ {req[r].home} : homes'[g] = homes[g],
           homes'[req[r].home].owner = req[r].person, holders' \subseteq holders \cup {req[r].person},
           \A s \in Requests \ {r} : req'[s] = req[s],
           \/ req'[r].op \notin {"demo", "create", "refresh"}
           \/ /\ req'[r].op = "demo" /\ req'[r].person = req[r].person
              /\ req'[r].home = req[r].home,
           holders \subseteq holders', HomesAreSound'
    PROVE  PeopleInv'
<1>1. ASSUME NEW s \in Requests \ {r}, req[s].op = "demo"
      PROVE  /\ SessionIsPrivate(s)' /\ req[s].person # req[r].person
             /\ req[s].at # "property" => req[s].home # req[r].home
  <2>1. /\ req[s].person # req[r].person
        /\ req[s].at # "property" => req[s].home # req[r].home
    BY <1>1 DEF PeopleInv
  <2>2. req[s].at # "property" => req[s].home \in DOMAIN homes
    BY <1>1, SessionFacts
  <2>3. req'[s] = req[s]
    BY <1>1
  <2>4. req[s].person \notin holders'
    BY <1>1, <2>1, SessionFacts
  <2> QED BY <1>1, <2>1, <2>2, <2>3, <2>4 DEF PeopleInv, SessionIsPrivate, Parts
<1>2. \A s \in Requests : SessionIsPrivate(s)'
  BY <1>1 DEF SessionIsPrivate
<1>3. \A s, t \in Requests :
         /\ req'[s].op = "demo" /\ req'[t].op = "demo"
         /\ \/ req'[s].person = req'[t].person
            \/ /\ req'[s].at # "property" /\ req'[t].at # "property"
               /\ req'[s].home = req'[t].home
         => s = t
  BY <1>1 DEF PeopleInv
<1>4. \A s \in Requests : req'[s].op \in {"create", "refresh"} => req'[s].person \in holders'
  BY DEF PeopleInv
<1> QED BY <1>2, <1>3, <1>4 DEF PeopleInv

LEMMA SessionPeople ==
    ASSUME TypeOK, PeopleInv, NEW r \in Requests,
           DemoPeriod(r) \/ DemoDocuments(r) \/ DemoTasks(r) \/ DemoWarranties(r)
    PROVE  PeopleInv'
<1>1. PICK h, p : h = req[r].home /\ p = req[r].person
  OBVIOUS
<1>0. req[r].op = "demo" /\ req[r].at # "property" /\ req[r] # Idle
  BY DEF DemoPeriod, DemoDocuments, DemoTasks, DemoWarranties, At, Idle
<1>2. /\ req[r].op = "demo" /\ req[r].at # "property" /\ req[r] # Idle
      /\ h \in DOMAIN homes /\ p \in People \ holders /\ p # Nobody
      /\ DOMAIN homes' = DOMAIN homes
      /\ \A g \in DOMAIN homes \ {h} : homes'[g] = homes[g]
      /\ homes'[h].readers = homes[h].readers
      /\ homes'[h].source = homes[h].source /\ homes'[h].owner = p
      /\ \A g \in DOMAIN homes : homes[g].owner = p => g = h
      /\ \A s \in Requests \ {r} : req'[s] = req[s]
  BY <1>1, <1>0, SessionSteps
<1>3. homes[h].parts \subseteq Parts
  BY <1>2, HomeKept DEF Home
<1>4. CASE DemoPeriod(r) \/ DemoDocuments(r) \/ DemoTasks(r)
  <2>1. UNCHANGED holders
    BY <1>4 DEF DemoPeriod, DemoDocuments, DemoTasks
  <2>2. /\ homes[h].parts \subseteq homes'[h].parts /\ homes'[h].parts \subseteq Parts
        /\ DemoDocuments(r) => "documents" \in homes'[h].parts
        /\ DemoTasks(r) => "tasks" \in homes'[h].parts
    <3>1. \/ homes'[h].parts = homes[h].parts /\ DemoPeriod(r)
          \/ homes'[h].parts = homes[h].parts \cup {"documents"} /\ DemoDocuments(r)
          \/ homes'[h].parts = homes[h].parts \cup {"tasks"} /\ DemoTasks(r)
      BY <1>1, <1>4, SessionSteps
    <3>2. /\ DemoDocuments(r) => ~DemoPeriod(r) /\ ~DemoTasks(r)
          /\ DemoTasks(r) => ~DemoPeriod(r) /\ ~DemoDocuments(r)
      BY DEF DemoPeriod, DemoDocuments, DemoTasks, At
    <3> QED BY <1>3, <3>1, <3>2 DEF Parts
  <2>3. HomesAreSound'
    <3>1. homes'[h].owner \in holders \/ homes'[h].readers # {} => homes'[h].parts = Parts
      BY <1>2, <2>2 DEF PeopleInv, HomesAreSound
    <3> QED BY <1>2, <2>1, <3>1 DEF PeopleInv, HomesAreSound
  <2>4. PICK at \in Parts :
          /\ GoTo(r, at)
          /\ DemoPeriod(r) => at = "documents"
          /\ DemoDocuments(r) => at = "tasks"
          /\ DemoTasks(r) => at = "warranties"
          /\ at \in {"tasks", "warranties"} => "documents" \in homes'[h].parts
          /\ at = "warranties" => "tasks" \in homes'[h].parts
    <3>1. CASE DemoPeriod(r)
      BY <3>1 DEF DemoPeriod, DemoDocuments, DemoTasks, At, Parts
    <3>2. CASE DemoDocuments(r)
      BY <2>2, <3>2 DEF DemoPeriod, DemoDocuments, DemoTasks, At, Parts
    <3>3. CASE DemoTasks(r)
      <4>1. "documents" \in homes[h].parts
        BY <1>1, <1>2, <3>3 DEF PeopleInv, SessionIsPrivate, DemoTasks, At
      <4> QED BY <2>2, <3>3, <4>1 DEF DemoPeriod, DemoDocuments, DemoTasks, At, Parts
    <3> QED BY <1>4, <3>1, <3>2, <3>3
  <2>5. /\ req'[r].op = "demo" /\ req'[r].at = at /\ req'[r].person = p /\ req'[r].home = h
    BY <1>1, <1>2, <2>4, MovedOn
  <2>6. SessionIsPrivate(r)'
    <3>1. \A g \in DOMAIN homes' : homes'[g].owner = p => g = h
      BY <1>2
    <3> QED BY <1>2, <2>1, <2>4, <2>5, <3>1 DEF SessionIsPrivate, Parts
  <2> QED BY <1>1, <1>2, <2>1, <2>3, <2>5, <2>6, SessionsKept
<1>5. CASE DemoWarranties(r)
  <2>1. Done(r) /\ holders' = holders \cup {p} /\ At(r, "demo", "warranties")
    BY <1>1, <1>5 DEF DemoWarranties
  <2>2. homes'[h].parts = Parts
    <3>1. "documents" \in homes[h].parts /\ "tasks" \in homes[h].parts
      BY <1>1, <2>1 DEF PeopleInv, SessionIsPrivate, At
    <3>2. homes'[h].parts = homes[h].parts \cup {"warranties"}
      BY <1>1, <1>5, SessionSteps
    <3> QED BY <1>3, <3>1, <3>2 DEF Parts
  <2>3. HomesAreSound'
    BY <1>2, <2>1, <2>2 DEF PeopleInv, HomesAreSound
  <2>4. req'[r] = Idle
    BY <2>1, Ended
  <2>5. SessionIsPrivate(r)' /\ req'[r].op \notin {"demo", "create", "refresh"}
    BY <2>4 DEF SessionIsPrivate, Idle
  <2> QED BY <1>1, <1>2, <2>1, <2>3, <2>5, SessionsKept
<1> QED BY <1>4, <1>5

LEMMA HandedPeople ==
    ASSUME TypeOK, PeopleInv, NEW h \in DOMAIN homes, NEW p \in People, Handed(h, p)
    PROVE  PeopleInv'
<1>1. PICK o \in People, R \in SUBSET People :
          /\ homes' = [homes EXCEPT ![h] = [homes[h] EXCEPT !.owner = o, !.readers = R]]
          /\ o = homes[h].owner \/ (Sell(h, p) /\ o = p /\ p \in holders)
          /\ homes[h].owner \in holders /\ UNCHANGED <<rows, holders, req>>
          /\ R \subseteq homes[h].readers \cup holders
  BY HandedHome
<1>2. /\ DOMAIN homes' = DOMAIN homes /\ homes'[h].owner = o /\ homes'[h].readers = R
      /\ homes'[h].parts = homes[h].parts
      /\ \A g \in DOMAIN homes \ {h} : homes'[g] = homes[g]
  <2>1. homes[h] \in Home /\ homes \in Seq(Home)
    BY HomeKept DEF TypeOK
  <2>2. /\ DOMAIN homes' = DOMAIN homes
        /\ homes'[h] = [homes[h] EXCEPT !.owner = o, !.readers = R]
        /\ \A g \in DOMAIN homes \ {h} : homes'[g] = homes[g]
    BY <1>1
  <2> QED BY <2>1, <2>2 DEF Home
<1>3. o \in holders /\ o # Nobody /\ Nobody \notin holders
  BY <1>1, HomesAssumption DEF TypeOK
<1>4. homes[h].parts = Parts /\ homes[h].readers \subseteq holders
  BY <1>1 DEF PeopleInv, HomesAreSound
<1>5. HomesAreSound'
  BY <1>1, <1>2, <1>3, <1>4 DEF PeopleInv, HomesAreSound
<1>6. ASSUME NEW s \in Requests PROVE SessionIsPrivate(s)'
  <2>1. SUFFICES ASSUME req[s].op = "demo" PROVE SessionIsPrivate(s)'
    BY <1>1 DEF SessionIsPrivate
  <2>2. /\ req[s].person \notin holders /\ req[s].at \in {"property", "period"} \cup Parts
        /\ req[s].at # "property" => req[s].home \in DOMAIN homes
    BY <2>1, SessionFacts
  <2>3. req[s].at # "property" => req[s].home # h
    <3>1. homes[h].owner # req[s].person /\ homes[h].owner # Nobody
      BY <1>1, <1>3, <2>2
    <3>2. req[s].at # "property" => homes[req[s].home].owner \in {req[s].person, Nobody}
      BY <2>1, <2>2 DEF PeopleInv, SessionIsPrivate
    <3> QED BY <3>1, <3>2
  <2> QED BY <1>1, <1>2, <1>3, <2>1, <2>2, <2>3 DEF PeopleInv, SessionIsPrivate, Parts
<1> QED BY <1>1, <1>5, <1>6 DEF PeopleInv

-----------------------------------------------------------------------------
(* Rows *)

From(rs, i) == {j \in DOMAIN rs : rs[j].from = i}

LEMMA FromIsFinite ==
    ASSUME NEW T, NEW rs \in Seq(T), NEW i
    PROVE  IsFiniteSet(From(rs, i)) /\ 0 \notin DOMAIN rs
<1>1. DOMAIN rs = 1..Len(rs) /\ Len(rs) \in Nat
  BY LenProperties
<1>2. IsFiniteSet(DOMAIN rs)
  BY <1>1, FS_Interval
<1> QED BY <1>1, <1>2, FS_Subset DEF From

\* A recurring task has as many successors as it was completed times.
Successors(rs, i) == Cardinality(From(rs, i)) = IF rs[i].kind = "series" THEN rs[i].times ELSE 0

\* One of its series is open.
GoesOn(rs, i) ==
    rs[i].kind = "series" =>
        \E j \in DOMAIN rs : rs[j].series = rs[i].series /\ rs[j].status = "open"

LEMMA RecurringTasks ==
    /\ RecurringTasksGoOn <=> \A i \in DOMAIN rows : GoesOn(rows, i) /\ Successors(rows, i)
    /\ RecurringTasksGoOn' <=> \A i \in DOMAIN rows' : GoesOn(rows', i) /\ Successors(rows', i)
  BY DEF RecurringTasksGoOn, GoesOn, Successors, From

LEMMA RowsKept ==
    ASSUME RowsInv, UNCHANGED rows PROVE RowsInv'
<1>1. RecurringTasksGoOn'
  BY RecurringTasks DEF RowsInv
<1> QED BY <1>1 DEF RowsInv

LEMMA AddedRowKeeps ==
    ASSUME TypeOK, RowsInv, NEW h \in DOMAIN homes, NEW kind \in Kinds, rows' = AddRow(rows, h, kind)
    PROVE  RowsInv'
<1>1. PICK n : n = Len(rows) + 1
  OBVIOUS
<1>2. /\ DOMAIN rows' = DOMAIN rows \cup {n} /\ n \notin DOMAIN rows /\ n # 0
      /\ rows'[n] = NewRow(h, kind, n, 0) /\ \A i \in DOMAIN rows : rows'[i] = rows[i]
  BY <1>1, AddedRow
<1>3. /\ rows'[n].kind = kind /\ rows'[n].status = "open" /\ rows'[n].series = n
      /\ rows'[n].from = 0 /\ rows'[n].times = 0
  BY <1>2 DEF NewRow
<1>4. /\ \A i \in DOMAIN rows' : /\ rows'[i].from \in {0} \cup DOMAIN rows'
                                 /\ rows'[i].series \in DOMAIN rows'
      /\ \A i, j \in DOMAIN rows' : rows'[i].series = rows'[j].series => rows'[i].kind = rows'[j].kind
  BY <1>2, <1>3 DEF RowsInv
<1>5. \A i \in DOMAIN rows' : rows'[i].kind = "series" =>
         \E j \in DOMAIN rows' : rows'[j].series = rows'[i].series /\ rows'[j].status = "open"
  BY <1>2, <1>3, RecurringTasks DEF RowsInv, GoesOn
<1>6. ASSUME NEW i \in DOMAIN rows'
      PROVE  Cardinality(From(rows', i)) = IF rows'[i].kind = "series" THEN rows'[i].times ELSE 0
  <2>1. CASE i = n
    <3>1. From(rows', n) = {}
      BY <1>2, <1>3 DEF From, RowsInv
    <3> QED BY <1>3, <2>1, <3>1, FS_EmptySet
  <2>2. CASE i \in DOMAIN rows
    <3>1. i # 0
      BY <2>2, FromIsFinite DEF TypeOK
    <3>2. From(rows', i) = From(rows, i)
      BY <1>2, <1>3, <3>1 DEF From
    <3> QED BY <1>2, <2>2, <3>2, RecurringTasks DEF RowsInv, Successors
  <2> QED BY <1>2, <2>1, <2>2
<1> QED BY <1>4, <1>5, <1>6, RecurringTasks DEF RowsInv, Successors, GoesOn

\* A task or a warranty that is done leaves the series alone.
LEMMA DoneRowKeeps ==
    ASSUME TypeOK, RowsInv, NEW i \in DOMAIN rows, rows[i].kind # "series",
           rows' = [rows EXCEPT ![i] = [rows[i] EXCEPT !.status = "done", !.times = @ + 1]]
    PROVE  RowsInv'
<1>1. /\ DOMAIN rows' = DOMAIN rows
      /\ rows'[i] = [rows[i] EXCEPT !.status = "done", !.times = @ + 1]
      /\ \A j \in DOMAIN rows \ {i} : rows'[j] = rows[j]
  BY DEF TypeOK
<1>2. \A j \in DOMAIN rows : /\ rows'[j].from = rows[j].from /\ rows'[j].series = rows[j].series
                             /\ rows'[j].kind = rows[j].kind
                             /\ j # i => rows'[j].status = rows[j].status /\ rows'[j].times = rows[j].times
  <2>1. rows[i] \in Row
    BY RowType DEF TypeOK
  <2> QED BY <1>1, <2>1 DEF Row
<1>3. /\ \A j \in DOMAIN rows' : /\ rows'[j].from \in {0} \cup DOMAIN rows'
                                 /\ rows'[j].series \in DOMAIN rows'
      /\ \A j, k \in DOMAIN rows' : rows'[j].series = rows'[k].series => rows'[j].kind = rows'[k].kind
  BY <1>1, <1>2 DEF RowsInv
<1>4. ASSUME NEW k \in DOMAIN rows', rows'[k].kind = "series"
      PROVE  \E j \in DOMAIN rows' : rows'[j].series = rows'[k].series /\ rows'[j].status = "open"
  <2>1. PICK j \in DOMAIN rows : rows[j].series = rows[k].series /\ rows[j].status = "open"
    BY <1>1, <1>2, <1>4, RecurringTasks DEF RowsInv, GoesOn
  <2>2. rows[j].kind = "series"
    BY <1>1, <1>2, <1>4, <2>1 DEF RowsInv
  <2> QED BY <1>1, <1>2, <2>1, <2>2
<1>5. ASSUME NEW k \in DOMAIN rows'
      PROVE  Cardinality(From(rows', k)) = IF rows'[k].kind = "series" THEN rows'[k].times ELSE 0
  <2>1. From(rows', k) = From(rows, k)
    BY <1>1, <1>2 DEF From
  <2> QED BY <1>1, <1>2, <2>1, RecurringTasks DEF RowsInv, Successors
<1> QED BY <1>3, <1>4, <1>5, RecurringTasks DEF RowsInv, Successors, GoesOn

\* A recurring task that is done is followed by its next occurrence.
LEMMA NextRowKeeps ==
    ASSUME TypeOK, RowsInv, NEW i \in DOMAIN rows, rows[i].kind = "series",
           rows' = Append([rows EXCEPT ![i] = [rows[i] EXCEPT !.status = "done", !.times = @ + 1]],
                          NewRow(rows[i].home, "series", rows[i].series, i))
    PROVE  RowsInv'
<1>1. PICK n : n = Len(rows) + 1
  OBVIOUS
<1>2. rows[i] \in Row /\ rows \in Seq(Row) /\ i \in Nat
  BY RowType DEF TypeOK
<1>3. PICK e : e = [rows[i] EXCEPT !.status = "done", !.times = @ + 1]
  OBVIOUS
<1>4. PICK done : done = [rows EXCEPT ![i] = e]
  OBVIOUS
<1>5. /\ e.from = rows[i].from /\ e.series = rows[i].series /\ e.kind = rows[i].kind
      /\ e.times = rows[i].times + 1
  BY <1>2, <1>3 DEF Row
<1>6. /\ done \in Seq(Row \cup {e}) /\ Len(done) = Len(rows) /\ DOMAIN done = DOMAIN rows
      /\ done[i] = e /\ \A j \in DOMAIN rows \ {i} : done[j] = rows[j]
  <2>1. rows \in Seq(Row \cup {e})
    BY <1>2, SeqDef
  <2> QED BY <1>4, <2>1, ExceptSeq, LenProperties
<1>7. PICK new : new = NewRow(rows[i].home, "series", rows[i].series, i)
  OBVIOUS
<1>8. /\ DOMAIN rows' = DOMAIN rows \cup {n} /\ n \notin DOMAIN rows /\ n # 0
      /\ rows'[n] = new /\ rows'[i] = e /\ \A j \in DOMAIN rows \ {i} : rows'[j] = rows[j]
  <2>1. done \in Seq(Row \cup {e, new})
    BY <1>6, SeqDef
  <2>2. rows' = Append(done, new)
    BY <1>3, <1>4, <1>7
  <2> QED BY <1>1, <1>6, <2>1, <2>2, InsertedRow
<1>9. /\ new.kind = "series" /\ new.status = "open" /\ new.series = rows[i].series
      /\ new.from = i /\ new.times = 0
  BY <1>7 DEF NewRow
<1>10. \A j \in DOMAIN rows : /\ rows'[j].from = rows[j].from /\ rows'[j].series = rows[j].series
                              /\ rows'[j].kind = rows[j].kind
                              /\ j # i => rows'[j].status = rows[j].status /\ rows'[j].times = rows[j].times
  BY <1>5, <1>8
<1>11. /\ \A j \in DOMAIN rows' : /\ rows'[j].from \in {0} \cup DOMAIN rows'
                                  /\ rows'[j].series \in DOMAIN rows'
      /\ \A j, k \in DOMAIN rows' : rows'[j].series = rows'[k].series => rows'[j].kind = rows'[k].kind
  BY <1>8, <1>9, <1>10 DEF RowsInv
<1>12. ASSUME NEW k \in DOMAIN rows', rows'[k].kind = "series"
       PROVE  \E j \in DOMAIN rows' : rows'[j].series = rows'[k].series /\ rows'[j].status = "open"
  <2>1. CASE rows'[k].series = rows[i].series
    BY <1>8, <1>9, <2>1
  <2>2. CASE rows'[k].series # rows[i].series
    <3>1. k \in DOMAIN rows
      BY <1>8, <1>9, <2>2
    <3>2. PICK j \in DOMAIN rows : rows[j].series = rows[k].series /\ rows[j].status = "open"
      BY <1>10, <1>12, <3>1, RecurringTasks DEF RowsInv, GoesOn
    <3>3. j # i
      BY <1>10, <2>2, <3>1, <3>2
    <3> QED BY <1>8, <1>10, <3>1, <3>2, <3>3
  <2> QED BY <2>1, <2>2
<1>13. ASSUME NEW k \in DOMAIN rows'
       PROVE  Cardinality(From(rows', k)) = IF rows'[k].kind = "series" THEN rows'[k].times ELSE 0
  <2>1. CASE k = n
    <3>1. From(rows', n) = {}
      BY <1>8, <1>9, <1>10 DEF From, RowsInv
    <3> QED BY <1>8, <1>9, <2>1, <3>1, FS_EmptySet
  <2>2. CASE k = i
    <3>1. From(rows', i) = From(rows, i) \cup {n} /\ n \notin From(rows, i)
      BY <1>8, <1>9, <1>10 DEF From
    <3>2. IsFiniteSet(From(rows, i))
      BY <1>2, FromIsFinite
    <3>3. Cardinality(From(rows', i)) = Cardinality(From(rows, i)) + 1
      BY <3>1, <3>2, FS_AddElement
    <3>4. Cardinality(From(rows, i)) = rows[i].times
      BY RecurringTasks DEF RowsInv, Successors
    <3> QED BY <1>5, <1>8, <2>2, <3>3, <3>4
  <2>3. CASE k \in DOMAIN rows \ {i}
    <3>1. From(rows', k) = From(rows, k)
      BY <1>8, <1>9, <1>10, <2>3 DEF From
    <3> QED BY <1>10, <2>3, <3>1, RecurringTasks DEF RowsInv, Successors
  <2> QED BY <1>8, <2>1, <2>2, <2>3
<1> QED BY <1>11, <1>12, <1>13, RecurringTasks DEF RowsInv, Successors, GoesOn

LEMMA FinishRows ==
    ASSUME TypeOK, RowsInv, NEW r \in Requests, Finish(r) PROVE RowsInv'
<1>1. CASE CompleteUpdate(r) \/ CompleteNext(r)
  BY <1>1, RowsKept DEF CompleteUpdate, CompleteNext
<1>2. CASE CompleteCommit(r)
  <2>1. req[r].row \in DOMAIN rows
    BY <1>2, RequestType DEF CompleteCommit, At
  <2>2. PICK i \in DOMAIN rows : i = req[r].row
    BY <2>1
  <2>3. rows' = IF rows[i].kind = "series"
                THEN Append([rows EXCEPT ![i] = [rows[i] EXCEPT !.status = "done", !.times = @ + 1]],
                            NewRow(rows[i].home, "series", rows[i].series, i))
                ELSE [rows EXCEPT ![i] = [rows[i] EXCEPT !.status = "done", !.times = @ + 1]]
    BY <1>2, <2>2, RowType DEF CompleteCommit, TypeOK
  <2> QED BY <2>3, DoneRowKeeps, NextRowKeeps
<1> QED BY <1>1, <1>2 DEF Finish

LEMMA SeedRows ==
    ASSUME TypeOK, RowsInv, NEW r \in Requests, Seed(r) PROVE RowsInv'
<1>1. CASE UNCHANGED rows
  BY <1>1, RowsKept
<1>2. CASE DemoTasks(r) \/ DemoWarranties(r)
  <2>1. req[r].home \in DOMAIN homes
    BY <1>2, RequestType DEF DemoTasks, DemoWarranties, At
  <2> QED BY <1>2, <2>1, AddedRowKeeps DEF DemoTasks, DemoWarranties, Kinds
<1> QED BY <1>1, <1>2 DEF Seed, DemoProperty, DemoPeriod, DemoDocuments

-----------------------------------------------------------------------------
(* The invariant *)

\* Who owns and reads the homes there are stays as it is, but for homes of nobody.
AccessKept ==
    \A h \in DOMAIN homes : /\ homes'[h].owner = homes[h].owner \/ homes[h].owner = Nobody
                            /\ homes'[h].readers = homes[h].readers

LEMMA AlikeKeepsAll ==
    ASSUME TypeOK, NumbersInv, PeopleInv, HomesAlike, RequestsAlike, NoNewCommit, UNCHANGED holders
    PROVE  NumbersInv' /\ PeopleInv' /\ AccessKept
<1>1. NumbersInv'
  BY NumbersKept DEF HomesAlike, HomeAlike
<1>2. PeopleInv'
  BY PeopleKept
<1> QED BY <1>1, <1>2 DEF AccessKept, HomesAlike, HomeAlike

LEMMA OnboardKeeps ==
    ASSUME HomesInv, NEW r \in Requests, Onboard(r)
    PROVE  NumbersInv' /\ PeopleInv' /\ RowsInv' /\ AccessKept
<1>1. TypeOK /\ NumbersInv /\ PeopleInv /\ RowsInv
  BY DEF HomesInv
<1>2. RowsInv'
  BY <1>1, RowsKept DEF Onboard, CreateFind, CreateInsert, CreateCommit
<1>3. CASE CreateFind(r)
  BY <1>1, <1>2, <1>3, CreateFindAlike, AlikeKeepsAll
<1>4. CASE CreateInsert(r)
  <2>1. UNCHANGED <<homes, holders>> /\ req[r].op = "create"
    BY <1>4 DEF CreateInsert, At
  <2>2. RequestsAlike
    BY <1>1, <1>4, <2>1, EndedAlike, MovedOnAlike DEF CreateInsert
  <2>3. HomesAlike /\ AccessKept
    BY <2>1 DEF HomesAlike, HomeAlike, AccessKept
  <2> QED BY <1>1, <1>2, <1>4, <2>1, <2>2, <2>3, PeopleKept, CreateInsertNumbers
<1>5. CASE CreateCommit(r)
  <2>1. AccessKept
    <3>1. PICK e : homes' = Append(homes, e)
      BY <1>5 DEF CreateCommit
    <3>2. homes \in Seq(Home \cup {e})
      BY <1>1, SeqDef DEF TypeOK
    <3> QED BY <3>1, <3>2, InsertedRow DEF AccessKept
  <2> QED BY <1>1, <1>2, <1>5, <2>1, CreateCommitNumbers, CreateCommitPeople
<1> QED BY <1>3, <1>4, <1>5 DEF Onboard

LEMMA SeedKeeps ==
    ASSUME HomesInv, NEW r \in Requests, Seed(r)
    PROVE  NumbersInv' /\ PeopleInv' /\ RowsInv' /\ AccessKept
<1>1. TypeOK /\ NumbersInv /\ PeopleInv /\ RowsInv
  BY DEF HomesInv
<1>2. RowsInv'
  BY <1>1, SeedRows
<1>3. CASE DemoProperty(r)
  <2>1. AccessKept
    <3>1. PICK e : homes' = Append(homes, e)
      BY <1>3 DEF DemoProperty
    <3>2. homes \in Seq(Home \cup {e})
      BY <1>1, SeqDef DEF TypeOK
    <3> QED BY <3>1, <3>2, InsertedRow DEF AccessKept
  <2> QED BY <1>1, <1>2, <1>3, <2>1, DemoPropertyNumbers, DemoPropertyPeople
<1>4. CASE DemoPeriod(r) \/ DemoDocuments(r) \/ DemoTasks(r) \/ DemoWarranties(r)
  <2>1. PICK h, p : h = req[r].home /\ p = req[r].person
    OBVIOUS
  <2>2. /\ DOMAIN homes' = DOMAIN homes /\ homes'[h].number = homes[h].number
        /\ \A g \in DOMAIN homes \ {h} : homes'[g] = homes[g]
        /\ homes'[h].readers = homes[h].readers /\ homes'[h].owner = p
        /\ homes[h].owner \in {Nobody, p}
        /\ \A s \in Requests \ {r} : req'[s] = req[s]
        /\ req[r].op = "demo"
    BY <1>1, <1>4, <2>1, SessionSteps
  <2>3. req'[r].op # "create"
    <3>1. req[r] # Idle /\ (Done(r) \/ \E at : GoTo(r, at))
      BY <1>4, <2>2 DEF DemoPeriod, DemoDocuments, DemoTasks, DemoWarranties, Idle
    <3>2. CASE Done(r)
      BY <1>1, <3>2, Ended DEF Idle
    <3>3. ASSUME NEW at, GoTo(r, at) PROVE req'[r].op # "create"
      BY <1>1, <2>2, <3>1, <3>3, MovedOn
    <3> QED BY <3>1, <3>2, <3>3
  <2>4. NoNewCommit
    BY <2>2, <2>3 DEF NoNewCommit, At
  <2>5. NumbersInv'
    BY <1>1, <2>2, <2>4, NumbersKept
  <2> QED BY <1>1, <1>2, <1>4, <2>2, <2>5, SessionPeople DEF AccessKept
<1> QED BY <1>3, <1>4 DEF Seed

LEMMA BeginsKeeps ==
    ASSUME HomesInv, NEW r \in Requests, NEW p \in People, Begins(r, p)
    PROVE  NumbersInv' /\ PeopleInv' /\ RowsInv' /\ AccessKept
<1>1. TypeOK /\ NumbersInv /\ PeopleInv /\ RowsInv
  BY DEF HomesInv
<1>2. UNCHANGED <<homes, rows, holders>> /\ RowsInv'
  BY <1>1, RowsKept DEF Begins, Create, Demo, Refresh, Delete, Complete, Begin
<1>3. ASSUME NEW q, Begin(r, q), q.op # "demo",
             q.op \in {"create", "refresh"} => q.person \in holders,
             ~(q.op = "create" /\ q.at = "commit")
      PROVE  NumbersInv' /\ PeopleInv' /\ AccessKept
  BY <1>1, <1>3, BegunAlike, AlikeKeepsAll
<1>4. ASSUME NEW a \in Addresses, Create(r, p, a) PROVE NumbersInv' /\ PeopleInv' /\ AccessKept
  <2>1. PICK data, q : /\ q = [op |-> "create", at |-> "find", person |-> p, address |-> a,
                               data |-> data]
                       /\ Begin(r, q) /\ p \in holders
    BY <1>4 DEF Create
  <2>2. q.op = "create" /\ q.at = "find" /\ q.person = p
    BY <2>1
  <2> QED BY <1>3, <2>1, <2>2
<1>5. ASSUME NEW a \in Addresses, Demo(r, p, a) PROVE NumbersInv' /\ PeopleInv' /\ AccessKept
  <2>1. PICK q : /\ q = [op |-> "demo", at |-> "property", person |-> p, address |-> a]
                 /\ Begin(r, q)
    BY <1>5 DEF Demo
  <2>2. req'[r].op = "demo" /\ \A s \in Requests : s # r => req'[s] = req[s]
    BY <1>1, <2>1 DEF Begin, TypeOK
  <2>3. NoNewCommit /\ AccessKept
    BY <1>2, <2>2 DEF NoNewCommit, At, AccessKept
  <2> QED BY <1>1, <1>2, <1>5, <2>3, DemoPeople, NumbersKept
<1>6. ASSUME NEW h \in DOMAIN homes, Refresh(r, p, h) \/ Delete(r, p, h)
      PROVE  NumbersInv' /\ PeopleInv' /\ AccessKept
  <2>1. PICK q : /\ \/ q = [op |-> "refresh", at |-> "read", person |-> p, home |-> h]
                    \/ q = [op |-> "delete", at |-> "home", person |-> p, home |-> h]
                 /\ Begin(r, q) /\ p \in holders
    BY <1>6 DEF Refresh, Delete
  <2>2. q.op \in {"refresh", "delete"} /\ q.person = p
    BY <2>1
  <2> QED BY <1>3, <2>1, <2>2
<1>7. ASSUME NEW i \in DOMAIN rows, Complete(r, p, i) PROVE NumbersInv' /\ PeopleInv' /\ AccessKept
  <2>1. PICK q : /\ q = [op |-> "complete", at |-> "update", person |-> p, row |-> i]
                 /\ Begin(r, q)
    BY <1>7 DEF Complete
  <2> QED BY <1>3, <2>1
<1> QED BY <1>2, <1>4, <1>5, <1>6, <1>7 DEF Begins

LEMMA OwnersKeep ==
    ASSUME HomesInv, NEW h \in DOMAIN homes, NEW p \in People, Handed(h, p) \/ Tended(h, p)
    PROVE  NumbersInv' /\ PeopleInv' /\ RowsInv'
<1>1. TypeOK /\ NumbersInv /\ PeopleInv /\ RowsInv
  BY DEF HomesInv
<1>2. CASE Handed(h, p)
  <2>1. PICK o \in People, R \in SUBSET People :
          /\ homes' = [homes EXCEPT ![h] = [homes[h] EXCEPT !.owner = o, !.readers = R]]
          /\ UNCHANGED <<rows, holders, req>>
    BY <1>1, <1>2, HandedHome
  <2>2. DOMAIN homes' = DOMAIN homes /\ \A g \in DOMAIN homes : homes'[g].number = homes[g].number
    <3>1. homes[h] \in Home
      BY <1>1, HomeKept
    <3> QED BY <2>1, <3>1 DEF Home
  <2>3. NoNewCommit
    BY <2>1 DEF NoNewCommit
  <2> QED BY <1>1, <1>2, <2>1, <2>2, <2>3, NumbersKept, HandedPeople, RowsKept
<1>3. CASE Tended(h, p)
  <2>1. PICK kind \in Kinds : rows' = AddRow(rows, h, kind) /\ UNCHANGED <<homes, holders, req>>
    BY <1>3 DEF Tended, CreateRow
  <2>2. HomesAlike /\ RequestsAlike /\ NoNewCommit
    BY <1>1, <2>1 DEF HomesAlike, HomeAlike, RequestsAlike, NoNewCommit, PeopleInv
  <2> QED BY <1>1, <2>1, <2>2, AddedRowKeeps, AlikeKeepsAll
<1> QED BY <1>2, <1>3

\* Requests that read, write of their own or end, as one case.
LEMMA OthersKeep ==
    ASSUME HomesInv, NEW r \in Requests, Renew(r) \/ Finish(r) \/ DeleteHome(r) \/ Fail(r)
    PROVE  NumbersInv' /\ PeopleInv' /\ RowsInv' /\ AccessKept
<1>1. TypeOK /\ NumbersInv /\ PeopleInv /\ RowsInv
  BY DEF HomesInv
<1>2. RowsInv'
  <2>1. ASSUME ~Finish(r) PROVE UNCHANGED rows
    BY <2>1 DEF Renew, RefreshRead, RefreshWrite, DeleteHome, Fail
  <2> QED BY <1>1, <2>1, FinishRows, RowsKept
<1>3. HomesAlike /\ RequestsAlike /\ NoNewCommit /\ UNCHANGED holders
  <2>1. CASE DeleteHome(r) \/ Fail(r)
    BY <1>1, <2>1, EndedAlike DEF DeleteHome, Fail, HomesAlike, HomeAlike
  <2> QED BY <1>1, <2>1, RenewAlike, FinishAlike
<1> QED BY <1>1, <1>2, <1>3, AlikeKeepsAll

LEMMA InitHomesInv == Init => HomesInv
<1> SUFFICES ASSUME Init PROVE HomesInv
  OBVIOUS
<1>1. DOMAIN homes = {} /\ DOMAIN rows = {}
  BY DEF Init
<1>2. \A r \in Requests : req[r].op = "none"
  BY DEF Init, Idle
<1>3. NumbersInv
  BY <1>1, <1>2 DEF NumbersInv, OneHomePerNumber, At
<1>4. PeopleInv
  BY <1>1, <1>2 DEF PeopleInv, HomesAreSound, SessionIsPrivate
<1>5. RowsInv
  BY <1>1 DEF RowsInv, RecurringTasksGoOn
<1> QED BY <1>3, <1>4, <1>5, InitTypes DEF HomesInv

LEMMA NextHomesInv == HomesInv /\ [Next]_vars => HomesInv'
<1> SUFFICES ASSUME HomesInv, [Next]_vars PROVE HomesInv'
  OBVIOUS
<1>1. TypeOK'
  BY NextTypes DEF HomesInv
<1>2. CASE UNCHANGED vars
  <2>1. TypeOK /\ NumbersInv /\ PeopleInv /\ RowsInv /\ UNCHANGED <<homes, rows, holders, req>>
    BY <1>2 DEF vars, HomesInv
  <2>2. HomesAlike /\ RequestsAlike /\ NoNewCommit
    BY <2>1 DEF HomesAlike, HomeAlike, RequestsAlike, NoNewCommit, PeopleInv
  <2> QED BY <1>1, <2>1, <2>2, AlikeKeepsAll, RowsKept DEF HomesInv
<1>3. CASE Next
  <2>1. NumbersInv' /\ PeopleInv' /\ RowsInv'
    BY <1>3, Steps, OnboardKeeps, SeedKeeps, BeginsKeeps, OwnersKeep, OthersKeep
  <2> QED BY <1>1, <2>1 DEF HomesInv
<1> QED BY <1>2, <1>3

LEMMA HomesInductive == Spec => []HomesInv
  BY InitHomesInv, NextHomesInv, PTL DEF Spec

-----------------------------------------------------------------------------
(* Theorems *)

\* Homes, rows, holders and requests keep their types: requests only ever refer to homes
\* and rows that are there.
THEOREM TypeCorrect == Spec => []TypeOK
<1>1. HomesInv => TypeOK
  BY DEF HomesInv
<1> QED BY <1>1, HomesInductive, PTL

\* However many people onboard an address or start demo sessions at once, a number is given
\* to one home (properties.service.ts:140-181, demo.service.ts:24-32).
THEOREM NumbersAreUnique == Spec => []OneHomePerNumber
<1>1. HomesInv => OneHomePerNumber
  BY DEF HomesInv, NumbersInv
<1> QED BY <1>1, HomesInductive, PTL

\* Whoever can call finds demo homes complete, though a session is six statements that may
\* stop after any of them, and nobody comes to own or read what a broken session left
\* (demo.service.ts:20-67).
THEOREM NobodySeesHalfADemo == Spec => []DemosAreWholeOrUnseen
<1>1. HomesInv => DemosAreWholeOrUnseen
  BY DEF HomesInv, PeopleInv, HomesAreSound, DemosAreWholeOrUnseen
<1> QED BY <1>1, HomesInductive, PTL

\* A recurring task never runs out, and as many occurrences came of it as completions of
\* it were committed, though two requests complete it at once (maintenance.service.ts:41-64).
THEOREM SeriesGoOn == Spec => []RecurringTasksGoOn
<1>1. HomesInv => RecurringTasksGoOn
  BY DEF HomesInv, RowsInv
<1> QED BY <1>1, HomesInductive, PTL

\* Only a sale takes a home from its owner, and only a sale or a revocation ends a reader's
\* access (properties.service.ts:142-151, :187-206).
THEOREM NothingElseTakesAway == Spec => OnlySalesTakeAway
<1>1. HomesInv /\ [Next]_vars =>
         [\A h \in DOMAIN homes :
             /\ homes'[h].owner # homes[h].owner =>
                   homes[h].owner = Nobody \/ \E p \in People : Sell(h, p)
             /\ \A p \in homes[h].readers \ homes'[h].readers :
                   Revoke(h, p) \/ \E q \in People : Sell(h, q)]_vars
  <2>1. SUFFICES ASSUME HomesInv, Next, NEW h \in DOMAIN homes
                 PROVE  /\ homes'[h].owner # homes[h].owner =>
                              homes[h].owner = Nobody \/ \E p \in People : Sell(h, p)
                        /\ \A p \in homes[h].readers \ homes'[h].readers :
                              Revoke(h, p) \/ \E q \in People : Sell(h, q)
    OBVIOUS
  <2>2. CASE AccessKept
    BY <2>2 DEF AccessKept
  <2>3. ASSUME NEW g \in DOMAIN homes, NEW q \in People, Handed(g, q), ~AccessKept
        PROVE  /\ homes'[h].owner # homes[h].owner => \E p \in People : Sell(h, p)
               /\ \A p \in homes[h].readers \ homes'[h].readers :
                     Revoke(h, p) \/ \E s \in People : Sell(h, s)
    <3>1. homes \in Seq(Home) /\ homes[h] \in Home /\ homes[g] \in Home
      <4>1. TypeOK
        BY <2>1 DEF HomesInv
      <4>2. homes \in Seq(Home)
        BY <4>1 DEF TypeOK
      <4> QED BY <4>1, <4>2, HomeKept
    <3>2. CASE Sell(g, q)
      <4>1. g # h => homes'[h] = homes[h]
        BY <3>1, <3>2 DEF Sell
      <4> QED BY <3>2, <4>1
    <3>3. CASE Share(g, q)
      <4>1. homes'[h].owner = homes[h].owner /\ homes[h].readers \subseteq homes'[h].readers
        BY <3>1, <3>3 DEF Share, Home
      <4> QED BY <4>1
    <3>4. CASE Revoke(g, q)
      <4>1. /\ homes'[h].owner = homes[h].owner
            /\ homes[h].readers \ homes'[h].readers \subseteq (IF g = h THEN {q} ELSE {})
        BY <3>1, <3>4 DEF Revoke, Home
      <4> QED BY <3>4, <4>1
    <3> QED BY <2>3, <3>2, <3>3, <3>4 DEF Handed
  <2>4. ASSUME NEW g \in DOMAIN homes, NEW q \in People, Tended(g, q) PROVE AccessKept
    BY <2>4 DEF Tended, CreateRow, AccessKept
  <2> QED BY <2>1, <2>2, <2>3, <2>4, Steps, OnboardKeeps, SeedKeeps, BeginsKeeps, OthersKeep
<1> QED BY <1>1, HomesInductive, PTL DEF Spec, OnlySalesTakeAway

=============================================================================
