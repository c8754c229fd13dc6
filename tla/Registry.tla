------------------------------ MODULE Registry ------------------------------
(***************************************************************************)
(* What the public registers say of an address and of a home's owners:     *)
(* DatafordelerBbrAdapter with DawaAddressService, DarBfeResolver and      *)
(* DatafordelerClient, the Ejerfortegnelse, and matchesRegisteredOwner.    *)
(*                                                                         *)
(* The services outside answer in their own ways: svc is the record of all *)
(* their answers to one lookup.  Down stands for a failing call (no        *)
(* connection, a status that is not 2xx, no JSON), Null for JSON null and  *)
(* JavaScript undefined.  Numbers and addresses are abstract; what matters *)
(* of them is when two are the same.  Of an address, and of the id of one, *)
(* the head is told apart: the first characters, which is all that a       *)
(* made-up number keeps of it.                                             *)
(*                                                                         *)
(* A definition whose name ends in _ and a capital is a mutant of the one  *)
(* that follows it.                                                        *)
(***************************************************************************)
EXTENDS Naturals, Sequences, SequencesExt, Outside

-----------------------------------------------------------------------------
(* Lists of rows: functions on positions, which keep their order *)

FirstGiven(xs) ==
    LET given == {i \in DOMAIN xs : Given(xs[i])} IN IF given = {} THEN Null ELSE xs[Min(given)]

\* queryList: rows are a JSON array, the features of a collection, or one object;
\* nulls in an array are skipped, a null feature throws as a failing call does.
queryList(answer) ==
    CASE answer = Down -> Down
      [] answer # Down /\ answer.kind = "array" ->
            Restrict(answer.rows, {i \in DOMAIN answer.rows : Given(answer.rows[i])})
      [] answer # Down /\ answer.kind = "features" ->
            IF \A i \in DOMAIN answer.rows : Given(answer.rows[i]) THEN answer.rows ELSE Down
      [] answer # Down /\ answer.kind = "object" -> answer.rows
      [] OTHER -> <<>>

\* The query for rows in use (status 6), and the same without status if it has none.
InUseOrAny(inUse, any) ==
    IF queryList(inUse) = <<>> THEN queryList(any) ELSE queryList(inUse)

-----------------------------------------------------------------------------
(* The address *)

\* autocomplete: suggestions without an id are dropped, a short text has none.
autocomplete(svc) ==
    IF ~svc.longEnough THEN <<>>
    ELSE IF svc.suggestions = Down THEN Down ELSE SelectSeq(svc.suggestions, Given)

\* findBfe: the first entry, in the order of the answer, that is named like a number
\* and is one; the rest of the tree does not matter.
findBfe(entries) ==
    LET hits == {i \in DOMAIN entries : entries[i].named /\ entries[i].numeric}
    IN  IF hits = {} THEN Null ELSE entries[Min(hits)].value

husnummerToBfe(svc) == IF svc.dar = Down THEN Down ELSE findBfe(svc.dar)

-----------------------------------------------------------------------------
(* The building *)

\* grundUuidByBfe: the first row with an id, which may be none of them.
grundUuidByBfe(svc) ==
    LET rows == InUseOrAny(svc.grundInUse, svc.grundAny)
    IN  IF rows = Down THEN Down ELSE FirstGiven([i \in DOMAIN rows |-> rows[i].id])

Area(b) == IF Given(b.area) THEN b.area ELSE 0

\* The first of the largest with a year of construction, or of all if none has one.
pickMainBuilding(buildings) ==
    LET dated == {i \in DOMAIN buildings : Given(buildings[i].year)}
        pool  == IF dated = {} THEN DOMAIN buildings ELSE dated
        area(i) == Area(buildings[i])
    IN  IF pool = {} THEN Null
        ELSE buildings[CHOOSE i \in pool : \A j \in pool :
                           area(j) <= area(i) /\ (j < i => area(j) < area(i))]

Nothing == [bfe |-> Null, building |-> Null, note |-> "not connected"]

\* fetchBbr: the chain number -> ground -> buildings; a failure leaves a note and the
\* chain goes on as far as it can, a building on foreign ground has no ground.
fetchBbr_Silent(svc) ==
    LET bfe  == IF husnummerToBfe(svc) = Down THEN Null ELSE husnummerToBfe(svc)
        byGround == InUseOrAny(svc.bygInUse, svc.bygAny)
        found == IF bfe = Null \/ byGround = Down THEN <<>> ELSE byGround
        b    == pickMainBuilding(found)
    IN  [bfe |-> bfe, building |-> b, note |-> IF Given(b) THEN "OK" ELSE "no building"]

fetchBbr(svc) ==
    LET number  == husnummerToBfe(svc)
        bfe     == IF number = Down THEN Null ELSE number
        ground  == IF Given(bfe) THEN grundUuidByBfe(svc) ELSE Null
        answer  == CASE bfe = Null \/ ground = Down -> <<>>
                     [] ground # Down /\ Given(ground) -> InUseOrAny(svc.bygInUse, svc.bygAny)
                     [] OTHER -> InUseOrAny(svc.foreignInUse, svc.foreignAny)
        found   == IF answer = Down THEN <<>> ELSE answer
        b       == pickMainBuilding(found)
        note    == CASE number = Down -> "DAR failed"
                     [] number = Null -> "no number"
                     [] ground = Down -> "grund failed"
                     [] answer = Down -> "bygning failed"
                     [] OTHER -> "no building"
    IN  [bfe |-> bfe, building |-> b, note |-> IF Given(b) THEN "OK" ELSE note]

-----------------------------------------------------------------------------
(* The lookup *)

FictitiousYear == 1974

\* The data of a home that could not be looked up.
stub(address) ==
    [number |-> <<"BFE-", address.head>>, year |-> FictitiousYear, source |-> "stub",
     note |-> Null, fetched |-> FALSE]

lookupByAddress(address, svc) ==
    LET sug == autocomplete(svc)
    IN  IF sug = Down \/ sug = <<>> \/ svc.resolve = Down THEN stub(address)
        ELSE LET bbr == IF svc.configured THEN fetchBbr(svc) ELSE Nothing
             IN  [number  |-> IF Given(bbr.bfe) THEN <<"BFE", bbr.bfe>>
                              ELSE <<"DAWA-", Head(sug).head>>,
                  year    |-> IF Given(bbr.building) THEN bbr.building.year ELSE Null,
                  source  |-> IF svc.configured THEN "datafordeler+dawa" ELSE "dawa",
                  note    |-> bbr.note,
                  fetched |-> Given(bbr.building)
                              /\ (Given(bbr.building.year) \/ Given(bbr.building.use)
                                  \/ Given(bbr.building.area))]

-----------------------------------------------------------------------------
(* Owners *)

\* lookupOwner: every number of a person or company that the register names; a made-up
\* owner without access to it; nobody when it fails.
lookupOwner(number, svc) ==
    IF ~svc.configured THEN {<<"owner-of-", number>>}
    ELSE IF svc.owners = Down THEN {}
    ELSE (UNION {{svc.owners[i].cpr, svc.owners[i].cvr} : i \in DOMAIN svc.owners}) \ {Null}

\* An empty register lets everybody pass.
matchesRegisteredOwner_Empty(identity, owners) == owners = {} \/ identity \in owners

matchesRegisteredOwner(identity, owners) == identity \in owners

-----------------------------------------------------------------------------
(* The person behind a MitID session *)

\* OidcMitIdBroker.exchangeCode: claims of a token that cannot be decoded are Null, a
\* nonce is compared only if there is one, and a level that names neither high nor low
\* counts as substantial.
exchangeCode(tok, pend) ==
    IF \/ tok = Down \/ tok = Null
       \/ (Given(tok.nonce) /\ tok.nonce # pend.nonce)
    THEN Down
    ELSE [id |-> FirstGiven(<<tok.cpr, tok.dkCpr, tok.sub>>),
          level |-> IF tok.acr \in {"high", "low"} THEN tok.acr ELSE "substantial"]

\* handleCallback up to its writes; the simulated broker vouches for everybody.
handleCallback(broker, tok, pend, number, svc) ==
    LET identity == IF broker THEN exchangeCode(tok, pend)
                    ELSE [id |-> <<"sim:", "verified">>, level |-> "high"]
    IN  /\ pend # Null
        /\ identity # Down
        /\ identity.level # "low"
        /\ broker => matchesRegisteredOwner(identity.id, lookupOwner(number, svc))
=============================================================================
