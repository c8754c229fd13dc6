--------------------------- MODULE CalculationsProofs ---------------------------
(***************************************************************************)
(* Theorems about Calculations, checked by TLAPS: for every answer of the  *)
(* services outside, every text and document of any length, every home and *)
(* every date, of which the runs take a few.                               *)
(***************************************************************************)
EXTENDS Calculations, TLAPS, SequenceTheorems, FiniteSetTheorems, WellFoundedInduction,
        NaturalsInduction

-----------------------------------------------------------------------------
(* Induction *)

\* NaturalsInduction states induction for an operator; for a set of numbers it follows
\* from the order being well-founded.
LEMMA LeastNumber ==
    ASSUME NEW I \in SUBSET Nat, I # {}
    PROVE  \E i \in I : \A j \in I : i <= j
<1>1. PICK R : R = OpToRel(<, Nat)
  OBVIOUS
<1>2. IsWellFoundedOn(R, Nat)
  BY <1>1, NatLessThanWellFounded, Zenon
<1>3. R = {ss \in Nat \X Nat : ss[1] < ss[2]}
  BY <1>1, Zenon DEF OpToRel
<1>4. \A x, y \in Nat : x < y => <<x, y>> \in R
  BY <1>3
<1>5. PICK i \in I : \A j \in I : ~(<<j, i>> \in R)
  BY <1>2, WFMin
<1>6. \A j \in I : ~(j < i)
  BY <1>4, <1>5
<1> QED BY <1>6

LEMMA SetInduction ==
    ASSUME NEW S \in SUBSET Nat, 0 \in S, \A n \in S : n + 1 \in S
    PROVE  S = Nat
<1>1. SUFFICES ASSUME Nat \ S # {} PROVE FALSE
  OBVIOUS
<1>2. PICK m \in Nat \ S : \A j \in Nat \ S : m <= j
  BY <1>1, LeastNumber
<1>3. m # 0 /\ m - 1 \in Nat
  BY <1>2
<1>4. m - 1 \in S
  BY <1>2, <1>3
<1> QED BY <1>2, <1>4

LEMMA FirstPosition ==
    ASSUME NEW I \in SUBSET Nat, I # {}
    PROVE  Min(I) \in I /\ \A i \in I : Min(I) <= i
  BY LeastNumber DEF Min

-----------------------------------------------------------------------------
(* The inductive invariant: an answer is the program's to the question *)

LookupInv ==
    question.ask = "lookup" =>
        /\ question.svc \in Services
        /\ answer \in {Null, lookupByAddress(question.address, question.svc)}

VerifyInv ==
    question.ask = "verify" =>
        answer \in {Null, handleCallback(question.broker, question.tok, question.pend,
                                         "number", question.svc)}

ReadInv ==
    question.ask = "read" =>
        /\ answer \in {Null, extractFromContent(question.content)}
        /\ question.string \in Strings /\ Writable(question.string)
        /\ question.content = Content(question.string)

ExtractInv ==
    question.ask = "extract" =>
        question.pdf \in Pdfs /\ answer \in {Null, extractPdfText(question.pdf)}

IndexInv ==
    question.ask = "index" =>
        /\ question.file \in Files /\ question.ai \in Models
        /\ answer \in {Null, index(question.file, question.ai)}

AskInv ==
    question.ask = "ask" =>
        \/ answer = Null
        \/ \E hits : answer = [hits |-> hits, reply |-> ask(hits, question.ai)]

OverviewInv ==
    question.ask = "overview" =>
        question.home \in HomeRows /\ answer \in {Null, overview(question.home)}

CompleteInv ==
    question.ask = "complete" =>
        /\ question.date \in Dates /\ question.interval \in Intervals
        /\ answer \in {Null, NextDue(question.date, question.interval)}

HealthInv ==
    question.ask = "health" => answer \in {Null, check(question.db, question.redis)}

AnswersInv ==
    /\ LookupInv /\ VerifyInv /\ ReadInv /\ ExtractInv /\ IndexInv
    /\ AskInv /\ OverviewInv /\ CompleteInv /\ HealthInv

LEMMA InitAnswers == Init => AnswersInv
<1> SUFFICES ASSUME Init PROVE AnswersInv
  OBVIOUS
<1>1. answer = Null
  BY DEF Init
<1>2. question.ask = "lookup" => question.svc \in Services
  BY DEF Init
<1>3. question.ask = "read" =>
        /\ question.string \in Strings /\ Writable(question.string)
        /\ question.content = Content(question.string)
  BY DEF Init
<1>4. question.ask = "extract" => question.pdf \in Pdfs
  BY DEF Init
<1>5. question.ask = "index" => question.file \in Files /\ question.ai \in Models
  BY DEF Init
<1>6. question.ask = "overview" => question.home \in HomeRows
  BY DEF Init
<1>7. question.ask = "complete" => question.date \in Dates /\ question.interval \in Intervals
  BY DEF Init
<1> QED BY <1>1, <1>2, <1>3, <1>4, <1>5, <1>6, <1>7
        DEF AnswersInv, LookupInv, VerifyInv, ReadInv, ExtractInv, IndexInv, AskInv,
            OverviewInv, CompleteInv, HealthInv

\* A question is answered once, and stays.
LEMMA NextAnswers == AnswersInv /\ [Next]_vars => AnswersInv'
<1> SUFFICES ASSUME AnswersInv, [Next]_vars PROVE AnswersInv'
  OBVIOUS
<1> USE DEF LookupInv, VerifyInv, ReadInv, ExtractInv, IndexInv, AskInv, OverviewInv,
            CompleteInv, HealthInv
<1>1. CASE UNCHANGED vars
  BY <1>1 DEF AnswersInv, vars
<1>2. CASE Next
  <2> USE <1>2 DEF Next, Lookup, Verify, ReadString, Extract, Index, Ask, Oversee, Complete,
                  Health, Answer
  <2>1. UNCHANGED question
    OBVIOUS
  <2>2. LookupInv'
    <3>1. question.ask = "lookup" => answer' = lookupByAddress(question.address, question.svc)
      OBVIOUS
    <3> QED BY ONLY <2>1, <3>1, AnswersInv DEF AnswersInv
  <2>3. VerifyInv'
    <3>1. question.ask = "verify" =>
            answer' = handleCallback(question.broker, question.tok, question.pend,
                                     "number", question.svc)
      OBVIOUS
    <3> QED BY ONLY <2>1, <3>1, AnswersInv DEF AnswersInv
  <2>4. ReadInv'
    <3>1. question.ask = "read" => answer' = extractFromContent(question.content)
      OBVIOUS
    <3> QED BY ONLY <2>1, <3>1, AnswersInv DEF AnswersInv
  <2>5. ExtractInv'
    <3>1. question.ask = "extract" => answer' = extractPdfText(question.pdf)
      OBVIOUS
    <3> QED BY ONLY <2>1, <3>1, AnswersInv DEF AnswersInv
  <2>6. IndexInv'
    <3>1. question.ask = "index" => answer' = index(question.file, question.ai)
      OBVIOUS
    <3> QED BY ONLY <2>1, <3>1, AnswersInv DEF AnswersInv
  <2>7. AskInv'
    <3>1. question.ask = "ask" =>
            \E hits : answer' = [hits |-> hits, reply |-> ask(hits, question.ai)]
      OBVIOUS
    <3> QED BY ONLY <2>1, <3>1, AnswersInv DEF AnswersInv
  <2>8. OverviewInv'
    <3>1. question.ask = "overview" => answer' = overview(question.home)
      OBVIOUS
    <3> QED BY ONLY <2>1, <3>1, AnswersInv DEF AnswersInv
  <2>9. CompleteInv'
    <3>1. question.ask = "complete" => answer' = NextDue(question.date, question.interval)
      OBVIOUS
    <3> QED BY ONLY <2>1, <3>1, AnswersInv DEF AnswersInv
  <2>10. HealthInv'
    <3>1. question.ask = "health" => answer' = check(question.db, question.redis)
      OBVIOUS
    <3> QED BY ONLY <2>1, <3>1, AnswersInv DEF AnswersInv
  <2> QED BY ONLY <2>2, <2>3, <2>4, <2>5, <2>6, <2>7, <2>8, <2>9, <2>10 DEF AnswersInv
<1> QED BY <1>1, <1>2

LEMMA AnswersInductive == Spec => []AnswersInv
  BY InitAnswers, NextAnswers, PTL DEF Spec

-----------------------------------------------------------------------------
(* Registers *)

\* A list of rows: positions that keep their order.
Rows(f) == /\ f = [i \in DOMAIN f |-> f[i]]
           /\ \E n \in Nat : DOMAIN f \subseteq 1..n

\* The largest of the rows, the first of them if there are several.
LEMMA LargestExists ==
    ASSUME NEW area \in [Nat -> Int], NEW n \in Nat, NEW I \in SUBSET (1..n), I # {}
    PROVE  \E i \in I : \A j \in I : area[j] <= area[i] /\ (j < i => area[j] < area[i])
<1> DEFINE Best(J, i) == i \in J /\ \A j \in J : area[j] <= area[i] /\ (j < i => area[j] < area[i])
           S == {k \in Nat : \A J \in SUBSET (1..k) : J # {} => \E i \in J : Best(J, i)}
<1>1. 0 \in S
  <2>1. 1..0 = {}
    OBVIOUS
  <2> QED BY <2>1
<1>2. ASSUME NEW k \in S PROVE k + 1 \in S
  <2> SUFFICES ASSUME NEW J \in SUBSET (1..k + 1), J # {} PROVE \E i \in J : Best(J, i)
    BY <1>2
  <2>1. PICK H : H = J \ {k + 1}
    OBVIOUS
  <2>2. H \in SUBSET (1..k) /\ H \subseteq J
    BY <2>1, <1>2
  <2>3. CASE H = {}
    <3>1. J = {k + 1}
      BY <2>1, <2>3
    <3>2. area[k + 1] \in Int
      BY <1>2
    <3>3. Best(J, k + 1)
      BY <3>1, <3>2, <1>2
    <3> QED BY <3>1, <3>3
  <2>4. CASE H # {}
    <3>1. PICK i \in H : Best(H, i)
      BY <1>2, <2>2, <2>4
    <3>2. \A j \in 1..k + 1 : area[j] \in Int
      BY <1>2
    <3>3. i \in 1..k /\ k \in Nat
      BY <2>2, <1>2
    <3>4. CASE k + 1 \notin J \/ area[k + 1] <= area[i]
      <4>1. \A j \in J : j \in H \/ j = k + 1
        BY <2>1
      <4>2. Best(J, i)
        BY <2>2, <3>1, <3>2, <3>3, <3>4, <4>1
      <4> QED BY <2>2, <4>2
    <3>5. CASE k + 1 \in J /\ area[i] < area[k + 1]
      <4>1. \A j \in H : area[j] < area[k + 1]
        BY <2>2, <3>1, <3>2, <3>3, <3>5
      <4>2. \A j \in J : j \in H \/ j = k + 1
        BY <2>1
      <4>3. Best(J, k + 1)
        BY <3>2, <3>3, <3>5, <4>1, <4>2
      <4> QED BY <3>5, <4>3
    <3> QED BY <3>2, <3>3, <3>4, <3>5
  <2> QED BY <2>3, <2>4
<1>3. S = Nat
  <2> HIDE DEF S
  <2>1. S \in SUBSET Nat
    BY DEF S
  <2> QED BY <2>1, <1>1, <1>2, SetInduction
<1> QED BY <1>3

\* Where there are buildings, one is chosen.
LEMMA MainBuilding ==
    ASSUME NEW f, Rows(f), DOMAIN f # {},
           \A i \in DOMAIN f : f[i] # Null /\ Area(f[i]) \in Int
    PROVE  pickMainBuilding(f) # Null
<1>1. PICK n \in Nat : DOMAIN f \subseteq 1..n
  BY DEF Rows
<1>2. PICK dated : dated = {i \in DOMAIN f : Given(f[i].year)}
  OBVIOUS
<1>3. PICK pool : pool = IF dated = {} THEN DOMAIN f ELSE dated
  OBVIOUS
<1>4. pool # {} /\ pool \subseteq DOMAIN f /\ pool \in SUBSET (1..n)
  BY <1>1, <1>2, <1>3
<1>5. PICK area : area = [i \in Nat |-> IF i \in DOMAIN f THEN Area(f[i]) ELSE 0]
  OBVIOUS
<1>6. area \in [Nat -> Int] /\ \A i \in pool : area[i] = Area(f[i])
  BY <1>1, <1>4, <1>5
<1>7. \E i \in pool : \A j \in pool :
          area[j] <= area[i] /\ (j < i => area[j] < area[i])
  BY <1>4, <1>6, LargestExists
<1>8. \E i \in pool : \A j \in pool :
          Area(f[j]) <= Area(f[i]) /\ (j < i => Area(f[j]) < Area(f[i]))
  BY <1>6, <1>7
<1>9. pickMainBuilding(f) =
        f[CHOOSE i \in pool : \A j \in pool :
              Area(f[j]) <= Area(f[i]) /\ (j < i => Area(f[j]) < Area(f[i]))]
  BY <1>2, <1>3, <1>4 DEF pickMainBuilding
<1>10. (CHOOSE i \in pool : \A j \in pool :
              Area(f[j]) <= Area(f[i]) /\ (j < i => Area(f[j]) < Area(f[i]))) \in pool
  BY <1>8
<1> QED BY <1>4, <1>9, <1>10

\* What queryList makes of an answer: rows, none of them null, or a failure.
LEMMA QueriedRows ==
    ASSUME NEW Row, Null \notin Row, NEW a \in ListOf(Row)
    PROVE  /\ a = Down => queryList(a) = Down
           /\ queryList(a) # Down =>
                 /\ Rows(queryList(a))
                 /\ \A i \in DOMAIN queryList(a) : queryList(a)[i] \in Row
<1>1. CASE a = Down
  BY <1>1 DEF queryList
<1>2. CASE a # Down /\ a \in [kind : {"array", "features"}, rows : Seq(Row \cup {Null})]
  <2>1. PICK rows : rows = a.rows
    OBVIOUS
  <2>2. rows \in Seq(Row \cup {Null}) /\ a.kind \in {"array", "features"}
    BY <1>2, <2>1
  <2>3. /\ Len(rows) \in Nat /\ DOMAIN rows = 1..Len(rows)
        /\ \A i \in DOMAIN rows : rows[i] \in Row \cup {Null}
        /\ rows = [i \in DOMAIN rows |-> rows[i]]
    BY <2>2, LenProperties, ElementOfSeq
  <2>4. CASE a.kind = "array"
    <3>1. PICK given : given = {i \in DOMAIN rows : rows[i] # Null}
      OBVIOUS
    <3>2. queryList(a) = [i \in given |-> rows[i]]
      BY <1>2, <2>1, <2>4, <3>1 DEF queryList, Given, Restrict
    <3> QED BY <1>2, <2>3, <3>1, <3>2 DEF Rows
  <2>5. CASE a.kind = "features"
    <3>1. queryList(a) = IF \A i \in DOMAIN rows : rows[i] # Null THEN rows ELSE Down
      BY <1>2, <2>1, <2>5 DEF queryList, Given
    <3> QED BY <1>2, <2>3, <3>1 DEF Rows
  <2> QED BY <2>2, <2>4, <2>5
<1>3. CASE a # Down /\ a \in [kind : {"object"}, rows : [1..1 -> Row]]
  <2>1. queryList(a) = a.rows /\ a.rows \in [1..1 -> Row]
    BY <1>3 DEF queryList
  <2> QED BY <1>3, <2>1 DEF Rows
<1>4. CASE a # Down /\ a \in [kind : {"other"}, rows : {<<>>}]
  <2>1. queryList(a) = <<>>
    BY <1>4 DEF queryList
  <2> QED BY <1>4, <2>1 DEF Rows
<1> QED BY <1>1, <1>2, <1>3, <1>4 DEF ListOf

\* Two queries find nothing only if neither fails.
LEMMA NothingFound ==
    ASSUME NEW Row, Null \notin Row, NEW a \in ListOf(Row), NEW b \in ListOf(Row)
    PROVE  /\ a = Down => InUseOrAny(a, b) = Down
           /\ InUseOrAny(a, b) # Down =>
                 /\ Rows(InUseOrAny(a, b))
                 /\ \A i \in DOMAIN InUseOrAny(a, b) : InUseOrAny(a, b)[i] \in Row
                 /\ DOMAIN InUseOrAny(a, b) = {} => Down \notin {a, b}
<1>1. Down # <<>>
  BY OutsideAssumption
<1>2. a = Down => InUseOrAny(a, b) = Down
  BY <1>1, QueriedRows DEF InUseOrAny
<1>3. ASSUME InUseOrAny(a, b) # Down
      PROVE  /\ Rows(InUseOrAny(a, b))
             /\ \A i \in DOMAIN InUseOrAny(a, b) : InUseOrAny(a, b)[i] \in Row
  <2>1. CASE queryList(a) = <<>>
    BY <1>3, <2>1, QueriedRows DEF InUseOrAny
  <2>2. CASE queryList(a) # <<>>
    BY <1>3, <2>2, QueriedRows DEF InUseOrAny
  <2> QED BY <2>1, <2>2
<1>4. ASSUME InUseOrAny(a, b) # Down, DOMAIN InUseOrAny(a, b) = {}
      PROVE  Down \notin {a, b}
  <2>1. InUseOrAny(a, b) = <<>>
    BY <1>3, <1>4 DEF Rows
  <2>2. queryList(a) = <<>> /\ queryList(b) = <<>>
    BY <2>1 DEF InUseOrAny
  <2> QED BY <1>1, <2>2, QueriedRows
<1> QED BY <1>2, <1>3, <1>4

\* The resolver finds no number only where there is none.
LEMMA NumberFound ==
    ASSUME NEW svc \in Services, husnummerToBfe(svc) # Down
    PROVE  /\ svc.dar # Down
           /\ husnummerToBfe(svc) = Null =>
                 \A i \in DOMAIN svc.dar : ~(svc.dar[i].named /\ svc.dar[i].numeric)
<1>1. PICK dar : dar = svc.dar
  OBVIOUS
<1>2. dar # Down /\ husnummerToBfe(svc) = findBfe(dar)
  BY <1>1 DEF husnummerToBfe
<1>3. dar \in Seq(Entry)
  BY <1>1, <1>2, CalculationsAssumption
<1>4. PICK hits : hits = {i \in DOMAIN dar : dar[i].named /\ dar[i].numeric}
  OBVIOUS
<1>5. hits \in SUBSET Nat
  BY <1>3, <1>4, LenProperties
<1>6. ASSUME hits # {} PROVE findBfe(dar) # Null
  <2>1. findBfe(dar) = dar[Min(hits)].value /\ Min(hits) \in DOMAIN dar
    BY <1>4, <1>5, <1>6, FirstPosition DEF findBfe
  <2>2. dar[Min(hits)] \in Entry
    BY <1>3, <2>1, ElementOfSeq, LenProperties
  <2> QED BY <2>1, <2>2, OutsideAssumption DEF Entry
<1> QED BY <1>1, <1>2, <1>4, <1>6

\* What the note on a home says of the registers' answers.
LEMMA NotesAreTrue ==
    ASSUME NEW svc \in Services
    PROVE  /\ fetchBbr(svc).note = "no number" =>
                 husnummerToBfe(svc) # Down /\ husnummerToBfe(svc) = Null
           /\ fetchBbr(svc).note = "no building" =>
                 /\ husnummerToBfe(svc) # Down /\ svc.grundInUse # Down
                 /\ \/ Down \notin {svc.bygInUse, svc.bygAny}
                    \/ Down \notin {svc.foreignInUse, svc.foreignAny}
<1> DEFINE number == husnummerToBfe(svc)
           bfe    == IF number = Down THEN Null ELSE number
           ground == IF Given(bfe) THEN grundUuidByBfe(svc) ELSE Null
           here    == InUseOrAny(svc.bygInUse, svc.bygAny)
           foreign == InUseOrAny(svc.foreignInUse, svc.foreignAny)
           rows   == CASE bfe = Null \/ ground = Down -> <<>>
                       [] ground # Down /\ Given(ground) -> here
                       [] OTHER -> foreign
           found  == IF rows = Down THEN <<>> ELSE rows
           b      == pickMainBuilding(found)
           note   == CASE number = Down -> "DAR failed"
                       [] number = Null -> "no number"
                       [] ground = Down -> "grund failed"
                       [] rows = Down -> "bygning failed"
                       [] OTHER -> "no building"
<1>1. fetchBbr(svc) = [bfe |-> bfe, building |-> b, note |-> IF Given(b) THEN "OK" ELSE note]
  BY Zenon DEF fetchBbr
<1> HIDE DEF bfe, ground, here, foreign, rows, found, b, note
<1>2. fetchBbr(svc).note = IF Given(b) THEN "OK" ELSE note
  BY <1>1
<1>3. Null # Down
  BY OutsideAssumption
<1>4. ASSUME fetchBbr(svc).note = "no number" PROVE number # Down /\ number = Null
  <2>1. note = "no number"
    BY <1>2, <1>4
  <2> QED BY <1>3, <2>1 DEF note
<1>5. ASSUME fetchBbr(svc).note = "no building"
       PROVE  /\ number # Down /\ svc.grundInUse # Down
              /\ \/ Down \notin {svc.bygInUse, svc.bygAny}
                 \/ Down \notin {svc.foreignInUse, svc.foreignAny}
  <2>1. b = Null /\ note = "no building"
    BY <1>2, <1>5 DEF Given
  <2>2. number # Down /\ number # Null /\ ground # Down /\ rows # Down
    BY <2>1 DEF note
  <2>3. bfe # Null /\ ground = grundUuidByBfe(svc) /\ rows \in {here, foreign}
    BY <1>3, <2>2 DEF bfe, ground, rows, Given
  <2>4. /\ Null \notin Building /\ Null \notin Ground
        /\ \A r \in Building : Area(r) \in Int
    <3>1. ASSUME NEW r \in Building PROVE Area(r) \in Int
      <4>1. r.area \in Int \cup {Null}
        BY DEF Building
      <4> QED BY <4>1 DEF Area, Given
    <3>2. Null \notin Building /\ Null \notin Ground
      BY CalculationsAssumption
    <3> QED BY <3>1, <3>2
  <2>5. /\ svc.grundInUse \in ListOf(Ground) /\ svc.grundAny \in ListOf(Ground)
        /\ svc.bygInUse \in ListOf(Building) /\ svc.bygAny \in ListOf(Building)
        /\ svc.foreignInUse \in ListOf(Building) /\ svc.foreignAny \in ListOf(Building)
    BY CalculationsAssumption
  <2>6. svc.grundInUse # Down
    <3>1. ASSUME svc.grundInUse = Down PROVE FALSE
      <4>1. InUseOrAny(svc.grundInUse, svc.grundAny) = Down
        BY <2>4, <2>5, <3>1, NothingFound
      <4> QED BY <2>2, <2>3, <4>1 DEF grundUuidByBfe
    <3> QED BY <3>1
  <2>7. Rows(rows) /\ \A i \in DOMAIN rows : rows[i] \in Building
    BY <2>2, <2>3, <2>4, <2>5, NothingFound DEF here, foreign
  <2>8. DOMAIN rows = {}
    <3>1. ASSUME DOMAIN rows # {} PROVE FALSE
      <4>1. \A i \in DOMAIN rows : rows[i] # Null /\ Area(rows[i]) \in Int
        BY <2>4, <2>7
      <4>2. pickMainBuilding(rows) # Null
        BY <2>7, <3>1, <4>1, MainBuilding
      <4> QED BY <2>1, <2>2, <4>2 DEF b, found
    <3> QED BY <3>1
  <2>9. CASE rows = here
    <3>1. /\ InUseOrAny(svc.bygInUse, svc.bygAny) # Down
          /\ DOMAIN InUseOrAny(svc.bygInUse, svc.bygAny) = {}
      BY <2>2, <2>8, <2>9 DEF here
    <3>2. Down \notin {svc.bygInUse, svc.bygAny}
      BY <2>4, <2>5, <3>1, NothingFound
    <3> QED BY <2>2, <2>6, <3>2
  <2>10. CASE rows = foreign
    <3>1. /\ InUseOrAny(svc.foreignInUse, svc.foreignAny) # Down
          /\ DOMAIN InUseOrAny(svc.foreignInUse, svc.foreignAny) = {}
      BY <2>2, <2>8, <2>10 DEF foreign
    <3>2. Down \notin {svc.foreignInUse, svc.foreignAny}
      BY <2>4, <2>5, <3>1, NothingFound
    <3> QED BY <2>2, <2>6, <3>2
  <2> QED BY <2>2, <2>3, <2>6, <2>9, <2>10
<1> QED BY <1>4, <1>5

\* A service that fails is never taken for one that found nothing, whatever the registers,
\* the model, the database and Redis answer (datafordeler-bbr.adapter.ts:67-111,
\* search.service.ts:46-57, health.controller.ts:31).
THEOREM FailuresAreNoted == Spec => []FailuresAreNotAbsence
<1>1. AnswersInv => FailuresAreNotAbsence
  <2> SUFFICES ASSUME AnswersInv PROVE FailuresAreNotAbsence
    OBVIOUS
  <2>1. ASSUME Answered("lookup"), answer.note \in {"no number", "no building"}
        PROVE  fetchBbr(question.svc).note = answer.note /\ question.svc \in Services
    <3>1. /\ answer = lookupByAddress(question.address, question.svc)
          /\ question.svc \in Services
      BY <2>1 DEF AnswersInv, LookupInv, Answered
    <3>2. stub(question.address).note \notin {"no number", "no building"}
      <4>1. stub(question.address).note = Null
        BY DEF stub
      <4> QED BY <4>1, CalculationsAssumption
    <3>3. Nothing.note \notin {"no number", "no building"}
      BY DEF Nothing
    <3>4. answer.note \in {stub(question.address).note, Nothing.note, fetchBbr(question.svc).note}
      BY <3>1 DEF lookupByAddress
    <3> QED BY <2>1, <3>1, <3>2, <3>3, <3>4
  <2>2. Answered("lookup") /\ answer.note = "no number" =>
          /\ question.svc.dar # Down
          /\ \A i \in DOMAIN question.svc.dar :
                ~(question.svc.dar[i].named /\ question.svc.dar[i].numeric)
    BY <2>1, NotesAreTrue, NumberFound
  <2>3. Answered("lookup") /\ answer.note = "no building" =>
          /\ question.svc.dar # Down /\ question.svc.grundInUse # Down
          /\ \/ Down \notin {question.svc.bygInUse, question.svc.bygAny}
             \/ Down \notin {question.svc.foreignInUse, question.svc.foreignAny}
    BY <2>1, NotesAreTrue, NumberFound
  <2>4. Answered("ask") /\ answer.reply.says = "nothing indexed" => answer.hits = <<>>
    <3> SUFFICES ASSUME Answered("ask"), answer.reply.says = "nothing indexed"
                 PROVE  answer.hits = <<>>
      OBVIOUS
    <3>1. PICK hits : answer = [hits |-> hits, reply |-> ask(hits, question.ai)]
      BY DEF AnswersInv, AskInv, Answered
    <3>2. ask(hits, question.ai).says = "nothing indexed" /\ answer.hits = hits
      BY <3>1
    <3> QED BY <3>2 DEF ask
  <2>5. Answered("health") /\ answer.status = "ok" =>
          question.db = "up" /\ question.redis # "refuses"
    BY DEF AnswersInv, HealthInv, Answered, check
  <2> QED BY <2>2, <2>3, <2>4, <2>5 DEF FailuresAreNotAbsence
<1> QED BY <1>1, AnswersInductive, PTL

-----------------------------------------------------------------------------
(* Verification *)

\* The person behind a session is named by one of the claims.
LEMMA FirstGivenIsOne ==
    ASSUME NEW a, NEW b, NEW c, FirstGiven(<<a, b, c>>) # Null
    PROVE  FirstGiven(<<a, b, c>>) \in {a, b, c}
<1>1. PICK xs : xs = <<a, b, c>>
  OBVIOUS
<1>2. DOMAIN xs = 1..3 /\ \A i \in 1..3 : xs[i] \in {a, b, c}
  BY <1>1
<1>3. PICK given : given = {i \in DOMAIN xs : Given(xs[i])}
  OBVIOUS
<1>4. given # {} /\ FirstGiven(xs) = xs[Min(given)]
  BY <1>1, <1>3 DEF FirstGiven
<1>5. Min(given) \in given
  BY <1>2, <1>3, <1>4, FirstPosition
<1> QED BY <1>1, <1>2, <1>3, <1>4, <1>5

\* What a callback that succeeds has been through.
LEMMA CallbackSucceeds ==
    ASSUME NEW tok, NEW pend, NEW svc, svc.configured,
           handleCallback(TRUE, tok, pend, "number", svc)
    PROVE  /\ pend # Null /\ tok # Down /\ tok # Null
           /\ tok.acr # "low" /\ tok.nonce \in {Null, pend.nonce}
           /\ svc.owners # Down
           /\ \E i \in DOMAIN svc.owners :
                 {svc.owners[i].cpr, svc.owners[i].cvr} \cap ({tok.cpr, tok.dkCpr, tok.sub} \ {Null}) # {}
<1>1. PICK identity : identity = exchangeCode(tok, pend)
  OBVIOUS
<1>2. /\ pend # Null /\ identity # Down /\ identity.level # "low"
      /\ identity.id \in lookupOwner("number", svc)
  BY <1>1 DEF handleCallback, matchesRegisteredOwner
<1>3. /\ tok # Down /\ tok # Null /\ (Given(tok.nonce) => tok.nonce = pend.nonce)
      /\ identity = [id |-> FirstGiven(<<tok.cpr, tok.dkCpr, tok.sub>>),
                     level |-> IF tok.acr \in {"high", "low"} THEN tok.acr ELSE "substantial"]
  BY <1>1, <1>2 DEF exchangeCode
<1>4. identity.id = FirstGiven(<<tok.cpr, tok.dkCpr, tok.sub>>) /\ tok.acr # "low"
  BY <1>2, <1>3
<1>5. /\ svc.owners # Down /\ identity.id # Null
      /\ \E i \in DOMAIN svc.owners : identity.id \in {svc.owners[i].cpr, svc.owners[i].cvr}
  BY <1>2 DEF lookupOwner
<1>6. identity.id \in {tok.cpr, tok.dkCpr, tok.sub}
  BY <1>4, <1>5, FirstGivenIsOne
<1> QED BY <1>2, <1>3, <1>4, <1>5, <1>6 DEF Given

\* With a broker and a register configured, a verification that succeeds had a session, an
\* answer of the broker above level low that belongs to the session, and a register that
\* names the person, whatever the two answer (verification.service.ts:39-60).
THEOREM FailuresVerifyNobody == Spec => []VerificationFailsClosed
<1>1. AnswersInv => VerificationFailsClosed
  <2> SUFFICES ASSUME AnswersInv, Answered("verify"), answer = TRUE, question.broker,
                      question.svc.configured
               PROVE  VerificationFailsClosed
    BY DEF VerificationFailsClosed
  <2>1. handleCallback(question.broker, question.tok, question.pend, "number", question.svc) = TRUE
    BY DEF AnswersInv, VerifyInv, Answered
  <2>2. handleCallback(TRUE, question.tok, question.pend, "number", question.svc)
    BY <2>1 DEF handleCallback
  <2>3. PICK tok, pend, svc : tok = question.tok /\ pend = question.pend /\ svc = question.svc
    OBVIOUS
  <2>4. /\ pend # Null /\ tok # Down /\ tok # Null
        /\ tok.acr # "low" /\ tok.nonce \in {Null, pend.nonce}
        /\ svc.owners # Down
        /\ \E i \in DOMAIN svc.owners :
              {svc.owners[i].cpr, svc.owners[i].cvr} \cap ({tok.cpr, tok.dkCpr, tok.sub} \ {Null}) # {}
    <3>1. svc.configured /\ handleCallback(TRUE, tok, pend, "number", svc)
      BY <2>2, <2>3
    <3> QED BY <3>1, CallbackSucceeds, Zenon
  <2> QED BY <2>3, <2>4 DEF VerificationFailsClosed
<1> QED BY <1>1, AnswersInductive, PTL

-----------------------------------------------------------------------------
(* The calendar *)

\* No month is shorter than 28 days or longer than 31, and December has all of them.
LEMMA MonthLengths ==
    ASSUME NEW y \in Nat, NEW m \in 1..12
    PROVE  DaysIn(y, m) \in 28..31 /\ DaysIn(y, 12) = 31
  BY DEF DaysIn

\* The month an interval leads to.
LEMMA MonthReached ==
    ASSUME NEW n \in Nat
    PROVE  n \div 12 \in Nat /\ (n % 12) + 1 \in 1..12 /\ 12 * (n \div 12) + (n % 12) = n
  OBVIOUS

\* Whatever the date and the interval, the next occurrence is in the calendar: the day is
\* kept, or runs over by at most three days into the month after.
LEMMA NextDueInCalendar ==
    ASSUME NEW date, NEW interval \in Nat,
           date.y \in Nat, date.m \in 1..12, date.d \in 1..DaysIn(date.y, date.m)
    PROVE  LET next   == NextDue(date, interval)
               months(d) == 12 * d.y + d.m
               target == months(date) + interval
           IN  /\ next.d \in 1..DaysIn(next.y, next.m) /\ next.m \in 1..12
               /\ \/ months(next) = target /\ next.d = date.d
                  \/ months(next) = target + 1 /\ next.d <= 3 /\ date.d > 28
<1>1. PICK n : n = date.m + interval - 1
  OBVIOUS
<1>2. n \in Nat
  BY <1>1
<1>3. PICK y, m : y = date.y + n \div 12 /\ m = (n % 12) + 1
  OBVIOUS
<1>4. /\ y \in Nat /\ m \in 1..12 /\ 12 * y + m = 12 * date.y + date.m + interval
  <2>1. PICK a, b : a = n \div 12 /\ b = n % 12
    OBVIOUS
  <2>2. a \in Nat /\ b + 1 \in 1..12 /\ 12 * a + b = n /\ b \in Nat
    BY <1>2, <2>1, MonthReached
  <2>3. y = date.y + a /\ m = b + 1 /\ n = date.m + interval - 1
    BY <1>1, <1>3, <2>1
  <2>4. y \in Nat /\ m \in 1..12
    BY <2>2, <2>3
  <2>5. 12 * y = 12 * date.y + 12 * a
    BY <2>2, <2>3
  <2>6. 12 * y + m = 12 * date.y + (12 * a + b) + 1
    BY <2>2, <2>3, <2>4, <2>5
  <2> QED BY <2>2, <2>3, <2>4, <2>6
<1>5. PICK over : over = date.d - DaysIn(y, m)
  OBVIOUS
<1>6. DaysIn(y, m) \in 28..31 /\ date.d \in 1..31 /\ (m = 12 => DaysIn(y, m) = 31)
  <2>1. DaysIn(date.y, date.m) \in 28..31
    BY MonthLengths
  <2> QED BY <1>4, <2>1, MonthLengths
<1>7. NextDue(date, interval) = IF over <= 0 THEN [y |-> y, m |-> m, d |-> date.d]
                                ELSE [y |-> y, m |-> m + 1, d |-> over]
  BY <1>1, <1>3, <1>5 DEF NextDue
<1>8. CASE over <= 0
  <2>1. NextDue(date, interval) = [y |-> y, m |-> m, d |-> date.d]
    BY <1>7, <1>8
  <2>2. date.d \in 1..DaysIn(y, m)
    BY <1>5, <1>6, <1>8
  <2> QED BY <1>4, <2>1, <2>2
<1>9. CASE ~(over <= 0)
  <2>1. NextDue(date, interval) = [y |-> y, m |-> m + 1, d |-> over]
    BY <1>7, <1>9
  <2>2. m + 1 \in 1..12 /\ over \in 1..3 /\ date.d > 28
    BY <1>4, <1>5, <1>6, <1>9
  <2>3. over \in 1..DaysIn(y, m + 1)
    BY <1>4, <2>2, MonthLengths
  <2> QED BY <1>4, <2>1, <2>2, <2>3
<1> QED BY <1>8, <1>9

\* The next occurrence of a recurring task is a date of the calendar near the day the
\* interval leads to, for every date and every interval (maintenance.service.ts:50-51).
THEOREM NextDueInMonth == Spec => []NextDueIsNear
<1>1. AnswersInv => NextDueIsNear
  <2> SUFFICES ASSUME AnswersInv, Answered("complete") PROVE NextDueIsNear
    BY DEF NextDueIsNear
  <2>1. PICK date, interval : date = question.date /\ interval = question.interval
    OBVIOUS
  <2>2. /\ answer = NextDue(date, interval) /\ interval \in Nat
        /\ date.y \in Nat /\ date.m \in 1..12 /\ date.d \in 1..DaysIn(date.y, date.m)
    BY <2>1, CalculationsAssumption DEF AnswersInv, CompleteInv, Answered
  <2>3. /\ answer.d \in 1..DaysIn(answer.y, answer.m) /\ answer.m \in 1..12
        /\ \/ 12 * answer.y + answer.m = 12 * date.y + date.m + interval /\ answer.d = date.d
           \/ /\ 12 * answer.y + answer.m = 12 * date.y + date.m + interval + 1
              /\ answer.d <= 3 /\ date.d > 28
    BY <2>2, NextDueInCalendar
  <2> QED BY <2>1, <2>3 DEF NextDueIsNear
<1> QED BY <1>1, AnswersInductive, PTL

-----------------------------------------------------------------------------
(* The overview *)

AHome(h) == h \in HomeRow /\ h.processed <= h.total

\* Sets of rows are finite.
LEMMA CountedRows ==
    ASSUME NEW S, NEW s \in Seq(S), NEW I \in SUBSET DOMAIN s
    PROVE  IsFiniteSet(I) /\ Cardinality(I) \in Nat
<1>1. IsFiniteSet(DOMAIN s)
  <2>1. DOMAIN s = 1..Len(s) /\ Len(s) \in Nat
    BY LenProperties
  <2> QED BY <2>1, FS_Interval
<1> QED BY <1>1, FS_Subset, FS_CardinalityType

LEMMA Counts ==
    ASSUME NEW h, AHome(h)
    PROVE  /\ IsFiniteSet(Overdue(h)) /\ Cardinality(Overdue(h)) \in Nat
           /\ IsFiniteSet(Active(h)) /\ Cardinality(Active(h)) \in Nat
<1>1. Overdue(h) \subseteq DOMAIN h.tasks /\ Active(h) \subseteq DOMAIN h.warranties
  BY DEF Overdue, Active
<1> QED BY <1>1, CountedRows DEF AHome, HomeRow

\* The score never falls when documents and warranties come and nothing more is overdue.
LEMMA ScoreGrows ==
    ASSUME NEW h, NEW g, AHome(h), AHome(g), Verified(g) <=> Verified(h),
           h.processed <= g.processed,
           Cardinality(Active(h)) <= Cardinality(Active(g)),
           Cardinality(Overdue(g)) <= Cardinality(Overdue(h))
    PROVE  Score(g) >= Score(h)
<1>1. PICK v, a, b, o, p : /\ v = (IF Verified(h) THEN 25 ELSE 0)
                           /\ a = Cardinality(Active(h)) /\ b = Cardinality(Active(g))
                           /\ o = Cardinality(Overdue(h)) /\ p = Cardinality(Overdue(g))
  OBVIOUS
<1>2. PICK x, y : x = h.processed /\ y = g.processed
  OBVIOUS
<1>3. /\ v \in {0, 25} /\ a \in Nat /\ b \in Nat /\ o \in Nat /\ p \in Nat /\ x \in Nat /\ y \in Nat
      /\ a <= b /\ p <= o /\ x <= y
  BY <1>1, <1>2, Counts DEF AHome, HomeRow
<1>4. PICK s, t : /\ s = 20 + v + AtMost(35, 5 * x) + AtMost(20, 7 * a) - 8 * o
                  /\ t = 20 + v + AtMost(35, 5 * y) + AtMost(20, 7 * b) - 8 * p
  OBVIOUS
<1>5. s \in Int /\ t \in Int /\ s <= t
  BY <1>3, <1>4 DEF AtMost
<1>6. /\ Score(h) = IF s < 0 THEN 0 ELSE AtMost(100, s)
      /\ Score(g) = IF t < 0 THEN 0 ELSE AtMost(100, t)
  BY <1>1, <1>2, <1>4 DEF Score
<1> QED BY <1>5, <1>6 DEF AtMost

LEMMA ScoreRange ==
    ASSUME NEW h, AHome(h) PROVE Score(h) \in 0..100
<1>1. PICK v, a, o, x : /\ v = (IF Verified(h) THEN 25 ELSE 0) /\ a = Cardinality(Active(h))
                        /\ o = Cardinality(Overdue(h)) /\ x = h.processed
  OBVIOUS
<1>2. v \in {0, 25} /\ a \in Nat /\ o \in Nat /\ x \in Nat
  BY <1>1, Counts DEF AHome, HomeRow
<1>3. PICK s : s = 20 + v + AtMost(35, 5 * x) + AtMost(20, 7 * a) - 8 * o
  OBVIOUS
<1>4. s \in Int
  BY <1>2, <1>3 DEF AtMost
<1>5. Score(h) = IF s < 0 THEN 0 ELSE AtMost(100, s)
  BY <1>1, <1>3 DEF Score
<1> QED BY <1>4, <1>5 DEF AtMost

\* A quotient lies between the bounds of what is divided.
LEMMA QuotientBelow ==
    ASSUME NEW n \in Nat, NEW d \in Nat \ {0}, NEW k \in Nat, n < d * (k + 1)
    PROVE  n \div d \in 0..k
<1>1. PICK q, r : q = n \div d /\ r = n % d
  OBVIOUS
<1>2. q \in Nat /\ r \in 0..d - 1 /\ n = d * q + r
  BY <1>1
<1>3. ASSUME q > k PROVE FALSE
  <2>1. d * q >= d * (k + 1)
    BY <1>2, <1>3
  <2> QED BY <1>2, <2>1
<1> QED BY <1>1, <1>2, <1>3

LEMMA GradeRange ==
    ASSUME NEW h, AHome(h) PROVE Grade(h) \in 0..100
<1>1. PICK p, t : p = h.processed /\ t = h.total
  OBVIOUS
<1>2. p \in Nat /\ t \in Nat /\ p <= t
  BY <1>1 DEF AHome, HomeRow
<1>3. CASE t = 0
  BY <1>1, <1>3 DEF Grade
<1>4. CASE t # 0
  <2>1. 200 * p + t \in Nat /\ 2 * t \in Nat \ {0} /\ 200 * p + t < (2 * t) * (100 + 1)
    BY <1>2, <1>4
  <2>2. (200 * p + t) \div (2 * t) \in 0..100
    BY <2>1, QuotientBelow
  <2> QED BY <1>1, <1>4, <2>2 DEF Grade
<1> QED BY <1>3, <1>4

\* Completing a task takes it from those that are overdue.
LEMMA TaskDone ==
    ASSUME NEW h, AHome(h), NEW i \in DOMAIN h.tasks
    PROVE  Score([h EXCEPT !.tasks[i].status = "done"]) >= Score(h)
<1>1. PICK tasks : tasks = [h.tasks EXCEPT ![i] = [h.tasks[i] EXCEPT !.status = "done"]]
  OBVIOUS
<1>2. PICK g : g = [h EXCEPT !.tasks = tasks]
  OBVIOUS
<1>3. g = [h EXCEPT !.tasks[i].status = "done"]
  BY <1>1, <1>2
<1>4. /\ tasks \in Seq([status : {"open", "done"}, due : Int \cup {Absent}])
      /\ DOMAIN tasks = DOMAIN h.tasks /\ tasks[i].status = "done"
      /\ \A j \in DOMAIN tasks : j # i => tasks[j] = h.tasks[j]
  <2>1. PICK TT : TT = [status : {"open", "done"}, due : Int \cup {Absent}]
    OBVIOUS
  <2>2. h.tasks \in Seq(TT) /\ i \in 1..Len(h.tasks)
    BY <2>1, LenProperties DEF AHome, HomeRow
  <2>3. h.tasks[i] \in TT
    BY <2>2, ElementOfSeq
  <2>4. /\ [h.tasks[i] EXCEPT !.status = "done"] \in TT
        /\ [h.tasks[i] EXCEPT !.status = "done"].status = "done"
    BY <2>1, <2>3
  <2> QED BY <1>1, <2>1, <2>2, <2>4, ExceptSeq, LenProperties
<1>5. /\ g \in HomeRow /\ g.tasks = tasks /\ g.now = h.now /\ g.owners = h.owners
      /\ g.warranties = h.warranties /\ g.processed = h.processed /\ g.total = h.total
  BY <1>2, <1>4 DEF AHome, HomeRow
<1>6. AHome(g)
  BY <1>5 DEF AHome
<1>7. Cardinality(Active(h)) <= Cardinality(Active(g))
  <2>1. Active(g) = Active(h)
    BY <1>5 DEF Active
  <2> QED BY <2>1, Counts
<1>8. Cardinality(Overdue(g)) <= Cardinality(Overdue(h))
  <2>1. Overdue(g) \subseteq Overdue(h)
    BY <1>4, <1>5 DEF Overdue
  <2> QED BY <2>1, Counts, FS_Subset
<1>9. (Verified(g) <=> Verified(h)) /\ h.processed <= g.processed
  BY <1>5 DEF Verified, AHome, HomeRow
<1> QED BY <1>3, <1>6, <1>7, <1>8, <1>9, ScoreGrows

LEMMA DocumentProcessed ==
    ASSUME NEW h, AHome(h), h.processed < h.total
    PROVE  Score([h EXCEPT !.processed = @ + 1]) >= Score(h)
<1>0. PICK p, g : p = h.processed + 1 /\ g = [h EXCEPT !.processed = p]
  OBVIOUS
<1>1. g = [h EXCEPT !.processed = @ + 1] /\ p \in Nat /\ h.processed <= p /\ p <= h.total
  BY <1>0 DEF AHome, HomeRow
<1>2. /\ g \in HomeRow /\ g.tasks = h.tasks /\ g.now = h.now /\ g.owners = h.owners
      /\ g.warranties = h.warranties /\ g.processed = p /\ g.total = h.total
  BY <1>0, <1>1 DEF AHome, HomeRow
<1>3. AHome(g) /\ h.processed <= g.processed
  BY <1>1, <1>2 DEF AHome, HomeRow
<1>4. Active(g) = Active(h) /\ Overdue(g) = Overdue(h) /\ (Verified(g) <=> Verified(h))
  BY <1>2 DEF Active, Overdue, Verified
<1>5. /\ Cardinality(Active(h)) <= Cardinality(Active(g))
      /\ Cardinality(Overdue(g)) <= Cardinality(Overdue(h))
  BY <1>4, Counts
<1>6. Score(g) >= Score(h)
  BY <1>3, <1>4, <1>5, ScoreGrows
<1> QED BY <1>1, <1>6

\* A warranty without an end is active.
LEMMA WarrantyRegistered ==
    ASSUME NEW h, AHome(h)
    PROVE  Score([h EXCEPT !.warranties = Append(@, Absent)]) >= Score(h)
<1>1. PICK w, g : w = Append(h.warranties, Absent) /\ g = [h EXCEPT !.warranties = w]
  OBVIOUS
<1>2. /\ w \in Seq(Int \cup {Absent}) /\ DOMAIN h.warranties \subseteq DOMAIN w
      /\ \A i \in DOMAIN h.warranties : w[i] = h.warranties[i]
  BY <1>1, AppendProperties, LenProperties DEF AHome, HomeRow
<1>3. /\ g \in HomeRow /\ g.tasks = h.tasks /\ g.now = h.now /\ g.owners = h.owners
      /\ g.warranties = w /\ g.processed = h.processed /\ g.total = h.total
  BY <1>1, <1>2 DEF AHome, HomeRow
<1>4. AHome(g) /\ h.processed <= g.processed
  BY <1>3 DEF AHome, HomeRow
<1>5. Active(h) \subseteq Active(g) /\ Overdue(g) = Overdue(h) /\ (Verified(g) <=> Verified(h))
  BY <1>2, <1>3 DEF Active, Overdue, Verified
<1>6. Cardinality(Active(h)) <= Cardinality(Active(g))
  BY <1>4, <1>5, Counts, FS_Subset
<1>7. Cardinality(Overdue(g)) <= Cardinality(Overdue(h))
  BY <1>5, Counts
<1>8. Score(g) >= Score(h)
  BY <1>4, <1>5, <1>6, <1>7, ScoreGrows
<1> QED BY <1>1, <1>8

\* Score and grade stay in their range, and what an owner does for the home never lowers
\* the score, for every home (properties.service.ts:61-68).
THEOREM NoWorkIsPunished == Spec => []WorkPaysOff
<1>1. AnswersInv => WorkPaysOff
  <2> SUFFICES ASSUME AnswersInv, Answered("overview") PROVE WorkPaysOff
    BY DEF WorkPaysOff
  <2>1. PICK h : h = question.home
    OBVIOUS
  <2>2. AHome(h) /\ answer = overview(h)
    BY <2>1, CalculationsAssumption DEF AnswersInv, OverviewInv, Answered, AHome
  <2>3. answer.score = Score(h) /\ answer.grade = Grade(h)
    BY <2>2 DEF overview
  <2>4. answer.score \in 0..100 /\ answer.grade \in 0..100
    BY <2>2, <2>3, ScoreRange, GradeRange
  <2>5. /\ \A i \in DOMAIN h.tasks : Score([h EXCEPT !.tasks[i].status = "done"]) >= answer.score
        /\ h.processed < h.total => Score([h EXCEPT !.processed = @ + 1]) >= answer.score
        /\ Score([h EXCEPT !.warranties = Append(@, Absent)]) >= answer.score
    BY <2>2, <2>3, TaskDone, DocumentProcessed, WarrantyRegistered
  <2> QED BY <2>1, <2>4, <2>5 DEF WorkPaysOff
<1> QED BY <1>1, AnswersInductive, PTL

-----------------------------------------------------------------------------
(* Loops: a step taken again and again *)

Steps(g, X)      == \A k \in Nat : \A x \in X : g[k][x] \in X
IsRun(f, a, g, X) == f \in [Nat -> X] /\ f[0] = a /\ \A k \in Nat : f[k + 1] = g[k][f[k]]

\* Steps on a set of states have a run from each of them.
LEMMA Loop ==
    ASSUME NEW X, NEW a \in X, NEW g, Steps(g, X)
    PROVE  \E f : IsRun(f, a, g, X)
<1> DEFINE Run(h, n) == h[0] = a /\ \A k \in 0..n - 1 : h[k + 1] = g[k][h[k]]
           S == {n \in Nat : \E h \in [Nat -> X] : Run(h, n)}
           U == {n \in Nat : \A h1, h2 \in [Nat -> X] : \A m \in Nat :
                                m >= n /\ Run(h1, n) /\ Run(h2, m) => h1[n] = h2[n]}
<1>1. S = Nat
  <2>1. 0 \in S
    <3>1. PICK h : h = [k \in Nat |-> a]
      OBVIOUS
    <3>2. h \in [Nat -> X] /\ Run(h, 0)
      BY <3>1
    <3> QED BY <3>2
  <2>2. ASSUME NEW n \in S PROVE n + 1 \in S
    <3>1. PICK h \in [Nat -> X] : Run(h, n)
      BY <2>2
    <3>2. PICK b : b = g[n][h[n]]
      OBVIOUS
    <3>3. b \in X /\ n \in Nat
      BY <2>2, <3>1, <3>2 DEF Steps
    <3>4. PICK e : e = [h EXCEPT ![n + 1] = b]
      OBVIOUS
    <3>5. e \in [Nat -> X] /\ e[n + 1] = b /\ \A k \in 0..n : e[k] = h[k]
      BY <3>1, <3>3, <3>4
    <3>6. Run(e, n + 1)
      BY <3>1, <3>2, <3>3, <3>5
    <3> QED BY <3>3, <3>5, <3>6
  <2> HIDE DEF S
  <2>3. S \in SUBSET Nat
    BY DEF S
  <2> QED BY <2>1, <2>2, <2>3, SetInduction
<1>2. U = Nat
  <2>1. 0 \in U
    OBVIOUS
  <2>2. ASSUME NEW n \in U PROVE n + 1 \in U
    <3>0. n \in Nat /\ n + 1 \in Nat
      BY <2>2
    <3> HIDE DEF Run
    <3> SUFFICES ASSUME NEW h1 \in [Nat -> X], NEW h2 \in [Nat -> X], NEW m \in Nat,
                        m >= n + 1, Run(h1, n + 1), Run(h2, m)
                 PROVE  h1[n + 1] = h2[n + 1]
      BY <3>0
    <3>1. Run(h1, n) /\ m >= n
      BY <3>0 DEF Run
    <3>2. h1[n] = h2[n]
      BY <2>2, <3>0, <3>1
    <3>3. h1[n + 1] = g[n][h1[n]] /\ h2[n + 1] = g[n][h2[n]]
      BY <3>0 DEF Run
    <3> QED BY <3>2, <3>3
  <2> HIDE DEF U
  <2>3. U \in SUBSET Nat
    BY DEF U
  <2> QED BY <2>1, <2>2, <2>3, SetInduction
<1>3. PICK H : H = [n \in Nat |-> CHOOSE h \in [Nat -> X] : Run(h, n)]
  OBVIOUS
<1>4. \A n \in Nat : H[n] \in [Nat -> X] /\ Run(H[n], n)
  <2> SUFFICES ASSUME NEW n \in Nat PROVE H[n] \in [Nat -> X] /\ Run(H[n], n)
    OBVIOUS
  <2>1. n \in S
    BY <1>1
  <2> HIDE DEF Run
  <2>2. \E h \in [Nat -> X] : Run(h, n)
    BY <2>1
  <2> QED BY <1>3, <2>2
<1>5. PICK f : f = [n \in Nat |-> H[n][n]]
  OBVIOUS
<1>6. f \in [Nat -> X] /\ f[0] = a
  BY <1>4, <1>5
<1>7. ASSUME NEW k \in Nat PROVE f[k + 1] = g[k][f[k]]
  <2>1. H[k + 1][k + 1] = g[k][H[k + 1][k]]
    BY <1>4, <1>7
  <2>2. H[k][k] = H[k + 1][k]
    <3> HIDE DEF U
    <3>1. k \in U /\ k + 1 \in Nat /\ k + 1 >= k
      BY <1>2, <1>7
    <3> HIDE DEF Run
    <3>2. H[k] \in [Nat -> X] /\ H[k + 1] \in [Nat -> X] /\ Run(H[k], k) /\ Run(H[k + 1], k + 1)
      BY <1>4, <1>7, <3>1
    <3> QED BY <3>1, <3>2 DEF U
  <2> QED BY <1>5, <1>7, <2>1, <2>2
<1> QED BY <1>6, <1>7 DEF IsRun

-----------------------------------------------------------------------------
(* The loops of the reader of strings *)

ReadState == [text : Seq(Nat), next : Nat \ {0}, depth : Nat, closed : BOOLEAN]
Reader(text, next, depth) == [text |-> text, next |-> next, depth |-> depth, closed |-> FALSE]

\* Three octal digits at most are found, and those that follow are among them.
LEMMA OctalDigitsFound ==
    ASSUME NEW c \in Seq(Nat), NEW j \in Nat
    PROVE  /\ OctalDigits(c, j) \in 0..3
           /\ \A k \in 1..OctalDigits(c, j) : j + k <= Len(c) /\ c[j + k] \in Octal
           /\ OctalDigits(c, j) < 3 =>
                 \/ j + OctalDigits(c, j) + 1 > Len(c)
                 \/ c[j + OctalDigits(c, j) + 1] \notin Octal
<1> DEFINE D(k) == j + k <= Len(c) /\ c[j + k] \in Octal
           Found(m) == /\ \A k \in 1..m : j + k <= Len(c) /\ c[j + k] \in Octal
                       /\ m < 3 => j + m + 1 > Len(c) \/ c[j + m + 1] \notin Octal
<1>1. \E m \in 0..3 : Found(m)
  <2>1. Len(c) \in Nat
    BY LenProperties
  <2>2. CASE ~D(1)
    <3>1. 1..0 = {} /\ j + 0 + 1 = j + 1
      OBVIOUS
    <3>2. Found(0)
      BY <2>1, <2>2, <3>1
    <3> QED BY <3>2
  <2>3. CASE D(1) /\ ~D(2)
    <3>1. Found(1)
      <4>1. 1..1 = {1} /\ j + 1 + 1 = j + 2
        OBVIOUS
      <4> QED BY <2>1, <2>3, <4>1
    <3> QED BY <3>1
  <2>4. CASE D(1) /\ D(2) /\ ~D(3)
    <3>1. Found(2)
      <4>1. 1..2 = {1, 2} /\ j + 2 + 1 = j + 3
        OBVIOUS
      <4> QED BY <2>1, <2>4, <4>1
    <3> QED BY <3>1
  <2>5. CASE D(1) /\ D(2) /\ D(3)
    <3>1. Found(3)
      <4>1. 1..3 = {1, 2, 3}
        OBVIOUS
      <4> QED BY <2>1, <2>5, <4>1
    <3> QED BY <3>1
  <2> QED BY <2>2, <2>3, <2>4, <2>5
<1>2. OctalDigits(c, j) = CHOOSE m \in 0..3 : Found(m)
  BY DEF OctalDigits
<1>3. PICK m : m = OctalDigits(c, j)
  OBVIOUS
<1> HIDE DEF Found
<1>4. m \in 0..3 /\ Found(m)
  BY <1>1, <1>2, <1>3
<1> QED BY <1>3, <1>4 DEF Found

\* What an escape stands for is text, and it is not empty.
LEMMA EscapeType ==
    ASSUME NEW c \in Seq(Nat), NEW j \in Nat
    PROVE  Escape(c, j).text \in Seq(Nat) /\ Escape(c, j).size \in Nat \ {0}
<1>1. PICK next : next = IF j < Len(c) THEN c[j + 1] ELSE Undefined
  OBVIOUS
<1>2. PICK m : m = OctalDigits(c, j)
  OBVIOUS
<1>3. /\ m \in 0..3 /\ \A k \in 1..m : j + k <= Len(c) /\ c[j + k] \in Octal
      /\ m < 3 => j + m + 1 > Len(c) \/ c[j + m + 1] \notin Octal
  BY <1>2, OctalDigitsFound
<1>4. Len(c) \in Nat /\ \A i \in 1..Len(c) : c[i] \in Nat
  BY LenProperties, ElementOfSeq
<1>5. next \in Nat
  BY <1>1, <1>4 DEF Undefined
<1>6. ASSUME next \in Octal PROVE Octets(c, j, m) \in Nat
  <2>1. m # 0
    <3>1. j < Len(c) /\ c[j + 1] \in Octal
      BY <1>1, <1>4, <1>6 DEF Octal, Undefined
    <3>2. ASSUME m = 0 PROVE FALSE
      <4>1. j + m + 1 = j + 1
        BY <3>2
      <4> QED BY <1>3, <1>4, <3>1, <3>2, <4>1
    <3> QED BY <3>2
  <2>2. \A k \in 1..m : c[j + k] \in Octal
    BY <1>3
  <2>3. CASE m = 1
    <3>1. c[j + 1] \in 48..55
      BY <2>2, <2>3 DEF Octal
    <3> QED BY <2>3, <3>1 DEF Octets
  <2>4. CASE m = 2
    <3>1. c[j + 1] \in 48..55 /\ c[j + 2] \in 48..55
      BY <2>2, <2>4 DEF Octal
    <3>2. Octets(c, j, m) = 8 * (c[j + 1] - 48) + (c[j + 2] - 48)
      BY <2>4 DEF Octets
    <3>3. \A p, q \in 48..55 : 8 * (p - 48) + (q - 48) \in Nat
      OBVIOUS
    <3> QED BY <3>1, <3>2, <3>3
  <2>5. CASE m = 3
    <3>1. c[j + 1] \in 48..55 /\ c[j + 2] \in 48..55 /\ c[j + 3] \in 48..55
      BY <2>2, <2>5 DEF Octal
    <3>2. Octets(c, j, m) = 64 * (c[j + 1] - 48) + 8 * (c[j + 2] - 48) + (c[j + 3] - 48)
      BY <2>5 DEF Octets
    <3>3. PICK p, q, r \in 48..55 : p = c[j + 1] /\ q = c[j + 2] /\ r = c[j + 3]
      BY <3>1
    <3>4. 64 * (p - 48) + 8 * (q - 48) + (r - 48) \in Nat
      OBVIOUS
    <3> QED BY <3>2, <3>3, <3>4
  <2> QED BY <1>3, <2>1, <2>3, <2>4, <2>5
<1>7. PICK o : o = Octets(c, j, m) % 256
  OBVIOUS
<1>8. Escape(c, j) = CASE next = 110 -> [text |-> <<LF>>, size |-> 2]
                       [] next = 114 -> [text |-> <<>>, size |-> 2]
                       [] next = 116 -> [text |-> <<9>>, size |-> 2]
                       [] next \in Octal -> [text |-> <<o>>, size |-> m + 1]
                       [] OTHER -> [text |-> <<next>>, size |-> 2]
  BY <1>1, <1>2, <1>7 DEF Escape
<1>9. next \in Octal => o \in Nat
  BY <1>6, <1>7
<1> QED BY <1>3, <1>5, <1>8, <1>9 DEF LF

\* One round of the loop, case by case.
LEMMA ReadSteps ==
    ASSUME NEW c \in Seq(Nat), NEW s \in ReadState
    PROVE  /\ s.closed \/ s.next > Len(c) => ReadStep(c, s) = s
           /\ ~s.closed /\ s.next <= Len(c) =>
                /\ c[s.next] = Slash =>
                      ReadStep(c, s) = Reader(s.text \o Escape(c, s.next).text,
                                              s.next + Escape(c, s.next).size, s.depth)
                /\ c[s.next] = Open =>
                      ReadStep(c, s) = Reader(s.text \o <<Open>>, s.next + 1, s.depth + 1)
                /\ c[s.next] = Close /\ s.depth > 0 =>
                      ReadStep(c, s) = Reader(s.text \o <<Close>>, s.next + 1, s.depth - 1)
                /\ c[s.next] = Close /\ s.depth = 0 =>
                      ReadStep(c, s) = [text |-> s.text, next |-> s.next + 1, depth |-> 0, closed |-> TRUE]
                /\ c[s.next] \notin {Slash, Open, Close} =>
                      ReadStep(c, s) = Reader(s.text \o <<c[s.next]>>, s.next + 1, s.depth)
<1> DEFINE on(text, size, depth) ==
               [text |-> s.text \o text, next |-> s.next + size, depth |-> depth, closed |-> FALSE]
           e == Escape(c, s.next)
<1>1. ReadStep(c, s) =
        CASE s.closed \/ s.next > Len(c) -> s
          [] ~s.closed /\ s.next <= Len(c) ->
                CASE c[s.next] = Slash -> on(e.text, e.size, s.depth)
                  [] c[s.next] = Open  -> on(<<Open>>, 1, s.depth + 1)
                  [] c[s.next] = Close /\ s.depth > 0 -> on(<<Close>>, 1, s.depth - 1)
                  [] c[s.next] = Close /\ s.depth = 0 ->
                        [text |-> s.text, next |-> s.next + 1, depth |-> 0, closed |-> TRUE]
                  [] OTHER -> on(<<c[s.next]>>, 1, s.depth)
  BY Zenon DEF ReadStep
<1>2. s.next \in Nat /\ Len(c) \in Nat /\ s.depth \in Nat
  BY LenProperties DEF ReadState
<1>3. \A text, size, depth : on(text, size, depth) = Reader(s.text \o text, s.next + size, depth)
  BY DEF Reader
<1> HIDE DEF on, e
<1>4. CASE s.closed \/ s.next > Len(c)
  BY <1>1, <1>2, <1>4
<1>5. CASE ~s.closed /\ s.next <= Len(c)
  <2>1. c[s.next] = Slash => ReadStep(c, s) = on(e.text, e.size, s.depth)
    BY <1>1, <1>2, <1>5 DEF Slash, Open, Close
  <2>2. c[s.next] = Open => ReadStep(c, s) = on(<<Open>>, 1, s.depth + 1)
    BY <1>1, <1>2, <1>5 DEF Slash, Open, Close
  <2>3. c[s.next] = Close /\ s.depth > 0 => ReadStep(c, s) = on(<<Close>>, 1, s.depth - 1)
    BY <1>1, <1>2, <1>5 DEF Slash, Open, Close
  <2>4. c[s.next] = Close /\ s.depth = 0 =>
          ReadStep(c, s) = [text |-> s.text, next |-> s.next + 1, depth |-> 0, closed |-> TRUE]
    BY <1>1, <1>2, <1>5 DEF Slash, Open, Close
  <2>5. c[s.next] \notin {Slash, Open, Close} =>
          ReadStep(c, s) = on(<<c[s.next]>>, 1, s.depth)
    BY <1>1, <1>2, <1>5
  <2>6. ~(s.closed \/ s.next > Len(c))
    BY <1>2, <1>5
  <2> QED BY <1>5, <2>1, <2>2, <2>3, <2>4, <1>3, <2>5, <2>6 DEF e
<1> QED BY <1>2, <1>4, <1>5

\* A round of the reader leaves a state of it.
LEMMA ReadStepType ==
    ASSUME NEW c \in Seq(Nat), NEW s \in ReadState
    PROVE  ReadStep(c, s) \in ReadState
<1>1. PICK e : e = Escape(c, s.next)
  OBVIOUS
<1>2. e.text \in Seq(Nat) /\ e.size \in Nat \ {0}
  BY <1>1, EscapeType DEF ReadState
<1>3. Len(c) \in Nat /\ \A i \in 1..Len(c) : c[i] \in Nat
  BY LenProperties, ElementOfSeq
<1>4. s.text \in Seq(Nat) /\ s.next \in Nat \ {0} /\ s.depth \in Nat /\ s.closed \in BOOLEAN
  BY DEF ReadState
<1>5. ASSUME NEW t \in Seq(Nat), NEW n \in Nat \ {0}, NEW d \in Nat
      PROVE  Reader(s.text \o t, n, d) \in ReadState
  <2>1. s.text \o t \in Seq(Nat)
    BY <1>4, ConcatProperties
  <2> QED BY <2>1 DEF ReadState, Reader
<1>6. CASE s.closed \/ s.next > Len(c)
  BY <1>6, ReadSteps
<1>7. CASE ~s.closed /\ s.next <= Len(c)
  <2>0. c[s.next] \in Nat /\ s.next + 1 \in Nat \ {0} /\ s.next + e.size \in Nat \ {0}
    BY <1>2, <1>3, <1>4, <1>7
  <2>1. CASE c[s.next] = Slash
    <3>1. Reader(s.text \o e.text, s.next + e.size, s.depth) \in ReadState
      BY <1>2, <1>4, <1>5, <2>0
    <3> QED BY <1>1, <1>7, <2>1, <3>1, ReadSteps
  <2>2. CASE c[s.next] = Open
    <3>1. <<Open>> \in Seq(Nat) /\ s.depth + 1 \in Nat
      BY <1>4 DEF Open
    <3>2. Reader(s.text \o <<Open>>, s.next + 1, s.depth + 1) \in ReadState
      BY <1>5, <2>0, <3>1
    <3> QED BY <1>7, <2>2, <3>2, ReadSteps
  <2>3. CASE c[s.next] = Close /\ s.depth > 0
    <3>1. <<Close>> \in Seq(Nat) /\ s.depth - 1 \in Nat
      BY <1>4, <2>3 DEF Close
    <3>2. Reader(s.text \o <<Close>>, s.next + 1, s.depth - 1) \in ReadState
      BY <1>5, <2>0, <3>1
    <3> QED BY <1>7, <2>3, <3>2, ReadSteps
  <2>4. CASE c[s.next] = Close /\ s.depth = 0
    <3>1. ReadStep(c, s) = [text |-> s.text, next |-> s.next + 1, depth |-> 0, closed |-> TRUE]
      BY <1>7, <2>4, ReadSteps
    <3>2. s.next + 1 \in Nat \ {0}
      BY <1>4
    <3> QED BY <1>4, <3>1, <3>2 DEF ReadState
  <2>5. CASE c[s.next] \notin {Slash, Open, Close}
    <3>1. <<c[s.next]>> \in Seq(Nat)
      BY <2>0
    <3>2. Reader(s.text \o <<c[s.next]>>, s.next + 1, s.depth) \in ReadState
      BY <1>4, <1>5, <2>0, <3>1
    <3> QED BY <1>7, <2>5, <3>2, ReadSteps
  <2>6. s.depth > 0 \/ s.depth = 0
    BY <1>4
  <2> QED BY <2>1, <2>2, <2>3, <2>4, <2>5, <2>6
<1>8. s.closed \/ s.next > Len(c) \/ (~s.closed /\ s.next <= Len(c))
  BY <1>3, <1>4
<1> QED BY <1>6, <1>7, <1>8

\* readString is the state after as many rounds as the content has characters.
LEMMA ReadLoop ==
    ASSUME NEW c \in Seq(Nat), NEW start \in Nat \ {0}
    PROVE  \E f \in [Nat -> ReadState] :
              /\ f[0] = Reader(<<>>, start, 0)
              /\ \A k \in Nat : f[k + 1] = ReadStep(c, f[k])
              /\ readString(c, start) = f[Len(c)]
<1> DEFINE Eq(loop) == loop = [k \in Nat |->
              IF k = 0 THEN [text |-> <<>>, next |-> start, depth |-> 0, closed |-> FALSE]
              ELSE ReadStep(c, loop[k - 1])]
<1>1. PICK g : g = [k \in Nat |-> [s \in ReadState |-> ReadStep(c, s)]]
  OBVIOUS
<1>2. Steps(g, ReadState)
  BY <1>1, ReadStepType DEF Steps
<1>3. Reader(<<>>, start, 0) \in ReadState
  BY EmptySeq DEF Reader, ReadState
<1>4. PICK F : IsRun(F, Reader(<<>>, start, 0), g, ReadState)
  BY <1>2, <1>3, Loop
<1>5. \A k \in Nat : F[k + 1] = ReadStep(c, F[k])
  BY <1>1, <1>4 DEF IsRun
<1>6. Eq(F)
  <2>1. \A k \in Nat : k # 0 => k - 1 \in Nat /\ (k - 1) + 1 = k
    OBVIOUS
  <2>2. \A k \in Nat : k # 0 => F[k] = ReadStep(c, F[k - 1])
    BY <1>5, <2>1
  <2>3. \A k \in Nat : F[k] = IF k = 0
             THEN [text |-> <<>>, next |-> start, depth |-> 0, closed |-> FALSE]
             ELSE ReadStep(c, F[k - 1])
    BY <1>4, <2>2 DEF Reader, IsRun
  <2> QED BY <1>4, <2>3 DEF IsRun
<1>7. PICK f : f = CHOOSE loop : Eq(loop)
  OBVIOUS
<1>8. Eq(f)
  BY <1>6, <1>7
<1>9. readString(c, start) = f[Len(c)]
  BY <1>7, Zenon DEF readString
<1>10. f[0] = Reader(<<>>, start, 0)
  BY <1>8 DEF Reader
<1>11. \A k \in Nat : f[k + 1] = ReadStep(c, f[k])
  <2> SUFFICES ASSUME NEW k \in Nat PROVE f[k + 1] = ReadStep(c, f[k])
    OBVIOUS
  <2>1. k + 1 \in Nat /\ k + 1 # 0 /\ (k + 1) - 1 = k
    OBVIOUS
  <2> QED BY <1>8, <2>1
<1>12. f \in [Nat -> ReadState]
  <2>1. PICK S : S = {k \in Nat : f[k] \in ReadState}
    OBVIOUS
  <2>2. 0 \in S
    BY <1>3, <1>10, <2>1
  <2>3. ASSUME NEW k \in S PROVE k + 1 \in S
    <3>1. k \in Nat /\ f[k] \in ReadState
      BY <2>1, <2>3
    <3>2. f[k + 1] = ReadStep(c, f[k])
      BY <1>11, <3>1
    <3> QED BY <2>1, <3>1, <3>2, ReadStepType
  <2>4. S = Nat
    BY <2>1, <2>2, <2>3, SetInduction
  <2>5. f = [k \in Nat |-> f[k]]
    BY <1>8
  <2> QED BY <2>1, <2>4, <2>5
<1> QED BY <1>9, <1>10, <1>11, <1>12

-----------------------------------------------------------------------------
(* The loop over a content stream *)

ExtractState == [text : Seq(Nat), next : Nat \ {0}]
Extracted(text, next) == [text |-> text, next |-> next]

\* A string that is read is text.
LEMMA ReadStringType ==
    ASSUME NEW c \in Seq(Nat), NEW start \in Nat \ {0}
    PROVE  readString(c, start) \in ReadState
<1>1. Len(c) \in Nat
  BY LenProperties
<1>2. PICK f \in [Nat -> ReadState] : readString(c, start) = f[Len(c)]
  BY ReadLoop, Zenon
<1> QED BY <1>1, <1>2

\* One round of the loop, case by case.
LEMMA ExtractSteps ==
    ASSUME NEW c \in Seq(Nat), NEW s \in ExtractState
    PROVE  /\ s.next > Len(c) => ExtractStep(c, s) = s
           /\ s.next <= Len(c) =>
                /\ c[s.next] = Open =>
                      ExtractStep(c, s) = Extracted(s.text \o readString(c, s.next + 1).text,
                                                    readString(c, s.next + 1).next)
                /\ c[s.next] # Open =>
                      \E text \in {<<>>, <<LF>>}, size \in {1, 2} :
                          ExtractStep(c, s) = Extracted(s.text \o text, s.next + size)
                /\ /\ c[s.next] \notin Quotes \cup {Open}
                   /\ c[s.next] = T => s.next < Len(c) /\ c[s.next + 1] = 106
                   => ExtractStep(c, s) = Extracted(s.text \o <<>>, s.next + 1)
<1> DEFINE i == s.next
           on(text, next) == [text |-> s.text \o text, next |-> next]
           string == readString(c, i + 1)
           NewLine == c[i] = T /\ i < Len(c) /\ c[i + 1] \in {100, 68, 42}
<1>1. ExtractStep(c, s) =
        CASE i > Len(c) -> s
          [] i <= Len(c) ->
                CASE c[i] = Open -> on(string.text, string.next)
                  [] NewLine -> on(<<LF>>, i + 2)
                  [] c[i] \in Quotes -> on(<<LF>>, i + 1)
                  [] OTHER -> on(<<>>, i + 1)
  BY Zenon DEF ExtractStep
<1>2. s.next \in Nat /\ Len(c) \in Nat
  BY LenProperties DEF ExtractState
<1>3. \A text, next : on(text, next) = Extracted(s.text \o text, next)
  BY DEF Extracted
<1> HIDE DEF on, string
<1>4. CASE i > Len(c)
  BY <1>1, <1>2, <1>4
<1>5. CASE i <= Len(c)
  <2>1. ~(i > Len(c))
    BY <1>2, <1>5
  <2>2. c[i] = Open => ExtractStep(c, s) = on(string.text, string.next)
    BY <1>1, <1>5, <2>1 DEF Open, T, Quotes
  <2>3. c[i] # Open => ExtractStep(c, s) \in {on(<<LF>>, i + 2), on(<<LF>>, i + 1), on(<<>>, i + 1)}
    BY <1>1, <1>5, <2>1
  <2>4. /\ c[i] \notin Quotes \cup {Open}
        /\ c[i] = T => i < Len(c) /\ c[i + 1] = 106
        => ExtractStep(c, s) = on(<<>>, i + 1)
    BY <1>1, <1>5, <2>1
  <2>5. c[i] = Open => ExtractStep(c, s) = Extracted(s.text \o readString(c, s.next + 1).text,
                                                     readString(c, s.next + 1).next)
    BY <1>3, <2>2 DEF string
  <2>6. c[i] # Open => \E text \in {<<>>, <<LF>>}, size \in {1, 2} :
                          ExtractStep(c, s) = Extracted(s.text \o text, s.next + size)
    BY <1>3, <2>3
  <2>7. /\ c[i] \notin Quotes \cup {Open}
        /\ c[i] = T => i < Len(c) /\ c[i + 1] = 106
        => ExtractStep(c, s) = Extracted(s.text \o <<>>, s.next + 1)
    BY <1>3, <2>4
  <2> QED BY <1>5, <2>1, <2>5, <2>6, <2>7
<1> QED BY <1>2, <1>4, <1>5

\* A round of the loop leaves a state of it.
LEMMA ExtractStepType ==
    ASSUME NEW c \in Seq(Nat), NEW s \in ExtractState
    PROVE  ExtractStep(c, s) \in ExtractState
<1>1. s.text \in Seq(Nat) /\ s.next \in Nat \ {0} /\ Len(c) \in Nat
  BY LenProperties DEF ExtractState
<1>2. ASSUME NEW t \in Seq(Nat), NEW n \in Nat \ {0}
      PROVE  Extracted(s.text \o t, n) \in ExtractState
  <2>1. s.text \o t \in Seq(Nat)
    BY <1>1, ConcatProperties
  <2> QED BY <2>1 DEF ExtractState, Extracted
<1>3. CASE s.next > Len(c)
  BY <1>3, ExtractSteps
<1>4. CASE s.next <= Len(c) /\ c[s.next] = Open
  <2>1. PICK r : r = readString(c, s.next + 1)
    OBVIOUS
  <2>2. r.text \in Seq(Nat) /\ r.next \in Nat \ {0}
    <3>1. s.next + 1 \in Nat \ {0}
      BY <1>1
    <3> QED BY <2>1, <3>1, ReadStringType DEF ReadState
  <2>3. Extracted(s.text \o r.text, r.next) \in ExtractState
    BY <1>2, <2>2
  <2> QED BY <1>4, <2>1, <2>3, ExtractSteps
<1>5. CASE s.next <= Len(c) /\ c[s.next] # Open
  <2>1. PICK text \in {<<>>, <<LF>>}, size \in {1, 2} :
           ExtractStep(c, s) = Extracted(s.text \o text, s.next + size)
    BY <1>5, ExtractSteps
  <2>2. text \in Seq(Nat)
    <3>1. <<>> \in Seq(Nat) /\ <<LF>> \in Seq(Nat)
      BY EmptySeq DEF LF
    <3> QED BY <3>1
  <2>3. s.next + size \in Nat \ {0}
    BY <1>1
  <2> QED BY <1>2, <2>1, <2>2, <2>3
<1> QED BY <1>1, <1>3, <1>4, <1>5

\* extractFromContent is the text after as many rounds as the content has characters.
LEMMA ExtractLoop ==
    ASSUME NEW c \in Seq(Nat)
    PROVE  \E f \in [Nat -> ExtractState] :
              /\ f[0] = Extracted(<<>>, 1)
              /\ \A k \in Nat : f[k + 1] = ExtractStep(c, f[k])
              /\ extractFromContent(c) = f[Len(c)].text
<1> DEFINE Eq(loop) == loop = [k \in Nat |->
              IF k = 0 THEN [text |-> <<>>, next |-> 1] ELSE ExtractStep(c, loop[k - 1])]
<1>1. PICK g : g = [k \in Nat |-> [s \in ExtractState |-> ExtractStep(c, s)]]
  OBVIOUS
<1>2. Steps(g, ExtractState)
  BY <1>1, ExtractStepType DEF Steps
<1>3. Extracted(<<>>, 1) \in ExtractState
  BY EmptySeq DEF Extracted, ExtractState
<1>4. PICK F : IsRun(F, Extracted(<<>>, 1), g, ExtractState)
  BY <1>2, <1>3, Loop
<1>5. \A k \in Nat : F[k + 1] = ExtractStep(c, F[k])
  BY <1>1, <1>4 DEF IsRun
<1>6. Eq(F)
  <2>1. \A k \in Nat : k # 0 => k - 1 \in Nat /\ (k - 1) + 1 = k
    OBVIOUS
  <2>2. \A k \in Nat : k # 0 => F[k] = ExtractStep(c, F[k - 1])
    BY <1>5, <2>1
  <2>3. \A k \in Nat : F[k] = IF k = 0 THEN [text |-> <<>>, next |-> 1]
                              ELSE ExtractStep(c, F[k - 1])
    BY <1>4, <2>2 DEF Extracted, IsRun
  <2> QED BY <1>4, <2>3 DEF IsRun
<1>7. PICK f : f = CHOOSE loop : Eq(loop)
  OBVIOUS
<1>8. Eq(f)
  BY <1>6, <1>7
<1>9. extractFromContent(c) = f[Len(c)].text
  BY <1>7, Zenon DEF extractFromContent
<1>10. f[0] = Extracted(<<>>, 1)
  BY <1>8 DEF Extracted
<1>11. \A k \in Nat : f[k + 1] = ExtractStep(c, f[k])
  <2> SUFFICES ASSUME NEW k \in Nat PROVE f[k + 1] = ExtractStep(c, f[k])
    OBVIOUS
  <2>1. k + 1 \in Nat /\ k + 1 # 0 /\ (k + 1) - 1 = k
    OBVIOUS
  <2> QED BY <1>8, <2>1
<1>12. f \in [Nat -> ExtractState]
  <2>1. PICK S : S = {k \in Nat : f[k] \in ExtractState}
    OBVIOUS
  <2>2. 0 \in S
    BY <1>3, <1>10, <2>1
  <2>3. ASSUME NEW k \in S PROVE k + 1 \in S
    <3>1. k \in Nat /\ f[k] \in ExtractState
      BY <2>1, <2>3
    <3>2. f[k + 1] = ExtractStep(c, f[k])
      BY <1>11, <3>1
    <3> QED BY <2>1, <3>1, <3>2, ExtractStepType
  <2>4. S = Nat
    BY <2>1, <2>2, <2>3, SetInduction
  <2>5. f = [k \in Nat |-> f[k]]
    BY <1>8
  <2> QED BY <2>1, <2>4, <2>5
<1> QED BY <1>9, <1>10, <1>11, <1>12

\* What is extracted is text.
LEMMA ExtractedType ==
    ASSUME NEW c \in Seq(Nat)
    PROVE  extractFromContent(c) \in Seq(Nat)
<1>1. PICK f \in [Nat -> ExtractState] : extractFromContent(c) = f[Len(c)].text
  BY ExtractLoop
<1>2. Len(c) \in Nat
  BY LenProperties
<1> QED BY <1>1, <1>2 DEF ExtractState

-----------------------------------------------------------------------------
(* Texts put together of pieces *)

\* The text of the first i pieces, for every i.
IsJoined(pre, s, n) ==
    /\ pre[0] = <<>>
    /\ \A i \in 0..n : pre[i] \in Seq(Nat)
    /\ \A i \in 1..n : pre[i] = pre[i - 1] \o s[i]

\* FlattenSeq is the text of all pieces.
LEMMA Joined ==
    ASSUME NEW n \in Nat, NEW s, DOMAIN s = 1..n, s = [i \in 1..n |-> s[i]],
           \A i \in 1..n : s[i] \in Seq(Nat)
    PROVE  \E pre : IsJoined(pre, s, n) /\ FlattenSeq(s) = pre[n]
<1>1. PICK g : g = [k \in Nat |-> [x \in Seq(Nat) |-> IF k + 1 \in 1..n THEN x \o s[k + 1] ELSE x]]
  OBVIOUS
<1>2. Steps(g, Seq(Nat))
  <2> SUFFICES ASSUME NEW k \in Nat, NEW x \in Seq(Nat) PROVE g[k][x] \in Seq(Nat)
    BY DEF Steps
  <2>1. k + 1 \in 1..n => x \o s[k + 1] \in Seq(Nat)
    BY ConcatProperties
  <2> QED BY <1>1, <2>1
<1>3. <<>> \in Seq(Nat)
  BY EmptySeq
<1>4. PICK F : IsRun(F, <<>>, g, Seq(Nat))
  BY <1>2, <1>3, Loop
<1>5. ASSUME NEW i \in 1..n PROVE F[i] = F[i - 1] \o s[i]
  <2>1. i - 1 \in Nat /\ (i - 1) + 1 = i
    OBVIOUS
  <2>2. F[i] = g[i - 1][F[i - 1]] /\ F[i - 1] \in Seq(Nat)
    BY <1>4, <2>1 DEF IsRun
  <2> QED BY <1>1, <2>1, <2>2
<1>6. \A i \in 0..n : F[i] \in Seq(Nat)
  <2>1. \A i \in 0..n : i \in Nat
    OBVIOUS
  <2> QED BY <1>4, <2>1 DEF IsRun
<1>7. IsJoined(F, s, n)
  BY <1>4, <1>5, <1>6 DEF IsJoined, IsRun
<1>8. CASE n = 0
  <2>1. s = <<>> /\ Len(s) = 0
    <3>1. DOMAIN s = {}
      BY <1>8
    <3>2. s = <<>>
      BY <3>1
    <3> QED BY <3>2, EmptySeq
  <2>2. FlattenSeq(s) = s
    BY <2>1 DEF FlattenSeq
  <2> QED BY <1>4, <1>7, <1>8, <2>1, <2>2 DEF IsRun
<1>9. CASE n # 0
  <2>1. s \in Seq(Seq(Nat)) /\ Len(s) = n
    <3>1. s \in [1..n -> Seq(Nat)]
      OBVIOUS
    <3> QED BY <3>1, IsASeq
  <2> DEFINE Eq(flatten) == flatten = [i \in 1..n |-> IF i = 1 THEN s[i] ELSE flatten[i - 1] \o s[i]]
  <2>2. PICK H : H = [i \in 1..n |-> F[i]]
    OBVIOUS
  <2>3. Eq(H)
    <3>1. \A i \in 1..n : i # 1 => i - 1 \in 1..n
      OBVIOUS
    <3>2. \A i \in 1..n : i # 1 => F[i] = H[i - 1] \o s[i]
      BY <1>5, <2>2, <3>1
    <3>3. F[1] = s[1]
      <4>1. 1 \in 1..n /\ 1 - 1 = 0
        BY <1>9
      <4>2. F[1] = <<>> \o s[1]
        BY <1>4, <1>5, <4>1 DEF IsRun
      <4> QED BY <4>1, <4>2, ConcatEmptySeq
    <3>4. \A i \in 1..n : H[i] = IF i = 1 THEN s[i] ELSE H[i - 1] \o s[i]
      BY <2>2, <3>2, <3>3
    <3> QED BY <2>2, <3>4
  <2>4. PICK flatten : flatten = CHOOSE G : Eq(G)
    OBVIOUS
  <2>5. Eq(flatten)
    BY <2>3, <2>4
  <2>6. FlattenSeq(s) = flatten[n]
    <3>1. FlattenSeq(s) = IF Len(s) = 0 THEN s
             ELSE (CHOOSE G : G = [i \in 1..Len(s) |->
                      IF i = 1 THEN s[i] ELSE G[i - 1] \o s[i]])[Len(s)]
      BY Zenon DEF FlattenSeq
    <3> QED BY <1>9, <2>1, <2>4, <3>1
  <2>7. PICK S : S = {i \in Nat : i + 1 \in 1..n => flatten[i + 1] = F[i + 1]}
    OBVIOUS
  <2>8. 0 \in S
    <3>1. 0 + 1 = 1 /\ 1 \in 1..n
      BY <1>9
    <3>2. flatten[1] = s[1] /\ H[1] = s[1]
      BY <2>3, <2>5, <3>1
    <3> QED BY <2>2, <2>7, <3>1, <3>2
  <2>9. ASSUME NEW i \in S PROVE i + 1 \in S
    <3> SUFFICES ASSUME i + 1 + 1 \in 1..n PROVE flatten[i + 1 + 1] = F[i + 1 + 1]
      BY <2>7, <2>9
    <3>1. i \in Nat /\ i + 1 \in 1..n /\ i + 1 + 1 # 1 /\ (i + 1 + 1) - 1 = i + 1
      BY <2>7, <2>9
    <3>2. flatten[i + 1 + 1] = flatten[i + 1] \o s[i + 1 + 1]
      BY <2>5, <3>1
    <3>3. F[i + 1 + 1] = F[i + 1] \o s[i + 1 + 1]
      BY <1>5, <3>1
    <3> QED BY <2>7, <2>9, <3>1, <3>2, <3>3
  <2>10. S = Nat
    BY <2>7, <2>8, <2>9, SetInduction
  <2>11. n - 1 \in S /\ (n - 1) + 1 = n /\ n \in 1..n
    BY <1>9, <2>10
  <2>12. flatten[n] = F[n]
    BY <2>7, <2>11
  <2> QED BY <1>7, <2>6, <2>12
<1> QED BY <1>8, <1>9

AreTexts(s, n) == \A i \in 1..n : s[i] \in Seq(Nat)

Begins(x, y) == Len(x) <= Len(y) /\ \A i \in 1..Len(x) : y[i] = x[i]

\* The text of the first pieces begins the text of more of them.
LEMMA JoinedGrows ==
    ASSUME NEW n \in Nat, NEW s, AreTexts(s, n),
           NEW pre, IsJoined(pre, s, n), NEW k \in 0..n
    PROVE  Begins(pre[k], pre[n])
<1> USE DEF AreTexts, Begins
<1> DEFINE S == {m \in Nat : k + m <= n => Begins(pre[k], pre[k + m])}
<1>1. 0 \in S
  <2>1. k + 0 = k /\ Len(pre[k]) \in Nat
    BY LenProperties DEF IsJoined
  <2> QED BY <2>1
<1>2. ASSUME NEW m \in S PROVE m + 1 \in S
  <2> SUFFICES ASSUME k + (m + 1) <= n PROVE Begins(pre[k], pre[k + (m + 1)])
    BY <1>2
  <2>1. m \in Nat /\ k + m \in 0..n /\ k + (m + 1) \in 1..n /\ k + (m + 1) - 1 = k + m
    BY <1>2
  <2>2. Begins(pre[k], pre[k + m])
    BY <1>2, <2>1
  <2>3. pre[k + (m + 1)] = pre[k + m] \o s[k + (m + 1)]
    <3>1. PICK i \in 1..n : i = k + (m + 1) /\ i - 1 = k + m
      BY <2>1
    <3>2. pre[i] = pre[i - 1] \o s[i]
      BY DEF IsJoined
    <3> QED BY <3>1, <3>2
  <2>4. pre[k] \in Seq(Nat) /\ pre[k + m] \in Seq(Nat) /\ s[k + (m + 1)] \in Seq(Nat)
    BY <2>1 DEF IsJoined
  <2>5. PICK x, y, z : x = pre[k] /\ y = pre[k + m] /\ z = s[k + (m + 1)]
    OBVIOUS
  <2>6. Begins(x, y) /\ x \in Seq(Nat) /\ y \in Seq(Nat) /\ z \in Seq(Nat)
    BY <2>2, <2>4, <2>5
  <2>7. Begins(x, y \o z)
    BY <2>6, ConcatProperties, LenProperties
  <2> QED BY <2>3, <2>5, <2>7
<1>3. S = Nat
  <2> HIDE DEF S
  <2>1. S \in SUBSET Nat
    BY DEF S
  <2> QED BY <1>1, <1>2, <2>1, SetInduction
<1>4. n - k \in Nat /\ k + (n - k) = n
  OBVIOUS
<1>5. n - k \in S
  BY <1>3, <1>4
<1> QED BY <1>4, <1>5

\* The text of pieces that are texts is a text.
LEMMA FlattenType ==
    ASSUME NEW n \in Nat, NEW s, DOMAIN s = 1..n, s = [i \in 1..n |-> s[i]],
           \A i \in 1..n : s[i] \in Seq(Nat)
    PROVE  FlattenSeq(s) \in Seq(Nat)
<1>1. PICK pre : IsJoined(pre, s, n) /\ FlattenSeq(s) = pre[n]
  BY Joined
<1>2. n \in 0..n
  OBVIOUS
<1> QED BY <1>1, <1>2 DEF IsJoined

\* The last of some positions.
LEMMA LastPosition ==
    ASSUME NEW n \in Nat, NEW I \in SUBSET (1..n), I # {}
    PROVE  Max(I) \in I /\ \A i \in I : i <= Max(I)
<1>1. PICK area : area = [i \in Nat |-> i]
  OBVIOUS
<1>2. area \in [Nat -> Int] /\ \A i \in I : area[i] = i /\ i \in Int
  BY <1>1
<1>3. \E i \in I : \A j \in I : area[j] <= area[i] /\ (j < i => area[j] < area[i])
  BY <1>2, LargestExists
<1>4. \E i \in I : \A j \in I : i >= j
  BY <1>2, <1>3
<1>5. Max(I) \in I /\ \A j \in I : Max(I) >= j
  BY <1>4 DEF Max
<1> QED BY <1>2, <1>5

\* What stays of a text without the white space at its ends.
LEMMA Trimmed ==
    ASSUME NEW text \in Seq(Nat)
    PROVE  /\ trim(text) \in Seq(Nat)
           /\ ~Blank(text) => trim(text) # <<>>
           /\ \A j \in DOMAIN trim(text) : \E i \in DOMAIN text : trim(text)[j] = text[i]
<1>1. PICK ink : ink = {i \in DOMAIN text : text[i] \notin White}
  OBVIOUS
<1>2. Len(text) \in Nat /\ DOMAIN text = 1..Len(text)
  BY LenProperties
<1>3. CASE ink = {}
  <2>1. trim(text) = <<>> /\ Blank(text)
    BY <1>1, <1>3 DEF trim, Blank
  <2> QED BY <2>1, EmptySeq
<1>4. CASE ink # {}
  <2>1. PICK a, b : a = Min(ink) /\ b = Max(ink)
    OBVIOUS
  <2>2. ink \in SUBSET Nat /\ ink \in SUBSET (1..Len(text))
    BY <1>1, <1>2
  <2>3. /\ a \in ink /\ \A i \in ink : a <= i
        /\ b \in ink /\ \A i \in ink : i <= b
    BY <1>2, <1>4, <2>1, <2>2, FirstPosition, LastPosition
  <2>4. a \in 1..Len(text) /\ b \in 1..Len(text) /\ a <= b
    BY <2>2, <2>3
  <2>5. trim(text) = SubSeq(text, a, b)
    BY <1>1, <1>4, <2>1 DEF trim
  <2>6. /\ SubSeq(text, a, b) \in Seq(Nat)
        /\ Len(SubSeq(text, a, b)) = b - a + 1
        /\ \A i \in 1..b - a + 1 : SubSeq(text, a, b)[i] = text[a + i - 1]
    BY <1>2, <2>4, SubSeqProperties
  <2>7. SubSeq(text, a, b) # <<>>
    BY <1>2, <2>4, <2>6, EmptySeq
  <2>8. ASSUME NEW j \in DOMAIN trim(text) PROVE \E i \in DOMAIN text : trim(text)[j] = text[i]
    <3>1. j \in 1..b - a + 1
      BY <2>5, <2>6, <2>8, LenProperties
    <3>2. a + j - 1 \in DOMAIN text
      BY <1>2, <2>4, <3>1
    <3> QED BY <2>5, <2>6, <3>1, <3>2
  <2> QED BY <2>5, <2>6, <2>7, <2>8
<1> QED BY <1>3, <1>4

\* Normalising a text gives a text.
LEMMA NormalisedType ==
    ASSUME NEW text \in Seq(Nat)
    PROVE  normalise(text) \in Seq(Nat)
<1> DEFINE blank(i) == i \in DOMAIN text /\ text[i] \in Tabs
           feed(i)  == i \in DOMAIN text /\ text[i] = LF
           piece(i) == CASE blank(i) /\ blank(i - 1) -> <<>>
                         [] blank(i) /\ ~blank(i - 1) /\ blank(i + 1) -> <<32>>
                         [] feed(i) /\ feed(i - 1) /\ feed(i - 2) -> <<>>
                         [] OTHER -> <<text[i]>>
<1>1. normalise(text) = trim(FlattenSeq([i \in DOMAIN text |-> piece(i)]))
  BY Zenon DEF normalise
<1>2. Len(text) \in Nat /\ DOMAIN text = 1..Len(text) /\ \A i \in DOMAIN text : text[i] \in Nat
  BY LenProperties, ElementOfSeq
<1>3. ASSUME NEW i \in DOMAIN text PROVE piece(i) \in Seq(Nat)
  <2>1. piece(i) \in {<<>>, <<32>>, <<text[i]>>}
    <3> HIDE DEF blank, feed
    <3> QED OBVIOUS
  <2>2. <<>> \in Seq(Nat) /\ <<32>> \in Seq(Nat) /\ <<text[i]>> \in Seq(Nat)
    BY <1>2, EmptySeq
  <2> QED BY <2>1, <2>2
<1> HIDE DEF piece
<1>4. PICK s : s = [i \in DOMAIN text |-> piece(i)]
  OBVIOUS
<1>5. FlattenSeq(s) \in Seq(Nat)
  BY <1>2, <1>3, <1>4, FlattenType
<1> QED BY <1>1, <1>4, <1>5, Trimmed

\* The text of a document is a text.
LEMMA PdfTextType ==
    ASSUME NEW pdf \in Seq(PdfStream)
    PROVE  extractPdfText(pdf) \in Seq(Nat)
<1> DEFINE shown(i) == /\ \A j \in 1..i : pdf[j].closed
                       /\ ShowsText(ContentOf(pdf[i]))
           feed(i)  == IF \E j \in 1..i - 1 : shown(j) THEN <<LF>> ELSE <<>>
           piece(i) == IF shown(i) THEN feed(i) \o extractFromContent(ContentOf(pdf[i])) ELSE <<>>
<1>1. extractPdfText(pdf) = normalise(FlattenSeq([i \in DOMAIN pdf |-> piece(i)]))
  BY Zenon DEF extractPdfText
<1>2. Len(pdf) \in Nat /\ DOMAIN pdf = 1..Len(pdf) /\ \A i \in DOMAIN pdf : pdf[i] \in PdfStream
  BY LenProperties, ElementOfSeq
<1>3. ASSUME NEW i \in DOMAIN pdf PROVE piece(i) \in Seq(Nat)
  <2>1. ContentOf(pdf[i]) \in Seq(Nat)
    <3>1. pdf[i].content \in Seq(Nat) /\ pdf[i].bytes \in Seq(Nat) /\ <<>> \in Seq(Nat)
      BY <1>2, EmptySeq DEF PdfStream
    <3>2. ContentOf(pdf[i]) \in {pdf[i].content, pdf[i].bytes, <<>>}
      BY DEF ContentOf
    <3> QED BY <3>1, <3>2
  <2>2. extractFromContent(ContentOf(pdf[i])) \in Seq(Nat)
    BY <2>1, ExtractedType
  <2> HIDE DEF shown
  <2>3. feed(i) \in Seq(Nat) /\ <<>> \in Seq(Nat)
    <3>1. <<>> \in Seq(Nat) /\ <<LF>> \in Seq(Nat)
      BY EmptySeq DEF LF
    <3> QED BY <3>1
  <2> HIDE DEF feed
  <2>4. feed(i) \o extractFromContent(ContentOf(pdf[i])) \in Seq(Nat)
    BY <2>2, <2>3, ConcatProperties
  <2> QED BY <2>3, <2>4
<1> HIDE DEF piece
<1>4. PICK s : s = [i \in DOMAIN pdf |-> piece(i)]
  OBVIOUS
<1>5. FlattenSeq(s) \in Seq(Nat)
  BY <1>2, <1>3, <1>4, FlattenType
<1> QED BY <1>1, <1>4, <1>5, NormalisedType

-----------------------------------------------------------------------------
(* A string that is written is read *)

IsMark(m) == m.char \in 0..255 /\ m.way \in Ways /\ Possible(m)

\* What a writer makes of a character, whose octal digits are a, b and d.
IsWritten(m, w, ch, a, b, d) ==
    /\ ch = m.char /\ w = Written(m) /\ {a, b, d} \subseteq 48..55
    /\ ch = 64 * (a - 48) + 8 * (b - 48) + (d - 48)
    /\ ch < 64 => ch = 8 * (b - 48) + (d - 48)
    /\ ch < 8 => ch = d - 48
    /\ m.way = "raw"       => w = <<ch>>
    /\ m.way = "escaped"   => w = <<Slash, Letter(ch)>>
    /\ m.way = "octal1"    => w = <<Slash, d>>
    /\ m.way = "octal2"    => w = <<Slash, b, d>>
    /\ m.way = "octal3"    => w = <<Slash, a, b, d>>
    /\ m.way = "continued" => w = <<Slash, LF>>

LEMMA WrittenWays ==
    ASSUME NEW m, m.char \in 0..255
    PROVE  \E a, b, d : IsWritten(m, Written(m), m.char, a, b, d)
<1>1. PICK ch \in 0..255 : ch = m.char
  OBVIOUS
<1>2. PICK a, b, d : /\ a = 48 + ((ch \div 64) % 8)
                     /\ b = 48 + ((ch \div 8) % 8)
                     /\ d = 48 + ((ch \div 1) % 8)
  OBVIOUS
<1>3. a \in 48..55 /\ b \in 48..55 /\ d \in 48..55
  BY <1>2
<1>4. /\ ch = 64 * (a - 48) + 8 * (b - 48) + (d - 48)
      /\ ch < 64 => ch = 8 * (b - 48) + (d - 48)
      /\ ch < 8 => ch = d - 48
  BY <1>2
<1>5. Written(m) = CASE m.way = "raw"       -> <<m.char>>
                     [] m.way = "escaped"   -> <<Slash, Letter(m.char)>>
                     [] m.way = "octal1"    -> <<Slash, d>>
                     [] m.way = "octal2"    -> <<Slash, b, d>>
                     [] m.way = "octal3"    -> <<Slash, a, b, d>>
                     [] m.way = "continued" -> <<Slash, LF>>
  BY <1>1, <1>2 DEF Written
<1>6. /\ m.way = "raw"       => Written(m) = <<m.char>>
      /\ m.way = "escaped"   => Written(m) = <<Slash, Letter(m.char)>>
      /\ m.way = "octal1"    => Written(m) = <<Slash, d>>
      /\ m.way = "octal2"    => Written(m) = <<Slash, b, d>>
      /\ m.way = "octal3"    => Written(m) = <<Slash, a, b, d>>
      /\ m.way = "continued" => Written(m) = <<Slash, LF>>
  BY <1>5
<1>7. IsWritten(m, Written(m), m.char, a, b, d)
  BY <1>1, <1>3, <1>4, <1>6 DEF IsWritten
<1> QED BY <1>7

\* A piece is some bytes, the first of which is a backslash unless it is the character.
LEMMA WrittenType ==
    ASSUME NEW m, m.char \in 0..255, m.way \in Ways
    PROVE  /\ Written(m) \in Seq(Nat) /\ Len(Written(m)) \in Nat \ {0}
           /\ Written(m)[1] = IF m.way = "raw" THEN m.char ELSE Slash
<1> DEFINE Text(w) == w \in Seq(Nat) /\ Len(w) \in Nat \ {0}
<1>0. PICK a, b, d : IsWritten(m, Written(m), m.char, a, b, d)
  BY WrittenWays
<1>1. /\ a \in Nat /\ b \in Nat /\ d \in Nat
      /\ m.way = "raw"       => Written(m) = <<m.char>>
      /\ m.way = "escaped"   => Written(m) = <<Slash, Letter(m.char)>>
      /\ m.way = "octal1"    => Written(m) = <<Slash, d>>
      /\ m.way = "octal2"    => Written(m) = <<Slash, b, d>>
      /\ m.way = "octal3"    => Written(m) = <<Slash, a, b, d>>
      /\ m.way = "continued" => Written(m) = <<Slash, LF>>
  BY <1>0 DEF IsWritten
<1>2. PICK ch, e \in Nat : ch = m.char /\ e = Letter(m.char)
  <2>1. m.char \in Nat /\ Letter(m.char) \in Nat
    BY DEF Letter
  <2> QED BY <2>1
<1>3. /\ Text(<<ch>>) /\ Text(<<Slash, e>>) /\ Text(<<Slash, LF>>)
      /\ Text(<<Slash, d>>) /\ Text(<<Slash, b, d>>) /\ Text(<<Slash, a, b, d>>)
  BY <1>1 DEF Slash, LF
<1>4. /\ <<ch>>[1] = ch /\ <<Slash, e>>[1] = Slash /\ <<Slash, LF>>[1] = Slash
      /\ <<Slash, d>>[1] = Slash /\ <<Slash, b, d>>[1] = Slash /\ <<Slash, a, b, d>>[1] = Slash
  OBVIOUS
<1> HIDE DEF Text
<1>5. Text(Written(m)) /\ Written(m)[1] = IF m.way = "raw" THEN m.char ELSE Slash
  BY <1>1, <1>2, <1>3, <1>4 DEF Ways
<1> QED BY <1>5 DEF Text

\* What is read of a character is text.
LEMMA AsReadType ==
    ASSUME NEW m, m.char \in 0..255
    PROVE  AsRead(m) \in Seq(Nat)
<1>1. PICK ch \in Nat : ch = m.char
  OBVIOUS
<1>2. /\ <<LF>> \in Seq(Nat) /\ <<>> \in Seq(Nat) /\ <<ch>> \in Seq(Nat)
      /\ Letter(ch) \in Nat => <<Letter(ch)>> \in Seq(Nat)
  BY EmptySeq DEF LF
<1>3. Letter(ch) \in Nat
  BY DEF Letter
<1> QED BY <1>1, <1>2, <1>3 DEF AsRead

\* The escape at p is e, and read as what e stands for.
HasLetter(c, p, e) == p + 1 <= Len(c) /\ e = c[p + 1] /\ e \notin Octal

LetterIsRead(c, p, e) ==
    /\ Escape(c, p).size = 2
    /\ e = 110 => Escape(c, p).text = <<LF>>
    /\ e = 114 => Escape(c, p).text = <<>>
    /\ e = 116 => Escape(c, p).text = <<9>>
    /\ e \notin {110, 114, 116} => Escape(c, p).text = <<e>>

\* An escape that does not begin with an octal digit.
LEMMA EscapeRead ==
    ASSUME NEW c \in Seq(Nat), NEW p \in Nat \ {0}, NEW e, HasLetter(c, p, e)
    PROVE  LetterIsRead(c, p, e)
<1> USE DEF HasLetter, LetterIsRead
<1>1. PICK next : next = IF p < Len(c) THEN c[p + 1] ELSE Undefined
  OBVIOUS
<1>2. PICK m, o : m = OctalDigits(c, p) /\ o = Octets(c, p, m) % 256
  OBVIOUS
<1>3. next = e
  BY <1>1, LenProperties
<1>4. Escape(c, p) = CASE next = 110 -> [text |-> <<LF>>, size |-> 2]
                       [] next = 114 -> [text |-> <<>>, size |-> 2]
                       [] next = 116 -> [text |-> <<9>>, size |-> 2]
                       [] next \in Octal -> [text |-> <<o>>, size |-> m + 1]
                       [] OTHER -> [text |-> <<next>>, size |-> 2]
  BY <1>1, <1>2 DEF Escape
<1>5. CASE e = 110
  BY <1>3, <1>4, <1>5
<1>6. CASE e = 114
  BY <1>3, <1>4, <1>6
<1>7. CASE e = 116
  BY <1>3, <1>4, <1>7
<1>8. CASE e \notin {110, 114, 116}
  BY <1>3, <1>4, <1>8
<1> QED BY <1>5, <1>6, <1>7, <1>8

\* An escape of some octal digits is read as the number they write.
LEMMA OctalRead ==
    ASSUME NEW c \in Seq(Nat), NEW p \in Nat \ {0}, NEW k \in 1..3, p + k <= Len(c),
           \A i \in 1..k : c[p + i] \in Octal,
           k < 3 => c[p + k + 1] \notin Octal
    PROVE  Escape(c, p).text = <<Octets(c, p, k) % 256>> /\ Escape(c, p).size = k + 1
<1>1. PICK next : next = IF p < Len(c) THEN c[p + 1] ELSE Undefined
  OBVIOUS
<1>2. PICK m : m = OctalDigits(c, p)
  OBVIOUS
<1>3. PICK o : o = Octets(c, p, m) % 256
  OBVIOUS
<1>4. Len(c) \in Nat
  BY LenProperties
<1>5. next \in Octal
  <2>1. 1 \in 1..k /\ p < Len(c)
    BY <1>4
  <2> QED BY <1>1, <2>1
<1>6. m = k
  <2>1. /\ m \in 0..3 /\ \A i \in 1..m : p + i <= Len(c) /\ c[p + i] \in Octal
        /\ m < 3 => p + m + 1 > Len(c) \/ c[p + m + 1] \notin Octal
    BY <1>2, OctalDigitsFound
  <2>2. ASSUME m < k PROVE FALSE
    <3>1. PICK i \in 1..k : i = m + 1 /\ p + i = p + m + 1 /\ p + i <= Len(c) /\ m < 3
      BY <1>4, <2>1, <2>2
    <3>2. c[p + i] \in Octal
      OBVIOUS
    <3> QED BY <1>4, <2>1, <3>1, <3>2
  <2>3. ASSUME k < m PROVE FALSE
    <3>1. PICK i \in 1..m : i = k + 1 /\ p + i = p + k + 1 /\ k < 3
      BY <2>1, <2>3
    <3>2. c[p + i] \in Octal
      BY <2>1
    <3> QED BY <3>1, <3>2
  <2> QED BY <2>1, <2>2, <2>3
<1>7. Escape(c, p) = CASE next = 110 -> [text |-> <<LF>>, size |-> 2]
                       [] next = 114 -> [text |-> <<>>, size |-> 2]
                       [] next = 116 -> [text |-> <<9>>, size |-> 2]
                       [] next \in Octal -> [text |-> <<o>>, size |-> m + 1]
                       [] OTHER -> [text |-> <<next>>, size |-> 2]
  BY <1>1, <1>2, <1>3 DEF Escape
<1>8. next # 110 /\ next # 114 /\ next # 116
  BY <1>5 DEF Octal
<1>9. Escape(c, p) = [text |-> <<o>>, size |-> m + 1]
  BY <1>5, <1>7, <1>8
<1> QED BY <1>3, <1>6, <1>9

\* How deep parentheses are after a character.
After(m, depth) ==
    CASE RawIs(m, Open)  -> depth + 1
      [] RawIs(m, Close) -> depth - 1
      [] OTHER -> depth

\* A content has a text from a position on, and more after it.
HasAt(c, p, w) == p + Len(w) <= Len(c) /\ \A i \in 1..Len(w) : c[p + (i - 1)] = w[i]

\* A character of a string that was written, where the reader is.
IsWrittenAt(c, m, text, p, depth, w) ==
    /\ c \in Seq(Nat) /\ IsMark(m)
    /\ text \in Seq(Nat) /\ p \in Nat \ {0} /\ depth \in Nat
    /\ w = Written(m) /\ HasAt(c, p, w)
    /\ RawIs(m, Close) => depth > 0
    /\ m.way \in {"octal1", "octal2"} => c[p + Len(w)] \notin Octal

\* The letters of escapes are no octal digits, and tell what they stand for.
Escapes(ch, e) ==
    /\ e \notin Octal
    /\ ch = LF => e = 110
    /\ ch = 13 => e = 114
    /\ ch = 9 => e = 116
    /\ ch \in {8, 12} => e \in {98, 102}
    /\ ch \notin {LF, 13, 9, 8, 12} => e = ch /\ e \notin {110, 114, 116}

LEMMA Letters ==
    ASSUME NEW ch \in 0..255, ch \notin Octal \cup {110, 114, 116, 98, 102}
    PROVE  Escapes(ch, Letter(ch))
  BY DEF Escapes, Letter, Octal, LF

\* The escape of a character stands for what is read of it.
LEMMA EscapeUndone ==
    ASSUME NEW c, NEW m, NEW text, NEW p, NEW depth, NEW w,
           IsWrittenAt(c, m, text, p, depth, w), m.way # "raw"
    PROVE  Escape(c, p).text = AsRead(m) /\ Escape(c, p).size = Len(w)
<1> SUFFICES ASSUME c \in Seq(Nat), IsMark(m), p \in Nat \ {0}, w = Written(m), HasAt(c, p, w),
                    m.way \in {"octal1", "octal2"} => c[p + Len(w)] \notin Octal
             PROVE  Escape(c, p).text = AsRead(m) /\ Escape(c, p).size = Len(w)
  BY DEF IsWrittenAt
<1>0. PICK ch \in 0..255 : ch = m.char
  BY DEF IsMark
<1>1. PICK a, b, d : IsWritten(m, w, ch, a, b, d)
  <2>1. PICK a, b, d : IsWritten(m, Written(m), m.char, a, b, d)
    BY WrittenWays DEF IsMark
  <2>2. IsWritten(m, w, ch, a, b, d)
    BY <1>0, <2>1
  <2> QED BY <2>2
<1>2. /\ Len(c) \in Nat
      /\ m.way \in {"escaped", "octal1", "octal2", "octal3", "continued"}
      /\ m.way = "escaped" => ch \notin Octal \cup {110, 114, 116, 98, 102}
      /\ m.way = "octal1" => ch < 8
      /\ m.way = "octal2" => ch < 64
  BY <1>0, LenProperties DEF IsMark, Possible, Ways
<1>3. ASSUME NEW i \in 1..3, i + 1 <= Len(w), Len(w) \in 1..4
      PROVE  c[p + i] = w[i + 1] /\ p + i <= Len(c)
  <2>1. PICK j \in 1..Len(w) : j = i + 1 /\ p + (j - 1) = p + i
    BY <1>3
  <2>2. c[p + (j - 1)] = w[j] /\ p + Len(w) <= Len(c)
    BY DEF HasAt
  <2>3. p + i <= Len(c)
    BY <1>2, <1>3, <2>2
  <2> QED BY <2>1, <2>2, <2>3
<1>4. ASSUME NEW e, w = <<Slash, e>>, e \notin Octal
      PROVE  /\ Escape(c, p).size = Len(w)
             /\ e = 110 => Escape(c, p).text = <<LF>>
             /\ e = 114 => Escape(c, p).text = <<>>
             /\ e = 116 => Escape(c, p).text = <<9>>
             /\ e \notin {110, 114, 116} => Escape(c, p).text = <<e>>
  <2>1. Len(w) = 2 /\ w[2] = e
    BY <1>4
  <2>2. p + 1 <= Len(c) /\ e = c[p + 1] /\ e \notin Octal
    BY <1>3, <1>4, <2>1
  <2>3. c \in Seq(Nat) /\ p \in Nat \ {0} /\ HasLetter(c, p, e)
    BY <2>2 DEF HasLetter
  <2>4. LetterIsRead(c, p, e)
    BY ONLY <2>3, EscapeRead
  <2> QED BY ONLY <2>1, <2>4 DEF LetterIsRead
<1>5. CASE m.way = "escaped"
  <2>1. PICK e : e = Letter(ch)
    OBVIOUS
  <2>2. /\ e \notin Octal
        /\ ch = LF => e = 110
        /\ ch = 13 => e = 114
        /\ ch = 9 => e = 116
        /\ ch \in {8, 12} => e \in {98, 102}
        /\ ch \notin {LF, 13, 9, 8, 12} => e = ch /\ e \notin {110, 114, 116}
    <3>1. Escapes(ch, Letter(ch))
      BY <1>2, <1>5, Letters
    <3> QED BY <2>1, <3>1 DEF Escapes
  <2>3. /\ Escape(c, p).size = Len(w)
        /\ e = 110 => Escape(c, p).text = <<LF>>
        /\ e = 114 => Escape(c, p).text = <<>>
        /\ e = 116 => Escape(c, p).text = <<9>>
        /\ e \notin {110, 114, 116} => Escape(c, p).text = <<e>>
    <3>1. w = <<Slash, e>>
      BY <1>1, <1>5, <2>1 DEF IsWritten
    <3> QED BY <1>4, <2>2, <3>1
  <2>4. /\ ch = 13 => AsRead(m) = <<>>
        /\ ch \in {8, 12} => AsRead(m) = <<e>>
        /\ ch \notin {13, 8, 12} => AsRead(m) = <<ch>>
    BY <1>0, <1>5, <2>1 DEF AsRead
  <2> QED BY ONLY <2>2, <2>3, <2>4 DEF LF
<1>6. CASE m.way = "continued"
  <2>1. AsRead(m) = <<LF>>
    BY <1>6 DEF AsRead
  <2>2. w = <<Slash, LF>> /\ LF \notin Octal /\ LF \notin {110, 114, 116}
    BY <1>1, <1>6 DEF IsWritten, LF, Octal
  <2> QED BY <1>4, <2>1, <2>2
<1>7. ASSUME m.way \notin {"escaped", "continued"} PROVE AsRead(m) = <<ch>> /\ ch % 256 = ch
  <2>1. ch % 256 = ch
    OBVIOUS
  <2> QED BY <1>0, <1>7, <2>1 DEF AsRead
<1>8. CASE m.way = "octal1"
  <2>1. Len(w) = 2 /\ w[2] = d
    BY <1>1, <1>8 DEF IsWritten
  <2>2. c[p + 1] = d /\ p + 1 <= Len(c)
    BY <1>3, <2>1
  <2>3. c[p + 1 + 1] \notin Octal
    BY <1>8, <2>1
  <2>4. \A i \in 1..1 : c[p + i] \in Octal
    <3>1. 1..1 = {1}
      OBVIOUS
    <3> QED BY <1>1, <2>2, <3>1 DEF IsWritten, Octal
  <2>5. Escape(c, p).text = <<Octets(c, p, 1) % 256>> /\ Escape(c, p).size = 1 + 1
    BY <2>2, <2>3, <2>4, OctalRead
  <2>6. Octets(c, p, 1) = ch
    BY <1>1, <1>2, <1>8, <2>2 DEF IsWritten, Octets
  <2> QED BY <1>7, <1>8, <2>1, <2>5, <2>6
<1>9. CASE m.way = "octal2"
  <2>1. Len(w) = 3 /\ w[2] = b /\ w[3] = d
    BY <1>1, <1>9 DEF IsWritten
  <2>2. c[p + 1] = b /\ c[p + 2] = d /\ p + 2 <= Len(c)
    BY <1>3, <2>1
  <2>3. c[p + 2 + 1] \notin Octal
    BY <1>9, <2>1
  <2>4. \A i \in 1..2 : c[p + i] \in Octal
    <3>1. 1..2 = {1, 2}
      OBVIOUS
    <3> QED BY <1>1, <2>2, <3>1 DEF IsWritten, Octal
  <2>5. Escape(c, p).text = <<Octets(c, p, 2) % 256>> /\ Escape(c, p).size = 2 + 1
    BY <2>2, <2>3, <2>4, OctalRead
  <2>6. Octets(c, p, 2) = ch
    BY <1>1, <1>2, <1>9, <2>2 DEF IsWritten, Octets
  <2> QED BY <1>7, <1>9, <2>1, <2>5, <2>6
<1>10. CASE m.way = "octal3"
  <2>1. Len(w) = 4 /\ w[2] = a /\ w[3] = b /\ w[4] = d
    BY <1>1, <1>10 DEF IsWritten
  <2>2. c[p + 1] = a /\ c[p + 2] = b /\ c[p + 3] = d /\ p + 3 <= Len(c)
    BY <1>3, <2>1
  <2>3. \A i \in 1..3 : c[p + i] \in Octal
    <3>1. 1..3 = {1, 2, 3}
      OBVIOUS
    <3> QED BY <1>1, <2>2, <3>1 DEF IsWritten, Octal
  <2>4. Escape(c, p).text = <<Octets(c, p, 3) % 256>> /\ Escape(c, p).size = 3 + 1
    <3>1. PICK k \in 1..3 : k = 3
      OBVIOUS
    <3>2. p + k <= Len(c) /\ (\A i \in 1..k : c[p + i] \in Octal) /\ ~(k < 3)
      BY <2>2, <2>3, <3>1
    <3>3. Escape(c, p).text = <<Octets(c, p, k) % 256>> /\ Escape(c, p).size = k + 1
      BY <3>2, OctalRead
    <3> QED BY <3>1, <3>3
  <2>5. Octets(c, p, 3) = ch
    BY <1>1, <2>2 DEF IsWritten, Octets
  <2> QED BY <1>7, <1>10, <2>1, <2>4, <2>5
<1> QED BY <1>2, <1>5, <1>6, <1>8, <1>9, <1>10

\* One round of the reader undoes what the writer made of one character.
LEMMA CharacterRead ==
    ASSUME NEW c, NEW m, NEW text, NEW p, NEW depth, NEW w,
           IsWrittenAt(c, m, text, p, depth, w)
    PROVE  ReadStep(c, Reader(text, p, depth)) =
              Reader(text \o AsRead(m), p + Len(w), After(m, depth))
<1> SUFFICES ASSUME c \in Seq(Nat), IsMark(m), text \in Seq(Nat), p \in Nat \ {0}, depth \in Nat,
                    w = Written(m), HasAt(c, p, w), RawIs(m, Close) => depth > 0
             PROVE  ReadStep(c, Reader(text, p, depth)) =
                       Reader(text \o AsRead(m), p + Len(w), After(m, depth))
  BY DEF IsWrittenAt
<1>1. PICK s : s = Reader(text, p, depth)
  OBVIOUS
<1>2. /\ s \in ReadState /\ s.text = text /\ s.next = p /\ s.depth = depth /\ ~s.closed
  BY <1>1 DEF Reader, ReadState
<1>3. /\ Len(c) \in Nat /\ Len(w) \in Nat \ {0} /\ s.next <= Len(c)
      /\ w[1] = IF m.way = "raw" THEN m.char ELSE Slash
  <2>1. /\ w \in Seq(Nat) /\ Len(w) \in Nat \ {0}
        /\ w[1] = IF m.way = "raw" THEN m.char ELSE Slash
    BY WrittenType DEF IsMark
  <2>2. Len(c) \in Nat /\ p + Len(w) <= Len(c)
    BY LenProperties DEF HasAt
  <2> QED BY <1>2, <2>1, <2>2
<1>4. c[p] = w[1]
  <2>1. 1 \in 1..Len(w) /\ p + (1 - 1) = p
    BY <1>3
  <2> QED BY <2>1 DEF HasAt
<1>5. CASE m.way # "raw"
  <2>1. Escape(c, p).text = AsRead(m) /\ Escape(c, p).size = Len(w)
    BY <1>5, EscapeUndone
  <2>2. After(m, depth) = depth
    BY <1>5 DEF After, RawIs
  <2>3. ReadStep(c, s) = Reader(s.text \o Escape(c, s.next).text,
                                s.next + Escape(c, s.next).size, s.depth)
    BY <1>2, <1>3, <1>4, <1>5, ReadSteps
  <2> QED BY <1>1, <1>2, <2>1, <2>2, <2>3
<1>6. CASE m.way = "raw"
  <2>1. AsRead(m) = <<m.char>> /\ c[p] = m.char /\ m.char # Slash
    BY <1>3, <1>4, <1>6 DEF AsRead, IsMark, Possible
  <2>2. Len(w) = 1
    <3>1. w = <<m.char>>
      BY <1>6 DEF Written
    <3> QED BY <3>1
  <2>3. CASE m.char = Open
    <3>1. After(m, depth) = depth + 1
      BY <1>6, <2>3 DEF After, RawIs, Open, Close
    <3>2. ReadStep(c, s) = Reader(s.text \o <<Open>>, s.next + 1, s.depth + 1)
      BY <1>2, <1>3, <2>1, <2>3, ReadSteps
    <3> QED BY <1>1, <1>2, <2>1, <2>2, <2>3, <3>1, <3>2
  <2>4. CASE m.char = Close
    <3>1. After(m, depth) = depth - 1 /\ depth > 0
      BY <1>6, <2>4 DEF After, RawIs, Open, Close
    <3>2. ReadStep(c, s) = Reader(s.text \o <<Close>>, s.next + 1, s.depth - 1)
      BY <1>2, <1>3, <2>1, <2>4, <3>1, ReadSteps
    <3> QED BY <1>1, <1>2, <2>1, <2>2, <2>4, <3>1, <3>2
  <2>5. CASE m.char \notin {Open, Close}
    <3>1. After(m, depth) = depth
      BY <2>5 DEF After, RawIs
    <3>2. ReadStep(c, s) = Reader(s.text \o <<c[s.next]>>, s.next + 1, s.depth)
      BY <1>2, <1>3, <2>1, <2>5, ReadSteps
    <3> QED BY <1>1, <1>2, <2>1, <2>2, <3>1, <3>2
  <2> QED BY <2>3, <2>4, <2>5
<1> QED BY <1>5, <1>6

-----------------------------------------------------------------------------
(* Parentheses *)

Count(x, k, v) == Cardinality({i \in 1..k : RawIs(x[i], v)})

\* How often a character is written as it is among the first of a string.
LEMMA CountSteps ==
    ASSUME NEW x, NEW v, NEW k \in Nat
    PROVE  /\ Count(x, 0, v) = 0
           /\ Count(x, k, v) \in Nat
           /\ Count(x, k + 1, v) =
                 Count(x, k, v) + (IF RawIs(x[k + 1], v) THEN 1 ELSE 0)
<1>1. PICK A, B : A = {i \in 1..k : RawIs(x[i], v)} /\ B = {i \in 1..k + 1 : RawIs(x[i], v)}
  OBVIOUS
<1>2. IsFiniteSet(A)
  <2>1. IsFiniteSet(1..k) /\ A \subseteq 1..k
    BY <1>1, FS_Interval
  <2> QED BY <2>1, FS_Subset
<1>3. Cardinality(A) \in Nat
  BY <1>2, FS_CardinalityType
<1>4. Count(x, 0, v) = 0
  <2>1. {i \in 1..0 : RawIs(x[i], v)} = {}
    OBVIOUS
  <2> QED BY <2>1, FS_EmptySet DEF Count
<1>5. CASE RawIs(x[k + 1], v)
  <2>1. B = A \cup {k + 1} /\ k + 1 \notin A
    BY <1>1, <1>5
  <2>2. Cardinality(B) = Cardinality(A) + 1
    BY <1>2, <2>1, FS_AddElement
  <2> QED BY <1>1, <1>3, <1>4, <1>5, <2>2 DEF Count
<1>6. CASE ~RawIs(x[k + 1], v)
  <2>1. B = A
    BY <1>1, <1>6
  <2> QED BY <1>1, <1>3, <1>4, <1>6, <2>1 DEF Count
<1> QED BY <1>5, <1>6

DepthAt(x, k) == Count(x, k, Open) - Count(x, k, Close)

\* How deep parentheses are, character by character.
LEMMA DepthSteps ==
    ASSUME NEW x, NEW k \in Nat
    PROVE  /\ DepthAt(x, 0) = 0 /\ DepthAt(x, k) \in Int
           /\ DepthAt(x, k + 1) = After(x[k + 1], DepthAt(x, k))
<1>1. PICK a, b, a1, b1 : /\ a = Count(x, k, Open)
                          /\ b = Count(x, k, Close)
                          /\ a1 = Count(x, k + 1, Open)
                          /\ b1 = Count(x, k + 1, Close)
  OBVIOUS
<1>2. /\ a \in Nat /\ a1 = a + (IF RawIs(x[k + 1], Open) THEN 1 ELSE 0)
      /\ b \in Nat /\ b1 = b + (IF RawIs(x[k + 1], Close) THEN 1 ELSE 0)
  BY <1>1, CountSteps
<1>3. DepthAt(x, k) = a - b /\ DepthAt(x, k + 1) = a1 - b1
  BY <1>1 DEF DepthAt
<1>4. DepthAt(x, 0) = 0
  <2>1. /\ Count(x, 0, Open) = 0
        /\ Count(x, 0, Close) = 0
    BY CountSteps
  <2> QED BY <2>1 DEF DepthAt
<1>5. DepthAt(x, k + 1) = After(x[k + 1], DepthAt(x, k))
  <2>1. ~(RawIs(x[k + 1], Open) /\ RawIs(x[k + 1], Close))
    BY DEF RawIs, Open, Close
  <2>2. CASE RawIs(x[k + 1], Open)
    BY <1>2, <1>3, <2>1, <2>2 DEF After
  <2>3. CASE RawIs(x[k + 1], Close)
    BY <1>2, <1>3, <2>1, <2>3 DEF After
  <2>4. CASE ~RawIs(x[k + 1], Open) /\ ~RawIs(x[k + 1], Close)
    BY <1>2, <1>3, <2>4 DEF After
  <2> QED BY <2>2, <2>3, <2>4
<1> QED BY <1>2, <1>3, <1>4, <1>5

\* Of a string that may be written as it is, parentheses are never closed too often, and
\* all of them in the end.
LEMMA WritableDepths ==
    ASSUME NEW x, Writable(x), NEW n \in Nat, n = Len(x)
    PROVE  DepthAt(x, n) = 0 /\ \A k \in 0..n : DepthAt(x, k) \in Nat
<1>1. (\A k \in 1..n : DepthAt(x, k) >= 0) /\ DepthAt(x, n) = 0
  BY DEF Writable, DepthAt, Count
<1>2. ASSUME NEW k \in 0..n PROVE DepthAt(x, k) \in Nat
  <2>1. k \in Nat /\ (k = 0 \/ k \in 1..n)
    OBVIOUS
  <2>2. DepthAt(x, 0) = 0 /\ DepthAt(x, k) \in Int
    BY <2>1, DepthSteps
  <2> QED BY <1>1, <2>1, <2>2
<1> QED BY <1>1, <1>2

\* A value that a loop does not leave any more.
LEMMA Stays ==
    ASSUME NEW X, NEW f \in [Nat -> X], NEW m \in Nat, NEW z, f[m] = z,
           \A k \in Nat : f[k] = z => f[k + 1] = z
    PROVE  \A k \in Nat : k >= m => f[k] = z
<1>1. PICK S : S = {j \in Nat : f[m + j] = z}
  OBVIOUS
<1>2. 0 \in S
  BY <1>1
<1>3. ASSUME NEW j \in S PROVE j + 1 \in S
  <2>1. m + j \in Nat /\ m + (j + 1) = (m + j) + 1 /\ j \in Nat
    BY <1>1, <1>3
  <2>2. f[m + j] = z
    BY <1>1, <1>3
  <2>3. f[(m + j) + 1] = z
    BY <2>1, <2>2
  <2>4. f[m + (j + 1)] = z
    BY <2>1, <2>3
  <2> QED BY <1>1, <2>1, <2>4
<1>4. S = Nat
  BY <1>1, <1>2, <1>3, SetInduction
<1>5. ASSUME NEW k \in Nat, k >= m PROVE f[k] = z
  <2>1. k - m \in S /\ m + (k - m) = k
    BY <1>4, <1>5
  <2>2. f[m + (k - m)] = z
    BY <1>1, <2>1
  <2> QED BY <2>1, <2>2
<1> QED BY <1>5

\* Two texts one after the other.
LEMMA Concatenation ==
    ASSUME NEW a \in Seq(Nat), NEW b \in Seq(Nat)
    PROVE  /\ a \o b \in Seq(Nat) /\ Len(a \o b) = Len(a) + Len(b)
           /\ \A i \in 1..Len(a) : (a \o b)[i] = a[i]
           /\ \A i \in 1..Len(b) : (a \o b)[Len(a) + i] = b[i]
<1>1. Len(a) \in Nat /\ Len(b) \in Nat
  BY LenProperties
<1>2. a \o b \in Seq(Nat) /\ Len(a \o b) = Len(a) + Len(b)
  BY ConcatProperties
<1>3. \A i \in 1..Len(a) : (a \o b)[i] = a[i]
  OBVIOUS
<1>4. ASSUME NEW i \in 1..Len(b) PROVE (a \o b)[Len(a) + i] = b[i]
  <2>1. /\ Len(a) + i \in 1..Len(a) + Len(b) /\ ~(Len(a) + i <= Len(a))
        /\ (Len(a) + i) - Len(a) = i
    BY <1>1
  <2> QED BY <1>1, <2>1
<1> QED BY <1>2, <1>3, <1>4

\* A content of one string: the string begins at its second character, and is followed by
\* the closing parenthesis and the operator.
IsContent(c, body) == body \in Seq(Nat) /\ c = <<Open>> \o body \o <<Close, T, 106>>

LEMMA ContentShape ==
    ASSUME NEW body, NEW c, IsContent(c, body)
    PROVE  /\ c \in Seq(Nat) /\ Len(c) = Len(body) + 4 /\ Len(body) \in Nat
           /\ c[1] = Open /\ c[Len(body) + 2] = Close
           /\ c[Len(body) + 3] = T /\ c[Len(body) + 4] = 106
           /\ \A i \in 1..Len(body) : c[1 + i] = body[i]
<1> SUFFICES ASSUME body \in Seq(Nat), c = <<Open>> \o body \o <<Close, T, 106>>
             PROVE  /\ c \in Seq(Nat) /\ Len(c) = Len(body) + 4 /\ Len(body) \in Nat
                    /\ c[1] = Open /\ c[Len(body) + 2] = Close
                    /\ c[Len(body) + 3] = T /\ c[Len(body) + 4] = 106
                    /\ \A i \in 1..Len(body) : c[1 + i] = body[i]
  BY DEF IsContent
<1>1. PICK a, z : a = <<Open>> /\ z = <<Close, T, 106>>
  OBVIOUS
<1>2. /\ a \in Seq(Nat) /\ Len(a) = 1 /\ a[1] = Open
      /\ z \in Seq(Nat) /\ Len(z) = 3 /\ z[1] = Close /\ z[2] = T /\ z[3] = 106
  BY <1>1 DEF Open, Close, T
<1>3. PICK ab : ab = a \o body
  OBVIOUS
<1>4. PICK n \in Nat : n = Len(body)
  BY LenProperties
<1>5. /\ ab \in Seq(Nat) /\ Len(ab) = 1 + n /\ ab[1] = a[1]
      /\ \A i \in 1..n : ab[1 + i] = body[i]
  <2>1. 1 \in 1..Len(a)
    BY <1>2
  <2>2. /\ a \o body \in Seq(Nat) /\ Len(a \o body) = Len(a) + Len(body)
        /\ \A i \in 1..Len(a) : (a \o body)[i] = a[i]
        /\ \A i \in 1..Len(body) : (a \o body)[Len(a) + i] = body[i]
    <3>1. a \in Seq(Nat) /\ body \in Seq(Nat)
      BY <1>2
    <3> QED BY ONLY <3>1, Concatenation
  <2> QED BY <1>2, <1>3, <1>4, <2>1, <2>2
<1>6. c = ab \o z
  BY <1>1, <1>3
<1>7. /\ c \in Seq(Nat) /\ Len(c) = n + 4
      /\ \A i \in 1..1 + n : c[i] = ab[i]
      /\ \A i \in 1..3 : c[(1 + n) + i] = z[i]
  <2>1. (1 + n) + 3 = n + 4
    OBVIOUS
  <2>2. /\ ab \o z \in Seq(Nat) /\ Len(ab \o z) = Len(ab) + Len(z)
        /\ \A i \in 1..Len(ab) : (ab \o z)[i] = ab[i]
        /\ \A i \in 1..Len(z) : (ab \o z)[Len(ab) + i] = z[i]
    <3>1. ab \in Seq(Nat) /\ z \in Seq(Nat)
      BY <1>2, <1>5
    <3> QED BY ONLY <3>1, Concatenation
  <2>3. Len(ab) = 1 + n /\ Len(z) = 3
    BY <1>2, <1>5
  <2>4. c \in Seq(Nat) /\ Len(c) = (1 + n) + 3
    BY ONLY <1>6, <2>2, <2>3
  <2>5. (\A i \in 1..1 + n : c[i] = ab[i]) /\ (\A i \in 1..3 : c[(1 + n) + i] = z[i])
    BY ONLY <1>6, <2>2, <2>3
  <2> QED BY ONLY <2>1, <2>4, <2>5
<1>8. c[1] = Open
  <2>1. 1 \in 1..1 + n
    OBVIOUS
  <2> QED BY <1>2, <1>5, <1>7, <2>1
<1>9. c[n + 2] = Close /\ c[n + 3] = T /\ c[n + 4] = 106
  <2>1. n + 2 = (1 + n) + 1 /\ n + 3 = (1 + n) + 2 /\ n + 4 = (1 + n) + 3
    OBVIOUS
  <2>2. /\ c[(1 + n) + 1] = z[1] /\ c[(1 + n) + 2] = z[2] /\ c[(1 + n) + 3] = z[3]
    BY <1>7
  <2> QED BY <1>2, <2>1, <2>2
<1>10. ASSUME NEW i \in 1..n PROVE c[1 + i] = body[i]
  <2>1. 1 + i \in 1..1 + n
    OBVIOUS
  <2> QED BY <1>5, <1>7, <2>1
<1> QED BY <1>4, <1>7, <1>8, <1>9, <1>10

-----------------------------------------------------------------------------
(* The way of the reader through a string *)

\* Pieces, one after the other, in a content.
IsCopy(n, W, pre, c) ==
    /\ n \in Nat /\ \A i \in 1..n : W[i] \in Seq(Nat) /\ Len(W[i]) \in Nat \ {0}
    /\ IsJoined(pre, W, n)
    /\ c \in Seq(Nat) /\ Len(c) = Len(pre[n]) + 4
    /\ \A i \in 1..Len(pre[n]) : c[1 + i] = pre[n][i]

\* Every piece is where the ones before it end.
IsPieceAt(W, pre, c, k) ==
    /\ HasAt(c, 2 + Len(pre[k - 1]), W[k])
    /\ Len(pre[k - 1]) \in Nat /\ Len(pre[k]) = Len(pre[k - 1]) + Len(W[k])

LEMMA PiecesAt ==
    ASSUME NEW n, NEW W, NEW pre, NEW c, IsCopy(n, W, pre, c), NEW k \in 1..n
    PROVE  IsPieceAt(W, pre, c, k)
<1>1. /\ n \in Nat /\ k \in Nat /\ k - 1 \in 0..n /\ k \in 0..n /\ n \in 0..n
      /\ \A i \in 1..n : W[i] \in Seq(Nat)
      /\ IsJoined(pre, W, n)
      /\ Len(c) = Len(pre[n]) + 4 /\ \A i \in 1..Len(pre[n]) : c[1 + i] = pre[n][i]
  BY DEF IsCopy
<1>2. PICK a, w, b, z : a = pre[k - 1] /\ w = W[k] /\ b = pre[k] /\ z = pre[n]
  OBVIOUS
<1>3. a \in Seq(Nat) /\ w \in Seq(Nat) /\ b \in Seq(Nat) /\ z \in Seq(Nat) /\ b = a \o w
  BY <1>1, <1>2 DEF IsJoined
<1>4. PICK la, lw, lb, lz \in Nat : la = Len(a) /\ lw = Len(w) /\ lb = Len(b) /\ lz = Len(z)
  BY <1>3, LenProperties
<1>5. lb = la + lw /\ \A i \in 1..lw : b[la + i] = w[i]
  BY <1>3, <1>4, Concatenation
<1>6. lb <= lz /\ \A i \in 1..lb : z[i] = b[i]
  <2>1. n \in Nat /\ AreTexts(W, n) /\ IsJoined(pre, W, n) /\ k \in 0..n
    BY <1>1 DEF AreTexts
  <2>2. Begins(pre[k], pre[n])
    BY ONLY <2>1, JoinedGrows
  <2> QED BY <1>2, <1>4, <2>2 DEF Begins
<1>7. (2 + la) + lw <= Len(c)
  <2>1. Len(c) = lz + 4
    BY <1>1, <1>2, <1>4
  <2> QED BY <1>5, <1>6, <2>1
<1>8. ASSUME NEW i \in 1..lw PROVE c[(2 + la) + (i - 1)] = w[i]
  <2>1. PICK j : j = la + i /\ j \in 1..lb /\ j \in 1..lz /\ 1 + j = (2 + la) + (i - 1)
    BY <1>5, <1>6
  <2>2. b[j] = w[i]
    BY <1>5, <2>1
  <2>3. z[j] = b[j]
    BY <1>6, <2>1
  <2>4. c[1 + j] = z[j]
    BY <1>1, <1>2, <1>4, <2>1
  <2> QED BY <2>1, <2>2, <2>3, <2>4
<1>9. HasAt(c, 2 + la, w)
  BY <1>4, <1>7, <1>8 DEF HasAt
<1> QED BY <1>2, <1>4, <1>5, <1>9 DEF IsPieceAt

\* The reader after a character of a string that was written, and where it is then.
ReaderAt(x, pre, out, k) == Reader(out[k], 2 + Len(pre[k]), DepthAt(x, k))

\* A content of one string, and the reader's way through it.
IsReadingOf(x, n, W, pre, R, out, c, f) ==
    /\ n \in Nat /\ n = Len(x) /\ Writable(x)
    /\ \A i \in 1..n : x[i].char \in 0..255 /\ x[i].way \in Ways
    /\ \A i \in 1..n : W[i] = Written(x[i]) /\ R[i] = AsRead(x[i])
    /\ IsJoined(out, R, n)
    /\ IsJoined(pre, W, n)
    /\ c \in Seq(Nat) /\ Len(c) = Len(pre[n]) + 4 /\ c[Len(pre[n]) + 2] = Close
    /\ \A i \in 1..Len(pre[n]) : c[1 + i] = pre[n][i]
    /\ f[0] = Reader(<<>>, 2, 0)
    /\ \A k \in Nat : f[k + 1] = ReadStep(c, f[k])

\* The pieces of a string are in its content, and after one that ends in less than three
\* octal digits there is none.
LEMMA PiecesOfString ==
    ASSUME NEW x, NEW n, NEW W, NEW pre, NEW R, NEW out, NEW c, NEW f,
           IsReadingOf(x, n, W, pre, R, out, c, f)
    PROVE  \A k \in 1..n :
              /\ IsMark(x[k]) /\ W[k] = Written(x[k]) /\ Len(W[k]) \in Nat \ {0}
              /\ HasAt(c, 2 + Len(pre[k - 1]), W[k])
              /\ Len(pre[k - 1]) \in Nat /\ Len(pre[k]) = Len(pre[k - 1]) + Len(W[k])
              /\ x[k].way \in {"octal1", "octal2"} => c[2 + Len(pre[k])] \notin Octal
<1>1. /\ n \in Nat /\ n = Len(x) /\ Writable(x)
      /\ \A i \in 1..n : x[i].char \in 0..255 /\ x[i].way \in Ways
      /\ \A i \in 1..n : W[i] = Written(x[i])
      /\ IsJoined(pre, W, n) /\ c \in Seq(Nat)
      /\ Len(c) = Len(pre[n]) + 4 /\ c[Len(pre[n]) + 2] = Close
      /\ \A i \in 1..Len(pre[n]) : c[1 + i] = pre[n][i]
  BY DEF IsReadingOf
<1>2. ASSUME NEW k \in 1..n
      PROVE  /\ IsMark(x[k]) /\ W[k] = Written(x[k])
             /\ W[k] \in Seq(Nat) /\ Len(W[k]) \in Nat \ {0}
             /\ W[k][1] = IF x[k].way = "raw" THEN x[k].char ELSE Slash
  <2>1. PICK m : m = x[k]
    OBVIOUS
  <2>2. m.char \in 0..255 /\ m.way \in Ways /\ W[k] = Written(m)
    BY <1>1, <2>1
  <2>3. Possible(m)
    BY <1>1, <2>1 DEF Writable
  <2>4. /\ Written(m) \in Seq(Nat) /\ Len(Written(m)) \in Nat \ {0}
        /\ Written(m)[1] = IF m.way = "raw" THEN m.char ELSE Slash
    BY <2>2, WrittenType
  <2> QED BY <2>1, <2>2, <2>3, <2>4 DEF IsMark
<1>3. IsCopy(n, W, pre, c)
  BY <1>1, <1>2 DEF IsCopy
<1>4. ASSUME NEW k \in 1..n
      PROVE  /\ HasAt(c, 2 + Len(pre[k - 1]), W[k])
             /\ Len(pre[k - 1]) \in Nat /\ Len(pre[k]) = Len(pre[k - 1]) + Len(W[k])
  <2>1. IsPieceAt(W, pre, c, k)
    BY <1>3, PiecesAt
  <2> QED BY <2>1 DEF IsPieceAt
<1>5. ASSUME NEW k \in 1..n, x[k].way \in {"octal1", "octal2"}
      PROVE  c[2 + Len(pre[k])] \notin Octal
  <2>1. PICK p : p = 2 + Len(pre[k])
    OBVIOUS
  <2>2. Slash \notin Octal /\ Close \notin Octal
    BY DEF Slash, Close, Octal
  <2>3. CASE k = n
    <3>1. Len(pre[n]) \in Nat
      BY <1>1, LenProperties DEF IsJoined
    <3>2. p = Len(pre[n]) + 2
      BY <2>1, <2>3, <3>1
    <3> QED BY <1>1, <2>1, <2>2, <3>2
  <2>4. CASE k # n
    <3>1. PICK j \in 1..n : j = k + 1 /\ j - 1 = k
      BY <1>1, <2>4
    <3>2. HasAt(c, p, W[j]) /\ Len(pre[k]) \in Nat
      BY <1>4, <2>1, <3>1
    <3>3. 1 \in 1..Len(W[j]) /\ p + (1 - 1) = p
      BY <1>2, <2>1, <3>2
    <3>4. c[p] = W[j][1]
      BY <3>2, <3>3 DEF HasAt
    <3>5. x[j].way = "raw" => x[j].char \notin Octal
      BY <1>1, <1>5, <3>1 DEF Writable
    <3> QED BY <1>2, <2>1, <2>2, <3>4, <3>5
  <2> QED BY <2>3, <2>4
<1> QED BY <1>2, <1>4, <1>5

\* The reader goes through the pieces a writer made, one a round.
LEMMA PiecesRead ==
    ASSUME NEW x, NEW n, NEW W, NEW pre, NEW R, NEW out, NEW c, NEW f,
           IsReadingOf(x, n, W, pre, R, out, c, f)
    PROVE  f[n] = Reader(out[n], 2 + Len(pre[n]), 0) /\ n <= Len(pre[n])
<1>1. /\ n \in Nat /\ n = Len(x) /\ Writable(x) /\ IsJoined(pre, W, n) /\ IsJoined(out, R, n)
      /\ c \in Seq(Nat)
      /\ f[0] = Reader(<<>>, 2, 0)
      /\ \A k \in Nat : f[k + 1] = ReadStep(c, f[k])
  BY DEF IsReadingOf
<1>2. /\ out[0] = <<>> /\ pre[0] = <<>>
      /\ \A i \in 0..n : out[i] \in Seq(Nat)
      /\ \A i \in 1..n : out[i] = out[i - 1] \o R[i] /\ R[i] = AsRead(x[i])
  BY <1>1 DEF IsJoined, IsReadingOf
<1>3. DepthAt(x, n) = 0 /\ \A k \in 0..n : DepthAt(x, k) \in Nat
  BY <1>1, WritableDepths
<1>4. \A k \in Nat : DepthAt(x, 0) = 0 /\ DepthAt(x, k + 1) = After(x[k + 1], DepthAt(x, k))
  BY DepthSteps
<1>5. \A k \in 1..n :
         /\ IsMark(x[k]) /\ W[k] = Written(x[k]) /\ Len(W[k]) \in Nat \ {0}
         /\ HasAt(c, 2 + Len(pre[k - 1]), W[k])
         /\ Len(pre[k - 1]) \in Nat /\ Len(pre[k]) = Len(pre[k - 1]) + Len(W[k])
         /\ x[k].way \in {"octal1", "octal2"} => c[2 + Len(pre[k])] \notin Octal
  BY PiecesOfString
<1>6. PICK S : S = {k \in Nat : k <= n => f[k] = ReaderAt(x, pre, out, k) /\ k <= Len(pre[k])}
  OBVIOUS
<1>7. 0 \in S
  <2>1. Len(pre[0]) = 0 /\ 2 + 0 = 2
    BY <1>2, EmptySeq
  <2>2. f[0] = ReaderAt(x, pre, out, 0)
    BY <1>1, <1>2, <1>4, <2>1 DEF ReaderAt
  <2> QED BY <1>6, <2>1, <2>2
<1>8. ASSUME NEW k \in S PROVE k + 1 \in S
  <2> SUFFICES ASSUME k + 1 <= n
               PROVE  f[k + 1] = ReaderAt(x, pre, out, k + 1) /\ k + 1 <= Len(pre[k + 1])
    BY <1>6, <1>8
  <2>1. PICK j \in 1..n : j = k + 1 /\ j - 1 = k /\ k \in Nat /\ k \in 0..n
    BY <1>1, <1>6, <1>8
  <2>2. f[k] = ReaderAt(x, pre, out, k) /\ k <= Len(pre[k])
    BY <1>1, <1>6, <1>8, <2>1
  <2>3. PICK m, w, p, d, text : /\ m = x[j] /\ w = W[j] /\ p = 2 + Len(pre[k])
                                /\ d = DepthAt(x, k) /\ text = out[k]
    OBVIOUS
  <2>4. /\ IsMark(m) /\ w = Written(m) /\ Len(w) \in Nat \ {0} /\ HasAt(c, p, w)
        /\ Len(pre[k]) \in Nat /\ Len(pre[j]) = Len(pre[k]) + Len(w)
        /\ m.way \in {"octal1", "octal2"} => c[2 + Len(pre[j])] \notin Octal
    BY <1>5, <2>1, <2>3
  <2>5. p + Len(w) = 2 + Len(pre[j]) /\ p \in Nat \ {0}
    <3>1. p = 2 + Len(pre[k])
      BY <2>3
    <3>2. Len(pre[k]) \in Nat /\ Len(w) \in Nat \ {0} /\ Len(pre[j]) = Len(pre[k]) + Len(w)
      BY <2>4
    <3> QED BY ONLY <3>1, <3>2
  <2>6. DepthAt(x, j) = After(m, d) /\ DepthAt(x, j) \in Nat /\ d \in Nat
    <3>1. DepthAt(x, k + 1) = After(x[k + 1], DepthAt(x, k))
      BY <1>4, <2>1
    <3>2. DepthAt(x, j) = After(m, d)
      BY <2>1, <2>3, <3>1
    <3>3. j \in 0..n
      BY <1>1, <2>1
    <3> QED BY <1>3, <2>1, <2>3, <3>2, <3>3
  <2>7. RawIs(m, Close) => d > 0
    <3>1. RawIs(m, Close) => After(m, d) = d - 1
      BY DEF After, RawIs, Open, Close
    <3> QED BY <2>6, <3>1
  <2>8. text \in Seq(Nat) /\ text \o AsRead(m) = out[j]
    BY <1>2, <2>1, <2>3
  <2>9. ReadStep(c, Reader(text, p, d)) = Reader(text \o AsRead(m), p + Len(w), After(m, d))
    <3>1. m.way \in {"octal1", "octal2"} => c[p + Len(w)] \notin Octal
      BY <2>4, <2>5
    <3>2. IsWrittenAt(c, m, text, p, d, w)
      BY <1>1, <2>4, <2>5, <2>6, <2>7, <2>8, <3>1 DEF IsWrittenAt
    <3> QED BY ONLY <3>2, CharacterRead
  <2>10. f[k + 1] = ReadStep(c, Reader(text, p, d))
    BY <1>1, <2>1, <2>2, <2>3 DEF ReaderAt
  <2>11. f[j] = ReaderAt(x, pre, out, j)
    BY <2>1, <2>5, <2>6, <2>8, <2>9, <2>10 DEF ReaderAt
  <2>12. j <= Len(pre[j])
    BY <2>1, <2>2, <2>4
  <2> QED BY <2>1, <2>11, <2>12
<1>9. S = Nat
  BY <1>6, <1>7, <1>8, SetInduction
<1>10. f[n] = ReaderAt(x, pre, out, n) /\ n <= Len(pre[n])
  <2>1. n \in S /\ n <= n
    BY <1>1, <1>9
  <2> QED BY <1>6, <2>1
<1> QED BY <1>3, <1>10 DEF ReaderAt

\* The string that a reading of a content is about, what is read of it and where it ends.
IsStringOf(x, n, W, pre, R, out, c, f, m, text) ==
    /\ IsReadingOf(x, n, W, pre, R, out, c, f)
    /\ m = Len(pre[n]) /\ text = out[n]
    /\ f \in [Nat -> ReadState] /\ readString(c, 2) = f[Len(c)]

\* The string a writer made of characters is read to its end.
LEMMA StringRead ==
    ASSUME NEW x, NEW n, NEW W, NEW pre, NEW R, NEW out, NEW c, NEW f, NEW m, NEW text,
           IsStringOf(x, n, W, pre, R, out, c, f, m, text)
    PROVE  readString(c, 2) = [text |-> text, next |-> m + 3, depth |-> 0, closed |-> TRUE]
<1> SUFFICES ASSUME IsReadingOf(x, n, W, pre, R, out, c, f),
                    m = Len(pre[n]), text = out[n], f \in [Nat -> ReadState],
                    readString(c, 2) = f[Len(c)]
             PROVE  readString(c, 2) = [text |-> text, next |-> m + 3, depth |-> 0, closed |-> TRUE]
  BY DEF IsStringOf
<1>1. f[n] = Reader(text, 2 + m, 0) /\ n <= m /\ n \in Nat
  <2>1. n \in Nat
    BY DEF IsReadingOf
  <2>2. f[n] = Reader(out[n], 2 + Len(pre[n]), 0) /\ n <= Len(pre[n])
    BY PiecesRead
  <2> QED BY <2>1, <2>2
<1>2. /\ c \in Seq(Nat) /\ Len(c) = m + 4 /\ m \in Nat /\ c[m + 2] = Close
      /\ \A k \in Nat : f[k + 1] = ReadStep(c, f[k])
  <2>1. /\ c \in Seq(Nat) /\ Len(c) = m + 4 /\ c[m + 2] = Close
        /\ \A k \in Nat : f[k + 1] = ReadStep(c, f[k])
    BY DEF IsReadingOf
  <2>2. IsJoined(pre, W, n) /\ n \in 0..n
    BY <1>1 DEF IsReadingOf
  <2>3. pre[n] \in Seq(Nat)
    BY <2>2 DEF IsJoined
  <2> QED BY <2>1, <2>3, LenProperties
<1>3. PICK z : z = [text |-> text, next |-> m + 3, depth |-> 0, closed |-> TRUE]
  OBVIOUS
<1>4. f[n + 1] = z
  <2>1. PICK s : s = f[n]
    OBVIOUS
  <2>2. s \in ReadState /\ f[n + 1] = ReadStep(c, s)
    BY <1>1, <1>2, <2>1
  <2>3. s.text = text /\ s.next = m + 2 /\ s.depth = 0 /\ ~s.closed
    BY <1>1, <1>2, <2>1 DEF Reader
  <2>4. s.next <= Len(c) /\ c[s.next] = Close /\ (m + 2) + 1 = m + 3
    BY <1>2, <2>3
  <2>5. ReadStep(c, s) = [text |-> s.text, next |-> s.next + 1, depth |-> 0, closed |-> TRUE]
    BY <1>2, <2>2, <2>3, <2>4, ReadSteps
  <2> QED BY <1>3, <2>2, <2>3, <2>4, <2>5
<1>5. ASSUME NEW k \in Nat, f[k] = z PROVE f[k + 1] = z
  <2>1. z \in ReadState
    BY <1>5
  <2>2. z.closed
    BY <1>3
  <2> QED BY <1>2, <1>5, <2>1, <2>2, ReadSteps
<1>6. n + 1 \in Nat /\ Len(c) \in Nat /\ Len(c) >= n + 1
  <2>1. n \in Nat /\ n <= m /\ m \in Nat /\ Len(c) = m + 4
    BY <1>1, <1>2
  <2> QED BY ONLY <2>1
<1>7. PICK r \in Nat : r = n + 1
  BY <1>6
<1>8. \A k \in Nat : k >= r => f[k] = z
  <2>1. r \in Nat /\ f[r] = z /\ \A k \in Nat : f[k] = z => f[k + 1] = z
    BY <1>4, <1>5, <1>7
  <2>2. f \in [Nat -> ReadState]
    OBVIOUS
  <2> QED BY ONLY <2>1, <2>2, Stays
<1> QED BY <1>3, <1>6, <1>7, <1>8

\* What a writer made of characters, each in a way it may be written, is read as what is
\* read of each of them.
LEMMA StringsAreRead ==
    ASSUME NEW x \in Seq(Mark), Writable(x)
    PROVE  extractFromContent(Content(x)) = FlattenSeq([i \in DOMAIN x |-> AsRead(x[i])])
<1>1. PICK n \in Nat : n = Len(x) /\ DOMAIN x = 1..n
  BY LenProperties
<1>2. \A i \in 1..n : x[i].char \in 0..255 /\ x[i].way \in Ways
  <2> SUFFICES ASSUME NEW i \in 1..n PROVE x[i].char \in 0..255 /\ x[i].way \in Ways
    OBVIOUS
  <2>1. x[i] \in Mark
    BY <1>1, ElementOfSeq
  <2> QED BY <2>1 DEF Mark
<1>3. PICK W, R : W = [i \in 1..n |-> Written(x[i])] /\ R = [i \in 1..n |-> AsRead(x[i])]
  OBVIOUS
<1>4. \A i \in 1..n : /\ W[i] = Written(x[i]) /\ W[i] \in Seq(Nat)
                      /\ R[i] = AsRead(x[i]) /\ R[i] \in Seq(Nat)
  <2> SUFFICES ASSUME NEW i \in 1..n
               PROVE  /\ W[i] = Written(x[i]) /\ W[i] \in Seq(Nat)
                      /\ R[i] = AsRead(x[i]) /\ R[i] \in Seq(Nat)
    OBVIOUS
  <2>1. PICK mark : mark = x[i]
    OBVIOUS
  <2>2. mark.char \in 0..255 /\ mark.way \in Ways
    BY <1>2, <2>1
  <2>3. Written(mark) \in Seq(Nat) /\ AsRead(mark) \in Seq(Nat)
    BY <2>2, WrittenType, AsReadType
  <2> QED BY <1>3, <2>1, <2>3
<1>5. PICK pre : IsJoined(pre, W, n) /\ FlattenSeq(W) = pre[n]
  <2>1. DOMAIN W = 1..n /\ W = [i \in 1..n |-> W[i]] /\ \A i \in 1..n : W[i] \in Seq(Nat)
    BY <1>3, <1>4
  <2> QED BY ONLY <2>1, n \in Nat, Joined
<1>6. PICK out : IsJoined(out, R, n) /\ FlattenSeq(R) = out[n]
  <2>1. DOMAIN R = 1..n /\ R = [i \in 1..n |-> R[i]] /\ \A i \in 1..n : R[i] \in Seq(Nat)
    BY <1>3, <1>4
  <2> QED BY ONLY <2>1, n \in Nat, Joined
<1>7. PICK c, body, text : c = Content(x) /\ body = pre[n] /\ text = out[n]
  OBVIOUS
<1>8. body \in Seq(Nat) /\ text \in Seq(Nat)
  BY <1>5, <1>6, <1>7 DEF IsJoined
<1>9. PICK m \in Nat : m = Len(body)
  BY <1>8, LenProperties
<1>10. /\ c \in Seq(Nat) /\ Len(c) = m + 4
       /\ c[1] = Open /\ c[m + 2] = Close
       /\ c[m + 3] = T /\ c[m + 4] = 106
       /\ \A i \in 1..m : c[1 + i] = body[i]
  <2>1. c = <<Open>> \o body \o <<Close, T, 106>>
    BY <1>1, <1>3, <1>5, <1>7 DEF Content
  <2>2. /\ c \in Seq(Nat) /\ Len(c) = Len(body) + 4
        /\ c[1] = Open /\ c[Len(body) + 2] = Close
        /\ c[Len(body) + 3] = T /\ c[Len(body) + 4] = 106
        /\ \A i \in 1..Len(body) : c[1 + i] = body[i]
    <3>1. IsContent(c, body)
      BY <1>8, <2>1 DEF IsContent
    <3> QED BY ONLY <3>1, ContentShape
  <2> QED BY <1>9, <2>2
<1>11. readString(c, 2) = [text |-> text, next |-> m + 3, depth |-> 0, closed |-> TRUE]
  <2>1. PICK f \in [Nat -> ReadState] :
              /\ f[0] = Reader(<<>>, 2, 0)
              /\ \A k \in Nat : f[k + 1] = ReadStep(c, f[k])
              /\ readString(c, 2) = f[Len(c)]
    <3>1. 2 \in Nat \ {0}
      OBVIOUS
    <3> QED BY <1>10, <3>1, ReadLoop, ZenonT(60)
  <2>2. IsReadingOf(x, n, W, pre, R, out, c, f)
    BY <1>1, <1>2, <1>4, <1>5, <1>6, <1>7, <1>9, <1>10, <2>1 DEF IsReadingOf
  <2>3. m = Len(pre[n]) /\ text = out[n]
    BY <1>7, <1>9
  <2>4. f \in [Nat -> ReadState] /\ readString(c, 2) = f[Len(c)]
    BY <2>1
  <2>5. IsStringOf(x, n, W, pre, R, out, c, f, m, text)
    BY <2>2, <2>3, <2>4 DEF IsStringOf
  <2> QED BY ONLY <2>5, StringRead
<1>12. PICK F \in [Nat -> ExtractState] :
              /\ F[0] = Extracted(<<>>, 1)
              /\ \A k \in Nat : F[k + 1] = ExtractStep(c, F[k])
              /\ extractFromContent(c) = F[Len(c)].text
  BY <1>10, ExtractLoop
<1>13. ASSUME NEW k \in Nat, NEW next, F[k] = Extracted(text, next), next \in {m + 3, m + 4}
       PROVE  F[k + 1] = Extracted(text, next + 1)
  <2>1. PICK s : s = F[k]
    OBVIOUS
  <2>2. s \in ExtractState /\ F[k + 1] = ExtractStep(c, s) /\ s.text = text /\ s.next = next
    BY <1>12, <1>13, <2>1 DEF Extracted
  <2>3. s.next <= Len(c)
    BY <1>10, <1>13, <2>2
  <2>4. c[next] \in {T, 106} /\ (c[next] = T => next < Len(c) /\ c[next + 1] = 106)
    <3>1. CASE next = m + 3
      <4>1. next < Len(c) /\ next + 1 = m + 4
        BY <1>10, <3>1
      <4> QED BY <1>10, <3>1, <4>1
    <3>2. CASE next = m + 4
      BY <1>10, <3>2 DEF T
    <3> QED BY <1>13, <3>1, <3>2
  <2>5. c[next] \notin Quotes \cup {Open}
    BY <2>4 DEF Quotes, Open, T
  <2>6. F[k + 1] = Extracted(s.text \o <<>>, s.next + 1)
    <3>1. /\ c \in Seq(Nat) /\ s \in ExtractState /\ s.next <= Len(c)
          /\ c[s.next] \notin Quotes \cup {Open}
          /\ c[s.next] = T => s.next < Len(c) /\ c[s.next + 1] = 106
      BY <1>10, <2>2, <2>3, <2>4, <2>5
    <3>2. ExtractStep(c, s) = Extracted(s.text \o <<>>, s.next + 1)
      BY ONLY <3>1, ExtractSteps
    <3> QED BY <2>2, <3>2
  <2>7. text \o <<>> = text
    BY <1>8, ConcatEmptySeq
  <2> QED BY <2>2, <2>6, <2>7
<1>14. F[1] = Extracted(text, m + 3)
  <2>1. PICK s : s = Extracted(<<>>, 1)
    OBVIOUS
  <2>2. s \in ExtractState /\ F[0 + 1] = ExtractStep(c, s)
    BY <1>12, <2>1
  <2>3. s.text = <<>> /\ s.next = 1 /\ 1 + 1 = 2 /\ 0 + 1 = 1
    BY <2>1 DEF Extracted
  <2>4. s.next <= Len(c)
    BY <1>10, <2>3
  <2>5. ExtractStep(c, s) = Extracted(s.text \o readString(c, s.next + 1).text,
                                      readString(c, s.next + 1).next)
    BY <1>10, <2>2, <2>3, <2>4, ExtractSteps
  <2>6. <<>> \o text = text
    BY <1>8, ConcatEmptySeq
  <2> QED BY <1>11, <2>2, <2>3, <2>5, <2>6
<1>15. F[3] = Extracted(text, m + 5)
  <2>1. F[1 + 1] = Extracted(text, (m + 3) + 1)
    BY <1>13, <1>14
  <2>2. F[2] = Extracted(text, m + 4)
    BY <2>1
  <2>3. F[2 + 1] = Extracted(text, (m + 4) + 1)
    BY <1>13, <2>2
  <2> QED BY <2>3
<1>16. \A k \in Nat : k >= 3 => F[k] = Extracted(text, m + 5)
  <2>1. PICK z : z = Extracted(text, m + 5)
    OBVIOUS
  <2>2. PICK r \in Nat : r = 3
    OBVIOUS
  <2>3. ASSUME NEW k \in Nat, F[k] = z PROVE F[k + 1] = z
    <3>1. z \in ExtractState
      BY <1>12, <2>3
    <3>2. z.next > Len(c)
      BY <1>10, <2>1 DEF Extracted
    <3>3. ExtractStep(c, z) = z
      BY <1>10, <3>1, <3>2, ExtractSteps
    <3> QED BY <1>12, <2>3, <3>3
  <2>4. F \in [Nat -> ExtractState] /\ F[r] = z
    BY <1>12, <1>15, <2>1, <2>2
  <2>5. \A k \in Nat : k >= r => F[k] = z
    BY ONLY <2>3, <2>4, r \in Nat, Stays
  <2> QED BY <2>1, <2>2, <2>5
<1>17. Len(c) \in Nat /\ Len(c) >= 3
  BY <1>10
<1>18. F[Len(c)].text = text
  BY <1>16, <1>17 DEF Extracted
<1>19. R = [i \in DOMAIN x |-> AsRead(x[i])]
  BY <1>1, <1>3
<1> QED BY <1>6, <1>7, <1>12, <1>18, <1>19

-----------------------------------------------------------------------------
(* The text of a document *)

\* A stream that is what its dictionary says is shown if it is a text stream, as it is.
LEMMA StreamIsShown ==
    ASSUME NEW s, Legible(s)
    PROVE  /\ ShowsText(ContentOf(s)) <=> Shows(s)
           /\ Shows(s) => ContentOf(s) = s.content
<1>1. PICK seen : seen = Keys(s)
  OBVIOUS
<1>2. /\ s.packed <=> "FlateDecode" \in seen
      /\ s.packed => "Length" \in seen /\ ("Image" \in seen => ~ShowsText(s.content))
  BY <1>1 DEF Legible
<1>3. Shows(s) <=> "Length" \in seen /\ "Image" \notin seen /\ ShowsText(s.content)
  BY <1>1 DEF Shows
<1>4. ContentOf(s) =
        CASE "FlateDecode" \in seen -> IF s.packed THEN s.content ELSE <<>>
          [] "FlateDecode" \notin seen /\ "Length" \in seen /\ "Image" \notin seen ->
                IF s.packed THEN s.bytes ELSE s.content
          [] OTHER -> <<>>
  <2>1. seen = IF s.nested THEN s.inner ELSE s.outer \cup s.inner
    BY <1>1 DEF Legible, Keys
  <2> QED BY <2>1, Zenon DEF ContentOf
<1>5. ~ShowsText(<<>>)
  <2>1. 1..Len(<<>>) - 1 = {}
    BY EmptySeq
  <2> QED BY <2>1 DEF ShowsText
<1>6. CASE "FlateDecode" \in seen
  BY <1>2, <1>3, <1>4, <1>6
<1>7. CASE "FlateDecode" \notin seen /\ "Length" \in seen /\ "Image" \notin seen
  BY <1>2, <1>3, <1>4, <1>7
<1>8. CASE "FlateDecode" \notin seen /\ ~("Length" \in seen /\ "Image" \notin seen)
  BY <1>3, <1>4, <1>5, <1>8
<1> QED BY <1>6, <1>7, <1>8

\* The text of a document of such streams is the text of those that show text.
LEMMA DocumentIsRead ==
    ASSUME NEW pdf, NEW n, n \in Nat, DOMAIN pdf = 1..n, \A i \in 1..n : Legible(pdf[i])
    PROVE  LET first(i) == \A j \in 1..i - 1 : ~Shows(pdf[j])
               line(i)  == IF ~Shows(pdf[i]) THEN <<>>
                           ELSE (IF first(i) THEN <<>> ELSE <<LF>>)
                                \o extractFromContent(pdf[i].content)
           IN  extractPdfText(pdf) = normalise(FlattenSeq([i \in DOMAIN pdf |-> line(i)]))
<1> DEFINE first(i) == \A j \in 1..i - 1 : ~Shows(pdf[j])
           line(i)  == IF ~Shows(pdf[i]) THEN <<>>
                       ELSE (IF first(i) THEN <<>> ELSE <<LF>>)
                            \o extractFromContent(pdf[i].content)
           shown(i) == /\ \A j \in 1..i : pdf[j].closed
                       /\ ShowsText(ContentOf(pdf[i]))
           feed(i)  == IF \E j \in 1..i - 1 : shown(j) THEN <<LF>> ELSE <<>>
           piece(i) == IF shown(i) THEN feed(i) \o extractFromContent(ContentOf(pdf[i])) ELSE <<>>
<1>1. extractPdfText(pdf) = normalise(FlattenSeq([i \in DOMAIN pdf |-> piece(i)]))
  BY Zenon DEF extractPdfText
<1>2. ASSUME NEW i \in 1..n PROVE shown(i) <=> Shows(pdf[i])
  <2>1. \A j \in 1..i : j \in 1..n
    BY <1>2
  <2>2. \A j \in 1..i : pdf[j].closed
    BY <2>1 DEF Legible
  <2>3. ShowsText(ContentOf(pdf[i])) <=> Shows(pdf[i])
    BY StreamIsShown
  <2> QED BY <2>2, <2>3
<1> HIDE DEF shown
<1>3. ASSUME NEW i \in 1..n PROVE piece(i) = line(i)
  <2>1. \A j \in 1..i - 1 : j \in 1..n
    BY <1>3
  <2>2. feed(i) = IF first(i) THEN <<>> ELSE <<LF>>
    <3>1. (\E j \in 1..i - 1 : shown(j)) <=> ~first(i)
      BY <1>2, <2>1
    <3> HIDE DEF first
    <3> QED BY <3>1
  <2>3. Shows(pdf[i]) => ContentOf(pdf[i]) = pdf[i].content
    BY StreamIsShown
  <2> HIDE DEF feed, first
  <2> QED BY <1>2, <2>2, <2>3
<1> HIDE DEF piece, line
<1>4. [i \in DOMAIN pdf |-> piece(i)] = [i \in DOMAIN pdf |-> line(i)]
  BY <1>3
<1>5. extractPdfText(pdf) = normalise(FlattenSeq([i \in DOMAIN pdf |-> line(i)]))
  BY <1>1, <1>4
<1> QED BY <1>5 DEF line

\* Of a string in parentheses, of any length and with every character written in any of
\* the ways it may be, the reader reads what AsRead says of each character, in order: the
\* character, but for \r, \b, \f and the ends of continued lines.  And the text of a
\* document is that of its text streams, in order (pdf-text.ts:10-76).
THEOREM TextIsRead == Spec => []PdfTextIsRead
<1>1. AnswersInv => PdfTextIsRead
  <2> SUFFICES ASSUME AnswersInv PROVE PdfTextIsRead
    OBVIOUS
  <2>1. ASSUME Answered("read")
        PROVE  answer = FlattenSeq([i \in DOMAIN question.string |-> AsRead(question.string[i])])
    <3>1. /\ answer = extractFromContent(question.content)
          /\ question.string \in Strings /\ Writable(question.string)
          /\ question.content = Content(question.string)
      BY <2>1 DEF AnswersInv, ReadInv, Answered
    <3>2. PICK x : x = question.string
      OBVIOUS
    <3>3. x \in Seq(Mark) /\ Writable(x)
      BY <3>1, <3>2, CalculationsAssumption
    <3>4. extractFromContent(Content(x)) = FlattenSeq([i \in DOMAIN x |-> AsRead(x[i])])
      BY ONLY <3>3, StringsAreRead
    <3> QED BY <3>1, <3>2, <3>4, Zenon
  <2>2. ASSUME Answered("extract"), \A i \in DOMAIN question.pdf : Legible(question.pdf[i])
        PROVE  LET first(i) == \A j \in 1..i - 1 : ~Shows(question.pdf[j])
                   line(i)  == IF ~Shows(question.pdf[i]) THEN <<>>
                               ELSE (IF first(i) THEN <<>> ELSE <<LF>>)
                                    \o extractFromContent(question.pdf[i].content)
               IN  answer = normalise(FlattenSeq([i \in DOMAIN question.pdf |-> line(i)]))
    <3>1. answer = extractPdfText(question.pdf) /\ question.pdf \in Seq(PdfStream)
      BY <2>2, CalculationsAssumption DEF AnswersInv, ExtractInv, Answered
    <3>2. PICK n \in Nat : n = Len(question.pdf) /\ DOMAIN question.pdf = 1..n
      BY <3>1, LenProperties
    <3>3. \A i \in 1..n : Legible(question.pdf[i])
      BY <2>2, <3>2
    <3> QED BY <3>1, <3>2, <3>3, DocumentIsRead
  <2> QED BY <2>1, <2>2 DEF PdfTextIsRead
<1> QED BY <1>1, AnswersInductive, PTL

-----------------------------------------------------------------------------
(* The index *)

\* The beginning of a text.
LEMMA FirstOf ==
    ASSUME NEW text \in Seq(Nat), NEW k \in Nat \ {0}
    PROVE  /\ First(text, k) \in Seq(Nat)
           /\ text # <<>> => First(text, k) # <<>>
           /\ \A j \in DOMAIN First(text, k) : j \in DOMAIN text /\ First(text, k)[j] = text[j]
<1>1. PICK m : m = IF Len(text) < k THEN Len(text) ELSE k
  OBVIOUS
<1>2. Len(text) \in Nat /\ DOMAIN text = 1..Len(text)
  BY LenProperties
<1>3. m \in 0..Len(text) /\ First(text, k) = SubSeq(text, 1, m)
  BY <1>1, <1>2 DEF First
<1>4. /\ SubSeq(text, 1, m) \in Seq(Nat)
      /\ Len(SubSeq(text, 1, m)) = m
      /\ \A i \in 1..m : SubSeq(text, 1, m)[i] = text[i]
  <2>1. CASE m = 0
    BY <1>2, <1>3, <2>1, SubSeqProperties, EmptySeq
  <2>2. CASE m # 0
    BY <1>2, <1>3, <2>2, SubSeqProperties
  <2> QED BY <2>1, <2>2
<1>5. DOMAIN First(text, k) = 1..m
  BY <1>3, <1>4, LenProperties
<1>6. text # <<>> => m # 0
  BY <1>1, <1>2, EmptySeq
<1>7. m # 0 => First(text, k) # <<>>
  BY <1>3, <1>4, EmptySeq
<1> QED BY <1>2, <1>3, <1>4, <1>5, <1>6, <1>7

\* What is read of a file is text, and some, and all of it from where it says.
ReadsFrom(ocr, sources) ==
    /\ ocr.text \in Seq(Nat) /\ ocr.text # <<>>
    /\ \A j \in DOMAIN ocr.text :
          ocr.text[j] # NUL \/ \E source \in sources : NUL \in Range(source)

LEMMA PlaceholderReads == ASSUME NEW sources PROVE ReadsFrom(Placeholder, sources)
<1>1. Placeholder.text = <<91, 93>>
  BY DEF Placeholder
<1>2. <<91, 93>> \in Seq(Nat) /\ <<91, 93>> # <<>> /\ DOMAIN <<91, 93>> = 1..2
  OBVIOUS
<1>3. \A j \in 1..2 : <<91, 93>>[j] # NUL
  BY DEF NUL
<1> QED BY <1>1, <1>2, <1>3 DEF ReadsFrom

LEMMA TextReads ==
    ASSUME NEW sources, NEW text \in sources, text \in Seq(Nat), text # <<>>
    PROVE  ReadsFrom(Read(text), sources)
<1>1. Read(text).text = First(text, MaxText)
  BY DEF Read
<1>2. MaxText \in Nat \ {0}
  BY ReadingAssumption
<1>3. /\ First(text, MaxText) \in Seq(Nat) /\ First(text, MaxText) # <<>>
      /\ \A j \in DOMAIN First(text, MaxText) :
            j \in DOMAIN text /\ First(text, MaxText)[j] = text[j]
  BY <1>2, FirstOf
<1>4. \A j \in DOMAIN text : text[j] = NUL => NUL \in Range(text)
  BY DEF Range
<1> QED BY <1>1, <1>3, <1>4 DEF ReadsFrom

\* A text that is not blank, or longer than a number, is not empty.
LEMMA NotEmpty ==
    ASSUME NEW text \in Seq(Nat), ~Blank(text) \/ Len(text) > MinText
    PROVE  text # <<>>
<1>1. ASSUME text = <<>> PROVE FALSE
  <2>1. DOMAIN text = {} /\ Len(text) = 0
    BY <1>1, EmptySeq
  <2>2. MinText \in Nat
    BY ReadingAssumption
  <2> QED BY <2>1, <2>2 DEF Blank
<1> QED BY <1>1

TextOf(file) == IF file.pdf = Null THEN file.text ELSE extractPdfText(file.pdf)
SourcesOf(file, ai) == {TextOf(file)} \cup (IF ai.vision = Down THEN {} ELSE {ai.vision})

\* What a document is indexed by is a source of text, or a text without NUL.
LEMMA FileIsRead ==
    ASSUME NEW file \in Files, NEW ai \in Models
    PROVE  /\ ReadsFrom(extractText(file, ai), SourcesOf(file, ai))
           /\ ReadsFrom(mockExtractText(file), SourcesOf(file, ai))
<1>1. /\ file.text \in Seq(Nat) /\ (file.pdf = Null \/ file.pdf \in Seq(PdfStream))
      /\ ai.vision = Down \/ ai.vision \in Seq(Nat)
  BY CalculationsAssumption
<1>2. PICK sources : sources = SourcesOf(file, ai)
  OBVIOUS
<1>3. ReadsFrom(Placeholder, sources)
  BY PlaceholderReads
<1>4. ASSUME file.pdf # Null, Len(extractPdfText(file.pdf)) > MinText
      PROVE  ReadsFrom(Read(extractPdfText(file.pdf)), sources)
  <2>1. extractPdfText(file.pdf) \in Seq(Nat)
    BY <1>1, <1>4, PdfTextType
  <2>2. extractPdfText(file.pdf) \in sources
    BY <1>2, <1>4 DEF SourcesOf, TextOf
  <2>3. extractPdfText(file.pdf) # <<>>
    BY <1>4, <2>1, NotEmpty
  <2> QED BY <2>1, <2>2, <2>3, TextReads
<1>5. ASSUME file.pdf = Null, ~Blank(file.text) PROVE ReadsFrom(Read(file.text), sources)
  <2>1. file.text \in sources
    BY <1>2, <1>5 DEF SourcesOf, TextOf
  <2>2. file.text # <<>>
    BY <1>1, <1>5, NotEmpty
  <2> QED BY <1>1, <2>1, <2>2, TextReads
<1>6. ASSUME ai.vision # Down, ~Blank(ai.vision) PROVE ReadsFrom(Read(ai.vision), sources)
  <2>1. ai.vision \in sources
    BY <1>2, <1>6 DEF SourcesOf
  <2>2. ai.vision # <<>>
    BY <1>1, <1>6, NotEmpty
  <2> QED BY <1>1, <1>6, <2>1, <2>2, TextReads
<1>7. ReadsFrom(extractText(file, ai), sources)
  <2>1. PICK odd : extractText(file, ai) =
          CASE file.pdf # Null ->
                  IF Len(extractPdfText(file.pdf)) > MinText
                  THEN Read(extractPdfText(file.pdf)) ELSE Placeholder
            [] file.pdf = Null /\ ~Blank(file.text) /\ odd ->
                  Read(file.text)
            [] OTHER ->
                  IF /\ sniffImage(file) # Null /\ ai.configured
                     /\ ai.vision # Down /\ ~Blank(ai.vision)
                  THEN Read(ai.vision) ELSE Placeholder
    BY Zenon DEF extractText
  <2>2. CASE file.pdf # Null
    BY <1>3, <1>4, <2>1, <2>2
  <2>3. CASE file.pdf = Null /\ ~Blank(file.text) /\ odd
    BY <1>5, <2>1, <2>3
  <2>4. CASE file.pdf = Null /\ ~(~Blank(file.text) /\ odd)
    BY <1>3, <1>6, <2>1, <2>4
  <2> QED BY <2>2, <2>3, <2>4
<1>8. ReadsFrom(mockExtractText(file), sources)
  <2>1. PICK start : start = First(file.text, 200)
    OBVIOUS
  <2>2. PICK head : head = [i \in 1..Len(start) |->
                        IF file.text[i] \in Kept THEN file.text[i] ELSE 32]
    OBVIOUS
  <2>3. mockExtractText(file) =
          IF file.pdf # Null /\ Len(extractPdfText(file.pdf)) > MinText
          THEN Read(extractPdfText(file.pdf))
          ELSE IF Blank(head) THEN Placeholder ELSE [placeholder |-> FALSE, text |-> trim(head)]
    BY <2>1, <2>2, Zenon DEF mockExtractText
  <2>4. Len(start) \in Nat
    <3>1. start \in Seq(Nat)
      BY <1>1, <2>1, FirstOf
    <3> QED BY <3>1, LenProperties
  <2>5. ASSUME NEW x
        PROVE  (IF x \in Kept THEN x ELSE 32) \in Nat \ {0}
    <3>1. Kept \subseteq Nat \ {0}
      BY DEF Kept, LF
    <3>2. x \in Kept => x \in Nat \ {0}
      BY <3>1
    <3>3. 32 \in Nat \ {0}
      OBVIOUS
    <3> QED BY <3>2, <3>3, Zenon
  <2>6. head \in Seq(Nat) /\ DOMAIN head = 1..Len(start)
    <3>1. head \in [1..Len(start) -> Nat]
      BY <2>2, <2>5
    <3> QED BY <2>4, <3>1, IsASeq
  <2>7. \A i \in DOMAIN head : head[i] # NUL
    BY <2>2, <2>6, <2>5 DEF NUL
  <2>8. ASSUME ~Blank(head) PROVE ReadsFrom([placeholder |-> FALSE, text |-> trim(head)], sources)
    <3>1. trim(head) \in Seq(Nat) /\ trim(head) # <<>>
      BY <2>6, <2>8, Trimmed
    <3>2. \A j \in DOMAIN trim(head) : trim(head)[j] # NUL
      BY <2>6, <2>7, Trimmed, SMTT(30)
    <3> QED BY <3>1, <3>2 DEF ReadsFrom
  <2> QED BY <1>3, <1>4, <2>3, <2>8
<1> QED BY <1>2, <1>7, <1>8

\* The classifier answers one of its categories, or that there is none.
LEMMA Classified ==
    ASSUME NEW words PROVE mockClassify(words) \in Categories \cup {"Ukategoriseret"}
<1>1. PICK rules : rules = <<"Tag", "El", "VVS", "Garanti", "Forsikring">>
  OBVIOUS
<1>2. PICK hits : hits = {i \in DOMAIN rules : rules[i] \in words}
  OBVIOUS
<1>3. DOMAIN rules = 1..5 /\ \A i \in 1..5 : rules[i] \in Categories
  BY <1>1, ReadingAssumption
<1>4. mockClassify(words) = IF hits = {} THEN "Ukategoriseret" ELSE rules[Min(hits)]
  BY <1>1, <1>2 DEF mockClassify
<1>5. hits \in SUBSET Nat /\ hits \subseteq 1..5
  BY <1>2, <1>3
<1>6. hits # {} => Min(hits) \in hits
  BY <1>5, FirstPosition
<1> QED BY <1>3, <1>4, <1>5, <1>6

\* Whatever the model answers, and if it does not, a document is indexed: a vector of the
\* schema's dimension, a category of the list, a text that is not empty, and that the
\* database takes unless the file's text or the model's has a NUL
\* (openai-ai.adapters.ts:23-99).
THEOREM DocumentsAreIndexed == Spec => []IndexingNeverBlocks
<1>1. AnswersInv => IndexingNeverBlocks
  <2> SUFFICES ASSUME AnswersInv, Answered("index") PROVE IndexingNeverBlocks
    BY DEF IndexingNeverBlocks
  <2>1. PICK file, ai : file = question.file /\ ai = question.ai
    OBVIOUS
  <2>2. file \in Files /\ ai \in Models /\ answer = index(file, ai)
    BY <2>1 DEF AnswersInv, IndexInv, Answered
  <2> DEFINE ocr   == IF ai.configured THEN extractText(file, ai) ELSE mockExtractText(file)
             chunk == First(ocr.text, 2000)
             data  == IF ai.configured THEN extract(ocr.text, ai)
                      ELSE [source |-> "mock", fields |-> Null]
  <2>3. /\ answer.chunk = chunk
        /\ answer.category = IF ai.configured THEN classify(ocr.text, ai) ELSE mockClassify(file.words)
        /\ answer.vector = embed(ocr.text, ai)
        /\ answer.stored <=> /\ NUL \notin {chunk[i] : i \in DOMAIN chunk}
                             /\ data.fields \notin {Down, Null} => ~data.fields.nul
    <3>1. answer = [chunk    |-> chunk,
                    read     |-> ~ocr.placeholder,
                    category |-> IF ai.configured THEN classify(ocr.text, ai)
                                 ELSE mockClassify(file.words),
                    metadata |-> data,
                    vector   |-> embed(ocr.text, ai),
                    stored   |-> /\ NUL \notin {chunk[i] : i \in DOMAIN chunk}
                                 /\ data.fields \notin {Down, Null} => ~data.fields.nul]
      BY <2>2, Zenon DEF index
    <3> HIDE DEF ocr, chunk, data
    <3> QED BY <3>1, Zenon
  <2>4. ReadsFrom(ocr, SourcesOf(file, ai))
    BY <2>2, FileIsRead
  <2> HIDE DEF ocr
  <2>5. answer.vector.size = 1536
    <3>1. Fallback(ocr.text).size = 1536
      BY Zenon DEF Fallback
    <3>2. embed(ocr.text, ai).size = 1536
      BY <3>1 DEF embed
    <3> QED BY <2>3, <3>2
  <2>6. answer.category \in Categories \cup {"Ukategoriseret"}
    <3>1. "Andet" \in Categories
      BY ReadingAssumption
    <3>2. classify(ocr.text, ai) \in Categories \cup {"Ukategoriseret"}
      BY <3>1 DEF classify
    <3> QED BY <2>3, <3>2, Classified
  <2>7. /\ chunk # <<>>
        /\ \A j \in DOMAIN chunk : j \in DOMAIN ocr.text /\ chunk[j] = ocr.text[j]
    <3>1. ocr.text \in Seq(Nat) /\ ocr.text # <<>>
      BY <2>4 DEF ReadsFrom
    <3>2. PICK k \in Nat \ {0} : k = 2000
      OBVIOUS
    <3>3. chunk = First(ocr.text, k)
      BY <3>2
    <3> HIDE DEF chunk
    <3> QED BY <3>1, <3>3, FirstOf
  <2> HIDE DEF chunk
  <2>8. data.fields \in {Null, ai.chat}
    BY DEF extract
  <2> HIDE DEF data
  <2>9. ~answer.stored => \/ (\E source \in SourcesOf(file, ai) : NUL \in Range(source))
                          \/ ai.chat \notin {Down, Null} /\ ai.chat.nul
    BY <2>3, <2>4, <2>7, <2>8 DEF ReadsFrom
  <2>10. ~answer.stored => \/ NUL \in Range(TextOf(file))
                           \/ ai.vision # Down /\ NUL \in Range(ai.vision)
                           \/ ai.chat \notin {Down, Null} /\ ai.chat.nul
    <3>1. SourcesOf(file, ai) = IF ai.vision = Down THEN {TextOf(file)}
                                ELSE {TextOf(file), ai.vision}
      BY DEF SourcesOf
    <3>2. CASE ai.vision = Down
      BY <2>9, <3>1, <3>2
    <3>3. CASE ai.vision # Down
      BY <2>9, <3>1, <3>3
    <3> QED BY <3>2, <3>3
  <2> QED BY <2>1, <2>3, <2>5, <2>6, <2>7, <2>10 DEF IndexingNeverBlocks, TextOf
<1> QED BY <1>1, AnswersInductive, PTL
================================================================================
