---------------------------- MODULE Calculations ----------------------------
(***************************************************************************)
(* The parts of the program that compute: one question, put together from  *)
(* what the program can be asked and what the services outside answer, and *)
(* the program's answer to it.  The questions are constants; Registry,     *)
(* Reading and Overview hold the computations.                             *)
(***************************************************************************)
EXTENDS Registry, Reading, Overview, FiniteSets

CONSTANTS
    Addresses, Services,   \* of a lookup, and what the registers answer to it
    Tokens, Sessions,      \* MitID tokens and the sessions they come back to
    OwnerRegisters,        \* and what the register of owners answers
    Strings, Pdfs,         \* strings as a PDF writer writes them, PDF files
    Files, Models,         \* uploaded files, answers of the model
    Indexes, Hits,         \* chunks in the index, hits asked for
    HomeRows,              \* rows of a home
    Dates, Intervals       \* completion dates and intervals of recurring tasks

\* Rows of the registers, and what is read of a list of them (queryList).
Entry    == [named : BOOLEAN, numeric : BOOLEAN, value : Nat]
Ground   == [id : STRING \cup {Null}]
Building == [year : Int \cup {Null}, area : Int \cup {Null}, use : STRING \cup {Null}]
ListOf(Row) ==
    {Down} \cup [kind : {"array", "features"}, rows : Seq(Row \cup {Null})]
           \cup [kind : {"object"}, rows : [1..1 -> Row]]
           \cup [kind : {"other"}, rows : {<<>>}]

\* A character and the way it is written; a line that is continued is no character.
Ways == {"raw", "escaped", "octal1", "octal2", "octal3", "continued"}
Mark == [char : 0..255, way : Ways]

PdfStream == [outer : SUBSET STRING, inner : SUBSET STRING, nested : BOOLEAN,
              packed : BOOLEAN, closed : BOOLEAN, content : Seq(Nat), bytes : Seq(Nat)]

\* Of a home's documents no more are processed than there are.
HomeRow == [now : Int, tasks : Seq([status : {"open", "done"}, due : Int \cup {Absent}]),
            warranties : Seq(Int \cup {Absent}),
            owners : Seq([mine : BOOLEAN, open : BOOLEAN, verified : BOOLEAN]),
            total : Nat, processed : Nat]

ASSUME CalculationsAssumption ==
    /\ Null \notin Ground /\ Null \notin Building /\ Null \notin {"no number", "no building"}
    /\ \A s \in Services :
          /\ s.dar = Down \/ s.dar \in Seq(Entry)
          /\ s.grundInUse \in ListOf(Ground) /\ s.grundAny \in ListOf(Ground)
          /\ {s.bygInUse, s.bygAny, s.foreignInUse, s.foreignAny} \subseteq ListOf(Building)
    /\ \A x \in Strings : x \in Seq(Mark)
    /\ \A p \in Pdfs : p \in Seq(PdfStream)
    /\ \A f \in Files : /\ f.text \in Seq(Nat)
                        /\ f.pdf = Null \/ f.pdf \in Seq(PdfStream)
    /\ \A m \in Models : m.vision = Down \/ m.vision \in Seq(Nat)
    /\ \A d \in Dates : d.y \in Nat /\ d.m \in 1..12 /\ d.d \in 1..DaysIn(d.y, d.m)
    /\ Intervals \subseteq Nat
    /\ \A h \in HomeRows : h \in HomeRow /\ h.processed <= h.total

VARIABLES question, answer
vars == <<question, answer>>

-----------------------------------------------------------------------------
(* A writer of PDF strings: what the reader must undo *)

\* The letter of an escape, or the character itself.
Letter(c) ==
    CASE c = LF -> 110 [] c = 13 -> 114 [] c = 9 -> 116 [] c = 8 -> 98 [] c = 12 -> 102
      [] OTHER -> c

Written(m) ==
    LET digit(k) == 48 + ((m.char \div k) % 8)
    IN  CASE m.way = "raw"       -> <<m.char>>
          [] m.way = "escaped"   -> <<Slash, Letter(m.char)>>
          [] m.way = "octal1"    -> <<Slash, digit(1)>>
          [] m.way = "octal2"    -> <<Slash, digit(8), digit(1)>>
          [] m.way = "octal3"    -> <<Slash, digit(64), digit(8), digit(1)>>
          [] m.way = "continued" -> <<Slash, LF>>

\* What is not a line end or an escape to the format may be written as it is; what is not
\* read as another escape, after a backslash; and what the digits suffice for, in octal.
Possible(m) ==
    /\ m.way = "raw" => m.char \notin {Slash, 13}
    /\ m.way = "escaped" => m.char \notin Octal \cup {110, 114, 116, 98, 102}
    /\ m.way = "octal1" => m.char < 8
    /\ m.way = "octal2" => m.char < 64

RawIs(m, c) == m.way = "raw" /\ m.char = c

\* Parentheses are written as they are only if they are balanced, and a digit after an
\* octal number only if that has three.
Writable(x) ==
    LET Depth(k) == Cardinality({i \in 1..k : RawIs(x[i], Open)})
                    - Cardinality({i \in 1..k : RawIs(x[i], Close)})
    IN  /\ \A i \in 1..Len(x) : Possible(x[i]) /\ Depth(i) >= 0
        /\ Depth(Len(x)) = 0
        /\ \A i, j \in 1..Len(x) :
              x[i].way \in {"octal1", "octal2"} /\ x[j].way = "raw" /\ j = i + 1 =>
                  x[j].char \notin Octal

Content(x) ==
    <<Open>> \o FlattenSeq([i \in DOMAIN x |-> Written(x[i])]) \o <<Close, T, 106>>

\* A stream a reader of dictionaries can tell the content of, and one that shows text.
Keys(s) == s.outer \cup s.inner

Legible(s) ==
    /\ s.closed /\ ~s.nested
    /\ s.packed <=> "FlateDecode" \in Keys(s)
    /\ s.packed => "Length" \in Keys(s) /\ ("Image" \in Keys(s) => ~ShowsText(s.content))

Shows(s) == "Length" \in Keys(s) /\ "Image" \notin Keys(s) /\ ShowsText(s.content)

-----------------------------------------------------------------------------

Init ==
    /\ answer = Null
    /\ \/ \E a \in Addresses, s \in Services : question = [ask |-> "lookup", address |-> a, svc |-> s]
       \/ \E b \in BOOLEAN, t \in Tokens, p \in Sessions, s \in OwnerRegisters :
             question = [ask |-> "verify", broker |-> b, tok |-> t, pend |-> p, svc |-> s]
       \/ \E x \in Strings :
             /\ Writable(x)
             /\ question = [ask |-> "read", string |-> x, content |-> Content(x)]
       \/ \E p \in Pdfs : question = [ask |-> "extract", pdf |-> p]
       \/ \E f \in Files, m \in Models : question = [ask |-> "index", file |-> f, ai |-> m]
       \/ \E c \in Indexes, k \in Hits, m \in Models, b \in BOOLEAN :
             question = [ask |-> "ask", chunks |-> c, k |-> k, ai |-> m, blank |-> b]
       \/ \E h \in HomeRows : question = [ask |-> "overview", home |-> h]
       \/ \E d \in Dates, i \in Intervals : question = [ask |-> "complete", date |-> d, interval |-> i]
       \/ \E db \in {"up", "down"}, r \in {"none", "up", "refuses", "unreachable"} :
             question = [ask |-> "health", db |-> db, redis |-> r]

Answer(subject, value) ==
    /\ answer = Null
    /\ question.ask = subject
    /\ answer' = value
    /\ UNCHANGED question

Lookup   == Answer("lookup", lookupByAddress(question.address, question.svc))
Verify   == Answer("verify", handleCallback(question.broker, question.tok, question.pend,
                                            "number", question.svc))
ReadString == Answer("read", extractFromContent(question.content))
Extract  == Answer("extract", extractPdfText(question.pdf))
Index    == Answer("index", index(question.file, question.ai))
Ask      == LET hits == search(question.blank, question.chunks, "home", question.k)
            IN  Answer("ask", [hits |-> hits, reply |-> ask(hits, question.ai)])
Oversee  == Answer("overview", overview(question.home))
Complete == Answer("complete", NextDue(question.date, question.interval))
Health   == Answer("health", check(question.db, question.redis))

Next ==
    \/ Lookup  \/ Verify \/ ReadString \/ Extract \/ Index
    \/ Ask \/ Oversee \/ Complete \/ Health

Spec == Init /\ [][Next]_vars

Answered(subject) == question.ask = subject /\ answer # Null

-----------------------------------------------------------------------------
(* Registers *)

\* A service that fails is never taken for a service that found nothing: a lookup notes
\* "no number" or "no building" only after the registers said so, the search answers
\* "nothing indexed" only to no hits, and the health check is ok only if database and
\* Redis are (datafordeler-bbr.adapter.ts:67-111, search.service.ts:46-57,
\* health.controller.ts:31).
FailuresAreNotAbsence ==
    /\ Answered("lookup") /\ answer.note = "no number" =>
          /\ question.svc.dar # Down
          /\ \A i \in DOMAIN question.svc.dar :
                ~(question.svc.dar[i].named /\ question.svc.dar[i].numeric)
    /\ Answered("lookup") /\ answer.note = "no building" =>
          /\ question.svc.dar # Down /\ question.svc.grundInUse # Down
          /\ \/ Down \notin {question.svc.bygInUse, question.svc.bygAny}
             \/ Down \notin {question.svc.foreignInUse, question.svc.foreignAny}
    /\ Answered("ask") /\ answer.reply.says = "nothing indexed" => answer.hits = <<>>
    /\ Answered("health") /\ answer.status = "ok" =>
          question.db = "up" /\ question.redis # "refuses"

\* Nobody is verified as an owner by a failure: with a broker and a register configured,
\* a callback that succeeds had a session, an answer of the broker above level low
\* whose nonce, if any, is the session's, and the register named the person
\* (verification.service.ts:39-60, datafordeler-ejerfortegnelse.adapter.ts:33-36).
VerificationFailsClosed ==
    Answered("verify") /\ answer = TRUE /\ question.broker /\ question.svc.configured =>
        LET tok == question.tok
        IN  /\ question.pend # Null /\ tok # Down /\ tok # Null
            /\ tok.acr # "low" /\ tok.nonce \in {Null, question.pend.nonce}
            /\ question.svc.owners # Down
            /\ \E i \in DOMAIN question.svc.owners :
                  {question.svc.owners[i].cpr, question.svc.owners[i].cvr}
                    \cap ({tok.cpr, tok.dkCpr, tok.sub} \ {Null}) # {}

-----------------------------------------------------------------------------
(* Documents *)

\* What is read of a character: the character, except that \r is lost, \b and \f become
\* letters and a line that is continued keeps its end.
AsRead(m) ==
    CASE m.way = "continued" -> <<LF>>
      [] m.way = "escaped" /\ m.char = 13 -> <<>>
      [] m.way = "escaped" /\ m.char \in {8, 12} -> <<Letter(m.char)>>
      [] OTHER -> <<m.char>>

\* Of a string in parentheses every character is read, in order, in whatever ways they are
\* written: as they are, escaped, in one to three octal digits, with balanced parentheses
\* and continued lines; and as what it is, but for the exceptions AsRead names.  The text
\* of a PDF is the text of all its text streams, a line each, in order, whatever lies
\* between them, if its streams are what their dictionaries say, and no compressed image
\* holds a Tj by chance (pdf-text.ts:10-76).
PdfTextIsRead ==
    /\ Answered("read") =>
          answer = FlattenSeq([i \in DOMAIN question.string |-> AsRead(question.string[i])])
    /\ Answered("extract") /\ (\A i \in DOMAIN question.pdf : Legible(question.pdf[i])) =>
        LET first(i) == \A j \in 1..i - 1 : ~Shows(question.pdf[j])
            line(i)  == IF ~Shows(question.pdf[i]) THEN <<>>
                        ELSE (IF first(i) THEN <<>> ELSE <<LF>>)
                             \o extractFromContent(question.pdf[i].content)
        IN  answer = normalise(FlattenSeq([i \in DOMAIN question.pdf |-> line(i)]))

\* Whatever the language model answers, or if it does not, a document gets a vector of
\* the schema's dimension, a category of the list, a text that is not empty, and a
\* row the database takes, unless the text of the file, what the model saw in it or a
\* field it answers has a NUL (openai-ai.adapters.ts:23-99, ingestion.service.ts:59-75,
\* schema vector(1536)).
IndexingNeverBlocks ==
    Answered("index") =>
        LET file == question.file
            text == IF file.pdf = Null THEN file.text ELSE extractPdfText(file.pdf)
        IN  /\ answer.vector.size = 1536
            /\ answer.category \in Categories \cup {"Ukategoriseret"}
            /\ answer.chunk # <<>>
            /\ ~answer.stored => \/ NUL \in Range(text)
                                 \/ question.ai.vision # Down /\ NUL \in Range(question.ai.vision)
                                 \/ question.ai.chat \notin {Down, Null} /\ question.ai.chat.nul

-----------------------------------------------------------------------------
(* Homes *)

\* The score stays between 0 and 100, and what an owner does for the home never lowers
\* it: completing a task, having a document processed, registering a warranty
\* (properties.service.ts:61-66).
WorkPaysOff ==
    Answered("overview") =>
        LET h == question.home
            Done(i) == [h EXCEPT !.tasks[i].status = "done"]
        IN  /\ answer.score \in 0..100 /\ answer.grade \in 0..100
            /\ \A i \in DOMAIN h.tasks : Score(Done(i)) >= answer.score
            /\ h.processed < h.total => Score([h EXCEPT !.processed = @ + 1]) >= answer.score
            /\ Score([h EXCEPT !.warranties = Append(@, Absent)]) >= answer.score

\* The next occurrence of a recurring task is a date of the calendar, on the same day of
\* the month the interval leads to, or, if that month is too short, within the first
\* three days of the next one (maintenance.service.ts:50-51).
NextDueIsNear ==
    Answered("complete") =>
        LET months(d) == 12 * d.y + d.m
            target == months(question.date) + question.interval
        IN  /\ answer.d \in 1..DaysIn(answer.y, answer.m) /\ answer.m \in 1..12
            /\ \/ months(answer) = target /\ answer.d = question.date.d
               \/ months(answer) = target + 1 /\ answer.d <= 3 /\ question.date.d > 28
=============================================================================
