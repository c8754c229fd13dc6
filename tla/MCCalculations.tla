--------------------------- MODULE MCCalculations ---------------------------
(* Questions for TLC: every combination of the answers that take another path. *)
EXTENDS Calculations

MCAddresses == {[head |-> "Laer", rest |-> 1]}

Array(rows)    == [kind |-> "array", rows |-> rows]
Features(rows) == [kind |-> "features", rows |-> rows]
Object(row)    == [kind |-> "object", rows |-> <<row>>]
Other          == [kind |-> "other", rows |-> <<>>]

House(year, area) == [year |-> year, area |-> area, use |-> "120"]
Child(named, numeric, value) == [named |-> named, numeric |-> numeric, value |-> value]

Service == [longEnough : {TRUE}, suggestions : {<<Null, [head |-> "0a3f", rest |-> 1]>>},
            resolve : {"found"}, configured : {TRUE},
            dar : {Down, <<>>, <<Child(FALSE, TRUE, 9), Child(TRUE, FALSE, 8), Child(TRUE, TRUE, 7)>>},
            grundInUse : {Down, Array(<<>>), Array(<<[id |-> Null]>>), Array(<<[id |-> "g"]>>)},
            grundAny : {Down, Other, Object([id |-> "g"])},
            bygInUse : {Down, Array(<<>>), Array(<<Null, House(Null, 9), House(1950, 3), House(1960, 4)>>),
                        Features(<<House(Null, Null)>>), Features(<<Null>>), Object(House(1970, 5))},
            bygAny : {Down, Other, Object(House(1980, 6))},
            foreignInUse : {Down, Array(<<>>), Array(<<House(Null, 9), House(1940, 3)>>)},
            foreignAny : {Down, Array(<<>>), Object(House(1930, 2))}]

Reaching == {s \in Service : s.dar # Down /\ s.dar # <<>> /\ s.grundInUse # Down}

MCServices ==
    Service
    \cup {[s EXCEPT !.configured = FALSE, !.resolve = r, !.suggestions = g, !.longEnough = l] :
             s \in {CHOOSE s \in Reaching : TRUE}, r \in {"found", Down},
             g \in {Down, <<>>, <<[head |-> "0a3f", rest |-> 2]>>}, l \in BOOLEAN}

Person == <<"cpr", "p">>
Buyer  == <<"cpr", "q">>
MCTokens == {Down, Null}
    \cup [nonce : {Null, "n", "m"}, acr : {"high", "low", "other"},
          cpr : {Null, Person}, dkCpr : {Null, Person}, sub : {Null, Person, Buyer}]
MCSessions == {Null, [nonce |-> "n"]}
MCOwnerRegisters == [configured : BOOLEAN,
    owners : {Down, <<>>, <<[cpr |-> Buyer, cvr |-> Null], [cpr |-> Null, cvr |-> <<"cvr", "c">>]>>,
              <<[cpr |-> Person, cvr |-> Null]>>}]

Chars == {NUL, 8, 9, LF, 12, 13, Open, Close, 48, 55, T, Slash, 110, 255}
Marks == {m \in [char : Chars, way : Ways] : Possible(m) /\ (m.way = "continued" => m.char = NUL)}
Tricky == {[char |-> c, way |-> "raw"] : c \in {Open, Close, 55, T}}
          \cup {[char |-> 7, way |-> w] : w \in {"octal1", "octal2"}}
          \cup {[char |-> c, way |-> "octal3"] : c \in {T, 255}}
          \cup {[char |-> c, way |-> "escaped"] : c \in {13, Close}}
MCStrings == UNION {[1..n -> Marks] : n \in 0..2} \cup UNION {[1..n -> Tricky] : n \in 3..4}

Shown == <<Open, 97, Slash, 48, 54, 55, 49, Close, T, 106>>
Stream == [outer |-> {"Length"}, inner |-> {}, nested |-> FALSE, packed |-> FALSE,
           closed |-> TRUE, content |-> Shown, bytes |-> <<1, 2>>]
Packed == [Stream EXCEPT !.outer = {"Length", "FlateDecode"}, !.packed = TRUE,
                         !.content = <<Open, 98, Close, T, 106>>]
Streams == {Stream, Packed, [Packed EXCEPT !.nested = TRUE, !.inner = {"Length"}],
            [Stream EXCEPT !.closed = FALSE], [Stream EXCEPT !.outer = {"Length", "Image"}],
            [Stream EXCEPT !.content = <<97, 98>>], [Stream EXCEPT !.outer = {}],
            [Packed EXCEPT !.outer = @ \cup {"Image"}, !.content = <<137, 80>>]}
MCPdfs == UNION {[1..n -> Streams] : n \in 0..4}

Upload == [pdf |-> Null, text |-> <<97, 98, 99, 100>>, magic |-> Null, long |-> TRUE,
           words |-> {"VVS", "El"}]
MCFiles == {Upload,
            [Upload EXCEPT !.pdf = <<Packed>>], [Upload EXCEPT !.pdf = <<Stream, Packed>>],
            [Upload EXCEPT !.pdf = <<Stream, [Stream EXCEPT !.content =
                                     <<Open, Slash, 48, Close, T, 106>>]>>],
            [Upload EXCEPT !.text = [i \in 1..12 |-> IF i = 3 THEN NUL ELSE 97]],
            [Upload EXCEPT !.text = <<32, LF>>, !.words = {}],
            [Upload EXCEPT !.text = <<1, 2, 97>>, !.magic = "image/png"],
            [Upload EXCEPT !.text = <<1, 2, 97>>, !.magic = "image/png", !.long = FALSE]}
MCModels == [configured : BOOLEAN,
             chat : {Down, Null, [kategori |-> "El", nul |-> TRUE]}
                    \cup [kategori : {Null, "El", "Andet", "Haveredskaber"}, nul : {FALSE}],
             vision : {Down, <<>>, <<97, 32>>, <<98, NUL>>}, vector : {Down, 0, 3, 1536}]

Chunk == [doc : {"x", "y"}, home : {"home", "other"}, visible : BOOLEAN,
          status : {"processed", "deleted"}, distance : {1, 2}]
MCIndexes == {<<>>} \cup [1..1 -> Chunk] \cup [1..2 -> Chunk]
             \cup [1..3 -> {c \in Chunk : c.home = "home" /\ c.visible /\ c.doc = "x"}]

Task == [status : {"open", "done"}, due : {Absent, 3, 4, 7}]
MCHomeRows == [now : {5}, tasks : UNION {[1..n -> Task] : n \in 0..3},
               warranties : {<<>>, <<4, 5>>, <<Absent, 6, 7, 4>>},
               owners : {<<>>, <<[mine |-> TRUE, open |-> TRUE, verified |-> TRUE]>>,
                         <<[mine |-> TRUE, open |-> FALSE, verified |-> TRUE],
                           [mine |-> TRUE, open |-> TRUE, verified |-> FALSE]>>},
               total : {0}, processed : {0}]
      \cup [now : {5}, tasks : UNION {[1..n -> Task] : n \in 0..2},
               warranties : {<<>>, <<Absent, 6, 7, 4>>},
               owners : {<<[mine |-> TRUE, open |-> TRUE, verified |-> TRUE]>>},
               total : {14}, processed : {0, 1, 7, 14}]

MCDates == {[y |-> y, m |-> m, d |-> d] : y \in {2023, 2024}, m \in 1..12, d \in 1..31}
MCDatesOfTheCalendar == {x \in MCDates : x.d <= DaysIn(x.y, x.m)}
=============================================================================
