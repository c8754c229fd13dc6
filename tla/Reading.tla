------------------------------ MODULE Reading ------------------------------
(***************************************************************************)
(* How a document becomes text, category and vector (ai/), and how the     *)
(* index answers questions (search/): extractPdfText and its reader of     *)
(* content streams, the OpenAI adapters and their fallbacks, SearchService.*)
(*                                                                         *)
(* A text is a sequence of character codes.  The inflated bytes of a PDF   *)
(* stream and the answers of the language model are part of the input;     *)
(* Down is a failing call, Null an absent value.                           *)
(*                                                                         *)
(* A definition whose name ends in _ and a capitalised word is a mutant of *)
(* the one that follows it.                                                *)
(***************************************************************************)
EXTENDS Integers, Sequences, SequencesExt, Outside

CONSTANTS
    Categories,  \* what the classifier may answer, "Andet" among them
    MinText,     \* a PDF with no more text than this counts as scanned (20)
    MaxText      \* characters of a text that are used at most (20000)

ASSUME ReadingAssumption ==
    /\ {"Tag", "El", "VVS", "Garanti", "Forsikring", "Andet"} \subseteq Categories
    /\ MinText \in Nat /\ MaxText \in Nat \ {0}

NUL == 0
LF == 10
Open == 40
Close == 41
Slash == 92
T == 84
Quotes == {34, 39}
Octal == 48..55
Tabs == {9, 32}
White == 9..13 \cup {32, 160, 65279}

Undefined == 70000   \* not a character: the word "undefined"

-----------------------------------------------------------------------------
(* Strings in a content stream *)

\* The octal digits after the backslash at j, three at most.
OctalDigits_Four(c, j) ==
    CHOOSE m \in 0..4 : /\ \A k \in 1..m : j + k <= Len(c) /\ c[j + k] \in Octal
                        /\ m < 4 => j + m + 1 > Len(c) \/ c[j + m + 1] \notin Octal

OctalDigits(c, j) ==
    CHOOSE m \in 0..3 : /\ \A k \in 1..m : j + k <= Len(c) /\ c[j + k] \in Octal
                        /\ m < 3 => j + m + 1 > Len(c) \/ c[j + m + 1] \notin Octal

\* The number in the m octal digits after j.
Octets(c, j, m) ==
    LET d(k) == c[j + k] - 48
    IN  CASE m = 1 -> d(1) [] m = 2 -> 8 * d(1) + d(2) [] OTHER -> 64 * d(1) + 8 * d(2) + d(3)

\* What the escape at j stands for, and its length.
Escape(c, j) ==
    LET next == IF j < Len(c) THEN c[j + 1] ELSE Undefined
        m    == OctalDigits(c, j)
    IN  CASE next = 110 -> [text |-> <<LF>>, size |-> 2]
          [] next = 114 -> [text |-> <<>>, size |-> 2]
          [] next = 116 -> [text |-> <<9>>, size |-> 2]
          [] next \in Octal -> [text |-> <<Octets(c, j, m) % 256>>, size |-> m + 1]
          [] OTHER -> [text |-> <<next>>, size |-> 2]

\* One round of the loop of readString; parentheses nest.
ReadStep(c, s) ==
    LET on(text, size, depth) ==
            [text |-> s.text \o text, next |-> s.next + size, depth |-> depth, closed |-> FALSE]
        e == Escape(c, s.next)
    IN  CASE s.closed \/ s.next > Len(c) -> s
          [] ~s.closed /\ s.next <= Len(c) ->
                CASE c[s.next] = Slash -> on(e.text, e.size, s.depth)
                  [] c[s.next] = Open  -> on(<<Open>>, 1, s.depth + 1)
                  [] c[s.next] = Close /\ s.depth > 0 -> on(<<Close>>, 1, s.depth - 1)
                  [] c[s.next] = Close /\ s.depth = 0 ->
                        [text |-> s.text, next |-> s.next + 1, depth |-> 0, closed |-> TRUE]
                  [] OTHER -> on(<<c[s.next]>>, 1, s.depth)

\* readString: the string whose first character is at start, and where to go on.
readString(c, start) ==
    LET loop[k \in Nat] ==
            IF k = 0 THEN [text |-> <<>>, next |-> start, depth |-> 0, closed |-> FALSE]
            ELSE ReadStep(c, loop[k - 1])
    IN  loop[Len(c)]

\* One round of the loop of extractFromContent: a string, a line feed where the text
\* moves on, or nothing.
ExtractStep(c, s) ==
    LET i == s.next
        on(text, next) == [text |-> s.text \o text, next |-> next]
        string == readString(c, i + 1)
        NewLine == c[i] = T /\ i < Len(c) /\ c[i + 1] \in {100, 68, 42}
    IN  CASE i > Len(c) -> s
          [] i <= Len(c) ->
                CASE c[i] = Open -> on(string.text, string.next)
                  [] NewLine -> on(<<LF>>, i + 2)
                  [] c[i] \in Quotes -> on(<<LF>>, i + 1)
                  [] OTHER -> on(<<>>, i + 1)

extractFromContent(c) ==
    LET loop[k \in Nat] ==
            IF k = 0 THEN [text |-> <<>>, next |-> 1] ELSE ExtractStep(c, loop[k - 1])
    IN  loop[Len(c)].text

ShowsText(c) == \E i \in 1..Len(c) - 1 : c[i] = T /\ c[i + 1] \in {106, 74}

\* The content of a stream: its dictionary is taken to begin at the last "<<" before
\* it, so that only keys after a nested dictionary's beginning are seen.
ContentOf(s) ==
    LET seen == IF s.nested THEN s.inner ELSE s.outer \cup s.inner
    IN  CASE "FlateDecode" \in seen -> IF s.packed THEN s.content ELSE <<>>
          [] "FlateDecode" \notin seen /\ "Length" \in seen /\ "Image" \notin seen ->
                IF s.packed THEN s.bytes ELSE s.content
          [] OTHER -> <<>>

trim(text) ==
    LET ink == {i \in DOMAIN text : text[i] \notin White}
    IN  IF ink = {} THEN <<>> ELSE SubSeq(text, Min(ink), Max(ink))

\* A run of blanks becomes one, three or more line feeds two, and none stay at the ends.
normalise(text) ==
    LET blank(i) == i \in DOMAIN text /\ text[i] \in Tabs
        feed(i)  == i \in DOMAIN text /\ text[i] = LF
        piece(i) == CASE blank(i) /\ blank(i - 1) -> <<>>
                      [] blank(i) /\ ~blank(i - 1) /\ blank(i + 1) -> <<32>>
                      [] feed(i) /\ feed(i - 1) /\ feed(i - 2) -> <<>>
                      [] OTHER -> <<text[i]>>
    IN  trim(FlattenSeq([i \in DOMAIN text |-> piece(i)]))

\* extractPdfText: the streams in order up to one that has no end.
extractPdfText(pdf) ==
    LET shown(i) == /\ \A j \in 1..i : pdf[j].closed
                    /\ ShowsText(ContentOf(pdf[i]))
        feed(i)  == IF \E j \in 1..i - 1 : shown(j) THEN <<LF>> ELSE <<>>
    IN  normalise(FlattenSeq([i \in DOMAIN pdf |->
            IF shown(i) THEN feed(i) \o extractFromContent(ContentOf(pdf[i])) ELSE <<>>]))

-----------------------------------------------------------------------------
(* Text, category, metadata and vector *)

First(text, k) == SubSeq(text, 1, IF Len(text) < k THEN Len(text) ELSE k)
Blank(text) == \A i \in DOMAIN text : text[i] \in White

Printable == {9, LF, 13} \cup 32..126 \cup 160..65535

Read(text)  == [placeholder |-> FALSE, text |-> First(text, MaxText)]
Placeholder == [placeholder |-> TRUE, text |-> <<91, 93>>]

\* sniffImage: PNG, JPEG or WebP by the first bytes, if there are enough of them.
sniffImage(bytes) ==
    IF bytes.magic # Null /\ bytes.long THEN bytes.magic ELSE Null

\* OpenAiOcrAdapter.extractText: a text layer, a text, or what the model sees in an
\* image, and otherwise a placeholder.
extractText(bytes, ai) ==
    LET odd == Len(SelectSeq(bytes.text, LAMBDA c : c \notin Printable))
    IN  CASE bytes.pdf # Null ->
                IF Len(extractPdfText(bytes.pdf)) > MinText
                THEN Read(extractPdfText(bytes.pdf)) ELSE Placeholder
          [] bytes.pdf = Null /\ ~Blank(bytes.text) /\ 10 * odd < Len(bytes.text) ->
                Read(bytes.text)
          [] OTHER ->
                IF /\ sniffImage(bytes) # Null /\ ai.configured
                   /\ ai.vision # Down /\ ~Blank(ai.vision)
                THEN Read(ai.vision) ELSE Placeholder

\* OpenAiClassifier.classify: ai.chat is what the answer parses to.
classify(text, ai) ==
    CASE ~ai.configured \/ Blank(text) \/ ai.chat = Down \/ ai.chat = Null -> "Ukategoriseret"
      [] OTHER -> IF ai.chat.kategori \in Categories THEN ai.chat.kategori ELSE "Andet"

\* OpenAiMetadataExtractor.extract: the source is the adapter's word, not the model's; of
\* the fields it matters whether a string of theirs has a NUL.
extract(text, ai) ==
    CASE ~ai.configured \/ Blank(text) -> [source |-> "none", fields |-> Null]
      [] OTHER -> [source |-> "openai", fields |-> ai.chat]

\* OpenAiEmbeddingAdapter.embed: a vector of the schema's dimension in any case.
Fallback(text) ==
    [by |-> "seed", size |-> 1536,
     seed |-> FoldLeft(LAMBDA seed, c : (seed * 31 + c) % 1000, 0, text)]

embed_AnyLength(text, ai) ==
    IF ai.configured /\ ~Blank(text) /\ ai.vector # Down /\ ai.vector > 0
    THEN [by |-> "model", size |-> ai.vector, seed |-> 0] ELSE Fallback(text)

embed(text, ai) ==
    IF ai.configured /\ ~Blank(text) /\ ai.vector = 1536
    THEN [by |-> "model", size |-> ai.vector, seed |-> 0] ELSE Fallback(text)

\* What MockOcrAdapter keeps of a text: line feeds, ASCII and the Danish letters.
Kept == {LF} \cup 32..126 \cup {230, 248, 229, 198, 216, 197}

\* MockOcrAdapter: the text layer, or what it keeps of the first bytes.
mockExtractText(bytes) ==
    LET head == [i \in 1..Len(First(bytes.text, 200)) |->
                    IF bytes.text[i] \in Kept THEN bytes.text[i] ELSE 32]
    IN  IF bytes.pdf # Null /\ Len(extractPdfText(bytes.pdf)) > MinText
        THEN Read(extractPdfText(bytes.pdf))
        ELSE IF Blank(head) THEN Placeholder ELSE [placeholder |-> FALSE, text |-> trim(head)]

\* MockClassifier: the first rule one of whose words occurs.
mockClassify(words) ==
    LET rules == <<"Tag", "El", "VVS", "Garanti", "Forsikring">>
        hits  == {i \in DOMAIN rules : rules[i] \in words}
    IN  IF hits = {} THEN "Ukategoriseret" ELSE rules[Min(hits)]

\* The row of the index and what the document is updated to; the adapters are the
\* model's if there is a key for it, and the mocks otherwise.  Neither a text nor a jsonb
\* of the database takes a NUL.
index(bytes, ai) ==
    LET ocr   == IF ai.configured THEN extractText(bytes, ai) ELSE mockExtractText(bytes)
        text  == ocr.text
        chunk == First(text, 2000)
        data  == IF ai.configured THEN extract(text, ai) ELSE [source |-> "mock", fields |-> Null]
    IN  [chunk    |-> chunk,
         read     |-> ~ocr.placeholder,
         category |-> IF ai.configured THEN classify(text, ai) ELSE mockClassify(bytes.words),
         metadata |-> data,
         vector   |-> embed(text, ai),
         stored   |-> /\ NUL \notin {chunk[i] : i \in DOMAIN chunk}
                      /\ data.fields \notin {Down, Null} => ~data.fields.nul]

-----------------------------------------------------------------------------
(* Questions *)

\* search: the k nearest chunks of processed documents of the home the caller can read.
search(blank, chunks, home, k) ==
    LET rows   == SelectSeq(chunks, LAMBDA c : /\ c.visible /\ c.home = home
                                               /\ c.status = "processed")
        sorted == SortSeq(rows, LAMBDA a, b : a.distance < b.distance)
    IN  IF blank THEN <<>> ELSE First(sorted, k)

\* ask: no hits, excerpts without a model, the model's answer, or that there is none.
ask(hits, ai) ==
    [says |-> CASE hits = <<>> -> "nothing indexed"
                [] hits # <<>> /\ ~ai.configured -> "excerpts"
                [] hits # <<>> /\ ai.configured /\ ai.chat = Down -> "no answer now"
                [] OTHER -> "answer",
     sources |-> [i \in DOMAIN hits |-> hits[i].doc]]
=============================================================================
