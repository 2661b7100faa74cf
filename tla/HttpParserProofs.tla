--------------------------- MODULE HttpParserProofs ---------------------------
(* Proofs about HttpParser for headers of any length, any names and values  *)
(* and any width of the length.                                             *)
EXTENDS HttpParser, TLAPS

-----------------------------------------------------------------------------
(* The inductive invariant: what has been read so far, and nothing else, is *)
(* in the request.                                                          *)

Keys == {KeyOf[name] : name \in Name}

Types ==
    /\ header \in Header
    /\ cursor \in 1..Len(header.lines) + 1
    /\ request \in HttpRequest
    /\ DOMAIN headers \subseteq Keys
    /\ headers \in [DOMAIN headers -> Value]
    /\ pc \in {"request_line", "header_lines", "returned"}
    /\ verdict \in ParseError

(* The first n lines are good, and headers_ has the last of each key.       *)
HeadersRead(n) ==
    /\ \A i \in 1..n : HeaderLineOk(header.lines[i])
    /\ \A key \in DOMAIN headers : \E i \in 1..n :
          LastWith(header, n, key, i) /\ headers[key] = header.lines[i].value
    /\ \A i \in 1..n : KeyOf[header.lines[i].name] \in DOMAIN headers

(* What `length' would be if `line' were the last Content-Length line.      *)
LengthOf(line, length) ==
    /\ IsNumber(line.value)
    /\ length = IF Denotes(line.value) < 0 THEN Word + Denotes(line.value)
                ELSE Denotes(line.value)

LengthRead(n) ==
    IF ~Given(header, n, "content-length") THEN request.content_length = NoLength
    ELSE \E i \in 1..n :
            /\ LastWith(header, n, "content-length", i)
            /\ LengthOf(header.lines[i], request.content_length)

RequestRead(n) ==
    /\ RequestLineOk(header.request_line)
    /\ request.method = header.request_line[1]
    /\ request.chunked <=> \E i \in 1..n : SaysChunked(header.lines[i])
    /\ LengthRead(n)

Read(n) == HeadersRead(n) /\ RequestRead(n)

Inv ==
    /\ Types
    /\ pc = "request_line" => cursor = 1 /\ headers = << >> /\ request = Cleared
    /\ pc = "header_lines" => Read(cursor - 1)
    /\ pc = "returned" => verdict = Verdict(header)
    /\ Accepted => Read(Len(header.lines))

LEMMA LengthsAre ==
    ASSUME header \in Header
    PROVE  /\ header.lines \in Seq(HeaderLine) /\ Len(header.lines) \in Nat
           /\ header.request_line \in Seq(STRING) /\ Len(header.request_line) \in Nat
PROOF
<1>1. header.lines \in Seq(HeaderLine) /\ header.request_line \in Seq(STRING)
    BY DEF Header
<1> QED
    BY <1>1

LEMMA LinesAre ==
    ASSUME Types, NEW i \in 1..Len(header.lines)
    PROVE  /\ Len(header.lines) \in Nat
           /\ header.lines[i] \in HeaderLine
           /\ header.lines[i].value \in Value
           /\ KeyOf[header.lines[i].name] \in Keys
PROOF
<1>1. header.lines \in Seq(HeaderLine)
    BY DEF Types, Header
<1>2. header.lines[i] \in HeaderLine /\ Len(header.lines) \in Nat
    BY <1>1
<1> QED
    BY <1>2 DEF HeaderLine, Keys

LEMMA InitInv == Init => Inv
PROOF
<1> SUFFICES ASSUME Init PROVE Inv
    OBVIOUS
<1>1. PICK line \in RequestLines, n \in 0..MaxLines : \E lines \in [1..n -> HeaderLines] :
         header = [request_line |-> line, lines |-> lines]
    BY DEF Init
<1>2. PICK lines \in [1..n -> HeaderLines] : header = [request_line |-> line, lines |-> lines]
    BY <1>1
<1>3. lines \in Seq(HeaderLine) /\ line \in Seq(STRING)
    <2>1. n \in Nat /\ HeaderLines \subseteq HeaderLine
        BY LinesAssumption
    <2>2. lines \in [1..n -> HeaderLine]
        BY <2>1
    <2> QED
        BY <2>1, <2>2, LinesAssumption
<1>4. header \in Header /\ Len(header.lines) \in Nat
    BY <1>2, <1>3 DEF Header
<1>5. request \in HttpRequest
    BY WordAssumption DEF Init, Cleared, HttpRequest
<1>6. DOMAIN headers = {} /\ headers \in [{} -> Value]
    <2>1. headers = << >>
        BY DEF Init
    <2>2. DOMAIN << >> = {}
        OBVIOUS
    <2>3. << >> \in [{} -> Value]
        OBVIOUS
    <2> QED
        BY <2>1, <2>2, <2>3
<1>7. Types
    BY <1>4, <1>5, <1>6 DEF Types, Init, ParseError
<1> QED
    BY <1>7 DEF Inv, Init, Accepted

-----------------------------------------------------------------------------
(* A number in range is taken as written, or as its complement.             *)
LEMMA StoullIs ==
    ASSUME NEW line \in HeaderLine, ParseContentLengthValue(line.value)
    PROVE  LengthOf(line, Stoull(line.value)) /\ Stoull(line.value) \in 0..Word - 1
PROOF
<1> DEFINE v == line.value
<1>1. v.digits \in Nat \cup {NoDigits} /\ v.digits # NoDigits /\ ~(v.digits >= Word) /\ ~v.junk
    BY DEF ParseContentLengthValue, StoullThrows, HeaderLine, Value
<1> DEFINE d == v.digits
<1>2. d \in Nat /\ Word \in Nat \ {0} /\ d < Word
    BY <1>1, WordAssumption
<1>3. IsNumber(v)
    BY <1>1, <1>2 DEF IsNumber
<1>4. CASE v.sign # "-"
    BY <1>2, <1>3, <1>4 DEF LengthOf, Denotes, Stoull
<1>5. CASE v.sign = "-"
    <2>1. Denotes(v) = -d /\ Stoull(v) = (Word - d) % Word
        BY <1>5 DEF Denotes, Stoull
    <2>2. CASE d = 0
        <3>1. Word % Word = 0
            BY <1>2
        <3> QED
            BY <1>2, <1>3, <2>1, <2>2, <3>1 DEF LengthOf
    <2>3. CASE d > 0
        <3>1. (Word - d) % Word = Word - d
            BY <1>2, <2>3
        <3> QED
            BY <1>2, <1>3, <2>1, <2>3, <3>1 DEF LengthOf
    <2> QED
        BY <1>2, <2>2, <2>3
<1> QED
    BY <1>4, <1>5

(* A line that is read is the last with its key, and with no other.         *)
LEMMA LastMoves ==
    ASSUME Types, cursor <= Len(header.lines), NEW key
    PROVE  LET line == header.lines[cursor]
               n == cursor - 1
           IN  /\ Has(line, key) => LastWith(header, cursor, key, cursor)
               /\ ~Has(line, key) =>
                     \A i \in 1..n : LastWith(header, n, key, i) => LastWith(header, cursor, key, i)
               /\ Given(header, cursor, key) <=> Given(header, n, key) \/ Has(line, key)
PROOF
<1>1. cursor \in Nat \ {0} /\ Len(header.lines) \in Nat
    BY LengthsAre DEF Types
<1>2. \A j \in 1..cursor : j \in 1..cursor - 1 \/ j = cursor
    BY <1>1
<1>3. \A j \in 1..cursor - 1 : j \in 1..cursor /\ cursor \in 1..cursor
    BY <1>1
<1>4. cursor + 1..cursor = {}
    BY <1>1
<1>5. \A i \in 1..cursor - 1 : \A j \in i + 1..cursor : j \in i + 1..cursor - 1 \/ j = cursor
    BY <1>1
<1>6. Has(header.lines[cursor], key) => LastWith(header, cursor, key, cursor)
    BY <1>1, <1>4 DEF LastWith
<1>7. ASSUME ~Has(header.lines[cursor], key), NEW i \in 1..cursor - 1,
             LastWith(header, cursor - 1, key, i)
      PROVE  LastWith(header, cursor, key, i)
    BY <1>3, <1>5, <1>7 DEF LastWith
<1>8. Given(header, cursor, key) <=>
         Given(header, cursor - 1, key) \/ Has(header.lines[cursor], key)
    BY <1>1, <1>2, <1>3 DEF Given
<1> QED
    BY <1>6, <1>7, <1>8

LEMMA GoesIfOk == \A line : RequestLineOk(line) <=> Goes(line)
PROOF
BY DEF RequestLineOk, Goes, Method, Version

LEMMA RequestLineInv ==
    ASSUME Inv, ParseRequestLine
    PROVE  Inv'
PROOF
<1> DEFINE line == header.request_line
<1>1. Types /\ cursor = 1 /\ headers = << >> /\ request = Cleared
      /\ UNCHANGED <<header, cursor, headers>>
    BY DEF Inv, ParseRequestLine
<1>2. line \in Seq(STRING) /\ Len(line) \in Nat /\ header \in Header
      /\ Len(header.lines) \in Nat
    BY <1>1, LengthsAre DEF Types
<1>3. CASE Len(line) >= 3 /\ Goes(line) /\ pc' = "header_lines" /\ UNCHANGED verdict
           /\ request' = [request EXCEPT !.method = line[1], !.version = line[3]]
    <2>1. RequestLineOk(line)
        BY <1>3, GoesIfOk
    <2>2. /\ request'.method = line[1] /\ request'.content_length = NoLength
          /\ request'.chunked = FALSE /\ request' \in HttpRequest
        BY <1>1, <1>3, <2>1, WordAssumption DEF Cleared, HttpRequest, RequestLineOk
    <2>3. Types'
        BY <1>1, <1>3, <2>2 DEF Types
    <2>4. cursor' - 1 = 0 /\ 1..0 = {}
        BY <1>1
    <2>5. HeadersRead(0)'
        BY <1>1, <2>4 DEF HeadersRead
    <2>6. RequestRead(0)'
        BY <1>1, <2>1, <2>2, <2>4 DEF RequestRead, LengthRead, Given
    <2>7. Read(cursor - 1)'
        BY <2>4, <2>5, <2>6 DEF Read
    <2> QED
        BY <1>3, <2>3, <2>7 DEF Inv, Accepted
<1>4. CASE (Len(line) < 3 \/ ~Goes(line)) /\ Return("kBadRequest") /\ UNCHANGED request
    <2>1. ~RequestLineOk(line)
        <3>1. RequestLineOk(line) => Goes(line) /\ Len(line) = 3
            BY GoesIfOk DEF RequestLineOk
        <3> HIDE DEF line
        <3> QED
            BY <1>2, <1>4, <3>1
    <2>2. Verdict(header) = "kBadRequest"
        BY <2>1 DEF Verdict
    <2>3. Types'
        BY <1>1, <1>4 DEF Types, Return, ParseError
    <2>4. Verdict(header)' = Verdict(header)
        BY <1>1
    <2> QED
        BY <1>4, <2>2, <2>3, <2>4 DEF Inv, Accepted, Return
<1> QED
    BY <1>3, <1>4 DEF ParseRequestLine

LEMMA HeaderLineInv ==
    ASSUME Inv, ParseHeaderLine
    PROVE  Inv'
PROOF
<1> DEFINE line == header.lines[cursor]
           key == KeyOf[line.name]
           chunked == key = "transfer-encoding" /\ "chunked" \in line.value.words
           n == cursor - 1
<1>1. /\ Types /\ Read(n) /\ pc = "header_lines" /\ cursor <= Len(header.lines)
      /\ header' = header
    BY DEF Inv, ParseHeaderLine
<1>2. /\ cursor \in 1..Len(header.lines) /\ cursor \in Nat \ {0} /\ Len(header.lines) \in Nat
      /\ n + 1 = cursor
    BY <1>1, LengthsAre DEF Types
<1>3. line \in HeaderLine /\ line.value \in Value /\ key \in Keys
    BY <1>1, <1>2, LinesAre
<1>4. ASSUME ~HeaderLineOk(line), Types', Return("kBadRequest") PROVE Inv'
    <2>1. Verdict(header) = "kBadRequest"
        BY <1>2, <1>4 DEF Verdict
    <2>2. Verdict(header)' = Verdict(header)
        BY <1>1
    <2> QED
        BY <1>4, <2>1, <2>2 DEF Inv, Accepted, Return
<1>5. ASSUME AddHeader(key, line.value)
      PROVE  /\ DOMAIN headers' = DOMAIN headers \cup {key}
             /\ headers'[key] = line.value
             /\ \A k \in DOMAIN headers : k # key => headers'[k] = headers[k]
             /\ DOMAIN headers' \subseteq Keys
             /\ headers' \in [DOMAIN headers' -> Value]
    BY <1>1, <1>3, <1>5 DEF AddHeader, Types
<1>6. CASE (~line.colon \/ key = "") /\ Return("kBadRequest")
           /\ UNCHANGED <<cursor, request, headers>>
    <2>1. Types'
        BY <1>1, <1>6 DEF Types, Return, ParseError
    <2> QED
        BY <1>4, <1>6, <2>1 DEF HeaderLineOk
<1>7. CASE AddHeader(key, line.value) /\ key = "content-length"
           /\ ~ParseContentLengthValue(line.value)
           /\ Return("kBadRequest") /\ UNCHANGED <<cursor, request>>
    <2>1. Types'
        BY <1>1, <1>5, <1>7 DEF Types, Return, ParseError
    <2>2. ~IsNumber(line.value)
        <3> DEFINE v == line.value
        <3>1. v.digits = NoDigits \/ v.digits >= Word \/ v.junk
            BY <1>7 DEF ParseContentLengthValue, StoullThrows
        <3>2. v.digits \in Nat \cup {NoDigits}
            BY <1>3 DEF Value
        <3> HIDE DEF v
        <3>3. ~(v.digits # NoDigits /\ v.digits < Word /\ ~v.junk)
            BY <3>1, <3>2, WordAssumption
        <3> QED
            BY <3>3 DEF IsNumber, v
    <2> QED
        BY <1>4, <1>7, <2>1, <2>2 DEF HeaderLineOk
<1>8. CASE /\ line.colon /\ key # "" /\ AddHeader(key, line.value)
           /\ key = "content-length" => ParseContentLengthValue(line.value)
           /\ request' = [request EXCEPT
                 !.chunked = @ \/ chunked,
                 !.content_length = IF key = "content-length"
                                    THEN Stoull(line.value) ELSE @]
           /\ cursor' = cursor + 1 /\ UNCHANGED <<pc, verdict>>
    <2>1. key = "content-length" =>
             LengthOf(line, Stoull(line.value)) /\ Stoull(line.value) \in 0..Word - 1
        BY <1>3, <1>8, StoullIs
    <2>2. HeaderLineOk(line)
        BY <1>8, <2>1 DEF HeaderLineOk, LengthOf
    <2>3. /\ request'.method = request.method
          /\ request'.chunked = (request.chunked \/ chunked)
          /\ request'.content_length =
                IF key = "content-length" THEN Stoull(line.value) ELSE request.content_length
          /\ request' \in HttpRequest
        BY <1>1, <1>8, <2>1 DEF Types, HttpRequest
    <2>4. Types'
        <3>1. cursor' \in 1..Len(header'.lines) + 1
            <4>1. cursor' = cursor + 1
                BY <1>8
            <4> QED
                BY <1>1, <1>2, <4>1
        <3>2. DOMAIN headers' \subseteq Keys /\ headers' \in [DOMAIN headers' -> Value]
            BY <1>5, <1>8
        <3>3. header' \in Header /\ pc' = "header_lines" /\ verdict' \in ParseError
            BY <1>1, <1>8 DEF Types
        <3> QED
            BY <2>3, <3>1, <3>2, <3>3 DEF Types
    <2>5. \A i \in 1..cursor : i \in 1..n \/ i = cursor
        BY <1>2
    <2>6. \A i \in 1..n : i \in 1..cursor
        BY <1>2
    <2>7. cursor \in 1..cursor
        BY <1>2
    <2>8. \A k : /\ Has(line, k) => LastWith(header, cursor, k, cursor)
                 /\ ~Has(line, k) =>
                       \A i \in 1..n : LastWith(header, n, k, i) => LastWith(header, cursor, k, i)
                 /\ Given(header, cursor, k) <=> Given(header, n, k) \/ Has(line, k)
        BY <1>1, LastMoves
    <2>9. /\ \A i \in 1..cursor : HeaderLineOk(header.lines[i])
          /\ \A k \in DOMAIN headers' : \E i \in 1..cursor :
                LastWith(header, cursor, k, i) /\ headers'[k] = header.lines[i].value
          /\ \A i \in 1..cursor : KeyOf[header.lines[i].name] \in DOMAIN headers'
        <3>1. \A i \in 1..cursor : HeaderLineOk(header.lines[i])
            BY <1>1, <2>2, <2>5 DEF Read, HeadersRead
        <3>2. ASSUME NEW k \in DOMAIN headers'
              PROVE  \E i \in 1..cursor :
                        LastWith(header, cursor, k, i) /\ headers'[k] = header.lines[i].value
            <4>1. CASE k = key
                BY <1>5, <1>8, <2>7, <2>8, <4>1 DEF Has
            <4>2. CASE k # key
                <5>1. PICK i \in 1..n :
                         LastWith(header, n, k, i) /\ headers[k] = header.lines[i].value
                    BY <1>1, <1>5, <1>8, <3>2, <4>2 DEF Read, HeadersRead
                <5>2. LastWith(header, cursor, k, i)
                    BY <2>8, <4>2, <5>1 DEF Has
                <5>3. headers'[k] = headers[k]
                    BY <1>5, <1>8, <3>2, <4>2
                <5> QED
                    BY <2>6, <5>1, <5>2, <5>3
            <4> QED
                BY <4>1, <4>2
        <3>3. \A i \in 1..cursor : KeyOf[header.lines[i].name] \in DOMAIN headers'
            <4>1. \A i \in 1..n : KeyOf[header.lines[i].name] \in DOMAIN headers
                BY <1>1 DEF Read, HeadersRead
            <4> QED
                BY <1>5, <1>8, <2>5, <4>1
        <3> QED
            BY <3>1, <3>2, <3>3
    <2>10. request'.chunked <=> \E i \in 1..cursor : SaysChunked(header.lines[i])
        <3>1. request.chunked <=> \E i \in 1..n : SaysChunked(header.lines[i])
            BY <1>1 DEF Read, RequestRead
        <3>2. chunked <=> SaysChunked(line)
            BY DEF SaysChunked, Has
        <3> QED
            BY <2>3, <2>5, <2>6, <2>7, <3>1, <3>2
    <2>11. IF ~Given(header, cursor, "content-length") THEN request'.content_length = NoLength
           ELSE \E i \in 1..cursor :
                   /\ LastWith(header, cursor, "content-length", i)
                   /\ LengthOf(header.lines[i], request'.content_length)
        <3>1. CASE key = "content-length"
            <4>1. Has(line, "content-length")
                BY <3>1 DEF Has
            <4> QED
                BY <2>1, <2>3, <2>7, <2>8, <3>1, <4>1
        <3>2. CASE key # "content-length"
            <4>1. ~Has(line, "content-length")
                BY <3>2 DEF Has
            <4>2. LengthRead(n) /\ request'.content_length = request.content_length
                BY <1>1, <2>3, <3>2 DEF Read, RequestRead
            <4>3. CASE ~Given(header, n, "content-length")
                BY <2>8, <4>1, <4>2, <4>3 DEF LengthRead
            <4>4. CASE Given(header, n, "content-length")
                <5>1. PICK i \in 1..n :
                         /\ LastWith(header, n, "content-length", i)
                         /\ LengthOf(header.lines[i], request.content_length)
                    BY <4>2, <4>4 DEF LengthRead
                <5>2. LastWith(header, cursor, "content-length", i)
                    BY <2>8, <4>1, <5>1
                <5> QED
                    BY <2>6, <2>8, <4>2, <4>4, <5>1, <5>2
            <4> QED
                BY <4>3, <4>4
        <3> QED
            BY <3>1, <3>2
    <2>12. cursor' - 1 = cursor
        <3>1. cursor' = cursor + 1
            BY <1>8
        <3> QED
            BY <1>2, <3>1
    <2>13. Read(cursor - 1)'
        <3>1. HeadersRead(cursor - 1)'
            BY <1>1, <2>9, <2>12 DEF HeadersRead
        <3>2. LengthRead(cursor - 1)'
            BY <1>1, <2>11, <2>12 DEF LengthRead
        <3>3. RequestRead(cursor - 1)'
            BY <1>1, <2>3, <2>10, <2>12, <3>2 DEF Read, RequestRead
        <3> QED
            BY <3>1, <3>3 DEF Read
    <2> QED
        BY <1>1, <1>8, <2>4, <2>13 DEF Inv, Accepted
<1> QED
    BY <1>6, <1>7, <1>8 DEF ParseHeaderLine

LEMMA EndOfHeaderInv ==
    ASSUME Inv, EndOfHeader
    PROVE  Inv'
PROOF
<1> DEFINE n == Len(header.lines)
<1>1. /\ Types /\ Read(cursor - 1) /\ cursor > n
      /\ pc' = "returned" /\ verdict' = CheckRequest
      /\ UNCHANGED <<header, cursor, request, headers>>
    BY DEF Inv, EndOfHeader, Return
<1>2. n \in Nat /\ cursor - 1 = n
    BY <1>1, LengthsAre DEF Types
<1>3. Read(n)
    BY <1>1, <1>2
<1>4. Types'
    BY <1>1 DEF Types, CheckRequest, ParseError
<1>5. Verdict(header) = CheckRequest
    <2>1. RequestLineOk(header.request_line) /\ \A i \in 1..n : HeaderLineOk(header.lines[i])
        BY <1>3 DEF Read, RequestRead, HeadersRead
    <2>2. /\ request.chunked <=> \E i \in 1..n : SaysChunked(header.lines[i])
          /\ request.method = header.request_line[1]
        BY <1>3 DEF Read, RequestRead
    <2>3. request.content_length = NoLength <=> ~Given(header, n, "content-length")
        <3>1. CASE ~Given(header, n, "content-length")
            BY <1>3, <3>1 DEF Read, RequestRead, LengthRead
        <3>2. CASE Given(header, n, "content-length")
            <4>1. PICK i \in 1..n : LengthOf(header.lines[i], request.content_length)
                BY <1>3, <3>2 DEF Read, RequestRead, LengthRead
            <4>2. header.lines[i].value.digits \in Nat /\ header.lines[i].value.digits < Word
                  /\ Word \in Nat
                BY <1>1, <4>1, LinesAre, WordAssumption DEF LengthOf, IsNumber, Value
            <4>3. request.content_length # NoLength
                BY <4>1, <4>2 DEF LengthOf, Denotes, NoLength
            <4> QED
                BY <3>2, <4>3
        <3> QED
            BY <3>1, <3>2
    <2> QED
        BY <2>1, <2>2, <2>3 DEF Verdict, CheckRequest
<1>6. Read(n)' /\ Verdict(header)' = Verdict(header)
    BY <1>1, <1>3 DEF Read, HeadersRead, RequestRead, LengthRead
<1> QED
    BY <1>1, <1>4, <1>5, <1>6 DEF Inv

LEMMA NextInv == Inv /\ [Next]_vars => Inv'
PROOF
<1> SUFFICES ASSUME Inv, [Next]_vars PROVE Inv'
    OBVIOUS
<1>1. CASE UNCHANGED vars
    BY <1>1 DEF Inv, vars, Types, Read, HeadersRead, RequestRead, LengthRead, Accepted
<1> QED
    BY <1>1, RequestLineInv, HeaderLineInv, EndOfHeaderInv DEF Next

LEMMA Invariance == Spec => []Inv
PROOF
BY InitInv, NextInv, PTL DEF Spec

-----------------------------------------------------------------------------
(* The theorems.                                                            *)

THEOREM TypeCorrect == Spec => []TypeOK
PROOF
<1>1. Inv => TypeOK
    <2> SUFFICES ASSUME Inv PROVE TypeOK
        OBVIOUS
    <2>1. Types
        BY DEF Inv
    <2>2. cursor \in Nat \ {0}
        BY <2>1, LengthsAre DEF Types
    <2>3. \E keys \in SUBSET Keys : headers \in [keys -> Value]
        BY <2>1 DEF Types
    <2> QED
        BY <2>1, <2>2, <2>3 DEF TypeOK, Types, Keys
<1> QED
    BY <1>1, Invariance, PTL

(* The order in which ParseRequestHeader checks, and where it stops, make   *)
(* no difference to its verdict.                                            *)
THEOREM VerdictsAreDeclared == Spec => []VerdictIsDeclared
PROOF
<1>1. Inv => VerdictIsDeclared
    BY DEF Inv, VerdictIsDeclared
<1> QED
    BY <1>1, Invariance, PTL

(* An accepted header leaves the last of its repeated headers in headers_.  *)
THEOREM LastHeadersCount == Spec => []LastHeaderCounts
PROOF
<1>1. Inv => LastHeaderCounts
    BY DEF Inv, LastHeaderCounts, Read, HeadersRead
<1> QED
    BY <1>1, Invariance, PTL

(* The body length of an accepted header is the number its last             *)
(* Content-Length line has, or that number's complement, for any width.     *)
THEOREM LengthsAreAsWritten == Spec => []LengthIsAsWritten
PROOF
<1>1. Inv => LengthIsAsWritten
    <2> SUFFICES ASSUME Inv, Accepted PROVE LengthIsAsWritten
        BY DEF LengthIsAsWritten
    <2> DEFINE n == Len(header.lines)
    <2>1. Types /\ LengthRead(n)
        BY DEF Inv, Read, RequestRead
    <2>2. CASE ~Given(header, n, "content-length")
        BY <2>1, <2>2 DEF LengthRead, LengthIsAsWritten
    <2>3. CASE Given(header, n, "content-length")
        <3>1. PICK i \in 1..n : /\ LastWith(header, n, "content-length", i)
                                /\ LengthOf(header.lines[i], request.content_length)
            BY <2>1, <2>3 DEF LengthRead
        <3>2. header.lines[i].value.digits \in Nat /\ header.lines[i].value.digits < Word
              /\ Word \in Nat
            BY <2>1, <3>1, LinesAre, WordAssumption DEF LengthOf, IsNumber, Value
        <3>3. request.content_length \in 0..Word - 1
            <4> DEFINE d == header.lines[i].value.digits
            <4>1. Denotes(header.lines[i].value) = d \/ Denotes(header.lines[i].value) = -d
                BY DEF Denotes
            <4> DEFINE w == Denotes(header.lines[i].value)
            <4>2. request.content_length = IF w < 0 THEN Word + w ELSE w
                BY <3>1 DEF LengthOf
            <4> HIDE DEF d, w
            <4>3. d \in Nat /\ d < Word /\ Word \in Nat
                BY <3>2 DEF d
            <4>4. w = d \/ w = -d
                BY <4>1 DEF d, w
            <4> QED
                BY <4>2, <4>3, <4>4
        <3> QED
            BY <2>3, <3>1, <3>3 DEF LengthOf, LengthIsAsWritten
    <2> QED
        BY <2>2, <2>3
<1> QED
    BY <1>1, Invariance, PTL
=============================================================================
