---------------------------- MODULE HttpGrammar ----------------------------
(***************************************************************************)
(* What a request header means to the server: which headers it refuses,    *)
(* and what it keeps of the others, stated of the header as a whole with   *)
(* no order of reading.  Module HttpParser shows that the parser of        *)
(* http::HttpParser comes to the same; MCServer takes from here what the   *)
(* event loop is given.                                                    *)
(*                                                                         *)
(* A header is cut into lines, its request line into the pieces between    *)
(* its spaces.  A value is kept as what the code asks of it: how it reads  *)
(* as a number (sign, digits, whether anything else is in it), and which   *)
(* of the words the code searches for it contains, in any case.            *)
(***************************************************************************)
EXTENDS Integers, Sequences

CONSTANTS
    Name,       \* header names, as sent
    KeyOf,      \* a name without outer white space, in lower case
    Word        \* 2^64: a std::size_t holds 0 .. Word - 1

ASSUME NameAssumption == KeyOf \in [Name -> STRING]
ASSUME WordAssumption == Word \in Nat \ {0}

NoDigits == -1

Value == [sign : {"", "+", "-"}, digits : Nat \cup {NoDigits}, junk : BOOLEAN,
          words : SUBSET {"chunked", "close", "keep-alive"}]

(* `name' is what is left of the first colon, if there is one. *)
HeaderLine == [colon : BOOLEAN, name : Name, value : Value]

Header == [request_line : Seq(STRING), lines : Seq(HeaderLine)]

Method  == {"GET", "POST"}
Version == {"HTTP/1.0", "HTTP/1.1"}

RequestLineOk(line) ==
    Len(line) = 3 /\ line[1] \in Method /\ line[2] # "" /\ line[3] \in Version

IsNumber(v) == v.digits # NoDigits /\ v.digits < Word /\ ~v.junk

Denotes(v) == IF v.sign = "-" THEN -v.digits ELSE v.digits

HeaderLineOk(line) ==
    /\ line.colon /\ KeyOf[line.name] # ""
    /\ KeyOf[line.name] = "content-length" => IsNumber(line.value)

Has(line, key) == KeyOf[line.name] = key

SaysChunked(line) == Has(line, "transfer-encoding") /\ "chunked" \in line.value.words

(* Among the first n lines, line i is the last one that has the key.        *)
LastWith(header, n, key, i) ==
    /\ i \in 1..n /\ Has(header.lines[i], key)
    /\ \A j \in (i + 1)..n : ~Has(header.lines[j], key)

Given(header, n, key) == \E i \in 1..n : Has(header.lines[i], key)

(* The verdict: one bad line is enough, wherever it stands; then one that   *)
(* says chunked; then a POST of unknown length.                             *)
Verdict(header) ==
    LET lines == header.lines
        n == Len(lines)
    IN  IF ~RequestLineOk(header.request_line) \/ \E i \in 1..n : ~HeaderLineOk(lines[i])
        THEN "kBadRequest"
        ELSE IF \E i \in 1..n : SaysChunked(lines[i]) THEN "kNotImplementedChunked"
        ELSE IF header.request_line[1] = "POST" /\ ~Given(header, n, "content-length")
        THEN "kLengthRequired"
        ELSE "kNone"

(* What the event loop uses of a header, and gets with the verdict.         *)
Reading(header) ==
    LET n == Len(header.lines)
        Last(key) == header.lines[CHOOSE i \in 1..n : LastWith(header, n, key, i)].value
        ok == Verdict(header) = "kNone"
    IN  [parse_error    |-> Verdict(header),
         version        |-> IF ok THEN header.request_line[3] ELSE "HTTP/1.1",
         connection     |-> IF ok /\ Given(header, n, "connection")
                            THEN Last("connection").words \cap {"close", "keep-alive"} ELSE {},
         content_length |-> IF ok /\ Given(header, n, "content-length")
                            THEN Denotes(Last("content-length")) % Word ELSE 0]
=============================================================================
