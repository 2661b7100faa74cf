----------------------------- MODULE HttpParser -----------------------------
(***************************************************************************)
(* http::HttpParser::ParseRequestHeader, line by line: it stops at the     *)
(* first line it refuses, and keeps of the others what an HttpRequest has  *)
(* room for.  Headers come complete from DynamicBuffer::PopNextHeader, so  *)
(* every line has its end and the only empty one is the last, which is     *)
(* left out here.                                                          *)
(***************************************************************************)
EXTENDS HttpGrammar

CONSTANTS
    RequestLines, HeaderLines,  \* the lines that clients send
    MaxLines                    \* bound: header lines after the request line

ASSUME LinesAssumption ==
    RequestLines \subseteq Seq(STRING) /\ HeaderLines \subseteq HeaderLine /\ MaxLines \in Nat

ParseError == {"kNone", "kBadRequest", "kLengthRequired", "kNotImplementedChunked"}

NoLength == -1      \* content_length_ has no value

HttpRequest == [method : Method \cup {"kUnknown"}, version : Version \cup {""},
                content_length : (0..Word - 1) \cup {NoLength}, chunked : BOOLEAN]

VARIABLES
    header,     \* the header being parsed
    cursor,     \* the next of its lines
    request,    \* the HttpRequest, but for headers_
    headers,    \* headers_
    pc, verdict

vars == <<header, cursor, request, headers, pc, verdict>>

TypeOK ==
    /\ header \in Header
    /\ cursor \in Nat \ {0}
    /\ request \in HttpRequest
    /\ \E keys \in SUBSET {KeyOf[name] : name \in Name} : headers \in [keys -> Value]
    /\ pc \in {"request_line", "header_lines", "returned"}
    /\ verdict \in ParseError

(* HttpRequest::Clear *)
Cleared == [method |-> "kUnknown", version |-> "", content_length |-> NoLength,
            chunked |-> FALSE]

Init ==
    /\ \E line \in RequestLines, n \in 0..MaxLines : \E lines \in [1..n -> HeaderLines] :
          header = [request_line |-> line, lines |-> lines]
    /\ cursor = 1
    /\ request = Cleared
    /\ headers = << >>
    /\ pc = "request_line"
    /\ verdict = "kNone"

-----------------------------------------------------------------------------
(* A definition named Faulty... is the one after it with a plausible bug.   *)

Return(error) == pc' = "returned" /\ verdict' = error

Goes(line) == /\ line[1] \in {"GET", "POST"}
              /\ line[2] # ""
              /\ Len(line) = 3 /\ line[3] \in {"HTTP/1.1", "HTTP/1.0"}

(* Two spaces part the method, the URI and the version; a third one is part *)
(* of the version, which then is none that is supported.                    *)
ParseRequestLine ==
    /\ pc = "request_line"
    /\ LET line == header.request_line IN
       \/ /\ Len(line) >= 3 /\ Goes(line)
          /\ request' = [request EXCEPT !.method = line[1], !.version = line[3]]
          /\ pc' = "header_lines" /\ UNCHANGED verdict
       \/ /\ Len(line) < 3 \/ ~Goes(line)
          /\ Return("kBadRequest") /\ UNCHANGED request
    /\ UNCHANGED <<header, cursor, headers>>

FaultyAddHeader(key, value) ==
    headers' = [k \in DOMAIN headers \cup {key} |->
                   IF k \in DOMAIN headers THEN headers[k] ELSE value]

AddHeader(key, value) ==
    headers' = [k \in DOMAIN headers \cup {key} |->
                   IF k = key THEN value ELSE headers[k]]

(* std::stoull throws on text that does not start with a number, and on one *)
(* beyond the range; it takes a sign, and negates in the unsigned type.     *)
StoullThrows(v) == v.digits = NoDigits \/ v.digits >= Word

UnreducedStoull(v) == IF v.sign = "-" THEN Word - v.digits ELSE v.digits
Stoull(v) == IF v.sign = "-" THEN (Word - v.digits) % Word ELSE v.digits

FaultyParseContentLengthValue(v) == ~StoullThrows(v)

(* The whole of the value must have been read.                              *)
ParseContentLengthValue(v) == ~StoullThrows(v) /\ ~v.junk

ParseHeaderLine ==
    /\ pc = "header_lines" /\ cursor <= Len(header.lines)
    /\ LET line == header.lines[cursor]
           key == KeyOf[line.name]
           chunked == key = "transfer-encoding" /\ "chunked" \in line.value.words
       IN  \/ /\ ~line.colon \/ key = ""
              /\ Return("kBadRequest") /\ UNCHANGED <<cursor, request, headers>>
           \/ /\ line.colon /\ key # ""
              /\ AddHeader(key, line.value)
              /\ \/ /\ key = "content-length" /\ ~ParseContentLengthValue(line.value)
                    /\ Return("kBadRequest") /\ UNCHANGED <<cursor, request>>
                 \/ /\ key = "content-length" => ParseContentLengthValue(line.value)
                    /\ request' = [request EXCEPT
                          !.chunked = @ \/ chunked,
                          !.content_length = IF key = "content-length"
                                             THEN Stoull(line.value) ELSE @]
                    /\ cursor' = cursor + 1 /\ UNCHANGED <<pc, verdict>>
    /\ UNCHANGED header

FaultyCheckRequest ==
    IF request.method = "POST" /\ request.content_length = NoLength THEN "kLengthRequired"
    ELSE IF request.chunked THEN "kNotImplementedChunked" ELSE "kNone"

CheckRequest ==
    IF request.chunked THEN "kNotImplementedChunked"
    ELSE IF request.method = "POST" /\ request.content_length = NoLength THEN "kLengthRequired"
    ELSE "kNone"

EndOfHeader ==
    /\ pc = "header_lines" /\ cursor > Len(header.lines)
    /\ Return(CheckRequest)
    /\ UNCHANGED <<header, cursor, request, headers>>

Next == ParseRequestLine \/ ParseHeaderLine \/ EndOfHeader

Spec == Init /\ [][Next]_vars

-----------------------------------------------------------------------------
(* The verdict is that of the header as a whole: what the parser checks     *)
(* first, and where it stops, makes no difference.                          *)
VerdictIsDeclared == pc = "returned" => verdict = Verdict(header)

Accepted == pc = "returned" /\ verdict = "kNone"

(* Of repeated headers the last one counts, among them Connection, which    *)
(* decides on keep-alive; an accepted header names nothing else.            *)
LastHeaderCounts ==
    Accepted =>
        LET n == Len(header.lines) IN
        /\ \A key \in DOMAIN headers : \E i \in 1..n :
              LastWith(header, n, key, i) /\ headers[key] = header.lines[i].value
        /\ \A i \in 1..n : KeyOf[header.lines[i].name] \in DOMAIN headers

(* The length of the body is the one the last Content-Length line has       *)
(* written, never one that lost digits or junk; but one with a minus sign   *)
(* is taken as its complement to Word.                                      *)
LengthIsAsWritten ==
    Accepted =>
        LET n == Len(header.lines) IN
        IF ~Given(header, n, "content-length") THEN request.content_length = NoLength
        ELSE \E i \in 1..n :
                /\ LastWith(header, n, "content-length", i)
                /\ IsNumber(header.lines[i].value)
                /\ request.content_length \in 0..Word - 1
                /\ LET written == Denotes(header.lines[i].value) IN
                   request.content_length =
                       IF written < 0 THEN Word + written ELSE written
=============================================================================
