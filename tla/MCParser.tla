------------------------------ MODULE MCParser ------------------------------
(* An instance of HttpParser for TLC: words of three bits, two spellings   *)
(* of the header whose repetitions matter most, and lines that between     *)
(* them take every branch of the parser.                                   *)
EXTENDS HttpParser

MCKeyOf ==
    [n \in {"Content-Length", "content-length ", "Transfer-Encoding", "Connection", "Host",
            "", " "} |->
        CASE n \in {"Content-Length", "content-length "} -> "content-length"
          [] n = "Transfer-Encoding" -> "transfer-encoding"
          [] n = "Connection"        -> "connection"
          [] n = "Host"              -> "host"
          [] n \in {"", " "}         -> ""]

MCName == DOMAIN MCKeyOf

MCRequestLines ==
    {<<"GET", "/", "HTTP/1.1">>, <<"POST", "/", "HTTP/1.0">>,
     <<"PUT", "/", "HTTP/1.1">>, <<"GET", "", "HTTP/1.1">>, <<"GET", "/", "HTTP/2">>,
     <<"GET", "/", "HTTP/1.1", "">>, <<"GET", "/">>, <<"">>}

Line(name, value) == [colon |-> TRUE, name |-> name, value |-> value]
Words(words) == [sign |-> "", digits |-> NoDigits, junk |-> words # {}, words |-> words]
Number(sign, digits, junk) ==
    [sign |-> sign, digits |-> digits, junk |-> junk, words |-> {}]

MCHeaderLines ==
    {Line("Content-Length", Number("", 2, FALSE)), Line("content-length ", Number("+", 7, FALSE)),
     Line("Content-Length", Number("-", 7, FALSE)), Line("Content-Length", Number("-", 0, FALSE)),
     Line("Content-Length", Number("", 8, FALSE)), Line("Content-Length", Number("", 2, TRUE)),
     Line("Content-Length", Words({})),
     Line("Transfer-Encoding", Words({"chunked"})), Line("Transfer-Encoding", Words({})),
     Line("Connection", Words({"close"})), Line("Connection", Words({"close", "keep-alive"})),
     Line("Host", Words({"chunked"})),
     Line("", Words({})), Line(" ", Words({})),
     [colon |-> FALSE, name |-> "Host", value |-> Words({})]}
=============================================================================
