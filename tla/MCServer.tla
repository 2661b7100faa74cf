------------------------------ MODULE MCServer ------------------------------
(* Instances of Server for TLC.  What the event loop gets for a header is  *)
(* what HttpGrammar reads in it, as module HttpParser shows the parser to. *)
EXTENDS Server, TLC

Grammar == INSTANCE HttpGrammar
             WITH Name  <- {"Connection", "Content-Length", "Transfer-Encoding"},
                  KeyOf <- [n \in {"Connection", "Content-Length", "Transfer-Encoding"} |->
                              CASE n = "Connection"        -> "connection"
                                [] n = "Content-Length"    -> "content-length"
                                [] n = "Transfer-Encoding" -> "transfer-encoding"],
                  Word  <- 8

Header(method, version, lines) == [request_line |-> <<method, "/", version>>, lines |-> lines]

Line(name, digits, words) ==
    [colon |-> TRUE, name |-> name,
     value |-> [sign |-> "", digits |-> digits, junk |-> words # {}, words |-> words]]

Connection(word)      == Line("Connection", Grammar!NoDigits, {word})
ContentLength(length) == Line("Content-Length", length, {})

(* A request of each kind the loop tells apart: kept alive and last, with  *)
(* a body and without, those the parser refuses and one whose body is over *)
(* kMaxBodyBytes = 2.                                                      *)
Headers ==
    [get   |-> Header("GET", "HTTP/1.1", << >>),
     close |-> Header("GET", "HTTP/1.1", <<Connection("keep-alive"), Connection("close")>>),
     post  |-> Header("POST", "HTTP/1.0", <<ContentLength(2), Connection("keep-alive")>>),
     last  |-> Header("POST", "HTTP/1.0", <<ContentLength(1)>>),
     bad   |-> Header("PUT", "HTTP/1.1", << >>),
     big   |-> Header("POST", "HTTP/1.1", <<ContentLength(3)>>)]

Parsed(requests) == [r \in requests |-> Grammar!Reading(Headers[r])]

AllRequests    == DOMAIN Headers
AllParse       == Parsed(AllRequests)
SimpleRequests == {"get"}
SimpleParse    == Parsed(SimpleRequests)
LastRequests   == {"close"}
LastParse      == Parsed(LastRequests)

Symmetry == Permutations(Fd)
=============================================================================
