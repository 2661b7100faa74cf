---------------------------- MODULE HttpService ----------------------------
(***************************************************************************)
(* What core::Server (src/src/core/server.cpp) does for its clients,       *)
(* without the event loop: no ReadyQueue, epoll, buffers of output, timers *)
(* to arm, budgets per event, handlers or counters.  A connection is a     *)
(* pipeline.  Tokens come in; when no request is being served, the first   *)
(* complete header is taken from them, then its body; then one response is *)
(* answered, and its bytes are sent after those of all earlier responses.  *)
(* A connection ends for a reason, and each reason has its condition.      *)
(***************************************************************************)
EXTENDS Integers, Sequences, FiniteSets, Functions

CONSTANTS
    Fd, Requests, Token, NoRequest,
    Parse,                      \* the verdict on each request's header
    ResponseSize, kReadChunkSize, kMaxHeaderBytes, kMaxBodyBytes,
    kMaxInflightBytes, kMaxConnections

VARIABLES
    served,     \* the open descriptors' connections
    ended,      \* the connections that have ended, until they are released
    accepted,   \* how many were accepted so far
    running     \* whether the process runs

vars == <<served, ended, accepted, running>>

NewConnection(id) ==
    [id |-> id,
     unread   |-> << >>,        \* the tokens received and not used
     request  |-> NoRequest,    \* the request being served,
     owed     |-> 0,            \* and what is still to come of its body
     answered |-> 0,            \* responses
     sent     |-> 0,            \* bytes of them
     last     |-> FALSE]        \* whether one said "Connection: close"

Init == served = << >> /\ ended = {} /\ accepted = 0 /\ running = TRUE

-----------------------------------------------------------------------------
(* Where the first complete header ends, if there is one. *)
FirstHeader(unread) ==
    {i \in 1..Len(unread) : unread[i] \in Requests /\ \A j \in 1..i - 1 : unread[j] \notin Requests}

Unsent(c) == ResponseSize * c.answered - c.sent

(* The memory all connections take together. *)
Used == SumFunction([fd \in DOMAIN served |-> Len(served[fd].unread) + Unsent(served[fd])])
HasRoom(n) == Used + n <= kMaxInflightBytes

WithinCap == Cardinality(DOMAIN served) <= kMaxConnections

IsAcceptable(r) == Parse[r].parse_error = "kNone" /\ Parse[r].content_length <= kMaxBodyBytes
IsTooLong(unread) ==
    Len(unread) > kMaxHeaderBytes /\ \A i \in FirstHeader(unread) : i > kMaxHeaderBytes
AsksToClose(r) ==
    IF Parse[r].version = "HTTP/1.1" THEN "close" \in Parse[r].connection
                                     ELSE "keep-alive" \notin Parse[r].connection

IsReceived(c) == c.request # NoRequest /\ c.owed = 0

-----------------------------------------------------------------------------
(* The steps of a connection.                                               *)

Accept(fd) ==
    /\ fd \notin DOMAIN served
    /\ accepted' = accepted + 1
    /\ served' = [f \in DOMAIN served \cup {fd} |->
                     IF f = fd THEN NewConnection(accepted + 1) ELSE served[f]]
    /\ UNCHANGED <<ended, running>>

Becomes(fd, c) == served' = [served EXCEPT ![fd] = c] /\ UNCHANGED <<ended, accepted, running>>

(* The second conjunct follows from the third; it spares TLC the choice.    *)
Receive(fd) ==
    \E n \in 1..kReadChunkSize :
        /\ HasRoom(n)
        /\ fd \in DOMAIN served' /\ Len(served'[fd].unread) = Len(served[fd].unread) + n
        /\ \E data \in [1..n -> Token] : Becomes(fd, [served[fd] EXCEPT !.unread = @ \o data])

TakeHeader(fd) ==
    \E i \in FirstHeader(served[fd].unread) :
        LET request == served[fd].unread[i] IN
        /\ served[fd].request = NoRequest
        /\ IsAcceptable(request)
        /\ Becomes(fd, [served[fd] EXCEPT !.unread = SubSeq(@, i + 1, Len(@)),
                                          !.request = request,
                                          !.owed = Parse[request].content_length])

TakeBody(fd) ==
    \E n \in 1..served[fd].owed :
        /\ n <= Len(served[fd].unread)
        /\ Becomes(fd, [served[fd] EXCEPT !.unread = SubSeq(@, n + 1, Len(@)), !.owed = @ - n])

(* A request is answered once it is there as a whole; the first n bytes may *)
(* be sent at once if nothing is sent before them.                          *)
Answer(fd) ==
    \E n \in 0..ResponseSize :
        /\ IsReceived(served[fd])
        /\ n > 0 => Unsent(served[fd]) = 0
        /\ HasRoom(ResponseSize - n)
        /\ Becomes(fd, [served[fd] EXCEPT !.request = NoRequest,
                                          !.answered = @ + 1,
                                          !.sent = @ + n,
                                          !.last = @ \/ AsksToClose(served[fd].request)])

Send(fd) ==
    \E n \in 1..Unsent(served[fd]) : Becomes(fd, [served[fd] EXCEPT !.sent = @ + n])

-----------------------------------------------------------------------------
(* How it ends.                                                             *)

End(fd, reason) ==
    /\ served' = Restrict(served, DOMAIN served \ {fd})
    /\ ended' = ended \cup {[id |-> served[fd].id, reason |-> reason]}
    /\ UNCHANGED <<accepted, running>>

(* The peer hangs up, or cannot be read from or written to. *)
PeerLeaves(fd) == End(fd, "peer")

(* The last response is sent, and no other request waits. *)
Finish(fd) ==
    /\ served[fd].last /\ Unsent(served[fd]) = 0 /\ FirstHeader(served[fd].unread) = {}
    /\ End(fd, "done")

(* A timer ends only a connection that is not being sent anything, or whose *)
(* request's body is late.                                                  *)
TimeOut(fd) ==
    \/ Unsent(served[fd]) = 0 /\ End(fd, "header")
    \/ Unsent(served[fd]) = 0 /\ served[fd].answered > 0 /\ End(fd, "idle")
    \/ served[fd].request # NoRequest /\ served[fd].owed > 0 /\ End(fd, "body")

(* It is refused for what it asks, or for lack of room. *)
Refuse(fd) ==
    /\ \/ /\ served[fd].request = NoRequest
          /\ \/ IsTooLong(served[fd].unread)
             \/ \E i \in FirstHeader(served[fd].unread) : ~IsAcceptable(served[fd].unread[i])
       \/ ~HasRoom(kReadChunkSize)
       \/ IsReceived(served[fd]) /\ ~HasRoom(ResponseSize)
    /\ End(fd, "error response")

(* One connection too many: it is the newest that has to go. *)
TurnAway(fd) == served[fd].id = accepted /\ End(fd, "limit")

Release == ended' = {} /\ UNCHANGED <<served, accepted, running>>

(* The process ends, and with it every connection. *)
Exit == served' = << >> /\ running' = FALSE /\ UNCHANGED <<ended, accepted>>

-----------------------------------------------------------------------------
Serve(fd) ==
    \/ Receive(fd) \/ TakeHeader(fd) \/ TakeBody(fd) \/ Answer(fd) \/ Send(fd)
    \/ PeerLeaves(fd) \/ Finish(fd) \/ TimeOut(fd) \/ Refuse(fd)

Next ==
    /\ running
    /\ \/ WithinCap /\ (Release \/ Exit \/ \E fd \in Fd : Accept(fd))
       \/ WithinCap /\ \E fd \in DOMAIN served : Serve(fd)
       \/ ~WithinCap /\ \E fd \in DOMAIN served : TurnAway(fd)

Spec == Init /\ [][Next]_vars
=============================================================================
